------------------------------- MODULE Paths -------------------------------
(***************************************************************************)
(* Namespace names.  A name is a path such as "project/environment/service"*)
(* and is modelled as the sequence of its segments.                        *)
(***************************************************************************)
EXTENDS Naturals, Sequences

\* The byte prefix  name + "/"  is a prefix of  ns + "/"  exactly when the
\* segments of name are the first segments of ns.
IsUnder(name, ns) ==
    /\ Len(name) <= Len(ns)
    /\ SubSeq(ns, 1, Len(name)) = name

Wildcard == <<"*">>

\* Mutant: no prefix match.
MatchesExactly(watched, ns) == watched = ns \/ watched = Wildcard

\* matchesNamespace: exact, "*", or a proper prefix followed by a "/".
Matches(watched, ns) ==
    \/ watched = ns
    \/ watched = Wildcard
    \/ Len(watched) < Len(ns) /\ IsUnder(watched, ns)
============================================================================
