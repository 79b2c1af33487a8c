------------------------------- MODULE Names -------------------------------
(***************************************************************************)
(* Namespace names and key locations.                                      *)
(*                                                                         *)
(* bbolt stores an entry under the string  namespace + "/" + key; neither a *)
(* segment nor a key contains "/", so that string is the same thing as the *)
(* pair <<namespace, key>>.                                                *)
(***************************************************************************)
EXTENDS Paths

CONSTANTS
    Names,      \* every namespace name a caller may send, valid or not
    Keys        \* the valid key names

ASSUME NamesAreSegmentPaths ==
    \A ns \in Names : ns \in Seq(STRING) /\ ns # << >>

\* At most three segments: the repetition {0,2} of namespaceRegex.
ValidateNamespace(ns) == Len(ns) <= 3

Namespaces == {ns \in Names : ValidateNamespace(ns)}

\* makeKVKey: where an entry lives in the kv_data bucket.
Loc == Namespaces \X Keys
============================================================================
