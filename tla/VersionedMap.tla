---------------------------- MODULE VersionedMap ----------------------------
(***************************************************************************)
(* What the key/value buckets promise to the rest of keyrafted: every key  *)
(* has a history that only grows, a version number is a position in that   *)
(* history, a delete hides the key without touching its history, and       *)
(* dropping a namespace forgets exactly the keys of that namespace.        *)
(***************************************************************************)
EXTENDS Names

CONSTANTS Values, MaxVersion

VARIABLES
    known,      \* the namespaces that exist
    history,    \* history[l][v] is the value version v of location l holds
    live        \* the locations a Get or a List can see

vars == <<known, history, live>>

Init ==
    /\ known = {}
    /\ history = [l \in Loc |-> << >>]
    /\ live = {}

Put(l, value) ==
    /\ Len(history[l]) < MaxVersion
    /\ known' = known \cup {l[1]}
    /\ history' = [history EXCEPT ![l] = Append(@, value)]
    /\ live' = live \cup {l}

Hide(l) ==
    /\ history[l] # << >>
    /\ live' = live \ {l}
    /\ UNCHANGED <<known, history>>

Register(ns) ==
    /\ known' = known \cup {ns}
    /\ UNCHANGED <<history, live>>

Drop(ns) ==
    /\ ns \in known
    /\ known' = known \ {ns}
    /\ history' = [l \in Loc |-> IF l[1] = ns THEN << >> ELSE history[l]]
    /\ live' = {l \in live : l[1] # ns}

Next ==
    \/ \E l \in Loc : Hide(l) \/ \E value \in Values : Put(l, value)
    \/ \E ns \in Namespaces : Register(ns) \/ Drop(ns)

Spec == Init /\ [][Next]_vars
============================================================================
