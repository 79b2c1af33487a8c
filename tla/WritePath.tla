----------------------------- MODULE WritePath -----------------------------
(***************************************************************************)
(* The handlers that change keys, handleSetKey, handleDeleteKey and        *)
(* handleDeleteNamespace, over the engine, the store and the watch API.    *)
(*                                                                         *)
(* Each request runs in a goroutine.  It commits one store transaction (a  *)
(* namespace deletion takes three), then publishes what changed, writes an *)
(* audit record and answers; other requests, and a crash, may come between *)
(* any two of these.  Notify is one step here: WatchManager has its        *)
(* details.  The audit record is read by nothing that is modelled, so it   *)
(* is not kept, only the step in which it is written.                      *)
(***************************************************************************)
EXTENDS Names

CONSTANTS
    Values, MaxVersion, NoEntry, NoVersion,     \* see KVStore
    Requests,       \* request goroutines
    Setters,        \* those that may set keys
    Droppers        \* those that may delete namespaces; any may delete keys

ASSUME MaxVersionIsPositive == MaxVersion \in Nat \ {0}

ASSUME SentinelsAreNoData ==
    /\ NoVersion \notin Values
    /\ NoEntry \notin
         [value : Values, version : 1 .. MaxVersion, isDeleted : BOOLEAN]

ASSUME RolesAreRequests == Setters \cup Droppers \subseteq Requests

VARIABLES
    namespaces, kvData, kvVersions, meta,       \* the buckets
    pc,         \* where each request is
    dropping,   \* the namespace a request is deleting
    todo,       \* the locations a request has yet to publish an event about
    stale,      \* the locations that have visibly changed since the last event
                \* about them: what a watcher knows of them is out of date
    overtaken   \* the locations last set between the listing and the deletion
                \* of their namespace by another request

Store == INSTANCE KVStore

storeVars == <<namespaces, kvData, kvVersions, meta>>
vars == <<storeVars, pc, dropping, todo, stale, overtaken>>

None == << >>   \* no namespace

TypeOK ==
    /\ Store!TypeOK
    /\ pc \in [Requests -> {"idle", "list", "drop", "notify", "audit"}]
    /\ dropping \in [Requests -> Namespaces \cup {None}]
    /\ todo \in [Requests -> SUBSET Loc]
    /\ stale \subseteq Loc
    /\ overtaken \subseteq Loc

Init ==
    /\ Store!Init
    /\ pc = [r \in Requests |-> "idle"]
    /\ dropping = [r \in Requests |-> None]
    /\ todo = [r \in Requests |-> {}]
    /\ stale = {}
    /\ overtaken = {}

Goto(r, place) == pc' = [pc EXCEPT ![r] = place]

\* What a Get of l finds: no entry, a deleted one, or a version.
Visible(l) == IF Store!IsLive(l) THEN kvData[l].version ELSE 0

\* The transaction changes what readers see of these locations.
MarkStale == stale' = stale \cup {l \in Loc : Visible(l)' # Visible(l)}

\* Some request has listed namespace ns and is about to delete it.
IsBeingDropped(ns) == \E r \in Requests : pc[r] = "drop" /\ dropping[r] = ns

MarkOvertaken(l) ==
    overtaken' = IF IsBeingDropped(l[1]) THEN overtaken \cup {l} ELSE overtaken \ {l}

----------------------------------------------------------------------------
\* Mutant: a set is not announced.
SetKeySilently(r, ns, key, value) ==
    /\ pc[r] = "idle"
    /\ r \in Setters
    /\ Store!Set(ns, key, value)
    /\ MarkStale
    /\ MarkOvertaken(<<ns, key>>)
    /\ Goto(r, "audit")
    /\ UNCHANGED <<dropping, todo>>

\* engine.Set, as handleSetKey calls it.
SetKey(r, ns, key, value) ==
    /\ pc[r] = "idle"
    /\ r \in Setters
    /\ Store!Set(ns, key, value)
    /\ MarkStale
    /\ MarkOvertaken(<<ns, key>>)
    /\ todo' = [todo EXCEPT ![r] = {<<ns, key>>}]
    /\ Goto(r, "notify")
    /\ UNCHANGED dropping

\* Mutant: a key that is deleted is not announced.
DeleteKeySilently(r, ns, key) ==
    /\ pc[r] = "idle"
    /\ Store!Delete(ns, key)
    /\ MarkStale
    /\ Goto(r, "audit")
    /\ UNCHANGED <<dropping, todo, overtaken>>

\* engine.Delete, as handleDeleteKey calls it.
DeleteKey(r, ns, key) ==
    /\ pc[r] = "idle"
    /\ Store!Delete(ns, key)
    /\ MarkStale
    /\ todo' = [todo EXCEPT ![r] = {<<ns, key>>}]
    /\ Goto(r, "notify")
    /\ UNCHANGED <<dropping, overtaken>>

\* A request that is refused, or one of whose transactions fails: nothing is
\* changed, and the failure is audited.
Refuse(r) ==
    /\ pc[r] \in {"idle", "list", "drop"}
    /\ Goto(r, "audit")
    /\ dropping' = [dropping EXCEPT ![r] = None]
    /\ todo' = [todo EXCEPT ![r] = {}]
    /\ UNCHANGED <<storeVars, stale, overtaken>>

\* Mutant: the name is taken as it comes.
DropUnknown(r, ns) ==
    /\ pc[r] = "idle"
    /\ r \in Droppers
    /\ dropping' = [dropping EXCEPT ![r] = ns]
    /\ Goto(r, "list")
    /\ UNCHANGED <<storeVars, todo, stale, overtaken>>

\* engine.DeleteNamespace, first transaction: GetNamespace.  (A name it does not
\* find ends the request with a 404.)
DropLookup(r, ns) ==
    /\ pc[r] = "idle"
    /\ r \in Droppers
    /\ ValidateNamespace(ns)
    /\ ns \in namespaces
    /\ dropping' = [dropping EXCEPT ![r] = ns]
    /\ Goto(r, "list")
    /\ UNCHANGED <<storeVars, todo, stale, overtaken>>

\* Mutant: the comparison with the namespace is inverted.
NestedListed(ns) == {l \in Store!List(ns) : l[1] # ns}

\* The keys it will report: List, without the keys of nested namespaces.
OwnListed(ns) == {l \in Store!List(ns) : l[1] = ns}

\* Second transaction: List.
DropList(r) ==
    /\ pc[r] = "list"
    /\ todo' = [todo EXCEPT ![r] = OwnListed(dropping[r])]
    /\ Goto(r, "drop")
    /\ UNCHANGED <<storeVars, dropping, stale, overtaken>>

\* Third transaction: DeleteNamespace, which may find the namespace gone.
DropCommit(r) ==
    /\ pc[r] = "drop"
    /\ \/ /\ Store!DeleteNamespace(dropping[r])
          /\ MarkStale
          /\ Goto(r, "notify")
          /\ UNCHANGED todo
       \/ /\ dropping[r] \notin namespaces
          /\ Goto(r, "idle")
          /\ todo' = [todo EXCEPT ![r] = {}]
          /\ UNCHANGED <<storeVars, stale>>
    /\ dropping' = [dropping EXCEPT ![r] = None]
    /\ UNCHANGED overtaken

\* NotifySet or NotifyDelete about one location.
Notify(r, l) ==
    /\ pc[r] = "notify"
    /\ l \in todo[r]
    /\ todo' = [todo EXCEPT ![r] = @ \ {l}]
    /\ stale' = stale \ {l}
    /\ UNCHANGED <<storeVars, pc, dropping, overtaken>>

\* LogOperation, whose error is ignored, and the answer.
Audit(r) ==
    /\ \/ pc[r] = "notify" /\ todo[r] = {}
       \/ pc[r] = "audit"
    /\ Goto(r, "idle")
    /\ UNCHANGED <<storeVars, dropping, todo, stale, overtaken>>

\* The server dies and starts again: requests are gone, the store is not.  So
\* are the watch connections, and a watcher that connects anew reads anew.
Restart ==
    /\ pc' = [r \in Requests |-> "idle"]
    /\ dropping' = [r \in Requests |-> None]
    /\ todo' = [r \in Requests |-> {}]
    /\ stale' = {}
    /\ overtaken' = {}
    /\ UNCHANGED storeVars

Next ==
    \/ Restart
    \/ \E r \in Requests :
         \/ Refuse(r) \/ DropList(r) \/ DropCommit(r) \/ Audit(r)
         \/ \E l \in Loc : Notify(r, l)
         \/ \E ns \in Names : DropLookup(r, ns)
         \/ \E ns \in Names, key \in Keys :
              DeleteKey(r, ns, key) \/ \E v \in Values : SetKey(r, ns, key, v)

Spec == Init /\ [][Next]_vars

\* Every request that has started is served to its end.
FairSpec ==
    /\ Spec
    /\ \A r \in Requests :
         WF_vars(DropList(r) \/ DropCommit(r) \/ Audit(r) \/ \E l \in Loc : Notify(r, l))

----------------------------------------------------------------------------
(* Properties.                                                             *)

\* Who reads a key again on every event about it gets to know its last state:
\* while what was announced of a key is out of date, some request still has an
\* event about it to publish, however commits and publications interleave.  The
\* one exception: it was set after a namespace deletion had listed its keys, and
\* went with the namespace.
NoSilentChange ==
    \A l \in stale :
        \/ \E r \in Requests : pc[r] = "notify" /\ l \in todo[r]
        \/ l \in overtaken

\* That exception never concerns a key that exists: whatever runs at the same
\* time, what a key holds is announced.  Only that it is gone can go unsaid.
LiveChangesAreAnnounced ==
    \A l \in stale : Store!IsLive(l) =>
        \E r \in Requests : pc[r] = "notify" /\ l \in todo[r]

\* So a watcher is not left behind for good.
WatchersCatchUp == \A l \in Loc : l \in stale ~> l \notin stale \/ l \in overtaken

\* engine.go:161: DeleteNamespace "returns deleted key names for
\* notifications".  Every key that stops being visible in the transaction is
\* among the names returned, unless a set came after the listing.
ReportsDeletedKeys ==
    \A r \in Requests :
        pc[r] = "drop" /\ pc'[r] = "notify" =>
            {l \in Loc : Visible(l)' # Visible(l)} \subseteq todo'[r] \cup overtaken

DropsAreReported == [][ReportsDeletedKeys]_vars
============================================================================
