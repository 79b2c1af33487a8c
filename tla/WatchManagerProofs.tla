------------------------- MODULE WatchManagerProofs -------------------------
(***************************************************************************)
(* Proofs about WatchManager, for every set of requests and publishers,    *)
(* every watched namespace and every channel capacity.                     *)
(*                                                                         *)
(* The counter of the watcher IDs is not bounded: what the manager owes a   *)
(* watcher is proved for every watcher that shares its ID with no other.   *)
(***************************************************************************)
EXTENDS WatchManager, SequenceTheorems, TLAPS

\* A Notify that runs has counted its event.
RunningNotifyHasEvent == \A n \in notifying : published[n] >= 1

TypeInv == TypeOK /\ RunningNotifyHasEvent

\* A request that has not called Watch has no watcher.
FreshRequests ==
    \A w \in Watchers : pc[w] = "new" => w \notin registered /\ ~watcherDone[w]
                                         /\ cleaner[w] = "none" /\ id[w] = << >>

\* One that has called it has an ID.
HaveIDs == \A w \in Watchers : pc[w] # "new" => id[w] # << >>

\* Only the end of the request's own context, or its own Unwatch, ends a
\* watcher's context, unless another's Unwatch finds it by a shared ID.
WatcherOutlivesNoRequest ==
    \A w \in Watchers :
        watcherDone[w] => \/ ctxDone[w] \/ pc[w] \in {"cancel", "done"}
                          \/ SharesID(w)

\* The read lock keeps the watchers that Notify has yet to visit registered.
NotifyVisitsRegistered ==
    \A n \in Notifiers :
        pending[n] # {} => n \in notifying /\ pending[n] \subseteq registered

IInv ==
    /\ TypeInv
    /\ FreshRequests
    /\ HaveIDs
    /\ WatcherOutlivesNoRequest
    /\ NotifyVisitsRegistered
    /\ WaitersAreRegistered
    /\ NoPanic

----------------------------------------------------------------------------
(* Type correctness.                                                       *)

LEMMA TypeInit == Init => TypeInv
<1> SUFFICES ASSUME Init PROVE TypeInv
  OBVIOUS
<1> USE DEF Init
<1>1. \A w \in Watchers : id[w] \in {<< >>} \cup (Nat \X Nat)
  OBVIOUS
<1>2. /\ id \in [Watchers -> {<< >>} \cup (Nat \X Nat)]
      /\ chan \in [Watchers -> {"none", "open", "closed"}]
      /\ cleaner \in [Watchers -> {"none", "waiting", "gone"}]
  OBVIOUS
<1>3. /\ buf \in [Watchers -> Seq(Event)]
      /\ delivered \in [Watchers -> Seq(Event)]
      /\ missed \in [Watchers -> SUBSET Event]
  OBVIOUS
<1>4. /\ watcherDone \in [Watchers -> BOOLEAN]
      /\ ctxDone \in [Watchers -> BOOLEAN]
      /\ panicked \in BOOLEAN
  BY Zenon
<1>5. /\ pc \in [Watchers ->
                   {"new", "select", "parked", "unwatch", "cancel", "done"}]
      /\ answer \in [Watchers -> {"none", "event", "timeout", "zero"}]
  OBVIOUS
<1>6. /\ counter \in Nat
      /\ second \in 0 .. MaxSecond
      /\ published \in [Notifiers -> Nat]
  BY WatchConstants
<1>7. /\ registered \subseteq Watchers
      /\ pending \in [Notifiers -> SUBSET Watchers]
      /\ notifying \subseteq Notifiers
      /\ RunningNotifyHasEvent
  BY DEF RunningNotifyHasEvent
<1> QED
  BY <1>2, <1>3, <1>4, <1>5, <1>6, <1>7 DEF TypeInv, TypeOK

LEMMA PublishedIsEvent ==
    ASSUME TypeInv, NEW n \in notifying
    PROVE  Published(n) \in Event
<1>1. n \in Notifiers /\ published[n] \in Nat \ {0}
  BY WatchConstants DEF TypeInv, TypeOK, RunningNotifyHasEvent
<1> QED
  BY <1>1 DEF Published, Event

LEMMA TypeNext == TypeInv /\ [Next]_vars => TypeInv'
<1> SUFFICES ASSUME TypeInv, [Next]_vars PROVE TypeInv'
  OBVIOUS
<1> USE DEF TypeInv, TypeOK, RunningNotifyHasEvent
<1>1. ASSUME NEW w \in Watchers, Watch(w) PROVE TypeInv'
  <2>1. counter' \in Nat
    BY <1>1 DEF Watch
  <2>2. RuneOf(counter') \in Nat
    BY <2>1 DEF RuneOf
  <2>3. GenerateWatcherID \in Nat \X Nat
    BY <2>2 DEF GenerateWatcherID
  <2> QED
    BY <1>1, <2>1, <2>3 DEF Watch, notifyVars
<1>2. ASSUME NEW w \in Watchers, Unwatch(w) PROVE TypeInv'
  <2>1. /\ watcherDone' \in [Watchers -> BOOLEAN]
        /\ chan' \in [Watchers -> {"none", "open", "closed"}]
        /\ panicked' \in BOOLEAN
    <3>1. CASE Lookup(id[w]) = {}
      BY <1>2, <3>1 DEF Unwatch
    <3>2. CASE Lookup(id[w]) # {}
      BY <1>2, <3>2 DEF Unwatch, Close
    <3> QED
      BY <3>1, <3>2
  <2> QED
    BY <1>2, <2>1 DEF Unwatch, notifyVars
<1>3. ASSUME NEW w \in Watchers, CleanupWatcher(w) PROVE TypeInv'
  <2>1. /\ chan' \in [Watchers -> {"none", "open", "closed"}]
        /\ panicked' \in BOOLEAN
    BY <1>3 DEF CleanupWatcher, Close
  <2> QED
    BY <1>3, <2>1 DEF CleanupWatcher, handlerVars, notifyVars
<1>4. ASSUME NEW n \in Notifiers, StartNotify(n) PROVE TypeInv'
  BY <1>4, WatchConstants DEF StartNotify, managerVars, handlerVars
<1>5. ASSUME NEW n \in Notifiers, EndNotify(n) PROVE TypeInv'
  BY <1>5 DEF EndNotify, managerVars, handlerVars
<1>6. ASSUME NEW n \in Notifiers, NEW w \in Watchers, Send(n, w)
      PROVE  TypeInv'
  <2>1. /\ Append(delivered[w], Published(n)) \in Seq(Event)
        /\ Append(buf[w], Published(n)) \in Seq(Event)
    <3>1. Published(n) \in Event
      BY <1>6, PublishedIsEvent DEF Send
    <3> QED
      BY <3>1
  <2>2. panicked' \in BOOLEAN
    BY <1>6 DEF Send
  <2>3. /\ delivered' \in [Watchers -> Seq(Event)]
        /\ buf' \in [Watchers -> Seq(Event)]
    <3>1. CASE pc[w] = "parked" /\ chan[w] = "open"
      BY <1>6, <2>1, <3>1 DEF Send
    <3>2. CASE ~(pc[w] = "parked" /\ chan[w] = "open")
      BY <1>6, <2>1, <3>2 DEF Send
    <3> QED
      BY <3>1, <3>2
  <2>4. /\ pc' \in [Watchers ->
                     {"new", "select", "parked", "unwatch", "cancel", "done"}]
        /\ answer' \in [Watchers -> {"none", "event", "timeout", "zero"}]
    BY <1>6 DEF Send
  <2>5. pending' \in [Notifiers -> SUBSET Watchers]
    BY <1>6 DEF Send
  <2>6. missed' \in [Watchers -> SUBSET Event]
    <3>1. Published(n) \in Event
      BY <1>6, PublishedIsEvent DEF Send
    <3>2. CASE missed' = missed
      BY <3>2
    <3>3. CASE missed' = [missed EXCEPT ![w] = @ \cup {Published(n)}]
      <4>1. missed[w] \cup {Published(n)} \in SUBSET Event
        BY <3>1
      <4> QED
        BY <3>3, <4>1
    <3> QED
      BY <1>6, <3>2, <3>3 DEF Send
  <2> QED
    BY <1>6, <2>2, <2>3, <2>4, <2>5, <2>6 DEF Send, managerVars
<1>7. ASSUME NEW w \in Watchers, TakeEvent(w) PROVE TypeInv'
  <2>1. Head(buf[w]) \in Event /\ Tail(buf[w]) \in Seq(Event)
    BY <1>7 DEF TakeEvent
  <2> QED
    BY <1>7, <2>1 DEF TakeEvent, managerVars, notifyVars
<1>8. ASSUME NEW w \in Watchers, TakeClosed(w) \/ TakeTimeout(w) \/ Park(w)
      PROVE  TypeInv'
  <2>1. CASE TakeClosed(w)
    BY <2>1 DEF TakeClosed, managerVars, notifyVars
  <2>2. CASE TakeTimeout(w)
    BY <2>2 DEF TakeTimeout, managerVars, notifyVars
  <2>3. CASE Park(w)
    BY <2>3 DEF Park, managerVars, notifyVars
  <2> QED
    BY <1>8, <2>1, <2>2, <2>3
<1>9. ASSUME NEW w \in Watchers, Cancel(w) PROVE TypeInv'
  <2>1. watcherDone' \in [Watchers -> BOOLEAN]
    BY <1>9, Zenon DEF Cancel
  <2> QED
    BY <1>9, <2>1 DEF Cancel, notifyVars
<1>10. ASSUME NEW w \in Watchers, Return(w) PROVE TypeInv'
  BY <1>10 DEF Return, notifyVars
<1>11. CASE Tick
  BY <1>11, WatchConstants DEF Tick, managerVars, handlerVars, notifyVars
<1>12. CASE UNCHANGED vars
  BY <1>12 DEF vars, managerVars, handlerVars, notifyVars
<1> QED
  BY <1>1, <1>2, <1>3, <1>4, <1>5, <1>6, <1>7, <1>8, <1>9, <1>10, <1>11, <1>12
     DEF Next, Handler

\* Every variable keeps its type, whatever the IDs.
THEOREM TypeCorrect == Spec => []TypeOK
<1>1. TypeInv => TypeOK
  BY DEF TypeInv
<1> QED
  BY <1>1, TypeInit, TypeNext, PTL DEF Spec

----------------------------------------------------------------------------
(* Panics and registrations.                                               *)

\* Nobody's ID changes once it is made, so who shares one goes on sharing it.
LEMMA SharingLasts ==
    ASSUME IInv, [Next]_vars, NEW w \in Watchers, SharesID(w)
    PROVE  SharesID(w)'
<1>1. PICK x \in Watchers \ {w} : id[x] = id[w] /\ id[w] # << >>
  BY DEF SharesID
<1>2. \A y \in Watchers : id[y] # << >> => id'[y] = id[y]
  <2>1. ASSUME NEW v \in Watchers, Watch(v) PROVE \A y \in Watchers : id[y] # << >> => id'[y] = id[y]
    BY <2>1 DEF Watch, IInv, TypeInv, TypeOK, FreshRequests
  <2>2. ASSUME ~ \E v \in Watchers : Watch(v) PROVE id' = id
    BY <2>2 DEF vars, managerVars, Next, Handler, Unwatch, CleanupWatcher, StartNotify,
         EndNotify, Send, TakeEvent, TakeClosed, TakeTimeout, Park, Cancel, Return, Tick
  <2> QED
    BY <2>1, <2>2
<1> QED
  BY <1>1, <1>2 DEF SharesID

\* Whom the ID of a registered or departed watcher finds is that watcher or one
\* with the same ID.
LEMMA LookupFindsOwnID ==
    ASSUME IInv, NEW w \in Watchers, pc[w] # "new", NEW x \in Lookup(id[w]), x # w
    PROVE  x \in registered /\ SharesID(w) /\ SharesID(x)
  BY DEF IInv, TypeInv, TypeOK, HaveIDs, Lookup, SharesID

LEMMA IInit == Init => IInv
<1> SUFFICES ASSUME Init PROVE IInv
  OBVIOUS
<1>1. TypeInv
  BY TypeInit
<1>2. FreshRequests /\ HaveIDs /\ WatcherOutlivesNoRequest
  BY DEF Init, FreshRequests, HaveIDs, WatcherOutlivesNoRequest
<1>3. NotifyVisitsRegistered /\ WaitersAreRegistered /\ NoPanic
  BY DEF Init, NotifyVisitsRegistered, WaitersAreRegistered, NoPanic
<1> QED
  BY <1>1, <1>2, <1>3 DEF IInv

\* With no Notify running, no watcher is waiting to be visited.
LEMMA LockMeansNoneVisited ==
    ASSUME IInv, CanLock
    PROVE  \A n \in Notifiers : pending[n] = {}
  BY DEF IInv, NotifyVisitsRegistered, CanLock

LEMMA WatchKeepsIInv ==
    ASSUME IInv, NEW w \in Watchers, Watch(w), TypeInv', Next
    PROVE  IInv'
<1> DEFINE new == GenerateWatcherID
<1>1. /\ new # << >>
      /\ id' = [id EXCEPT ![w] = new]
      /\ pc' = [pc EXCEPT ![w] = "select"]
      /\ registered' = (registered \ Lookup(new)) \cup {w}
  BY DEF Watch, GenerateWatcherID
<1> HIDE DEF new
<1>2. /\ id'[w] = new /\ pc'[w] = "select"
      /\ \A x \in Watchers \ {w} : id'[x] = id[x] /\ pc'[x] = pc[x]
  BY <1>1 DEF IInv, TypeInv, TypeOK
<1>3. FreshRequests' /\ HaveIDs'
  BY <1>1, <1>2 DEF Watch, IInv, TypeInv, TypeOK, FreshRequests, HaveIDs
<1>4. /\ \A x \in Watchers \ {w} : watcherDone'[x] = watcherDone[x] /\ chan'[x] = chan[x]
      /\ watcherDone'[w] = ctxDone[w] /\ chan'[w] = "open"
      /\ UNCHANGED <<ctxDone, panicked>>
  BY DEF Watch, IInv, TypeInv, TypeOK
<1>5. \A x \in Watchers : SharesID(x) => SharesID(x)'
  BY SharingLasts
<1>6. WatcherOutlivesNoRequest'
  BY <1>2, <1>4, <1>5 DEF IInv, WatcherOutlivesNoRequest
<1>7. NotifyVisitsRegistered'
  BY LockMeansNoneVisited DEF Watch, NotifyVisitsRegistered, notifyVars
<1>8. WaitersAreRegistered'
  <2>1. \A x \in registered' : chan'[x] = "open"
    BY <1>1, <1>4 DEF IInv, TypeInv, TypeOK, WaitersAreRegistered
  <2>2. ASSUME NEW x \in Watchers, x \in registered, x \notin registered'
        PROVE  SharesID(x)'
    BY <1>1, <1>2, <2>2 DEF Lookup, SharesID
  <2> QED
    BY <1>1, <1>2, <1>4, <1>5, <2>1, <2>2 DEF IInv, WaitersAreRegistered
<1>9. NoPanic'
  BY <1>4, <1>5 DEF IInv, NoPanic
<1> QED
  BY <1>3, <1>6, <1>7, <1>8, <1>9 DEF IInv

LEMMA UnwatchKeepsIInv ==
    ASSUME IInv, NEW w \in Watchers, Unwatch(w), TypeInv', Next
    PROVE  IInv'
<1>1. /\ registered' = registered \ Lookup(id[w])
      /\ pc' = [pc EXCEPT ![w] = "cancel"]
      /\ UNCHANGED <<id, counter, cleaner, ctxDone, pending, notifying>>
  BY DEF Unwatch, notifyVars
<1>2. /\ \A x \in Watchers : x \notin Lookup(id[w]) => /\ chan'[x] = chan[x]
                                                      /\ watcherDone'[x] = watcherDone[x]
      /\ panicked' = panicked
  <2>1. CASE Lookup(id[w]) # {}
    <3>1. PICK x \in Lookup(id[w]) :
            /\ watcherDone' = [watcherDone EXCEPT ![x] = TRUE]
            /\ Close(x)
      BY <2>1 DEF Unwatch
    <3>2. x \in Watchers /\ chan[x] = "open" /\ panicked \in BOOLEAN
      BY DEF Lookup, IInv, TypeInv, TypeOK, WaitersAreRegistered
    <3>3. panicked' = panicked
      <4>1. panicked' = (panicked \/ chan[x] = "closed") /\ chan[x] # "closed"
        BY <3>1, <3>2 DEF Close
      <4> QED
        BY <3>2, <4>1
    <3>4. \A y \in Watchers : y # x => /\ chan'[y] = chan[y]
                                       /\ watcherDone'[y] = watcherDone[y]
      BY <3>1, <3>2 DEF Close, IInv, TypeInv, TypeOK
    <3> QED
      BY <3>3, <3>4
  <2>2. CASE Lookup(id[w]) = {}
    BY <2>2 DEF Unwatch
  <2> QED
    BY <2>1, <2>2
<1>3. \A x \in Lookup(id[w]) : x = w \/ SharesID(x)
  BY LookupFindsOwnID DEF Unwatch
<1>4. \A x \in Watchers : SharesID(x) => SharesID(x)'
  BY SharingLasts
<1>5. FreshRequests' /\ HaveIDs'
  <2>1. \A x \in Watchers : /\ pc'[x] = "new" => pc[x] = "new" /\ x # w
                            /\ pc'[x] # "new" => pc[x] # "new"
    BY <1>1 DEF Unwatch, IInv, TypeInv, TypeOK
  <2>2. \A x \in Watchers : pc[x] = "new" => x \notin Lookup(id[w])
    BY DEF Lookup, IInv, FreshRequests
  <2> QED
    BY <1>1, <1>2, <2>1, <2>2 DEF IInv, FreshRequests, HaveIDs
<1>6. WatcherOutlivesNoRequest'
  BY <1>1, <1>2, <1>3, <1>4 DEF IInv, TypeInv, TypeOK, WatcherOutlivesNoRequest
<1>7. NotifyVisitsRegistered'
  BY <1>1, LockMeansNoneVisited DEF Unwatch, NotifyVisitsRegistered
<1>8. WaitersAreRegistered'
  BY <1>1, <1>2, <1>3, <1>4 DEF IInv, TypeInv, TypeOK, WaitersAreRegistered
<1>9. NoPanic'
  BY <1>2, <1>4 DEF IInv, NoPanic
<1> QED
  BY <1>5, <1>6, <1>7, <1>8, <1>9 DEF IInv

LEMMA CleanupKeepsIInv ==
    ASSUME IInv, NEW w \in Watchers, CleanupWatcher(w), TypeInv', Next
    PROVE  IInv'
<1>1. pc[w] # "new"
  BY DEF CleanupWatcher, IInv, FreshRequests
<1>2. /\ registered' = registered \ Lookup(id[w])
      /\ cleaner' = [cleaner EXCEPT ![w] = "gone"]
      /\ UNCHANGED <<id, counter, watcherDone, pc, ctxDone, pending, notifying>>
  BY DEF CleanupWatcher, handlerVars, notifyVars
<1>3. \A x \in Lookup(id[w]) : x = w \/ (SharesID(x) /\ SharesID(w))
  BY <1>1, LookupFindsOwnID
<1>4. \A x \in Watchers : SharesID(x) => SharesID(x)'
  BY SharingLasts
<1>5. \A x \in Watchers \ {w} : chan'[x] = chan[x]
  BY DEF CleanupWatcher, Close, IInv, TypeInv, TypeOK
<1>6. w \in registered => w \in Lookup(id[w])
  BY DEF Lookup
<1>7. FreshRequests' /\ HaveIDs'
  BY <1>1, <1>2 DEF IInv, TypeInv, TypeOK, FreshRequests, HaveIDs
<1>8. WatcherOutlivesNoRequest'
  BY <1>2, <1>4 DEF IInv, WatcherOutlivesNoRequest
<1>9. NotifyVisitsRegistered'
  BY <1>2, LockMeansNoneVisited DEF CleanupWatcher, NotifyVisitsRegistered
<1>10. WaitersAreRegistered'
  <2>1. pc[w] \in {"select", "parked"} => ctxDone[w] \/ SharesID(w)
    BY DEF CleanupWatcher, IInv, WatcherOutlivesNoRequest
  <2>2. \A x \in registered' : chan'[x] = "open"
    BY <1>2, <1>5, <1>6 DEF IInv, TypeInv, TypeOK, WaitersAreRegistered
  <2> QED
    BY <1>2, <1>3, <1>4, <2>1, <2>2 DEF IInv, WaitersAreRegistered
<1>11. NoPanic'
  <2>1. CASE panicked \/ ~panicked'
    BY <1>4, <2>1 DEF IInv, NoPanic
  <2>2. CASE ~panicked /\ panicked'
    <3>1. Lookup(id[w]) # {} /\ chan[w] = "closed"
      BY <2>2 DEF CleanupWatcher, Close
    <3>2. w \notin registered
      BY <3>1 DEF IInv, WaitersAreRegistered
    <3>3. SharesID(w)
      BY <1>3, <3>1, <3>2 DEF Lookup
    <3> QED
      BY <1>4, <3>3 DEF NoPanic
  <2> QED
    BY <2>1, <2>2
<1> QED
  BY <1>7, <1>8, <1>9, <1>10, <1>11 DEF IInv

\* Notify and the handlers leave the map alone.
LEMMA NotifyKeepsIInv ==
    ASSUME IInv, TypeInv', NEW n \in Notifiers,
           \/ StartNotify(n) \/ EndNotify(n)
           \/ \E w \in Watchers : Send(n, w)
    PROVE  IInv'
<1> USE DEF IInv, TypeInv, TypeOK, managerVars, handlerVars
<1>1. UNCHANGED <<managerVars, ctxDone>>
  BY DEF StartNotify, EndNotify, Send
<1>2. \A w \in Watchers : pc'[w] # pc[w] =>
          pc[w] = "parked" /\ pc'[w] \in {"select", "unwatch"}
  BY DEF StartNotify, EndNotify, Send
<1>3. \A w \in Watchers : SharesID(w)' = SharesID(w)
  BY <1>1 DEF SharesID
<1>4. FreshRequests' /\ HaveIDs'
  BY <1>1, <1>2 DEF FreshRequests, HaveIDs
<1>5. WatcherOutlivesNoRequest' /\ WaitersAreRegistered'
  BY <1>1, <1>2, <1>3 DEF WatcherOutlivesNoRequest, WaitersAreRegistered
<1>6. NotifyVisitsRegistered'
  <2>1. CASE StartNotify(n)
    BY <2>1 DEF NotifyVisitsRegistered, StartNotify
  <2>2. CASE EndNotify(n)
    BY <2>2 DEF NotifyVisitsRegistered, EndNotify
  <2>3. CASE \E w \in Watchers : Send(n, w)
    BY <2>3 DEF NotifyVisitsRegistered, Send
  <2> QED
    BY <2>1, <2>2, <2>3
<1>7. NoPanic'
  <2>1. ASSUME NEW w \in Watchers, Send(n, w) PROVE panicked' = panicked
    <3>1. chan[w] = "open"
      BY <2>1 DEF Send, NotifyVisitsRegistered, WaitersAreRegistered
    <3> QED
      BY <2>1, <3>1 DEF Send
  <2>2. panicked' = panicked
    BY <2>1 DEF StartNotify, EndNotify
  <2> QED
    BY <1>3, <2>2 DEF NoPanic
<1> QED
  BY <1>4, <1>5, <1>6, <1>7

LEMMA RequestKeepsIInv ==
    ASSUME IInv, TypeInv', NEW w \in Watchers,
           TakeEvent(w) \/ TakeClosed(w) \/ TakeTimeout(w) \/ Park(w) \/ Cancel(w)
             \/ Return(w)
    PROVE  IInv'
<1>1. UNCHANGED <<counter, id, registered, chan, cleaner, notifyVars, panicked>>
  BY DEF TakeEvent, TakeClosed, TakeTimeout, Park, Cancel, Return, managerVars
<1>2. \A x \in Watchers : pc'[x] # pc[x] => x = w /\ pc[x] # "new"
                             /\ pc'[x] # "new"
  <2>1. CASE TakeEvent(w) \/ TakeClosed(w)
    BY <2>1 DEF TakeEvent, TakeClosed, IInv, TypeInv, TypeOK
  <2>2. CASE TakeTimeout(w) \/ Park(w)
    BY <2>2 DEF TakeTimeout, Park, IInv, TypeInv, TypeOK
  <2>3. CASE Cancel(w)
    BY <2>3 DEF Cancel, IInv, TypeInv, TypeOK
  <2>4. CASE Return(w)
    BY <2>4 DEF Return, IInv, TypeInv, TypeOK
  <2> QED
    BY <2>1, <2>2, <2>3, <2>4
<1>3. \A x \in Watchers : watcherDone'[x] =>
          watcherDone[x] \/ (ctxDone'[x] /\ pc[x] # "new")
  BY DEF TakeEvent, TakeClosed, TakeTimeout, Park, Cancel, Return, managerVars,
         IInv, TypeInv, TypeOK
<1>4. \A x \in Watchers : ctxDone[x] => ctxDone'[x]
  BY DEF TakeEvent, TakeClosed, TakeTimeout, Park, Cancel, Return, IInv,
         TypeInv, TypeOK
<1>5. \A x \in Watchers :
          /\ pc'[x] \in {"select", "parked"} => pc[x] \in {"select", "parked"}
          /\ pc[x] \in {"cancel", "done"} => pc'[x] \in {"cancel", "done"}
  <2>1. CASE TakeEvent(w) \/ TakeClosed(w)
    BY <2>1 DEF TakeEvent, TakeClosed, IInv, TypeInv, TypeOK
  <2>2. CASE TakeTimeout(w) \/ Park(w)
    BY <2>2 DEF TakeTimeout, Park, IInv, TypeInv, TypeOK
  <2>3. CASE Cancel(w)
    BY <2>3 DEF Cancel, IInv, TypeInv, TypeOK
  <2>4. CASE Return(w)
    BY <2>4 DEF Return, IInv, TypeInv, TypeOK
  <2> QED
    BY <2>1, <2>2, <2>3, <2>4
<1>6. \A x \in Watchers : SharesID(x)' = SharesID(x)
  BY <1>1 DEF SharesID
<1>7. FreshRequests' /\ HaveIDs'
  BY <1>1, <1>2, <1>3 DEF IInv, FreshRequests, HaveIDs
<1>8. WatcherOutlivesNoRequest' /\ WaitersAreRegistered'
  BY <1>1, <1>3, <1>4, <1>5, <1>6 DEF IInv, WatcherOutlivesNoRequest,
     WaitersAreRegistered
<1>9. NotifyVisitsRegistered' /\ NoPanic'
  BY <1>1, <1>6 DEF IInv, NotifyVisitsRegistered, NoPanic, notifyVars
<1> QED
  BY <1>7, <1>8, <1>9 DEF IInv

LEMMA INext == IInv /\ [Next]_vars => IInv'
<1> SUFFICES ASSUME IInv, [Next]_vars PROVE IInv'
  OBVIOUS
<1>1. TypeInv'
  BY TypeNext DEF IInv
<1>2. CASE Tick \/ UNCHANGED vars
  <2>1. UNCHANGED <<managerVars, handlerVars, notifyVars, panicked>>
    BY <1>2 DEF Tick, vars
  <2> QED
    BY <1>1, <2>1 DEF IInv, FreshRequests, HaveIDs, WatcherOutlivesNoRequest, SharesID,
         NotifyVisitsRegistered, WaitersAreRegistered, NoPanic, managerVars, handlerVars,
         notifyVars
<1>3. CASE Next /\ ~Tick
  <2>1. ASSUME NEW w \in Watchers, Watch(w) \/ Unwatch(w) \/ CleanupWatcher(w)
        PROVE  IInv'
    BY <1>1, <1>3, <2>1, WatchKeepsIInv, UnwatchKeepsIInv, CleanupKeepsIInv
  <2> QED
    BY <1>1, <1>3, <2>1, NotifyKeepsIInv, RequestKeepsIInv DEF Next, Handler
<1> QED
  BY <1>2, <1>3

LEMMA InvariantHolds == Spec => []IInv
  BY IInit, INext, PTL DEF Spec

\* However many watch requests have come: no channel is closed twice or sent to
\* when closed before two of them share an ID.
THEOREM PanicsTakeASharedID == Spec => []NoPanic
<1>1. IInv => NoPanic
  BY DEF IInv
<1> QED
  BY <1>1, InvariantHolds, PTL

\* A request that waits stays registered, its channel open, unless another has
\* its ID; and no entry of the map ever has a closed channel.
THEOREM WaitersStayRegistered == Spec => []WaitersAreRegistered
<1>1. IInv => WaitersAreRegistered
  BY DEF IInv
<1> QED
  BY <1>1, InvariantHolds, PTL

----------------------------------------------------------------------------
(* The order of events.                                                    *)

\* A handler parks on an empty channel, and only what is not sent through a
\* handover is buffered.
ParkedHasNoEvent ==
    \A w \in Watchers : pc[w] = "parked" => buf[w] = << >>

\* What a request has heard was published, and is older than the event that
\* some running Notify has yet to send it.
HeardIsPast ==
    \A w \in Watchers : \A i \in DOMAIN Heard(w) :
        /\ Heard(w)[i].nr <= published[Heard(w)[i].by]
        /\ w \in pending[Heard(w)[i].by] =>
               Heard(w)[i].nr < published[Heard(w)[i].by]

OrderInv == IInv /\ ParkedHasNoEvent /\ HeardIsPast /\ EventsInOrder

LEMMA HeardIsSequence ==
    ASSUME TypeOK, NEW w \in Watchers
    PROVE  /\ delivered[w] \in Seq(Event) /\ buf[w] \in Seq(Event)
           /\ Heard(w) \in Seq(Event)
<1>1. delivered[w] \in Seq(Event) /\ buf[w] \in Seq(Event)
  BY DEF TypeOK
<1> QED
  BY <1>1, ConcatProperties DEF Heard

LEMMA AppendToConcat ==
    ASSUME NEW S, NEW s \in Seq(S), NEW t \in Seq(S), NEW e \in S
    PROVE  s \o Append(t, e) = Append(s \o t, e)
<1>1. s \o t \in Seq(S) /\ <<e>> \in Seq(S)
  BY ConcatProperties
<1>2. Append(t, e) = t \o <<e>> /\ Append(s \o t, e) = (s \o t) \o <<e>>
  BY <1>1, AppendIsConcat
<1>3. (s \o t) \o <<e>> = s \o (t \o <<e>>)
  BY <1>1, ConcatAssociative
<1> QED
  BY <1>2, <1>3, Zenon

LEMMA HeardAreEvents ==
    ASSUME TypeOK, NEW w \in Watchers, NEW i \in DOMAIN Heard(w)
    PROVE  Heard(w)[i].by \in Notifiers /\ Heard(w)[i].nr \in Nat
<1>1. Heard(w)[i] \in Event
  BY HeardIsSequence, ElementOfSeq
<1>2. \A e \in Event : e.by \in Notifiers /\ e.nr \in Nat
  BY WatchConstants DEF Event
<1> QED
  BY <1>1, <1>2

\* Buffered or handed over, an event comes after everything heard so far.
LEMMA SendAppends ==
    ASSUME IInv, ParkedHasNoEvent, NEW n \in Notifiers, NEW w \in Watchers,
           Send(n, w)
    PROVE  /\ Heard(w)' \in {Heard(w), Append(Heard(w), Published(n))}
           /\ \A x \in Watchers \ {w} : Heard(x)' = Heard(x)
<1>1. /\ delivered[w] \in Seq(Event) /\ buf[w] \in Seq(Event)
      /\ Published(n) \in Event
  BY HeardIsSequence, PublishedIsEvent DEF IInv, TypeInv, Send
<1>2. /\ delivered \in [Watchers -> Seq(Event)]
      /\ buf \in [Watchers -> Seq(Event)]
  BY DEF IInv, TypeInv, TypeOK
<1>3. CASE pc[w] = "parked" /\ chan[w] = "open"
  <2>1. buf[w] = << >>
    BY <1>3 DEF ParkedHasNoEvent
  <2>2. /\ delivered' = [delivered EXCEPT ![w] = Append(@, Published(n))]
        /\ buf' = buf
    BY <1>3 DEF Send
  <2>3. Append(delivered[w], Published(n)) \o << >>
          = Append(delivered[w] \o << >>, Published(n))
    BY <1>1
  <2> QED
    BY <1>2, <2>1, <2>2, <2>3 DEF Heard
<1>4. CASE ~(pc[w] = "parked" /\ chan[w] = "open")
  <2>1. /\ delivered' = delivered
        /\ buf' \in {buf, [buf EXCEPT ![w] = Append(@, Published(n))]}
    BY <1>4 DEF Send
  <2>2. delivered[w] \o Append(buf[w], Published(n))
          = Append(delivered[w] \o buf[w], Published(n))
    <3>1. \A s, t \in Seq(Event) : \A e \in Event :
            s \o Append(t, e) = Append(s \o t, e)
      BY AppendToConcat
    <3> QED
      BY <1>1, <3>1, Zenon
  <2> QED
    BY <1>2, <2>1, <2>2 DEF Heard
<1> QED
  BY <1>3, <1>4

\* Taking an event from the channel is not hearing a new one.
LEMMA TakingHearsNothingNew ==
    ASSUME TypeOK, NEW w \in Watchers, TakeEvent(w)
    PROVE  \A x \in Watchers : Heard(x)' = Heard(x)
<1>1. /\ delivered[w] \in Seq(Event) /\ buf[w] \in Seq(Event) /\ buf[w] # << >>
      /\ delivered \in [Watchers -> Seq(Event)]
      /\ buf \in [Watchers -> Seq(Event)]
  BY HeardIsSequence DEF TakeEvent, TypeOK
<1>2. Append(delivered[w], Head(buf[w])) \o Tail(buf[w]) = delivered[w] \o buf[w]
  <2> DEFINE long == Append(delivered[w], Head(buf[w])) \o Tail(buf[w])
             whole == delivered[w] \o buf[w]
  <2>1. long \in Seq(Event) /\ whole \in Seq(Event) /\ Len(long) = Len(whole)
    BY <1>1
  <2>2. \A i \in 1 .. Len(whole) : long[i] = whole[i]
    BY <1>1
  <2> QED
    BY <2>1, <2>2, SeqEqual
<1>3. /\ delivered' = [delivered EXCEPT ![w] = Append(@, Head(buf[w]))]
      /\ buf' = [buf EXCEPT ![w] = Tail(@)]
  BY DEF TakeEvent
<1> QED
  BY <1>1, <1>2, <1>3 DEF Heard

LEMMA HeardUnlessSent ==
    ASSUME TypeOK, Next,
           ~ \E n \in Notifiers, w \in Watchers : Send(n, w)
    PROVE  \A x \in Watchers : Heard(x)' = Heard(x)
<1>1. CASE \E w \in Watchers : TakeEvent(w)
  BY <1>1, TakingHearsNothingNew
<1>2. CASE ~ \E w \in Watchers : TakeEvent(w)
  <2>1. UNCHANGED <<delivered, buf>>
    BY <1>2 DEF Next, Handler, Watch, Unwatch, CleanupWatcher, StartNotify,
         EndNotify, TakeClosed, TakeTimeout, Park, Cancel, Return, Tick,
         handlerVars
  <2> QED
    BY <2>1 DEF Heard
<1> QED
  BY <1>1, <1>2

LEMMA ParkedStaysEmpty ==
    ASSUME IInv, Next, ParkedHasNoEvent
    PROVE  ParkedHasNoEvent'
<1> SUFFICES ASSUME NEW w \in Watchers, pc'[w] = "parked"
             PROVE  buf'[w] = << >>
  BY DEF ParkedHasNoEvent
<1> USE DEF IInv, TypeInv, TypeOK
<1>1. CASE Park(w)
  BY <1>1 DEF Park
<1>2. CASE ~Park(w)
  <2>1. pc[w] = "parked"
    BY <1>2 DEF Next, Handler, Watch, Unwatch, CleanupWatcher, StartNotify,
         EndNotify, Send, TakeEvent, TakeClosed, TakeTimeout, Park, Cancel,
         Return, Tick, handlerVars
  <2>2. buf[w] = << >>
    BY <2>1 DEF ParkedHasNoEvent
  <2>3. ASSUME NEW n \in Notifiers, NEW x \in Watchers, Send(n, x)
        PROVE  buf'[w] = buf[w]
    <3>1. chan[x] = "open"
      BY <2>3 DEF Send, NotifyVisitsRegistered, WaitersAreRegistered
    <3>2. CASE x = w
      BY <2>1, <2>3, <3>1, <3>2 DEF Send
    <3>3. CASE x # w
      BY <2>3, <3>3 DEF Send
    <3> QED
      BY <3>2, <3>3
  <2>4. ASSUME NEW x \in Watchers, TakeEvent(x) PROVE buf'[w] = buf[w]
    BY <2>1, <2>4 DEF TakeEvent
  <2>5. ASSUME /\ ~ \E n \in Notifiers, x \in Watchers : Send(n, x)
               /\ ~ \E x \in Watchers : TakeEvent(x)
        PROVE  buf'[w] = buf[w]
    BY <2>5 DEF Next, Handler, Watch, Unwatch, CleanupWatcher, StartNotify,
         EndNotify, TakeClosed, TakeTimeout, Park, Cancel, Return, Tick
  <2> QED
    BY <2>2, <2>3, <2>4, <2>5
<1> QED
  BY <1>1, <1>2

\* Nobody's event count goes down, and a watcher that Notify newly has to visit
\* is to get an event newer than all before.
LEMMA PublishingMovesOn ==
    ASSUME IInv, Next, NEW n \in Notifiers
    PROVE  /\ published[n] \in Nat /\ published'[n] \in Nat
           /\ published[n] <= published'[n]
           /\ pending'[n] \subseteq pending[n] \/ published[n] < published'[n]
<1> USE DEF IInv, TypeInv, TypeOK
<1>1. published[n] \in Nat
  BY WatchConstants
<1>2. CASE \E m \in Notifiers : StartNotify(m)
  BY <1>1, <1>2 DEF StartNotify
<1>3. CASE ~ \E m \in Notifiers : StartNotify(m)
  <2>1. published' = published
    BY <1>3 DEF Next, Handler, Watch, Unwatch, CleanupWatcher, EndNotify, Send,
         TakeEvent, TakeClosed, TakeTimeout, Park, Cancel, Return, Tick,
         notifyVars
  <2>2. pending'[n] \subseteq pending[n]
    BY <1>3 DEF Next, Handler, Watch, Unwatch, CleanupWatcher, EndNotify, Send,
         TakeEvent, TakeClosed, TakeTimeout, Park, Cancel, Return, Tick,
         notifyVars
  <2> QED
    BY <1>1, <2>1, <2>2
<1> QED
  BY <1>2, <1>3

\* HeardIsPast and EventsInOrder, of one request.
IsPast(w) ==
    \A i \in DOMAIN Heard(w) :
        /\ Heard(w)[i].nr <= published[Heard(w)[i].by]
        /\ w \in pending[Heard(w)[i].by] =>
               Heard(w)[i].nr < published[Heard(w)[i].by]

IsOrdered(w) ==
    \A i, j \in DOMAIN Heard(w) :
        i < j /\ Heard(w)[i].by = Heard(w)[j].by => Heard(w)[i].nr < Heard(w)[j].nr

LEMMA HearingNothingKeepsOrder ==
    ASSUME IInv, Next, NEW w \in Watchers, IsPast(w), IsOrdered(w),
           Heard(w)' = Heard(w)
    PROVE  IsPast(w)' /\ IsOrdered(w)'
<1>1. Heard(w) \in Seq(Event)
  BY HeardIsSequence DEF IInv, TypeInv
<1>2. \A i \in DOMAIN Heard(w) :
          Heard(w)[i].by \in Notifiers /\ Heard(w)[i].nr \in Nat
  BY HeardAreEvents DEF IInv, TypeInv
<1>3. IsPast(w)'
  BY <1>2, PublishingMovesOn DEF IsPast
<1> QED
  BY <1>3 DEF IsOrdered

LEMMA HearingNextKeepsOrder ==
    ASSUME IInv, NEW n \in Notifiers, NEW w \in Watchers, Send(n, w),
           IsPast(w), IsOrdered(w), Heard(w)' = Append(Heard(w), Published(n))
    PROVE  IsPast(w)' /\ IsOrdered(w)'
<1>1. Heard(w) \in Seq(Event) /\ Published(n) \in Event
  BY HeardIsSequence, PublishedIsEvent DEF IInv, TypeInv, Send
<1>2. \A i \in DOMAIN Heard(w) :
          Heard(w)[i].by \in Notifiers /\ Heard(w)[i].nr \in Nat
  BY HeardAreEvents DEF IInv, TypeInv
<1>3. /\ published' = published /\ published[n] \in Nat
      /\ pending' = [pending EXCEPT ![n] = @ \ {w}]
      /\ w \in pending[n]
  BY WatchConstants DEF Send, IInv, TypeInv, TypeOK
<1>4. /\ DOMAIN Heard(w)' = 1 .. Len(Heard(w)) + 1
      /\ \A i \in 1 .. Len(Heard(w)) : Heard(w)'[i] = Heard(w)[i]
      /\ Heard(w)'[Len(Heard(w)) + 1] = Published(n)
  BY <1>1, AppendProperties
<1>5. Published(n).by = n /\ Published(n).nr = published[n]
  BY DEF Published
<1>6. \A i \in 1 .. Len(Heard(w)) :
          Heard(w)[i].by = n => Heard(w)[i].nr < published[n]
  BY <1>1, <1>3 DEF IsPast
<1>7. \A m \in Notifiers : w \in pending'[m] => w \in pending[m] /\ m # n
  BY <1>3 DEF IInv, TypeInv, TypeOK
<1>8. Len(Heard(w)) \in Nat /\ DOMAIN Heard(w) = 1 .. Len(Heard(w))
  BY <1>1
<1>9. IsPast(w)'
  <2> SUFFICES ASSUME NEW i \in DOMAIN Heard(w)'
               PROVE  /\ Heard(w)'[i].nr <= published'[Heard(w)'[i].by]
                      /\ w \in pending'[Heard(w)'[i].by] =>
                            Heard(w)'[i].nr < published'[Heard(w)'[i].by]
    BY DEF IsPast
  <2>1. CASE i \in 1 .. Len(Heard(w))
    BY <1>2, <1>3, <1>4, <1>7, <1>8, <2>1 DEF IsPast
  <2>2. CASE i = Len(Heard(w)) + 1
    BY <1>3, <1>4, <1>5, <1>7, <2>2
  <2> QED
    BY <1>4, <1>8, <2>1, <2>2
<1>10. IsOrdered(w)'
  <2> SUFFICES ASSUME NEW i \in DOMAIN Heard(w)', NEW j \in DOMAIN Heard(w)',
                      i < j, Heard(w)'[i].by = Heard(w)'[j].by
               PROVE  Heard(w)'[i].nr < Heard(w)'[j].nr
    BY DEF IsOrdered
  <2>1. i \in 1 .. Len(Heard(w))
    BY <1>4, <1>8
  <2>2. CASE j \in 1 .. Len(Heard(w))
    BY <1>4, <1>8, <2>1, <2>2 DEF IsOrdered
  <2>3. CASE j = Len(Heard(w)) + 1
    BY <1>4, <1>5, <1>6, <2>1, <2>3
  <2> QED
    BY <1>4, <1>8, <2>2, <2>3
<1> QED
  BY <1>9, <1>10

LEMMA OrderNext == OrderInv /\ IInv' /\ [Next]_vars => OrderInv'
<1> SUFFICES ASSUME OrderInv, IInv', [Next]_vars PROVE OrderInv'
  OBVIOUS
<1>1. CASE UNCHANGED vars
  <2>1. \A w \in Watchers : Heard(w)' = Heard(w)
    BY <1>1 DEF vars, handlerVars, Heard
  <2>2. UNCHANGED <<pc, buf, published, pending>>
    BY <1>1 DEF vars, handlerVars, notifyVars
  <2>3. ParkedHasNoEvent'
    BY <2>2 DEF OrderInv, ParkedHasNoEvent
  <2>4. HeardIsPast'
    BY <2>1, <2>2 DEF OrderInv, HeardIsPast
  <2>5. EventsInOrder'
    BY <2>1 DEF OrderInv, EventsInOrder
  <2> QED
    BY <2>3, <2>4, <2>5 DEF OrderInv
<1>2. CASE Next
  <2>1. \A w \in Watchers : IsPast(w) /\ IsOrdered(w)
    BY DEF OrderInv, HeardIsPast, EventsInOrder, IsPast, IsOrdered
  <2>2. ParkedHasNoEvent'
    BY <1>2, ParkedStaysEmpty DEF OrderInv
  <2>3. \A w \in Watchers : IsPast(w)' /\ IsOrdered(w)'
    <3>1. CASE \E n \in Notifiers, x \in Watchers : Send(n, x)
      <4>1. PICK n \in Notifiers, x \in Watchers : Send(n, x)
        BY <3>1
      <4>2. /\ Heard(x)' \in {Heard(x), Append(Heard(x), Published(n))}
            /\ \A w \in Watchers \ {x} : Heard(w)' = Heard(w)
        BY <4>1, SendAppends DEF OrderInv
      <4> QED
        BY <1>2, <2>1, <4>1, <4>2, HearingNothingKeepsOrder,
           HearingNextKeepsOrder DEF OrderInv
    <3>2. CASE ~ \E n \in Notifiers, x \in Watchers : Send(n, x)
      BY <1>2, <2>1, <3>2, HeardUnlessSent, HearingNothingKeepsOrder
         DEF OrderInv, IInv, TypeInv
    <3> QED
      BY <3>1, <3>2
  <2>4. HeardIsPast'
    BY <2>3 DEF HeardIsPast, IsPast
  <2>5. EventsInOrder'
    BY <2>3 DEF EventsInOrder, IsOrdered
  <2> QED
    BY <2>2, <2>4, <2>5 DEF OrderInv
<1> QED
  BY <1>1, <1>2

LEMMA OrderInit == Init => OrderInv
<1> SUFFICES ASSUME Init PROVE OrderInv
  OBVIOUS
<1>1. ParkedHasNoEvent
  BY DEF Init, ParkedHasNoEvent
<1>2. \A w \in Watchers : DOMAIN Heard(w) = {}
  <2>1. \A w \in Watchers : Heard(w) = << >>
    BY DEF Init, Heard
  <2> QED
    BY <2>1
<1> QED
  BY <1>1, <1>2, IInit DEF OrderInv, HeardIsPast, EventsInOrder

\* Every request hears each publisher's events in order and none twice, those
\* that share an ID included.
THEOREM EventsComeInOrder == Spec => []EventsInOrder
<1>1. OrderInv => EventsInOrder
  BY DEF OrderInv
<1> QED
  BY <1>1, InvariantHolds, OrderInit, OrderNext, PTL DEF Spec

----------------------------------------------------------------------------
(* Whom Notify reaches.  None of this needs IDs that differ.               *)

\* A namespace or a proper prefix of it, segment by segment, is a beginning of it.
LEMMA MatchingIsBeginning ==
    ASSUME NEW watched \in Seq(STRING), watched # << >>, watched # Wildcard,
           NEW ns \in Seq(STRING), ns # << >>
    PROVE  Matches(watched, ns) <=>
               \E k \in 1 .. Len(ns) : watched = SubSeq(ns, 1, k)
<1>1. Len(watched) \in Nat \ {0} /\ Len(ns) \in Nat \ {0}
  OBVIOUS
<1>2. SubSeq(ns, 1, Len(ns)) = ns
  OBVIOUS
<1>3. ASSUME Matches(watched, ns)
      PROVE  \E k \in 1 .. Len(ns) : watched = SubSeq(ns, 1, k)
  <2>1. CASE watched = ns
    <3>1. Len(ns) \in 1 .. Len(ns)
      BY <1>1
    <3>2. watched = SubSeq(ns, 1, Len(ns))
      BY <1>2, <2>1, Zenon
    <3> QED
      BY <3>1, <3>2, Zenon
  <2>2. CASE Len(watched) < Len(ns) /\ SubSeq(ns, 1, Len(watched)) = watched
    <3>1. Len(watched) \in 1 .. Len(ns)
      BY <1>1, <2>2
    <3> QED
      BY <2>2, <3>1, Zenon
  <2> QED
    BY <1>3, <2>1, <2>2, Zenon DEF Matches, IsUnder
<1>4. ASSUME NEW k \in 1 .. Len(ns), watched = SubSeq(ns, 1, k)
      PROVE  Matches(watched, ns)
  <2>1. Len(watched) = k
    BY <1>1, <1>4
  <2>2. CASE k = Len(ns)
    BY <1>2, <1>4, <2>2, Zenon DEF Matches
  <2>3. CASE k < Len(ns)
    <3>1. Len(watched) < Len(ns) /\ Len(watched) <= Len(ns)
      BY <1>1, <2>1, <2>3
    <3> QED
      BY <1>4, <2>1, <3>1, Zenon DEF Matches, IsUnder
  <2> QED
    BY <1>1, <2>2, <2>3
<1> QED
  BY <1>3, <1>4

\* The test of the code picks out the watchers that an event concerns.
LEMMA MatchingIsInterest ==
    ASSUME NEW w \in Watchers, NEW n \in Notifiers
    PROVE  Matches(WatchedNs[w], ChangedNs[n]) <=> IsInterested(w, ChangedNs[n])
<1>1. /\ WatchedNs[w] \in Seq(STRING) /\ WatchedNs[w] # << >>
      /\ ChangedNs[n] \in Seq(STRING) /\ ChangedNs[n] # << >>
  BY NamesAreSegmentPaths, Zenon
<1>2. CASE WatchedNs[w] = Wildcard
  BY <1>2, Zenon DEF Matches, IsInterested
<1>3. CASE WatchedNs[w] # Wildcard
  BY <1>1, <1>3, MatchingIsBeginning, Zenon DEF IsInterested
<1> QED
  BY <1>2, <1>3

\* An event put anywhere into a sequence: nothing else goes, nothing else comes.
Inserts(e, from, to) ==
    /\ Len(to) = Len(from) + 1
    /\ \E j \in DOMAIN to : to[j] = e
    /\ \A i \in DOMAIN from : \E j \in DOMAIN to : to[j] = from[i]
    /\ \A j \in DOMAIN to : to[j] = e \/ \E i \in DOMAIN from : to[j] = from[i]

LEMMA AppendInserts ==
    ASSUME NEW S, NEW s \in Seq(S), NEW t \in Seq(S), NEW e \in S
    PROVE  /\ Inserts(e, s \o t, s \o Append(t, e))
           /\ Inserts(e, s \o t, Append(s, e) \o t)
<1> DEFINE from == s \o t
           last == s \o Append(t, e)
           middle == Append(s, e) \o t
<1>1. /\ Len(s) \in Nat /\ Len(t) \in Nat
      /\ Len(from) = Len(s) + Len(t) /\ DOMAIN from = 1 .. Len(s) + Len(t)
      /\ \A i \in 1 .. Len(s) : from[i] = s[i]
      /\ \A i \in 1 .. Len(t) : from[Len(s) + i] = t[i]
  OBVIOUS
<1>2. /\ Len(last) = Len(s) + Len(t) + 1 /\ DOMAIN last = 1 .. Len(s) + Len(t) + 1
      /\ \A i \in 1 .. Len(s) : last[i] = s[i]
      /\ \A i \in 1 .. Len(t) : last[Len(s) + i] = t[i]
      /\ last[Len(s) + Len(t) + 1] = e
  OBVIOUS
<1>3. /\ Len(middle) = Len(s) + Len(t) + 1 /\ DOMAIN middle = 1 .. Len(s) + Len(t) + 1
      /\ \A i \in 1 .. Len(s) : middle[i] = s[i]
      /\ \A i \in 1 .. Len(t) : middle[Len(s) + 1 + i] = t[i]
      /\ middle[Len(s) + 1] = e
  OBVIOUS
<1> HIDE DEF from, last, middle
<1>4. \A i \in 1 .. Len(s) + Len(t) :
        i \in 1 .. Len(s) \/ \E k \in 1 .. Len(t) : i = Len(s) + k
  <2> SUFFICES ASSUME NEW i \in 1 .. Len(s) + Len(t), i \notin 1 .. Len(s)
               PROVE  \E k \in 1 .. Len(t) : i = Len(s) + k
    OBVIOUS
  <2>1. i - Len(s) \in 1 .. Len(t) /\ i = Len(s) + (i - Len(s))
    BY <1>1
  <2> QED
    BY <2>1
<1>5. Inserts(e, from, last)
  <2>1. \A i \in 1 .. Len(s) + Len(t) : last[i] = from[i]
    BY <1>1, <1>2, <1>4
  <2>2. \A j \in DOMAIN last : j \in DOMAIN from \/ j = Len(s) + Len(t) + 1
    <3>1. /\ Len(s) + Len(t) \in Nat
          /\ DOMAIN from = 1 .. Len(s) + Len(t)
          /\ DOMAIN last = 1 .. Len(s) + Len(t) + 1
      BY <1>1, <1>2
    <3> QED
      BY <3>1
  <2>3. \A i \in DOMAIN from : \E j \in DOMAIN last : last[j] = from[i]
    BY <1>1, <1>2, <2>1
  <2>4. \A j \in DOMAIN last :
          last[j] = e \/ \E i \in DOMAIN from : last[j] = from[i]
    BY <1>1, <1>2, <2>1, <2>2
  <2>5. \E j \in DOMAIN last : last[j] = e
    BY <1>1, <1>2
  <2> QED
    BY <1>1, <1>2, <2>3, <2>4, <2>5 DEF Inserts
<1>6. Inserts(e, from, middle)
  <2>1. \A i \in DOMAIN from : \E j \in DOMAIN middle : middle[j] = from[i]
    <3> SUFFICES ASSUME NEW i \in DOMAIN from
                 PROVE  \E j \in DOMAIN middle : middle[j] = from[i]
      OBVIOUS
    <3>1. CASE i \in 1 .. Len(s)
      BY <1>1, <1>3, <3>1
    <3>2. ASSUME NEW k \in 1 .. Len(t), i = Len(s) + k
          PROVE  middle[Len(s) + 1 + k] = from[i] /\ Len(s) + 1 + k \in DOMAIN middle
      BY <1>1, <1>3, <3>2
    <3> QED
      BY <1>1, <1>4, <3>1, <3>2
  <2>2. \A j \in DOMAIN middle :
          middle[j] = e \/ \E i \in DOMAIN from : middle[j] = from[i]
    <3> SUFFICES ASSUME NEW j \in DOMAIN middle, middle[j] # e
                 PROVE  \E i \in DOMAIN from : middle[j] = from[i]
      OBVIOUS
    <3>1. CASE j \in 1 .. Len(s)
      BY <1>1, <1>3, <3>1
    <3>2. CASE j \notin 1 .. Len(s)
      <4>1. j - Len(s) - 1 \in 1 .. Len(t) /\ j = Len(s) + 1 + (j - Len(s) - 1)
        BY <1>1, <1>3, <3>2
      <4>2. /\ Len(s) + (j - Len(s) - 1) \in DOMAIN from
            /\ from[Len(s) + (j - Len(s) - 1)] = middle[j]
        BY <1>1, <1>3, <4>1
      <4> QED
        BY <4>2
    <3> QED
      BY <3>1, <3>2
  <2> QED
    BY <1>1, <1>3, <2>1, <2>2 DEF Inserts
<1> QED
  BY <1>5, <1>6 DEF from, last, middle

\* A send adds its event to what the watcher has heard, in whatever state it is,
\* or finds the channel full and is recorded as missed.
LEMMA SendIsHeard ==
    ASSUME TypeInv, NEW n \in Notifiers, NEW w \in Watchers, Send(n, w)
    PROVE  /\ \/ Inserts(Published(n), Heard(w), Heard(w)')
              \/ Heard(w)' = Heard(w) /\ Published(n) \in missed'[w]
           /\ \A x \in Watchers \ {w} : Heard(x)' = Heard(x)
           /\ \A x \in Watchers : missed[x] \subseteq missed'[x]
<1>1. /\ delivered[w] \in Seq(Event) /\ buf[w] \in Seq(Event)
      /\ Published(n) \in Event
  BY HeardIsSequence, PublishedIsEvent DEF TypeInv, Send
<1>2. /\ delivered \in [Watchers -> Seq(Event)]
      /\ buf \in [Watchers -> Seq(Event)]
  BY DEF TypeInv, TypeOK
<1>3. /\ Inserts(Published(n), delivered[w] \o buf[w],
                 delivered[w] \o Append(buf[w], Published(n)))
      /\ Inserts(Published(n), delivered[w] \o buf[w],
                 Append(delivered[w], Published(n)) \o buf[w])
  BY <1>1, AppendInserts
<1>4. \A x \in Watchers : missed[x] \subseteq missed'[x]
  <2>1. missed' \in {missed, [missed EXCEPT ![w] = @ \cup {Published(n)}]}
    BY DEF Send
  <2> QED
    BY <2>1 DEF TypeInv, TypeOK
<1>5. CASE pc[w] = "parked" /\ chan[w] = "open"
  <2>1. /\ delivered' = [delivered EXCEPT ![w] = Append(@, Published(n))]
        /\ buf' = buf
    BY <1>5 DEF Send
  <2> QED
    BY <1>2, <1>3, <1>4, <2>1, Zenon DEF Heard
<1>6. CASE ~(pc[w] = "parked" /\ chan[w] = "open") /\ HasRoom(w)
  <2>1. /\ delivered' = delivered
        /\ buf' = [buf EXCEPT ![w] = Append(@, Published(n))]
    BY <1>6 DEF Send
  <2> QED
    BY <1>2, <1>3, <1>4, <2>1, Zenon DEF Heard
<1>7. CASE ~(pc[w] = "parked" /\ chan[w] = "open") /\ ~HasRoom(w)
  <2>1. delivered' = delivered /\ buf' = buf
    BY <1>7 DEF Send
  <2>2. Len(buf[w]) >= Capacity(w)
    BY <1>1, <1>7, WatchConstants DEF HasRoom, Capacity
  <2>3. missed' = [missed EXCEPT ![w] = @ \cup {Published(n)}]
    BY <1>7, <2>2 DEF Send
  <2> QED
    BY <1>4, <2>1, <2>3 DEF Heard, TypeInv, TypeOK
<1> QED
  BY <1>5, <1>6, <1>7

\* Whoever a Notify has yet to visit is concerned by its event.
VisitsTheInterested ==
    \A n \in Notifiers : \A w \in pending[n] : IsInterested(w, ChangedNs[n])

\* The two halves of NotifyReachesTheInterested.
HearsWhatConcernsIt(w) ==
    \A i \in DOMAIN Heard(w) : IsInterested(w, ChangedNs[Heard(w)[i].by])

IsReached(n, w) ==
    w \in registered \ pending[n] /\ IsInterested(w, ChangedNs[n]) =>
        \/ \E i \in DOMAIN Heard(w) : Heard(w)[i] = Published(n)
        \/ Published(n) \in missed[w]

ReachInv ==
    /\ TypeInv
    /\ VisitsTheInterested
    /\ \A w \in Watchers : HearsWhatConcernsIt(w)
    /\ \A n \in notifying : \A w \in Watchers : IsReached(n, w)

LEMMA ReachInit == Init => ReachInv
<1> SUFFICES ASSUME Init PROVE ReachInv
  OBVIOUS
<1>1. \A w \in Watchers : DOMAIN Heard(w) = {}
  <2>1. \A w \in Watchers : Heard(w) = << >>
    BY DEF Init, Heard
  <2> QED
    BY <2>1
<1>2. notifying = {} /\ \A n \in Notifiers : pending[n] = {}
  BY DEF Init
<1> QED
  BY <1>1, <1>2, TypeInit DEF ReachInv, VisitsTheInterested, HearsWhatConcernsIt

LEMMA ReachVisits == ReachInv /\ Next => VisitsTheInterested'
<1> SUFFICES ASSUME ReachInv, Next, NEW n \in Notifiers, NEW w \in pending'[n]
             PROVE  IsInterested(w, ChangedNs[n])
  BY DEF VisitsTheInterested, IsInterested
<1> USE DEF ReachInv, TypeInv, TypeOK
<1>1. CASE w \in pending[n]
  BY <1>1 DEF VisitsTheInterested
<1>2. CASE w \notin pending[n]
  <2>1. StartNotify(n)
    BY <1>2 DEF Next, Handler, Watch, Unwatch, CleanupWatcher, StartNotify, EndNotify,
         Send, TakeEvent, TakeClosed, TakeTimeout, Park, Cancel, Return, Tick, notifyVars
  <2>2. w \in Watchers /\ Matches(WatchedNs[w], ChangedNs[n])
    BY <2>1 DEF StartNotify
  <2> QED
    BY <2>2, MatchingIsInterest
<1> QED
  BY <1>1, <1>2

\* A send serves the watcher it visits and takes nothing from the others.
LEMMA ReachSend ==
    ASSUME ReachInv, NEW n \in Notifiers, NEW w \in Watchers, Send(n, w)
    PROVE  /\ \A x \in Watchers : HearsWhatConcernsIt(x)'
           /\ \A m \in notifying' : \A x \in Watchers : IsReached(m, x)'
<1>1. /\ TypeOK /\ w \in pending[n] /\ n \in notifying
      /\ UNCHANGED <<registered, published, notifying>>
      /\ pending' = [pending EXCEPT ![n] = @ \ {w}]
  BY DEF ReachInv, TypeInv, Send, managerVars
<1>2. /\ \/ Inserts(Published(n), Heard(w), Heard(w)')
         \/ Heard(w)' = Heard(w) /\ Published(n) \in missed'[w]
      /\ \A x \in Watchers \ {w} : Heard(x)' = Heard(x)
      /\ \A x \in Watchers : missed[x] \subseteq missed'[x]
  BY SendIsHeard DEF ReachInv
<1>3. IsInterested(w, ChangedNs[n]) /\ Published(n).by = n
  BY <1>1 DEF ReachInv, VisitsTheInterested, Published
<1>5. ASSUME NEW x \in Watchers, x # w
      PROVE  /\ HearsWhatConcernsIt(x)'
             /\ \A m \in notifying' : IsReached(m, x)'
  <2>1. Heard(x)' = Heard(x)
    BY <1>2, <1>5
  <2>2. HearsWhatConcernsIt(x)'
    BY <2>1 DEF ReachInv, HearsWhatConcernsIt, IsInterested
  <2>3. ASSUME NEW m \in notifying PROVE IsReached(m, x)'
    <3>1. x \in registered \ pending[m] <=> x \in registered' \ pending'[m]
      BY <1>1, <1>5, <2>3 DEF TypeOK
    <3>2. IsReached(m, x)
      BY <2>3 DEF ReachInv
    <3> QED
      BY <1>1, <1>2, <2>1, <3>1, <3>2 DEF IsReached, IsInterested, Published
  <2> QED
    BY <1>1, <2>2, <2>3
<1>6. CASE Heard(w)' = Heard(w) /\ Published(n) \in missed'[w]
  <2>1. HearsWhatConcernsIt(w)'
    BY <1>6 DEF ReachInv, HearsWhatConcernsIt, IsInterested
  <2>2. ASSUME NEW m \in notifying PROVE IsReached(m, w)'
    <3>1. CASE m = n
      BY <1>1, <1>6, <3>1 DEF IsReached, Published
    <3>2. CASE m # n
      <4>1. w \in registered \ pending[m] <=> w \in registered' \ pending'[m]
        BY <1>1, <2>2, <3>2 DEF TypeOK
      <4>2. IsReached(m, w)
        BY <1>1, <2>2 DEF ReachInv
      <4> QED
        BY <1>1, <1>2, <1>6, <4>1, <4>2 DEF IsReached, IsInterested, Published
    <3> QED
      BY <3>1, <3>2
  <2> QED
    BY <1>1, <1>5, <2>1, <2>2
<1>7. CASE Inserts(Published(n), Heard(w), Heard(w)')
  <2>1. HearsWhatConcernsIt(w)'
    BY <1>3, <1>7 DEF ReachInv, HearsWhatConcernsIt, IsInterested, Inserts
  <2>2. ASSUME NEW m \in notifying PROVE IsReached(m, w)'
    <3>1. CASE m = n
      BY <1>1, <1>7, <3>1 DEF IsReached, Inserts, Published
    <3>2. CASE m # n
      <4>1. w \in registered \ pending[m] <=> w \in registered' \ pending'[m]
        BY <1>1, <2>2, <3>2 DEF TypeOK
      <4>2. IsReached(m, w)
        BY <1>1, <2>2 DEF ReachInv
      <4>3. ASSUME NEW i \in DOMAIN Heard(w), Heard(w)[i] = Published(m)
            PROVE  \E j \in DOMAIN Heard(w)' : Heard(w)'[j] = Published(m)
        BY <1>7, <4>3 DEF Inserts
      <4> QED
        BY <1>1, <1>2, <4>1, <4>2, <4>3 DEF IsReached, IsInterested, Published
    <3> QED
      BY <3>1, <3>2
  <2> QED
    BY <1>1, <1>5, <2>1, <2>2
<1> QED
  BY <1>2, <1>6, <1>7

\* Nobody registers while a Notify runs, and a Notify that begins has everybody
\* it concerns still to visit.
LEMMA ReachUnlessSent ==
    ASSUME ReachInv, Next, ~ \E n \in Notifiers, w \in Watchers : Send(n, w)
    PROVE  /\ \A x \in Watchers : HearsWhatConcernsIt(x)'
           /\ \A m \in notifying' : \A x \in Watchers : IsReached(m, x)'
<1>1. TypeOK /\ \A x \in Watchers : Heard(x)' = Heard(x)
  BY HeardUnlessSent DEF ReachInv, TypeInv
<1>2. \A x \in Watchers : HearsWhatConcernsIt(x)'
  BY <1>1 DEF ReachInv, HearsWhatConcernsIt, IsInterested
<1> SUFFICES ASSUME NEW m \in notifying', NEW x \in Watchers PROVE IsReached(m, x)'
  BY <1>2
<1>3. CASE StartNotify(m)
  <2>1. m \in Notifiers
    BY TypeNext DEF ReachInv, TypeInv, TypeOK
  <2>2. /\ registered' = registered
        /\ pending'[m] = {w \in registered : Matches(WatchedNs[w], ChangedNs[m])}
    BY <1>1, <1>3, <2>1 DEF StartNotify, TypeOK, managerVars
  <2>3. x \in registered /\ IsInterested(x, ChangedNs[m]) => x \in pending'[m]
    BY <2>1, <2>2, MatchingIsInterest
  <2> QED
    BY <2>2, <2>3 DEF IsReached, IsInterested
<1>4. CASE ~StartNotify(m)
  <2>1. /\ m \in notifying /\ published'[m] = published[m] /\ pending'[m] = pending[m]
        /\ registered' \subseteq registered
    BY <1>1, <1>4 DEF Next, Handler, Watch, Unwatch, CleanupWatcher, StartNotify,
         EndNotify, TakeEvent, TakeClosed, TakeTimeout, Park, Cancel, Return, Tick,
         notifyVars, managerVars, CanLock, TypeOK
  <2>2. IsReached(m, x)
    BY <2>1 DEF ReachInv
  <2>3. missed' = missed
    BY DEF Next, Handler, Watch, Unwatch, CleanupWatcher, StartNotify, EndNotify,
         TakeEvent, TakeClosed, TakeTimeout, Park, Cancel, Return, Tick
  <2> QED
    BY <1>1, <2>1, <2>2, <2>3 DEF IsReached, IsInterested, Published
<1> QED
  BY <1>3, <1>4

LEMMA ReachNext == ReachInv /\ [Next]_vars => ReachInv'
<1> SUFFICES ASSUME ReachInv, [Next]_vars PROVE ReachInv'
  OBVIOUS
<1>1. TypeInv'
  BY TypeNext DEF ReachInv
<1>2. CASE Next
  <2>1. VisitsTheInterested'
    BY <1>2, ReachVisits
  <2>2. /\ \A x \in Watchers : HearsWhatConcernsIt(x)'
        /\ \A m \in notifying' : \A x \in Watchers : IsReached(m, x)'
    BY <1>2, ReachSend, ReachUnlessSent
  <2> QED
    BY <1>1, <2>1, <2>2 DEF ReachInv
<1>3. CASE UNCHANGED vars
  <2>1. /\ UNCHANGED <<registered, pending, notifying, published, missed>>
        /\ \A w \in Watchers : Heard(w)' = Heard(w)
    BY <1>3 DEF vars, managerVars, handlerVars, notifyVars, Heard
  <2>2. VisitsTheInterested' /\ \A w \in Watchers : HearsWhatConcernsIt(w)'
    BY <2>1 DEF ReachInv, VisitsTheInterested, HearsWhatConcernsIt, IsInterested
  <2>3. \A n \in notifying' : \A w \in Watchers : IsReached(n, w)'
    BY <2>1 DEF ReachInv, IsReached, IsInterested, Published
  <2> QED
    BY <1>1, <2>2, <2>3 DEF ReachInv
<1> QED
  BY <1>2, <1>3

\* Whatever IDs the watchers have, shared ones included, Notify reaches every
\* registered watcher its event concerns and no other, and drops an event
\* only for a watcher whose channel is full when it visits it.
THEOREM NotifyMissesNobody == Spec => []NotifyReachesTheInterested
<1>1. ReachInv => NotifyReachesTheInterested
  BY DEF ReachInv, HearsWhatConcernsIt, IsReached, NotifyReachesTheInterested, TypeInv,
     TypeOK
<1> QED
  BY <1>1, ReachInit, ReachNext, PTL DEF Spec
============================================================================
