---------------------------- MODULE WatchManager ----------------------------
(***************************************************************************)
(* internal/watch/watch.go and the two handlers that use it,               *)
(* handleWatchLongPoll and handleWatchSSE.                                 *)
(*                                                                         *)
(* A watch request registers a watcher (a buffered channel under an ID),   *)
(* waits on the channel and on its context, and unregisters.  For every    *)
(* watcher a cleanup goroutine waits for the context too, and closes the   *)
(* channel if it still finds the ID in the map.  Notify holds the lock for *)
(* reading and visits the watchers one by one in the map's random order;   *)
(* everything that changes the map holds it for writing.                   *)
(***************************************************************************)
EXTENDS Paths, FiniteSets

CONSTANTS
    Watchers,       \* watch requests; each registers one watcher
    Streams,        \* those that ask for SSE; the others long-poll
    WatchedNs,      \* the namespace each of them watches
    Notifiers,      \* goroutines that publish changes
    ChangedNs,      \* the namespace each of these changes
    Changes,        \* how many events each of these publishes
    LongPollBuffer, \* channel capacities: 10 and 100 in the handlers
    StreamBuffer,
    StartCounter,   \* watcherCounter when the model starts
    MaxSecond       \* bound on the clock of the watcher IDs

ASSUME WatchConstants ==
    /\ Streams \subseteq Watchers
    /\ {LongPollBuffer, StreamBuffer} \subseteq Nat
    /\ StartCounter \in Nat
    /\ MaxSecond \in Nat
    /\ Changes \in [Notifiers -> Nat]

\* Every string has a first segment, be it empty.
ASSUME NamesAreSegmentPaths ==
    /\ \A w \in Watchers : WatchedNs[w] \in Seq(STRING) \ {<< >>}
    /\ \A n \in Notifiers : ChangedNs[n] \in Seq(STRING) \ {<< >>}

VARIABLES
    counter,        \* watcherCounter
    second,         \* wall-clock seconds
    registered,     \* the watchers in Manager.watchers
    id,             \* the ID of each watcher, << >> before it has one
    chan,           \* its Events channel: "none", "open" or "closed"
    buf,            \* what the channel holds
    watcherDone,    \* whether the watcher's context is done
    cleaner,        \* its cleanup goroutine: "none", "waiting" or "gone"
    pc,             \* where the request's handler is
    ctxDone,        \* whether the handler's context is done
    delivered,      \* the events the handler has answered or streamed
    answer,         \* what a long poll answered
    published,      \* how many events each notifier has published
    pending,        \* the watchers a running Notify has yet to visit
    notifying,      \* the notifiers that hold the read lock
    missed,         \* history: the events that found a watcher's channel full
    panicked        \* a channel was closed twice, or sent to when closed

managerVars == <<counter, registered, id, chan, watcherDone, cleaner>>
handlerVars == <<pc, ctxDone, delivered, answer>>
notifyVars == <<published, pending, notifying>>
vars == <<managerVars, buf, handlerVars, notifyVars, missed, second, panicked>>

----------------------------------------------------------------------------
Event == [by : Notifiers, nr : Nat \ {0}]

Capacity(w) == IF w \in Streams THEN StreamBuffer ELSE LongPollBuffer

\* string(rune(n)): what is no code point, or a surrogate, becomes U+FFFD.
\* (Below 2^31: the conversion to a 32-bit rune keeps n.)
RuneOf(n) == IF n \in 55296 .. 57343 \/ n > 1114111 THEN 65533 ELSE n

\* generateWatcherID
GenerateWatcherID == <<second, RuneOf(counter')>>

\* Manager.watchers[i]: no watcher or one.
Lookup(i) == {w \in registered : id[w] = i}

TypeOK ==
    /\ counter \in Nat
    /\ second \in 0 .. MaxSecond
    /\ registered \subseteq Watchers
    /\ id \in [Watchers -> {<< >>} \cup (Nat \X Nat)]
    /\ chan \in [Watchers -> {"none", "open", "closed"}]
    /\ buf \in [Watchers -> Seq(Event)]
    /\ watcherDone \in [Watchers -> BOOLEAN]
    /\ cleaner \in [Watchers -> {"none", "waiting", "gone"}]
    /\ pc \in [Watchers ->
                 {"new", "select", "parked", "unwatch", "cancel", "done"}]
    /\ ctxDone \in [Watchers -> BOOLEAN]
    /\ delivered \in [Watchers -> Seq(Event)]
    /\ answer \in [Watchers -> {"none", "event", "timeout", "zero"}]
    /\ published \in [Notifiers -> Nat]
    /\ pending \in [Notifiers -> SUBSET Watchers]
    /\ notifying \subseteq Notifiers
    /\ missed \in [Watchers -> SUBSET Event]
    /\ panicked \in BOOLEAN

Init ==
    /\ counter = StartCounter
    /\ second = 0
    /\ registered = {}
    /\ id = [w \in Watchers |-> << >>]
    /\ chan = [w \in Watchers |-> "none"]
    /\ buf = [w \in Watchers |-> << >>]
    /\ watcherDone = [w \in Watchers |-> FALSE]
    /\ cleaner = [w \in Watchers |-> "none"]
    /\ pc = [w \in Watchers |-> "new"]
    /\ ctxDone = [w \in Watchers |-> FALSE]
    /\ delivered = [w \in Watchers |-> << >>]
    /\ answer = [w \in Watchers |-> "none"]
    /\ published = [n \in Notifiers |-> 0]
    /\ pending = [n \in Notifiers |-> {}]
    /\ notifying = {}
    /\ missed = [w \in Watchers |-> {}]
    /\ panicked = FALSE

\* The write lock waits for the readers to leave.
CanLock == notifying = {}

----------------------------------------------------------------------------
(* The manager.                                                            *)

\* Watch, called by the handler of request w.  An ID already in the map is
\* overwritten.  The request's context may be done by now (timeout=0s).
Watch(w) ==
    /\ pc[w] = "new"
    /\ CanLock
    /\ counter' = counter + 1
    /\ id' = [id EXCEPT ![w] = GenerateWatcherID]
    /\ registered' = (registered \ Lookup(GenerateWatcherID)) \cup {w}
    /\ chan' = [chan EXCEPT ![w] = "open"]
    /\ cleaner' = [cleaner EXCEPT ![w] = "waiting"]
    /\ watcherDone' = [watcherDone EXCEPT ![w] = ctxDone[w]]
    /\ pc' = [pc EXCEPT ![w] = "select"]
    /\ UNCHANGED <<buf, ctxDone, delivered, answer, notifyVars, missed, second, panicked>>

\* close(watcher.Events)
Close(w) ==
    /\ chan' = [chan EXCEPT ![w] = "closed"]
    /\ panicked' = (panicked \/ chan[w] = "closed")

\* Mutant: Unwatch leaves the entry to the cleanup goroutine.
UnwatchWithoutDelete(w) ==
    /\ pc[w] = "unwatch"
    /\ CanLock
    /\ IF Lookup(id[w]) = {}
       THEN UNCHANGED <<watcherDone, chan, panicked>>
       ELSE \E x \in Lookup(id[w]) :
              /\ watcherDone' = [watcherDone EXCEPT ![x] = TRUE]
              /\ Close(x)
    /\ pc' = [pc EXCEPT ![w] = "cancel"]
    /\ UNCHANGED <<counter, registered, id, cleaner, buf, ctxDone, delivered,
                   answer, notifyVars, missed, second>>

\* Unwatch(watcher.ID), deferred by both handlers: whatever the ID finds.
Unwatch(w) ==
    /\ pc[w] = "unwatch"
    /\ CanLock
    /\ IF Lookup(id[w]) = {}
       THEN UNCHANGED <<watcherDone, chan, panicked>>
       ELSE \E x \in Lookup(id[w]) :
              /\ watcherDone' = [watcherDone EXCEPT ![x] = TRUE]
              /\ Close(x)
    /\ registered' = registered \ Lookup(id[w])
    /\ pc' = [pc EXCEPT ![w] = "cancel"]
    /\ UNCHANGED <<counter, id, cleaner, buf, ctxDone, delivered, answer,
                   notifyVars, missed, second>>

\* Mutant: the cleanup goroutine does not look the ID up.
CleanupAlways(w) ==
    /\ cleaner[w] = "waiting"
    /\ watcherDone[w]
    /\ CanLock
    /\ Close(w)
    /\ registered' = registered \ Lookup(id[w])
    /\ cleaner' = [cleaner EXCEPT ![w] = "gone"]
    /\ UNCHANGED <<counter, id, watcherDone, buf, handlerVars, notifyVars, missed, second>>

\* cleanupWatcher, once the watcher's context is done: it looks the ID up, and
\* closes its own watcher's channel.
CleanupWatcher(w) ==
    /\ cleaner[w] = "waiting"
    /\ watcherDone[w]
    /\ CanLock
    /\ IF Lookup(id[w]) = {} THEN UNCHANGED <<chan, panicked>> ELSE Close(w)
    /\ registered' = registered \ Lookup(id[w])
    /\ cleaner' = [cleaner EXCEPT ![w] = "gone"]
    /\ UNCHANGED <<counter, id, watcherDone, buf, handlerVars, notifyVars, missed, second>>

----------------------------------------------------------------------------
(* Notify: read lock, one send per matching watcher, unlock.               *)

StartNotify(n) ==
    /\ n \notin notifying
    /\ published[n] < Changes[n]
    /\ notifying' = notifying \cup {n}
    /\ published' = [published EXCEPT ![n] = @ + 1]
    /\ pending' = [pending EXCEPT ![n] =
                      {w \in registered : Matches(WatchedNs[w], ChangedNs[n])}]
    /\ UNCHANGED <<managerVars, buf, handlerVars, missed, second, panicked>>

\* The event a running Notify is about.
Published(n) == [by |-> n, nr |-> published[n]]

\* Mutant: the last place of the buffer is never used.
HasRoomForTwo(w) == Len(buf[w]) + 1 < Capacity(w)

HasRoom(w) == Len(buf[w]) < Capacity(w)

\* Mutant: the select in Notify has no default, so a full channel blocks it.
BlockingSend(n, w) ==
    /\ n \in notifying
    /\ w \in pending[n]
    /\ pending' = [pending EXCEPT ![n] = @ \ {w}]
    /\ panicked' = (panicked \/ chan[w] = "closed")
    /\ IF pc[w] = "parked" /\ chan[w] = "open"
       THEN /\ delivered' = [delivered EXCEPT ![w] = Append(@, Published(n))]
            /\ answer' = [answer EXCEPT ![w] = "event"]
            /\ pc' = [pc EXCEPT ![w] =
                         IF w \in Streams THEN "select" ELSE "unwatch"]
            /\ UNCHANGED buf
       ELSE /\ HasRoom(w)
            /\ buf' = [buf EXCEPT ![w] = Append(@, Published(n))]
            /\ UNCHANGED <<delivered, answer, pc>>
    /\ UNCHANGED <<managerVars, ctxDone, published, notifying, missed, second>>

\* A handler parked in its select is handed the event; otherwise it is buffered,
\* and dropped when the buffer is full.
Send(n, w) ==
    /\ n \in notifying
    /\ w \in pending[n]
    /\ pending' = [pending EXCEPT ![n] = @ \ {w}]
    /\ panicked' = (panicked \/ chan[w] = "closed")
    /\ IF pc[w] = "parked" /\ chan[w] = "open"
       THEN /\ delivered' = [delivered EXCEPT ![w] = Append(@, Published(n))]
            /\ answer' = [answer EXCEPT ![w] = "event"]
            /\ pc' = [pc EXCEPT ![w] =
                         IF w \in Streams THEN "select" ELSE "unwatch"]
            /\ UNCHANGED <<buf, missed>>
       ELSE /\ buf' = IF HasRoom(w)
                      THEN [buf EXCEPT ![w] = Append(@, Published(n))]
                      ELSE buf
            /\ missed' = IF Len(buf[w]) >= Capacity(w)
                         THEN [missed EXCEPT ![w] = @ \cup {Published(n)}]
                         ELSE missed
            /\ UNCHANGED <<delivered, answer, pc>>
    /\ UNCHANGED <<managerVars, ctxDone, published, notifying, second>>

EndNotify(n) ==
    /\ n \in notifying
    /\ pending[n] = {}
    /\ notifying' = notifying \ {n}
    /\ UNCHANGED <<managerVars, buf, handlerVars, published, pending, missed,
                   second, panicked>>

----------------------------------------------------------------------------
(* The handlers.                                                           *)

\* Mutant: a stream takes the newest buffered event.
TakeNewest(w) ==
    /\ pc[w] = "select"
    /\ buf[w] # << >>
    /\ delivered' = [delivered EXCEPT ![w] = Append(@, buf[w][Len(buf[w])])]
    /\ buf' = [buf EXCEPT ![w] = SubSeq(@, 1, Len(@) - 1)]
    /\ answer' = [answer EXCEPT ![w] = "event"]
    /\ pc' = [pc EXCEPT ![w] = IF w \in Streams THEN "select" ELSE "unwatch"]
    /\ UNCHANGED <<managerVars, ctxDone, notifyVars, missed, second, panicked>>

\* The select finds a buffered event (even in a channel closed since).
TakeEvent(w) ==
    /\ pc[w] = "select"
    /\ buf[w] # << >>
    /\ delivered' = [delivered EXCEPT ![w] = Append(@, Head(buf[w]))]
    /\ buf' = [buf EXCEPT ![w] = Tail(@)]
    /\ answer' = [answer EXCEPT ![w] = "event"]
    /\ pc' = [pc EXCEPT ![w] = IF w \in Streams THEN "select" ELSE "unwatch"]
    /\ UNCHANGED <<managerVars, ctxDone, notifyVars, missed, second, panicked>>

\* The select finds the channel closed and empty (or is woken by the close): a
\* stream returns, a long poll takes the zero Event for an event.
TakeClosed(w) ==
    /\ pc[w] \in {"select", "parked"}
    /\ chan[w] = "closed"
    /\ buf[w] = << >>
    /\ answer' = [answer EXCEPT ![w] =
                     IF w \in Streams THEN @ ELSE "zero"]
    /\ pc' = [pc EXCEPT ![w] = "unwatch"]
    /\ UNCHANGED <<managerVars, buf, ctxDone, delivered, notifyVars, missed, second,
                   panicked>>

\* The select finds the context done.
TakeTimeout(w) ==
    /\ pc[w] = "select"
    /\ ctxDone[w]
    /\ answer' = [answer EXCEPT ![w] = "timeout"]
    /\ pc' = [pc EXCEPT ![w] = "unwatch"]
    /\ UNCHANGED <<managerVars, buf, ctxDone, delivered, notifyVars, missed, second,
                   panicked>>

\* The select finds nothing ready.
Park(w) ==
    /\ pc[w] = "select"
    /\ chan[w] = "open" /\ buf[w] = << >> /\ ~ctxDone[w]
    /\ pc' = [pc EXCEPT ![w] = "parked"]
    /\ UNCHANGED <<managerVars, buf, ctxDone, delivered, answer, notifyVars, missed,
                   second, panicked>>

\* The deadline passes or the client goes away.  The context wakes its own
\* waiters (a parked handler) before it cancels the watcher's child context.
Cancel(w) ==
    /\ pc[w] # "done"
    /\ ~ctxDone[w]
    /\ ctxDone' = [ctxDone EXCEPT ![w] = TRUE]
    /\ watcherDone' = [watcherDone EXCEPT ![w] = @ \/ pc[w] # "new"]
    /\ IF pc[w] = "parked" /\ chan[w] = "open"
       THEN /\ pc' = [pc EXCEPT ![w] = "unwatch"]
            /\ answer' = [answer EXCEPT ![w] = "timeout"]
       ELSE UNCHANGED <<pc, answer>>
    /\ UNCHANGED <<counter, registered, id, chan, cleaner, buf, delivered,
                   notifyVars, missed, second, panicked>>

\* The deferred cancel of a long poll, the end of the request for a stream.
Return(w) ==
    /\ pc[w] = "cancel"
    /\ pc' = [pc EXCEPT ![w] = "done"]
    /\ ctxDone' = [ctxDone EXCEPT ![w] = TRUE]
    /\ watcherDone' = [watcherDone EXCEPT ![w] = TRUE]
    /\ UNCHANGED <<counter, registered, id, chan, cleaner, buf, delivered,
                   answer, notifyVars, missed, second, panicked>>

Tick ==
    /\ second < MaxSecond
    /\ second' = second + 1
    /\ UNCHANGED <<managerVars, buf, handlerVars, notifyVars, missed, panicked>>

----------------------------------------------------------------------------
\* What the handler of w does next by itself.
Handler(w) ==
    \/ Watch(w) \/ TakeEvent(w) \/ TakeClosed(w) \/ TakeTimeout(w) \/ Park(w)
    \/ Unwatch(w) \/ Return(w)

Next ==
    \/ Tick
    \/ \E w \in Watchers : Handler(w) \/ Cancel(w) \/ CleanupWatcher(w)
    \/ \E n \in Notifiers :
         \/ StartNotify(n) \/ EndNotify(n)
         \/ \E w \in Watchers : Send(n, w)

Spec == Init /\ [][Next]_vars

\* Goroutines that can run do run.  Nobody has to publish, to go away or to let
\* a second pass.  (Changes bounds the publications, so weak fairness lets the
\* write lock in; in the program it is RWMutex that holds new readers back.)
FairSpec ==
    /\ Spec
    /\ \A w \in Watchers : WF_vars(Handler(w)) /\ WF_vars(CleanupWatcher(w))
    /\ \A n \in Notifiers : WF_vars(EndNotify(n) \/ \E w \in Watchers : Send(n, w))

----------------------------------------------------------------------------
(* Properties.                                                             *)

\* What has reached a request: the events it took, then those it can take.
Heard(w) == delivered[w] \o buf[w]

\* Whom the watch API says an event concerns: those who watch "*", the
\* namespace itself or one it is nested in.
IsInterested(w, ns) ==
    \/ WatchedNs[w] = Wildcard
    \/ \E k \in 1 .. Len(ns) : WatchedNs[w] = SubSeq(ns, 1, k)

\* watch.go:165: "generateWatcherID generates a unique ID for a watcher".  It does
\* not: from 55296 on, 2048 counts in a row give the same rune, as all above
\* 0x10FFFF do, and what is registered in one second then has one ID.
SharesID(w) ==
    \E x \in Watchers \ {w} : id[x] = id[w] /\ id[w] # << >>

\* No channel is closed twice and none is sent to after its closing, whichever
\* of the deferred Unwatch and the cleanup goroutine comes first.  (A panic in
\* a goroutine of the manager ends the server.)  It takes a shared ID to make the
\* cleanup goroutine of a watcher that is gone find an entry; none other panics.
NoPanic == panicked => \E w \in Watchers : SharesID(w)

\* An entry of the map never outlives its channel, and a request that waits and
\* was not cancelled is in the map with an open channel: no other request's
\* Unwatch or cleanup has taken either away, but for one that has the same ID.
WaitersAreRegistered ==
    /\ \A w \in registered : chan[w] = "open"
    /\ \A w \in Watchers :
         pc[w] \in {"select", "parked"} /\ ~ctxDone[w] =>
             w \in registered \/ SharesID(w)

\* A request hears the events of one publisher in the order of publication and
\* none twice, whether they were buffered or handed over.
EventsInOrder ==
    \A w \in Watchers : \A i, j \in DOMAIN Heard(w) :
        i < j /\ Heard(w)[i].by = Heard(w)[j].by => Heard(w)[i].nr < Heard(w)[j].nr

\* Notify reaches every registered watcher the event concerns and no other; it
\* drops an event only for a watcher whose channel it finds full.
NotifyReachesTheInterested ==
    /\ \A w \in Watchers : \A i \in DOMAIN Heard(w) :
         IsInterested(w, ChangedNs[Heard(w)[i].by])
    /\ \A n \in notifying : \A w \in registered \ pending[n] :
         IsInterested(w, ChangedNs[n]) =>
             \/ \E i \in DOMAIN Heard(w) : Heard(w)[i] = Published(n)
             \/ Published(n) \in missed[w]

\* A request whose context ends lets go of everything: its handler returns and
\* its cleanup goroutine ends, however many events arrive meanwhile.
HandlersEnd ==
    \A w \in Watchers :
        ctxDone[w] ~> pc[w] = "done" /\ cleaner[w] = "gone"

\* A publisher gets through Notify even when nobody empties the channels
\* (watch.go:90, "prevents blocking").
NotifyNeverBlocks ==
    \A n \in Notifiers : n \in notifying ~> n \notin notifying
============================================================================
