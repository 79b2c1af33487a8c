---------------------------- MODULE StreamClient ----------------------------
(***************************************************************************)
(* One event stream from end to end: handleWatchSSE and its watcher, the   *)
(* connection, and the client's WatchStream with the goroutine that reads  *)
(* the connection for the application.                                     *)
(*                                                                         *)
(* Everything in between is bounded (the watcher's channel, the buffers of *)
(* the connection, the client's channel), so an application that does not  *)
(* receive holds up the reader, then the handler.  The server's            *)
(* WriteTimeout runs from the start of the request: once it has passed,    *)
(* the next write fails, its event is lost, and the failure cancels the    *)
(* request; the cleanup goroutine may then take the watcher away while the *)
(* handler is still busy.  WatchManager has what many watchers do.         *)
(***************************************************************************)
EXTENDS Naturals, SequencesExt

CONSTANTS
    MaxEvents,      \* bound on the changes published
    QueueCapacity,  \* the watcher's channel: 100 in the code
    WireCapacity,   \* events the connection's buffers hold
    ChanCapacity,   \* the client's channel: 10 in the code
    LongEvents      \* the changes whose line is too long for the scanner

ASSUME StreamConstants ==
    /\ MaxEvents \in Nat
    /\ {QueueCapacity, WireCapacity, ChanCapacity} \subseteq Nat \ {0}
    /\ LongEvents \subseteq 1 .. MaxEvents

VARIABLES
    published,  \* how many changes the server has published
    accepted,   \* those that the watcher's channel took, in order
    queue,      \* what the watcher's channel holds
    watcher,    \* the watcher: "none" yet, "open" (in the map), "closed" (taken out)
    handler,    \* where the handler is
    hand,       \* the event it writes
    deadline,   \* whether the write deadline has passed
    ctxDone,    \* whether the request's context is done
    broken,     \* whether the connection is closed or lost
    wire,       \* what the client has yet to read of the connection
    reader,     \* where the client's goroutine is; "gone": events is closed
    held,       \* the event it sends
    chan,       \* the client's channel, events
    app,        \* what the application does
    received    \* what it has received

server == <<published, accepted, queue, watcher, handler, hand, deadline, ctxDone>>
client == <<reader, held, chan, app, received>>
vars == <<server, broken, wire, client>>

Connected == 0      \* the event a stream begins with
Event == {Connected} \cup 1 .. MaxEvents

TypeOK ==
    /\ published \in 0 .. MaxEvents
    /\ accepted \in Seq(1 .. MaxEvents)
    /\ queue \in Seq(1 .. MaxEvents) /\ Len(queue) <= QueueCapacity
    /\ watcher \in {"none", "open", "closed"}
    /\ handler \in {"headers", "write", "select", "unwatch", "done"}
    /\ hand \in Event /\ held \in Event
    /\ deadline \in BOOLEAN /\ ctxDone \in BOOLEAN /\ broken \in BOOLEAN
    /\ wire \in Seq(Event) /\ Len(wire) <= WireCapacity
    /\ reader \in {"scan", "send", "gone"}
    /\ chan \in Seq(Event) /\ Len(chan) <= ChanCapacity
    /\ app \in {"receiving", "idle", "closing", "closed"}
    /\ received \in Seq(Event)

\* The client has the response's header; the handler has flushed it.
Init ==
    /\ published = 0
    /\ accepted = << >>
    /\ queue = << >>
    /\ watcher = "none"
    /\ handler = "headers"
    /\ hand = Connected
    /\ deadline = FALSE
    /\ ctxDone = FALSE
    /\ broken = FALSE
    /\ wire = << >>
    /\ reader = "scan"
    /\ held = Connected
    /\ chan = << >>
    /\ app = "receiving"
    /\ received = << >>

\* The closeFn of WatchStream closes done, then the body.
done == app \in {"closing", "closed"}

----------------------------------------------------------------------------
(* The server.                                                             *)

\* From Watch to the first of the deferred Unwatch and the cleanup goroutine.
Registered == watcher = "open"

\* A change is committed and Notify visits the watcher, if there is one.
Publish ==
    /\ published < MaxEvents
    /\ published' = published + 1
    /\ IF Registered /\ Len(queue) < QueueCapacity
       THEN /\ queue' = Append(queue, published')
            /\ accepted' = Append(accepted, published')
       ELSE UNCHANGED <<queue, accepted>>
    /\ UNCHANGED <<watcher, handler, hand, deadline, ctxDone, broken, wire, client>>

\* Mutant: Watch is called only when the first event has been written.
WatchLate ==
    /\ \/ handler = "headers" /\ handler' = "write" /\ UNCHANGED watcher
       \/ handler = "select" /\ watcher = "none" /\ watcher' = "open" /\ UNCHANGED handler
    /\ UNCHANGED <<published, accepted, queue, hand, deadline, ctxDone, broken, wire,
                   client>>

\* The header is out: Watch, and on to the first event.
Watch ==
    /\ handler = "headers"
    /\ watcher' = "open"
    /\ handler' = "write"
    /\ hand' = Connected
    /\ UNCHANGED <<published, accepted, queue, deadline, ctxDone, broken, wire,
                   client>>

\* writeSSEEvent and Flush, while the connection takes it.
WriteEvent ==
    /\ handler = "write"
    /\ ~deadline /\ ~broken /\ ~ctxDone
    /\ Len(wire) < WireCapacity
    /\ wire' = Append(wire, hand)
    /\ handler' = "select"
    /\ UNCHANGED <<published, accepted, queue, watcher, hand, deadline, ctxDone, broken,
                   client>>

\* The write fails, which is logged; net/http cancels the request.  If part of
\* the event was written before, the scanner waits in vain for its empty line.
WriteFails ==
    /\ handler = "write"
    /\ deadline \/ broken \/ ctxDone
    /\ ctxDone' = TRUE
    /\ handler' = "select"
    /\ UNCHANGED <<published, accepted, queue, watcher, hand, deadline, broken, wire,
                   client>>

\* The select finds an event, also when the context is done.
TakeEvent ==
    /\ handler = "select"
    /\ queue # << >>
    /\ hand' = Head(queue)
    /\ queue' = Tail(queue)
    /\ handler' = "write"
    /\ UNCHANGED <<published, accepted, watcher, deadline, ctxDone, broken, wire, client>>

\* The select finds the context done.
TakeDone ==
    /\ handler = "select"
    /\ ctxDone
    /\ handler' = "unwatch"
    /\ UNCHANGED <<published, accepted, queue, watcher, hand, deadline, ctxDone, broken,
                   wire, client>>

\* The select finds the channel closed and empty.
TakeClosed ==
    /\ handler = "select"
    /\ watcher = "closed"
    /\ queue = << >>
    /\ handler' = "unwatch"
    /\ UNCHANGED <<published, accepted, queue, watcher, hand, deadline, ctxDone, broken,
                   wire, client>>

\* The deferred Unwatch; then the handler has returned and net/http closes the
\* connection.  What is on its way still arrives.
Unwatch ==
    /\ handler = "unwatch"
    /\ watcher' = "closed"
    /\ handler' = "done"
    /\ broken' = TRUE
    /\ UNCHANGED <<published, accepted, queue, hand, deadline, ctxDone, wire, client>>

\* cleanupWatcher: the watcher's context ends with the request's, wherever the
\* handler is.  What the channel holds can still be taken.
CleanupWatcher ==
    /\ watcher = "open"
    /\ ctxDone
    /\ watcher' = "closed"
    /\ UNCHANGED <<published, accepted, queue, handler, hand, deadline, ctxDone, broken,
                   wire, client>>

\* Mutant: the server has no WriteTimeout.
NoDeadline == deadline /\ UNCHANGED vars

\* WriteTimeout passes.
Deadline ==
    /\ ~deadline
    /\ deadline' = TRUE
    /\ UNCHANGED <<published, accepted, queue, watcher, handler, hand, ctxDone, broken, wire,
                   client>>

\* The connection is lost, with some of what is on its way.
Break ==
    /\ ~broken
    /\ broken' = TRUE
    /\ \E n \in 0 .. Len(wire) : wire' = SubSeq(wire, 1, n)
    /\ UNCHANGED <<server, client>>

\* net/http's background read finds the connection closed or lost.
NoticeBreak ==
    /\ broken
    /\ ~ctxDone
    /\ ctxDone' = TRUE
    /\ UNCHANGED <<published, accepted, queue, watcher, handler, hand, deadline, broken, wire,
                   client>>

----------------------------------------------------------------------------
(* The client.                                                             *)

\* The scanner reaches the empty line after an event.
ScanEvent ==
    /\ reader = "scan"
    /\ wire # << >>
    /\ Head(wire) \in Event \ LongEvents
    /\ held' = Head(wire)
    /\ wire' = Tail(wire)
    /\ reader' = "send"
    /\ UNCHANGED <<server, broken, chan, app, received>>

\* Mutant: only the application can end the reader.
ScanEndIfClosed ==
    /\ reader = "scan"
    /\ app = "closed"
    /\ reader' = "gone"
    /\ broken' = TRUE
    /\ UNCHANGED <<server, wire, held, chan, app, received>>

\* The scanner stops: the connection has ended (part of an event is dropped), its
\* line is too long, or the application has closed the body.  (Lines read before
\* that may still be scanned.)  The goroutine closes the channel and the body.
ScanEnd ==
    /\ reader = "scan"
    /\ \/ broken /\ wire = << >>
       \/ wire # << >> /\ Head(wire) \in LongEvents
       \/ app = "closed"
    /\ reader' = "gone"
    /\ broken' = TRUE
    /\ UNCHANGED <<server, wire, held, chan, app, received>>

\* Mutant: a full channel does not hold the reader up.
SendOrDrop ==
    /\ reader = "send"
    /\ chan' = IF Len(chan) < ChanCapacity THEN Append(chan, held) ELSE chan
    /\ reader' = "scan"
    /\ UNCHANGED <<server, broken, wire, held, app, received>>

\* The select in the goroutine sends the event.
Send ==
    /\ reader = "send"
    /\ Len(chan) < ChanCapacity
    /\ chan' = Append(chan, held)
    /\ reader' = "scan"
    /\ UNCHANGED <<server, broken, wire, held, app, received>>

\* Mutant: done is looked at before the send, and not while it waits.
SendDoneFirst ==
    /\ reader = "send"
    /\ done
    /\ Len(chan) < ChanCapacity
    /\ reader' = "gone"
    /\ broken' = TRUE
    /\ UNCHANGED <<server, wire, held, chan, app, received>>

\* The select finds done closed.
SendDone ==
    /\ reader = "send"
    /\ done
    /\ reader' = "gone"
    /\ broken' = TRUE
    /\ UNCHANGED <<server, wire, held, chan, app, received>>

\* The application receives from the channel.
Receive ==
    /\ app = "receiving"
    /\ chan # << >>
    /\ received' = Append(received, Head(chan))
    /\ chan' = Tail(chan)
    /\ UNCHANGED <<server, broken, wire, reader, held, app>>

\* The application turns to something else for good, perhaps to closing.
StopReceiving ==
    /\ app = "receiving"
    /\ app' = "idle"
    /\ UNCHANGED <<server, broken, wire, reader, held, chan, received>>

\* closeFn: close(done).  (A second call panics; nobody makes it here.)
CloseDone ==
    /\ app \in {"receiving", "idle"}
    /\ app' = "closing"
    /\ UNCHANGED <<server, broken, wire, reader, held, chan, received>>

\* closeFn: resp.Body.Close().
CloseBody ==
    /\ app = "closing"
    /\ app' = "closed"
    /\ broken' = TRUE
    /\ UNCHANGED <<server, wire, reader, held, chan, received>>

----------------------------------------------------------------------------
Handler ==
    Watch \/ WriteEvent \/ WriteFails \/ TakeEvent \/ TakeDone \/ TakeClosed \/ Unwatch

Reader == ScanEvent \/ ScanEnd \/ Send \/ SendDone

Next ==
    \/ Publish \/ Handler \/ CleanupWatcher \/ Deadline \/ Break \/ NoticeBreak
    \/ Reader \/ Receive \/ StopReceiving \/ CloseDone \/ CloseBody

Spec == Init /\ [][Next]_vars

\* Goroutines that can run do run, time passes, and TCP finds out about a lost
\* peer.  Nobody has to publish, to stop or to close; who has begun to close
\* gets to the end.
FairSpec ==
    /\ Spec
    /\ WF_vars(Handler) /\ WF_vars(CleanupWatcher) /\ WF_vars(Deadline) /\ WF_vars(NoticeBreak)
    /\ WF_vars(Reader) /\ WF_vars(Receive) /\ WF_vars(CloseBody)

----------------------------------------------------------------------------
(* Properties.                                                             *)

IfIn(place, there, e) == IF place = there THEN <<e>> ELSE << >>

\* What has reached the client's goroutine, and what the server has still to
\* deliver to it.
Arrived == received \o (chan \o IfIn(reader, "send", held))

InFlight == wire \o (IfIn(handler, "write", hand) \o queue)

Stream == <<Connected>> \o accepted

\* Nothing is lost from the middle: what the application receives is what the
\* watcher's channel took, from the beginning and in order.  While the stream
\* is up nothing is lost at all, whoever is slow.
StreamIsComplete ==
    /\ IsPrefix(Arrived, Stream)
    /\ ~broken /\ ~ctxDone /\ Registered => Arrived \o InFlight = Stream

\* Who has received the first event is heard: from then on no change passes
\* the stream by, but for a full channel or the end of the request's context,
\* which may come while the handler still writes.  (Before the first event,
\* WatchStream has returned and yet nothing may be listening.)
ConnectedIsListening ==
    [][received # << >> /\ published' # published =>
         \/ accepted' = Append(accepted, published')
         \/ Len(queue) = QueueCapacity
         \/ ctxDone]_vars

\* closeFn ends the goroutine and closes the channel, also when nobody receives
\* what it is about to send (client.go:289).
CloseEndsReader == app = "closed" ~> reader = "gone"

\* A stream that ends, whichever side or whatever ended it, closes the channel
\* of an application that goes on receiving.
EndIsNoticed == broken ~> reader = "gone" \/ app = "idle"

\* A client that does not read holds no handler for good, and with it no
\* watcher: that is what WriteTimeout is for.
HandlerIsNeverStuck == handler = "write" ~> handler # "write"

\* README.md:207-214: a stream that connected at 10:00:00 delivers changes of
\* 10:01:00 and 10:02:00.  What the watcher's channel has taken is received, if the
\* application goes on receiving and the connection is not lost.
ChangesArrive ==
    \A e \in 1 .. MaxEvents \ LongEvents :
        Contains(accepted, e) ~>
            \/ Contains(received, e)
            \/ app # "receiving"
            \/ broken /\ ~deadline
============================================================================
