---------------------------- MODULE ClientProofs ----------------------------
(***************************************************************************)
(* Proofs about the Go client: StreamClient, for any capacities and any    *)
(* number of events, and CachedClient, for any number of goroutines,       *)
(* writers and changes and any names, nested ones included.                *)
(***************************************************************************)
EXTENDS StreamClient, CachedClient, SequenceTheorems, TLAPS

----------------------------------------------------------------------------
(* Moving an element from one sequence to the next one.                    *)

LEMMA SeqConcat ==
    ASSUME NEW S, NEW s \in Seq(S), NEW t \in Seq(S)
    PROVE  s \o t \in Seq(S)
BY ConcatProperties

LEMMA MoveHead ==
    ASSUME NEW S, NEW s \in Seq(S), NEW t \in Seq(S), t # << >>
    PROVE  Append(s, Head(t)) \o Tail(t) = s \o t
<1> DEFINE long == Append(s, Head(t)) \o Tail(t)
           whole == s \o t
<1>1. long \in Seq(S) /\ whole \in Seq(S) /\ Len(long) = Len(whole)
  OBVIOUS
<1>2. \A i \in 1 .. Len(whole) : long[i] = whole[i]
  OBVIOUS
<1> QED
  BY <1>1, <1>2, SeqEqual

LEMMA AppendRight ==
    ASSUME NEW S, NEW s \in Seq(S), NEW t \in Seq(S), NEW e \in S
    PROVE  s \o Append(t, e) = Append(s \o t, e)
<1>1. s \o t \in Seq(S) /\ <<e>> \in Seq(S)
  BY ConcatProperties
<1>2. Append(t, e) = t \o <<e>> /\ Append(s \o t, e) = (s \o t) \o <<e>>
  BY <1>1, AppendIsConcat
<1>3. (s \o t) \o <<e>> = s \o (t \o <<e>>)
  BY <1>1, ConcatAssociative
<1> QED
  BY <1>2, <1>3, Zenon

LEMMA AppendLeft ==
    ASSUME NEW S, NEW s \in Seq(S), NEW t \in Seq(S), NEW e \in S
    PROVE  Append(s, e) \o t = s \o (<<e>> \o t)
<1>1. <<e>> \in Seq(S) /\ Append(s, e) = s \o <<e>>
  BY AppendIsConcat
<1>2. (s \o <<e>>) \o t = s \o (<<e>> \o t)
  BY <1>1, ConcatAssociative
<1> QED
  BY <1>1, <1>2, Zenon

LEMMA HeadFirst ==
    ASSUME NEW S, NEW t \in Seq(S), t # << >>
    PROVE  t = <<Head(t)>> \o Tail(t)
<1>1. << >> \in Seq(S) /\ Append(<< >>, Head(t)) = <<Head(t)>> /\ << >> \o t = t
  BY ConcatEmptySeq
<1> QED
  BY <1>1, MoveHead

\* Both parts of a sequence that is cut in two.
LEMMA CutInTwo ==
    ASSUME NEW S, NEW s \in Seq(S), NEW n \in 0 .. Len(s)
    PROVE  \E t \in Seq(S) : SubSeq(s, 1, n) \in Seq(S) /\ s = SubSeq(s, 1, n) \o t
<1> DEFINE a == SubSeq(s, 1, n)
           t == SubSeq(s, n + 1, Len(s))
<1>1. a \in Seq(S) /\ t \in Seq(S) /\ Len(a) = n /\ Len(t) = Len(s) - n
  OBVIOUS
<1>2. /\ \A i \in 1 .. n : a[i] = s[i]
      /\ \A i \in 1 .. Len(s) - n : t[i] = s[n + i]
  OBVIOUS
<1> HIDE DEF a, t
<1>3. /\ a \o t \in Seq(S) /\ Len(a \o t) = Len(s)
      /\ \A i \in 1 .. Len(s) : (a \o t)[i] = IF i <= n THEN a[i] ELSE t[i - n]
  BY <1>1, ConcatProperties
<1>4. \A i \in 1 .. Len(s) : (a \o t)[i] = s[i]
  BY <1>2, <1>3
<1>5. a \o t = s
  BY <1>3, <1>4, SeqEqual
<1> QED
  BY <1>1, <1>5 DEF a

\* What a sequence begins with is a prefix of it.
LEMMA BeginningIsPrefix ==
    ASSUME NEW S, NEW s \in Seq(S), NEW t \in Seq(S)
    PROVE  IsPrefix(s, s \o t)
<1>1. s \o t \in Seq(S) /\ Len(s) <= Len(s \o t)
  OBVIOUS
<1>2. \A i \in 1 .. Len(s) : (s \o t)[i] = s[i]
  OBVIOUS
<1>3. SubSeq(s, 1, Len(s)) = SubSeq(s \o t, 1, Len(s))
  BY <1>1, <1>2
<1> QED
  BY <1>1, <1>3 DEF IsPrefix

----------------------------------------------------------------------------
(* Type correctness.                                                       *)

LEMMA TypeInit == Init => TypeOK
<1> SUFFICES ASSUME Init PROVE TypeOK
  OBVIOUS
<1>1. /\ published \in 0 .. MaxEvents
      /\ hand \in Event /\ held \in Event
  BY StreamConstants DEF Init, Event
<1>2. /\ accepted \in Seq(1 .. MaxEvents) /\ received \in Seq(Event)
      /\ queue \in Seq(1 .. MaxEvents) /\ Len(queue) <= QueueCapacity
      /\ wire \in Seq(Event) /\ Len(wire) <= WireCapacity
      /\ chan \in Seq(Event) /\ Len(chan) <= ChanCapacity
  BY StreamConstants DEF Init
<1>3. deadline \in BOOLEAN /\ ctxDone \in BOOLEAN /\ broken \in BOOLEAN
  BY DEF Init
<1> QED
  BY <1>1, <1>2, <1>3 DEF Init, TypeOK

LEMMA TypeStep == TypeOK /\ [Next]_vars => TypeOK'
<1> SUFFICES ASSUME TypeOK, [Next]_vars PROVE TypeOK'
  OBVIOUS
<1> USE StreamConstants DEF TypeOK, server, client
<1>1. CASE Publish
  <2>1. published' \in 1 .. MaxEvents
    BY <1>1 DEF Publish
  <2>2. /\ accepted' \in Seq(1 .. MaxEvents)
        /\ queue' \in Seq(1 .. MaxEvents) /\ Len(queue') <= QueueCapacity
    <3>1. CASE Registered /\ Len(queue) < QueueCapacity
      <4>1. /\ queue' = Append(queue, published')
            /\ accepted' = Append(accepted, published')
        BY <1>1, <3>1 DEF Publish
      <4>2. Len(queue) \in Nat /\ Len(queue') = Len(queue) + 1
        BY <4>1
      <4> QED
        BY <2>1, <3>1, <4>1, <4>2
    <3>2. CASE ~(Registered /\ Len(queue) < QueueCapacity)
      BY <1>1, <3>2 DEF Publish
    <3> QED
      BY <3>1, <3>2
  <2> QED
    BY <1>1, <2>1, <2>2 DEF Publish
<1>2. CASE Watch
  BY <1>2 DEF Watch, Event
<1>3. CASE WriteEvent
  <2>1. wire' \in Seq(Event) /\ Len(wire') <= WireCapacity
    BY <1>3 DEF WriteEvent
  <2> QED
    BY <1>3, <2>1 DEF WriteEvent
<1>4. CASE WriteFails
  BY <1>4 DEF WriteFails
<1>5. CASE TakeEvent
  <2>1. /\ hand' \in Event
        /\ queue' \in Seq(1 .. MaxEvents) /\ Len(queue') <= QueueCapacity
    BY <1>5 DEF TakeEvent, Event
  <2> QED
    BY <1>5, <2>1 DEF TakeEvent
<1>6. CASE TakeDone \/ TakeClosed \/ Unwatch \/ CleanupWatcher
  BY <1>6 DEF TakeDone, TakeClosed, Unwatch, CleanupWatcher
<1>7. CASE Break
  <2>1. wire' \in Seq(Event) /\ Len(wire') <= WireCapacity
    BY <1>7 DEF Break
  <2> QED
    BY <1>7, <2>1 DEF Break
<1>8. CASE ScanEvent
  <2>1. held' \in Event /\ wire' \in Seq(Event) /\ Len(wire') <= WireCapacity
    BY <1>8 DEF ScanEvent
  <2> QED
    BY <1>8, <2>1 DEF ScanEvent
<1>9. CASE ScanEnd \/ SendDone
  BY <1>9 DEF ScanEnd, SendDone
<1>10. CASE Send
  <2>1. chan' \in Seq(Event) /\ Len(chan') <= ChanCapacity
    BY <1>10 DEF Send
  <2> QED
    BY <1>10, <2>1 DEF Send
<1>11. CASE Receive
  <2>1. /\ chan' \in Seq(Event) /\ Len(chan') <= ChanCapacity
        /\ received' \in Seq(Event)
    BY <1>11 DEF Receive
  <2> QED
    BY <1>11, <2>1 DEF Receive
<1>12. CASE StopReceiving \/ CloseDone \/ CloseBody
  BY <1>12 DEF StopReceiving, CloseDone, CloseBody
<1>13. CASE Deadline \/ NoticeBreak
  BY <1>13 DEF Deadline, NoticeBreak
<1>14. CASE UNCHANGED vars
  BY <1>14 DEF vars
<1> QED
  BY <1>1, <1>2, <1>3, <1>4, <1>5, <1>6, <1>7, <1>8, <1>9, <1>10, <1>11, <1>12, <1>13,
     <1>14 DEF Next, Handler, Reader

\* Every variable keeps its type, and no buffer takes more than it holds.
THEOREM TypeCorrect == Spec => []TypeOK
BY TypeInit, TypeStep, PTL DEF Spec

----------------------------------------------------------------------------
(* The flow of events.                                                     *)

HeldSeq == IfIn(reader, "send", held)
HandSeq == IfIn(handler, "write", hand)

\* What follows the client's channel: rest is what the connection does not hold.
Behind(rest) == IF reader = "gone" THEN rest ELSE HeldSeq \o (wire \o rest)

StreamIsUp == ~broken /\ ~ctxDone /\ Registered

\* The stream, from the application back to the watcher's channel; once it is no
\* longer up the end of it is on its way to nobody.
FlowsOn(rest) ==
    /\ Stream = received \o (chan \o Behind(rest))
    /\ StreamIsUp => rest = HandSeq \o queue

Flow == \E rest \in Seq(Event) : FlowsOn(rest)

\* A reader that is gone has closed the connection.
GoneMeansBroken == reader = "gone" => broken

\* Before Watch the stream is empty.
FreshIsEmpty ==
    handler = "headers" =>
        /\ watcher = "none"
        /\ accepted = << >> /\ queue = << >> /\ wire = << >>
        /\ chan = << >> /\ received = << >> /\ reader # "send"

\* Once it has begun, only the end of the request's context ends the stream, on the
\* side of the handler or of the cleanup goroutine.
EndsWithContext ==
    handler # "headers" /\ ~ctxDone => watcher = "open" /\ handler \in {"write", "select"}

IInv == TypeOK /\ GoneMeansBroken /\ FreshIsEmpty /\ EndsWithContext /\ Flow

LEMMA ChangesAreEvents == \A s \in Seq(1 .. MaxEvents) : s \in Seq(Event)
<1> SUFFICES ASSUME NEW s \in Seq(1 .. MaxEvents) PROVE s \in Seq(Event)
  OBVIOUS
<1>1. Len(s) \in Nat
  OBVIOUS
<1>2. \A i \in 1 .. Len(s) : s[i] \in 1 .. MaxEvents
  BY ElementOfSeq
<1>3. s = [i \in 1 .. Len(s) |-> s[i]]
  OBVIOUS
<1>4. \A i \in 1 .. Len(s) : s[i] \in Event
  BY <1>2 DEF Event
<1>5. s \in [1 .. Len(s) -> Event]
  BY <1>3, <1>4
<1> QED
  BY <1>1, <1>5, SeqDef

LEMMA FlowTypes ==
    ASSUME TypeOK
    PROVE  /\ HeldSeq \in Seq(Event) /\ HandSeq \in Seq(Event)
           /\ received \in Seq(Event) /\ chan \in Seq(Event)
           /\ wire \in Seq(Event) /\ queue \in Seq(Event)
           /\ Stream \in Seq(Event)
           /\ held \in Event /\ hand \in Event
<1>1. accepted \in Seq(Event) /\ <<Connected>> \in Seq(Event) /\ queue \in Seq(Event)
  BY ChangesAreEvents DEF TypeOK, Event
<1>2. Stream \in Seq(Event)
  BY <1>1, SeqConcat DEF Stream
<1>3. HeldSeq \in Seq(Event) /\ HandSeq \in Seq(Event)
  BY DEF TypeOK, HeldSeq, HandSeq, IfIn
<1> QED
  BY <1>1, <1>2, <1>3 DEF TypeOK

LEMMA BehindTypes ==
    ASSUME TypeOK, NEW rest \in Seq(Event)
    PROVE  Behind(rest) \in Seq(Event) /\ wire \o rest \in Seq(Event)
<1>1. HeldSeq \in Seq(Event) /\ wire \in Seq(Event)
  BY FlowTypes
<1>2. wire \o rest \in Seq(Event)
  BY <1>1, SeqConcat
<1>3. HeldSeq \o (wire \o rest) \in Seq(Event)
  BY <1>1, <1>2, SeqConcat
<1> QED
  BY <1>2, <1>3 DEF Behind

\* AppendRight, for sequences of events.
LEMMA EventAppend ==
    \A s, t \in Seq(Event), e \in Event : s \o Append(t, e) = Append(s \o t, e)
BY AppendRight

LEMMA FlowImplies == IInv => StreamIsComplete
<1> SUFFICES ASSUME IInv PROVE StreamIsComplete
  OBVIOUS
<1>1. TypeOK /\ GoneMeansBroken
  BY DEF IInv
<1>2. PICK rest \in Seq(Event) : FlowsOn(rest)
  BY DEF IInv, Flow
<1>3. /\ HeldSeq \in Seq(Event) /\ received \in Seq(Event) /\ chan \in Seq(Event)
      /\ wire \in Seq(Event) /\ wire \o rest \in Seq(Event)
  BY <1>1, FlowTypes, BehindTypes
<1>4. Arrived = received \o (chan \o HeldSeq)
  BY DEF Arrived, HeldSeq
<1>5. Arrived \in Seq(Event)
  BY <1>3, <1>4, SeqConcat
<1>6. Stream = received \o (chan \o Behind(rest))
  BY <1>2 DEF FlowsOn
<1>7. reader # "gone" => Stream = Arrived \o (wire \o rest)
  <2>1. PICK w \in Seq(Event) : w = wire \o rest
    BY <1>3
  <2>2. (received \o (chan \o HeldSeq)) \o w = received \o (chan \o (HeldSeq \o w))
    <3>1. PICK m \in Seq(Event) : m = chan \o HeldSeq
      BY <1>3, SeqConcat
    <3>2. w \in Seq(Event) /\ m \in Seq(Event)
      OBVIOUS
    <3>3. (received \o m) \o w = received \o (m \o w)
      <4>1. received \in Seq(Event) /\ m \in Seq(Event) /\ w \in Seq(Event)
        BY <1>3, <3>2
      <4> QED
        BY <4>1, ConcatAssociative
    <3>4. (chan \o HeldSeq) \o w = chan \o (HeldSeq \o w)
      <4>1. chan \in Seq(Event) /\ HeldSeq \in Seq(Event) /\ w \in Seq(Event)
        BY <1>3, <3>2
      <4> QED
        BY <4>1, ConcatAssociative
    <3> QED
      BY <3>1, <3>3, <3>4
  <2> QED
    BY <1>4, <1>6, <2>1, <2>2 DEF Behind
<1>8. reader = "gone" => Stream = Arrived \o rest
  <2> SUFFICES ASSUME reader = "gone" PROVE Stream = Arrived \o rest
    OBVIOUS
  <2>1. HeldSeq = << >> /\ chan \o HeldSeq = chan /\ Behind(rest) = rest
    BY <1>3, ConcatEmptySeq DEF HeldSeq, IfIn, Behind
  <2>2. (received \o chan) \o rest = received \o (chan \o rest)
    BY <1>3, ConcatAssociative
  <2> QED
    BY <1>4, <1>6, <2>1, <2>2
<1>9. IsPrefix(Arrived, Stream)
  <2>1. CASE reader = "gone"
    BY <1>5, <1>8, <2>1, BeginningIsPrefix
  <2>2. CASE reader # "gone"
    BY <1>3, <1>5, <1>7, <2>2, BeginningIsPrefix
  <2> QED
    BY <2>1, <2>2
<1>10. ASSUME StreamIsUp PROVE Arrived \o InFlight = Stream
  <2>1. reader # "gone" /\ rest = HandSeq \o queue
    BY <1>1, <1>2, <1>10 DEF GoneMeansBroken, StreamIsUp, FlowsOn
  <2>2. InFlight = wire \o rest
    BY <2>1 DEF InFlight, HandSeq
  <2> QED
    BY <1>7, <2>1, <2>2
<1> QED
  BY <1>9, <1>10 DEF StreamIsComplete, StreamIsUp

LEMMA IInit == Init => IInv
<1> SUFFICES ASSUME Init PROVE IInv
  OBVIOUS
<1>1. TypeOK
  BY TypeInit
<1>2. GoneMeansBroken /\ FreshIsEmpty /\ EndsWithContext
  BY DEF Init, GoneMeansBroken, FreshIsEmpty, EndsWithContext
<1>3. Flow
  <2>1. <<Connected>> \in Seq(Event)
    BY DEF Event
  <2>2. Stream = received \o (chan \o Behind(<<Connected>>))
    BY DEF Init, Stream, Behind, HeldSeq, IfIn
  <2>3. ~StreamIsUp
    BY DEF Init, StreamIsUp, Registered
  <2> QED
    BY <2>1, <2>2, <2>3 DEF Flow, FlowsOn
<1> QED
  BY <1>1, <1>2, <1>3 DEF IInv

----------------------------------------------------------------------------
(* Every step keeps the flow.                                              *)

\* A step of the client: the stream is as it was.
LEMMA FlowClient ==
    ASSUME IInv, TypeOK', ScanEvent \/ ScanEnd \/ Send \/ SendDone \/ Receive
    PROVE  Flow'
<1>1. TypeOK
  BY DEF IInv
<1>2. PICK rest \in Seq(Event) : FlowsOn(rest)
  BY DEF IInv, Flow
<1>3. /\ HeldSeq \in Seq(Event) /\ received \in Seq(Event) /\ chan \in Seq(Event)
      /\ wire \in Seq(Event) /\ wire \o rest \in Seq(Event)
      /\ held \in Event /\ Behind(rest) \in Seq(Event)
  BY <1>1, FlowTypes, BehindTypes
<1>4. /\ Stream = received \o (chan \o Behind(rest))
      /\ StreamIsUp => rest = HandSeq \o queue
  BY <1>2 DEF FlowsOn
<1>5. UNCHANGED <<Stream, HandSeq, queue, ctxDone, Registered>>
  BY DEF ScanEvent, ScanEnd, Send, SendDone, Receive, server, Stream, HandSeq, IfIn,
         Registered
<1>6. CASE ScanEvent
  <2>1. Behind(rest) = << >> \o (wire \o rest)
    BY <1>6 DEF ScanEvent, Behind, HeldSeq, IfIn
  <2>2. Behind(rest) = wire \o rest
    BY <1>3, <2>1, ConcatEmptySeq
  <2>3. wire = <<Head(wire)>> \o Tail(wire) /\ Head(wire) \in Event
        /\ Tail(wire) \in Seq(Event) /\ <<Head(wire)>> \in Seq(Event)
    BY <1>3, <1>6, HeadFirst DEF ScanEvent
  <2>4. wire \o rest = <<Head(wire)>> \o (Tail(wire) \o rest)
    BY <2>3, ConcatAssociative
  <2>5. Behind(rest)' = <<Head(wire)>> \o (Tail(wire) \o rest)
    BY <1>6 DEF ScanEvent, Behind, HeldSeq, IfIn
  <2>6. Behind(rest)' = Behind(rest)
    BY <2>2, <2>4, <2>5
  <2>7. FlowsOn(rest)'
    BY <1>4, <1>5, <1>6, <2>6 DEF ScanEvent, FlowsOn, StreamIsUp
  <2> QED
    BY <2>7 DEF Flow
<1>7. CASE ScanEnd \/ SendDone
  <2>1. UNCHANGED <<received, chan>> /\ reader' = "gone" /\ ~StreamIsUp'
    BY <1>7 DEF ScanEnd, SendDone, StreamIsUp
  <2> DEFINE X == Behind(rest)
  <2>2. X \in Seq(Event) /\ Stream = received \o (chan \o X)
    BY <1>3, <1>4
  <2> HIDE DEF X
  <2>3. PICK x \in Seq(Event) : x = X
    BY <2>2
  <2>4. FlowsOn(x)'
    BY <1>5, <2>1, <2>2, <2>3 DEF FlowsOn, Behind
  <2> QED
    BY <2>4 DEF Flow
<1>8. CASE Send
  <2>1. Behind(rest) = <<held>> \o (wire \o rest)
    BY <1>8 DEF Send, Behind, HeldSeq, IfIn
  <2>2. Behind(rest)' = << >> \o (wire \o rest)
    BY <1>8 DEF Send, Behind, HeldSeq, IfIn
  <2>3. Behind(rest)' = wire \o rest
    BY <1>3, <2>2, ConcatEmptySeq
  <2>4. Append(chan, held) \o (wire \o rest) = chan \o (<<held>> \o (wire \o rest))
    <3>1. PICK w \in Seq(Event) : w = wire \o rest
      BY <1>3
    <3>2. Append(chan, held) \o w = chan \o (<<held>> \o w)
      BY <1>3, AppendLeft, Zenon
    <3> QED
      BY <3>1, <3>2
  <2>5. FlowsOn(rest)'
    BY <1>4, <1>5, <1>8, <2>1, <2>3, <2>4 DEF Send, FlowsOn, StreamIsUp
  <2> QED
    BY <2>5 DEF Flow
<1>9. CASE Receive
  <2> DEFINE X == Behind(rest)
  <2>1. X' = X
    BY <1>9 DEF Receive, Behind, HeldSeq, IfIn
  <2>2. chan = <<Head(chan)>> \o Tail(chan) /\ Head(chan) \in Event
        /\ Tail(chan) \in Seq(Event) /\ <<Head(chan)>> \in Seq(Event)
    BY <1>3, <1>9, HeadFirst DEF Receive
  <2>3. X \in Seq(Event) /\ Tail(chan) \o X \in Seq(Event)
    BY <1>3, <2>2, SeqConcat
  <2> HIDE DEF X
  <2>4. Append(received, Head(chan)) \o (Tail(chan) \o X)
          = received \o (<<Head(chan)>> \o (Tail(chan) \o X))
    <3>1. PICK w \in Seq(Event) : w = Tail(chan) \o X
      BY <2>3
    <3>2. PICK h \in Event : h = Head(chan)
      BY <2>2
    <3>3. Append(received, h) \o w = received \o (<<h>> \o w)
      BY <1>3, AppendLeft, Zenon
    <3> QED
      BY <3>1, <3>2, <3>3
  <2>5. <<Head(chan)>> \o (Tail(chan) \o X) = chan \o X
    BY <2>2, <2>3, ConcatAssociative
  <2>6. received' \o (chan' \o X') = received \o (chan \o X)
    BY <1>9, <2>1, <2>4, <2>5 DEF Receive
  <2>7. FlowsOn(rest)'
    BY <1>4, <1>5, <1>9, <2>6 DEF Receive, FlowsOn, StreamIsUp, X
  <2> QED
    BY <2>7 DEF Flow
<1> QED
  BY <1>6, <1>7, <1>8, <1>9

\* A change is appended to what is behind everything else.
LEMMA FlowPublish ==
    ASSUME IInv, TypeOK', Publish
    PROVE  Flow'
<1>1. TypeOK
  BY DEF IInv
<1>2. PICK rest \in Seq(Event) : FlowsOn(rest)
  BY DEF IInv, Flow
<1>3. /\ HeldSeq \in Seq(Event) /\ received \in Seq(Event) /\ chan \in Seq(Event)
      /\ wire \in Seq(Event) /\ wire \o rest \in Seq(Event)
      /\ queue \in Seq(Event) /\ HandSeq \in Seq(Event)
      /\ Behind(rest) \in Seq(Event)
  BY <1>1, FlowTypes, BehindTypes
<1>4. /\ Stream = received \o (chan \o Behind(rest))
      /\ StreamIsUp => rest = HandSeq \o queue
  BY <1>2 DEF FlowsOn
<1>5. UNCHANGED <<received, chan, reader, held, wire, HeldSeq, HandSeq, StreamIsUp>>
  BY DEF Publish, client, HeldSeq, HandSeq, IfIn, StreamIsUp, Registered
<1>6. CASE UNCHANGED <<queue, accepted>>
  <2>1. Behind(rest)' = Behind(rest) /\ Stream' = Stream
    BY <1>5, <1>6 DEF Behind, Stream
  <2>2. FlowsOn(rest)'
    BY <1>4, <1>5, <1>6, <2>1 DEF FlowsOn
  <2> QED
    BY <2>2 DEF Flow
<1>7. CASE queue' = Append(queue, published') /\ accepted' = Append(accepted, published')
  <2>1. PICK e \in Event : e = published' /\ e \in 1 .. MaxEvents
    BY <1>1 DEF Publish, TypeOK, Event
  <2>2. PICK more \in Seq(Event) : more = Append(rest, e)
    <3>1. Append(rest, e) \in Seq(Event)
      OBVIOUS
    <3> QED
      BY <3>1, Zenon
  <2>3. Stream' = Append(Stream, e)
    <3>1. accepted \in Seq(Event) /\ <<Connected>> \in Seq(Event)
      BY <1>1, ChangesAreEvents DEF TypeOK, Event
    <3> QED
      BY <1>7, <2>1, <3>1, AppendRight DEF Stream
  <2>4. PICK w \in Seq(Event) : w = wire \o rest
    BY <1>3
  <2>5. PICK b \in Seq(Event) : b = Behind(rest)
    BY <1>3
  <2>6. wire \o Append(rest, e) = Append(wire \o rest, e)
    <3>1. rest \in Seq(Event) /\ e \in Event
      OBVIOUS
    <3> QED
      BY <1>3, <3>1, EventAppend, Zenon
  <2>7. HeldSeq \o Append(w, e) = Append(HeldSeq \o w, e)
    <3>1. w \in Seq(Event) /\ e \in Event
      OBVIOUS
    <3> QED
      BY <1>3, <3>1, EventAppend, Zenon
  <2>8. Behind(more)' = Append(b, e)
    <3>1. Behind(more)' = IF reader = "gone" THEN more ELSE HeldSeq \o (wire \o more)
      BY <1>5 DEF Behind
    <3>2. b = IF reader = "gone" THEN rest ELSE HeldSeq \o w
      BY <2>4, <2>5 DEF Behind
    <3>3. HeldSeq \o (wire \o more) = Append(HeldSeq \o w, e)
      BY <2>2, <2>4, <2>6, <2>7
    <3> QED
      BY <2>2, <3>1, <3>2, <3>3
  <2>9. received \o (chan \o Append(b, e)) = Append(received \o (chan \o b), e)
    <3>1. b \in Seq(Event) /\ e \in Event
      OBVIOUS
    <3>2. PICK m \in Seq(Event) : m = chan \o b
      BY <1>3, <3>1, SeqConcat
    <3>3. chan \o Append(b, e) = Append(chan \o b, e)
      BY <1>3, <3>1, EventAppend, Zenon
    <3>4. m \in Seq(Event)
      OBVIOUS
    <3>5. received \o Append(m, e) = Append(received \o m, e)
      BY <1>3, <3>1, <3>4, EventAppend, Zenon
    <3> QED
      BY <3>2, <3>3, <3>5
  <2>10. HandSeq \o Append(queue, e) = Append(HandSeq \o queue, e)
    <3>1. e \in Event
      OBVIOUS
    <3> QED
      BY <1>3, <3>1, EventAppend, Zenon
  <2>11. Stream' = received' \o (chan' \o Behind(more)')
    BY <1>4, <1>5, <2>3, <2>5, <2>8, <2>9
  <2>12. StreamIsUp' => more = HandSeq' \o queue'
    BY <1>4, <1>5, <1>7, <2>1, <2>2, <2>10
  <2>13. FlowsOn(more)'
    BY <2>11, <2>12 DEF FlowsOn
  <2> QED
    BY <2>13 DEF Flow
<1> QED
  BY <1>6, <1>7 DEF Publish

\* A step of the handler, or the loss of the connection.
LEMMA FlowServer ==
    ASSUME IInv, TypeOK', Handler \/ Break
    PROVE  Flow'
<1>1. TypeOK /\ GoneMeansBroken /\ FreshIsEmpty /\ EndsWithContext
  BY DEF IInv
<1>2. PICK rest \in Seq(Event) : FlowsOn(rest)
  BY DEF IInv, Flow
<1>3. /\ HeldSeq \in Seq(Event) /\ received \in Seq(Event) /\ chan \in Seq(Event)
      /\ wire \in Seq(Event) /\ wire \o rest \in Seq(Event)
      /\ queue \in Seq(Event) /\ HandSeq \in Seq(Event) /\ hand \in Event
      /\ Behind(rest) \in Seq(Event)
  BY <1>1, FlowTypes, BehindTypes
<1>4. /\ Stream = received \o (chan \o Behind(rest))
      /\ StreamIsUp => rest = HandSeq \o queue
  BY <1>2 DEF FlowsOn
<1>5. UNCHANGED <<received, chan, reader, HeldSeq, Stream>>
  BY DEF Handler, Watch, WriteEvent, WriteFails, TakeEvent, TakeDone, TakeClosed, Unwatch,
         Break, client, server, HeldSeq, IfIn, Stream
<1>6. CASE Watch
  <2>1. Behind(rest)' = Behind(rest)
    BY <1>5, <1>6 DEF Watch, Behind
  <2>2. CASE ~StreamIsUp'
    <3>1. FlowsOn(rest)'
      BY <1>4, <1>5, <2>1, <2>2 DEF FlowsOn
    <3> QED
      BY <3>1 DEF Flow
  <2>3. CASE StreamIsUp'
    <3>1. <<Connected>> \in Seq(Event)
      BY DEF Event
    <3>2. reader = "scan"
      BY <1>1, <1>6, <2>3 DEF TypeOK, GoneMeansBroken, FreshIsEmpty, Watch, StreamIsUp
    <3>3. /\ Stream = <<Connected>> /\ received = << >> /\ chan = << >>
          /\ wire = << >> /\ HeldSeq = << >> /\ queue = << >>
      BY <1>1, <1>6, <3>2 DEF FreshIsEmpty, Watch, Stream, HeldSeq, IfIn
    <3>4. HandSeq' = <<Connected>> /\ queue' = << >> /\ wire' = << >>
      BY <1>6, <3>3 DEF Watch, HandSeq, IfIn
    <3>5. Behind(<<Connected>>)' = <<Connected>>
      BY <1>5, <3>2, <3>3, <3>4 DEF Behind
    <3>6. FlowsOn(<<Connected>>)'
      BY <1>5, <3>3, <3>4, <3>5 DEF FlowsOn
    <3> QED
      BY <3>1, <3>6 DEF Flow
  <2> QED
    BY <2>2, <2>3
<1>7. CASE WriteEvent
  <2>1. /\ StreamIsUp /\ reader # "gone" /\ HandSeq = <<hand>>
        /\ HandSeq' = << >> /\ queue' = queue /\ wire' = Append(wire, hand)
    BY <1>1, <1>7 DEF WriteEvent, StreamIsUp, Registered, EndsWithContext,
       GoneMeansBroken, HandSeq, IfIn
  <2>2. rest = <<hand>> \o queue
    BY <1>4, <2>1
  <2>3. wire' \o queue = wire \o rest
    <3>1. Append(wire, hand) \o queue = wire \o (<<hand>> \o queue)
      BY <1>3, AppendLeft, Zenon
    <3> QED
      BY <2>1, <2>2, <3>1
  <2>4. Behind(queue)' = Behind(rest)
    BY <1>5, <2>1, <2>3 DEF Behind
  <2>5. HandSeq' \o queue' = queue
    BY <1>3, <2>1, ConcatEmptySeq
  <2>6. FlowsOn(queue)'
    BY <1>4, <1>5, <2>1, <2>4, <2>5 DEF FlowsOn
  <2> QED
    BY <1>3, <2>1, <2>6 DEF Flow
<1>8. CASE WriteFails \/ TakeDone \/ TakeClosed \/ Unwatch
  <2>1. ~StreamIsUp' /\ wire' = wire
    BY <1>8 DEF WriteFails, TakeDone, TakeClosed, Unwatch, StreamIsUp, Registered
  <2>2. FlowsOn(rest)'
    BY <1>4, <1>5, <2>1 DEF FlowsOn, Behind
  <2> QED
    BY <2>2 DEF Flow
<1>9. CASE TakeEvent
  <2>1. HandSeq = << >> /\ HandSeq' = <<Head(queue)>> /\ queue' = Tail(queue)
        /\ wire' = wire /\ (StreamIsUp' = StreamIsUp)
    BY <1>9 DEF TakeEvent, HandSeq, IfIn, StreamIsUp, Registered
  <2>2. HandSeq \o queue = queue
    BY <1>3, <2>1, ConcatEmptySeq
  <2>3. queue = <<Head(queue)>> \o Tail(queue)
    BY <1>3, <1>9, HeadFirst DEF TakeEvent
  <2>4. HandSeq' \o queue' = HandSeq \o queue
    BY <2>1, <2>2, <2>3
  <2>5. FlowsOn(rest)'
    BY <1>4, <1>5, <2>1, <2>4 DEF FlowsOn, Behind
  <2> QED
    BY <2>5 DEF Flow
<1>10. CASE Break
  <2>1. PICK n \in 0 .. Len(wire) : wire' = SubSeq(wire, 1, n)
    BY <1>10 DEF Break
  <2>2. PICK t \in Seq(Event) : wire' \in Seq(Event) /\ wire = wire' \o t
    <3>1. \E t \in Seq(Event) :
              SubSeq(wire, 1, n) \in Seq(Event) /\ wire = SubSeq(wire, 1, n) \o t
      BY <1>3, CutInTwo, Zenon
    <3> QED
      BY <2>1, <3>1
  <2>3. ~StreamIsUp'
    BY <1>10 DEF Break, StreamIsUp
  <2>4. CASE reader = "gone"
    <3>1. FlowsOn(rest)'
      BY <1>4, <1>5, <2>3, <2>4 DEF FlowsOn, Behind
    <3> QED
      BY <3>1 DEF Flow
  <2>5. CASE reader # "gone"
    <3>1. t \o rest \in Seq(Event) /\ wire' \o (t \o rest) = wire \o rest
      BY <2>2, SeqConcat, ConcatAssociative
    <3>2. Behind(t \o rest)' = Behind(rest)
      BY <1>5, <2>5, <3>1 DEF Behind
    <3>3. FlowsOn(t \o rest)'
      BY <1>4, <1>5, <2>3, <3>2 DEF FlowsOn
    <3> QED
      BY <3>1, <3>3 DEF Flow
  <2> QED
    BY <2>4, <2>5
<1> QED
  BY <1>6, <1>7, <1>8, <1>9, <1>10 DEF Handler

\* A step that moves no event can only end the stream.
LEMMA FlowElse ==
    ASSUME IInv,
           UNCHANGED <<published, accepted, queue, handler, hand, wire, reader, held,
                       chan, received>>,
           (broken => broken') /\ (ctxDone => ctxDone') /\ (Registered' => Registered)
    PROVE  Flow'
<1>1. PICK rest \in Seq(Event) : FlowsOn(rest)
  BY DEF IInv, Flow
<1>2. UNCHANGED <<Stream, HandSeq, HeldSeq>> /\ (StreamIsUp' => StreamIsUp)
  BY DEF Stream, HandSeq, HeldSeq, IfIn, StreamIsUp
<1>3. FlowsOn(rest)'
  BY <1>1, <1>2 DEF FlowsOn, Behind
<1> QED
  BY <1>3 DEF Flow

LEMMA IStep == IInv /\ [Next]_vars => IInv'
<1> SUFFICES ASSUME IInv, [Next]_vars PROVE IInv'
  OBVIOUS
<1>1. TypeOK'
  BY TypeStep DEF IInv
<1>2. GoneMeansBroken' /\ EndsWithContext'
  BY DEF IInv, GoneMeansBroken, EndsWithContext, Next, Publish, Handler, Watch,
         WriteEvent, WriteFails, TakeEvent, TakeDone, TakeClosed, Unwatch, CleanupWatcher,
         Deadline, Break, NoticeBreak, Reader, ScanEvent, ScanEnd, Send, SendDone,
         Receive, StopReceiving, CloseDone, CloseBody, vars, server, client
<1>3. FreshIsEmpty'
  <2> SUFFICES ASSUME handler' = "headers" PROVE FreshIsEmpty'
    BY DEF FreshIsEmpty
  <2>1. /\ accepted = << >> /\ queue = << >> /\ wire = << >>
        /\ chan = << >> /\ received = << >> /\ reader # "send" /\ handler = "headers"
        /\ watcher = "none"
    BY DEF IInv, FreshIsEmpty, Next, Publish, Handler, Watch, WriteEvent, WriteFails,
           TakeEvent, TakeDone, TakeClosed, Unwatch, CleanupWatcher, Deadline, Break, NoticeBreak, Reader, ScanEvent,
           ScanEnd, Send, SendDone, Receive, StopReceiving, CloseDone, CloseBody, vars,
           server, client
  <2>2. CASE Break
    <3>1. PICK n \in 0 .. Len(wire) : wire' = SubSeq(wire, 1, n)
      BY <2>2 DEF Break
    <3>2. wire' = << >>
      BY <2>1, <3>1
    <3> QED
      BY <2>1, <2>2, <3>2 DEF Break, FreshIsEmpty, server, client
  <2>3. CASE ~Break
    BY <2>1, <2>3 DEF FreshIsEmpty, Registered, Next, Publish, Handler, Watch,
       WriteEvent, WriteFails, TakeEvent, TakeDone, TakeClosed, Unwatch, CleanupWatcher,
       Deadline, NoticeBreak, Reader, ScanEvent, ScanEnd, Send, SendDone, Receive, StopReceiving, CloseDone, CloseBody,
       vars, server, client
  <2> QED
    BY <2>2, <2>3
<1>4. Flow'
  <2>1. CASE Publish
    BY <1>1, <2>1, FlowPublish
  <2>2. CASE Handler \/ Break
    BY <1>1, <2>2, FlowServer
  <2>3. CASE Reader \/ Receive
    BY <1>1, <2>3, FlowClient DEF Reader
  <2>4. CASE \/ CleanupWatcher \/ Deadline \/ NoticeBreak \/ StopReceiving \/ CloseDone
             \/ CloseBody \/ UNCHANGED vars
    BY <2>4, FlowElse DEF CleanupWatcher, Deadline, NoticeBreak, StopReceiving, CloseDone,
       CloseBody, vars, server, client, Registered
  <2> QED
    BY <2>1, <2>2, <2>3, <2>4 DEF Next
<1> QED
  BY <1>1, <1>2, <1>3, <1>4 DEF IInv

\* Whatever the buffers hold, whoever is slow and however the stream ends, the
\* application receives what was taken for it from the beginning and in order.
THEOREM StreamStaysComplete == Spec => []StreamIsComplete
BY IInit, IStep, FlowImplies, PTL DEF Spec

\* Once the application has the first event, every change published either enters
\* the watcher's channel, or finds it full, or comes after the end of the request's
\* context: until then neither the handler nor the cleanup goroutine takes away the
\* watcher, which was registered before anything could be received.
THEOREM ConnectedStaysListening == Spec => ConnectedIsListening
<1> DEFINE Listens ==
             received # << >> /\ published' # published =>
               \/ accepted' = Append(accepted, published')
               \/ Len(queue) = QueueCapacity
               \/ ctxDone
<1>1. IInv /\ [Next]_vars => [Listens]_vars
  <2> SUFFICES ASSUME IInv, Next, received # << >>, published' # published
               PROVE  Listens
    BY DEF vars
  <2>1. Publish
    BY DEF Next, Handler, Watch, WriteEvent, WriteFails, TakeEvent, TakeDone, TakeClosed,
           Unwatch, CleanupWatcher, Deadline, Break, NoticeBreak, Reader, ScanEvent, ScanEnd, Send, SendDone, Receive,
           StopReceiving, CloseDone, CloseBody, server, client
  <2>2. Registered \/ ctxDone
    BY DEF IInv, FreshIsEmpty, EndsWithContext, Registered
  <2>3. Len(queue) < QueueCapacity \/ Len(queue) = QueueCapacity
    BY StreamConstants DEF IInv, TypeOK
  <2> QED
    BY <2>1, <2>2, <2>3 DEF Publish
<1> QED
  BY <1>1, IInit, IStep, PTL DEF Spec, ConnectedIsListening

----------------------------------------------------------------------------
(* The cached client.                                                      *)

\* The server's histories, which only a dropped namespace shortens.
HistoriesAreSeqs == history \in [Loc -> Seq(Values)]

HistoriesGrow ==
    \A l \in Loc :
        /\ Len(history[l]) <= Len(history'[l])
        /\ \A v \in 1 .. Len(history[l]) : history'[l][v] = history[l][v]

\* The server and its client mean the same locations.
LEMMA ServerLocations == Server!Loc = Loc
BY DEF Server!Loc, Server!Namespaces, Server!ValidateNamespace,
       Loc, Namespaces, ValidateNamespace

\* A write at the server.
LEMMA ServerWrites ==
    ASSUME CacheTypeOK, HistoriesAreSeqs, NEW l \in Loc,
           Server!Hide(l) \/ \E value \in Values : Server!Put(l, value)
    PROVE  /\ known' \subseteq Namespaces
           /\ live' \subseteq Loc
           /\ HistoriesAreSeqs'
           /\ HistoriesGrow
<1>1. l[1] \in Namespaces
  BY DEF Loc
<1>2. known \subseteq Namespaces /\ live \subseteq Loc
  BY DEF CacheTypeOK
<1>3. CASE Server!Hide(l)
  BY <1>2, <1>3 DEF Server!Hide, HistoriesAreSeqs, HistoriesGrow
<1>4. ASSUME NEW value \in Values, Server!Put(l, value)
      PROVE  /\ known' \subseteq Namespaces
             /\ live' \subseteq Loc
             /\ HistoriesAreSeqs'
             /\ HistoriesGrow
  <2>1. /\ known' = known \cup {l[1]}
        /\ live' = live \cup {l}
        /\ history' = [history EXCEPT ![l] = Append(history[l], value)]
    BY <1>4 DEF Server!Put
  <2>2. history[l] \in Seq(Values)
    BY DEF HistoriesAreSeqs
  <2>3. /\ Append(history[l], value) \in Seq(Values)
        /\ Len(history[l]) <= Len(Append(history[l], value))
        /\ \A v \in 1 .. Len(history[l]) : Append(history[l], value)[v] = history[l][v]
    BY <2>2
  <2> QED
    BY <1>1, <1>2, <2>1, <2>3 DEF HistoriesAreSeqs, HistoriesGrow
<1> QED
  BY <1>3, <1>4

\* The deletion of a namespace at the server.
LEMMA ServerDrops ==
    ASSUME CacheTypeOK, HistoriesAreSeqs, NEW ns, Server!Drop(ns)
    PROVE  /\ known' \subseteq Namespaces
           /\ live' \subseteq Loc
           /\ HistoriesAreSeqs'
BY ServerLocations DEF Server!Drop, CacheTypeOK, HistoriesAreSeqs

LEMMA NoKeysIsListing ==
    NoKeys \in Listing /\ NoKeys.keys \in Map
BY CacheConstants DEF NoKeys, Map, Listing

LEMMA CacheInitTypes ==
    ASSUME CacheInit
    PROVE  CacheTypeOK /\ HistoriesAreSeqs
<1>1. Server!Loc = Loc
  BY DEF Server!Loc, Server!Namespaces, Server!ValidateNamespace,
         Loc, Namespaces, ValidateNamespace
<1>2. NoKeys.keys \in Map /\ NoKeys \in Listing
  BY NoKeysIsListing
<1>3. known = {} /\ live = {} /\ HistoriesAreSeqs
  BY <1>1 DEF CacheInit, Server!Init, HistoriesAreSeqs
<1>4. 0 \in 0 .. MaxCommits
  BY CacheConstants
<1>5. /\ DOMAIN pc = Goroutines /\ pc[Loop] \in LoopPlaces
      /\ \A a \in Apps : pc[a] \in AppPlaces
  BY CacheConstants DEF CacheInit, Goroutines, LoopPlaces, AppPlaces
<1> HIDE DEF NoKeys
<1> QED
  BY <1>2, <1>3, <1>4, <1>5 DEF CacheInit, CacheTypeOK

\* Keys that the server does not list: a map of none of them.
LEMMA ListedIsMap == Listed \subseteq Map
<1> HIDE DEF NoKeys
<1> QED
  BY NoKeysIsListing DEF Listed, CurrentMaps

\* The client asks about namespaces that the server can have.
LEMMA HeardAreLocations ==
    /\ Heard \subseteq Loc
           /\ \A k \in Keys : <<Mine, k>> \in Loc
BY CacheConstants DEF Heard, Loc

LEMMA GotoTypes ==
    ASSUME CacheTypeOK, NEW g \in Goroutines, NEW place,
           Goto(g, place),
           g = Loop => place \in LoopPlaces,
           g # Loop => place \in AppPlaces
    PROVE  /\ DOMAIN pc' = Goroutines /\ pc'[Loop] \in LoopPlaces
           /\ \A a \in Apps : pc'[a] \in AppPlaces
<1>1. /\ pc' = [pc EXCEPT ![g] = place] /\ DOMAIN pc = Goroutines
      /\ pc[Loop] \in LoopPlaces /\ \A a \in Apps : pc[a] \in AppPlaces
  BY DEF Goto, CacheTypeOK
<1>2. Loop \in Goroutines /\ Apps \subseteq Goroutines /\ Loop \notin Apps
  BY CacheConstants DEF Goroutines
<1> QED
  BY <1>1, <1>2

LEMMA CommitTypes ==
    ASSUME CacheTypeOK, NEW w \in Writers, Commit(w)
    PROVE  /\ now' \in 0 .. MaxCommits
           /\ committed' \subseteq Writers
           /\ stamp' \in [Writers -> 0 .. MaxCommits]
<1>1. now' = now + 1 /\ now' \in 0 .. MaxCommits
  BY CacheConstants DEF Commit, CacheTypeOK
<1> QED
  BY <1>1 DEF Commit, CacheTypeOK

\* Changes to the server's keys.
LEMMA WriteTypes ==
    ASSUME CacheTypeOK, HistoriesAreSeqs,
           \/ \E w \in Others : OtherWrites(w)
           \/ \E a \in Apps : AppWrites(a)
    PROVE  CacheTypeOK' /\ HistoriesAreSeqs' /\ HistoriesGrow
<1>1. /\ known' \subseteq Namespaces /\ live' \subseteq Loc
      /\ HistoriesAreSeqs' /\ HistoriesGrow
  <2>1. PICK l \in Loc :
            Server!Hide(l) \/ \E value \in Values : Server!Put(l, value)
    BY HeardAreLocations DEF OtherWrites, AppWrites
  <2> QED
    BY <2>1, ServerWrites
<1>2. /\ now' \in 0 .. MaxCommits
      /\ committed' \subseteq Writers
      /\ stamp' \in [Writers -> 0 .. MaxCommits]
  <2>1. PICK w \in Writers : Commit(w)
    BY DEF OtherWrites, AppWrites, Writers
  <2> QED
    BY <2>1, CommitTypes
<1>3. /\ DOMAIN pc' = Goroutines /\ pc'[Loop] \in LoopPlaces
      /\ \A a \in Apps : pc'[a] \in AppPlaces
  <2>1. CASE \E w \in Others : OtherWrites(w)
    BY <2>1 DEF OtherWrites, clientVars, CacheTypeOK
  <2>2. ASSUME NEW a \in Apps, AppWrites(a)
        PROVE  /\ DOMAIN pc' = Goroutines /\ pc'[Loop] \in LoopPlaces
               /\ \A b \in Apps : pc'[b] \in AppPlaces
    <3>1. Goto(a, "call") /\ a \in Goroutines /\ a # Loop
          /\ "call" \in AppPlaces
      BY <2>2, CacheConstants DEF AppWrites, Goroutines, AppPlaces
    <3> QED
      BY <3>1, GotoTypes
  <2> QED
    BY <2>1, <2>2
<1>4. UNCHANGED <<reply, replaced, cache, told, cause, closed, newest, overlapped,
                  renumbered, shadowed>>
  BY DEF OtherWrites, AppWrites, clientVars
<1> QED
  BY <1>1, <1>2, <1>3, <1>4 DEF CacheTypeOK

LEMMA DropTypes ==
    ASSUME CacheTypeOK, HistoriesAreSeqs,
           NEW w \in Others, OtherDrops(w)
    PROVE  CacheTypeOK' /\ HistoriesAreSeqs'
<1>1. /\ known' \subseteq Namespaces /\ live' \subseteq Loc
      /\ HistoriesAreSeqs'
  BY ServerDrops DEF OtherDrops
<1>2. /\ now' \in 0 .. MaxCommits
      /\ committed' \subseteq Writers
      /\ stamp' \in [Writers -> 0 .. MaxCommits]
  <2>1. w \in Writers
    BY DEF Writers
  <2> QED
    BY <2>1, CommitTypes DEF OtherDrops, CacheTypeOK
<1>3. UNCHANGED <<shadowed, pc, reply, replaced, cache, told, cause, closed, newest,
                  overlapped>>
      /\ renumbered' \in BOOLEAN
  BY DEF OtherDrops, clientVars
<1> QED
  BY <1>1, <1>2, <1>3 DEF CacheTypeOK

\* The steps in which the server's keys stay as they are.
ReloadStep ==
    \/ Load
    \/ \E g \in Goroutines :
         List(g) \/ Swap(g) \/ NotifyChanges(g) \/ Fail(g)

QuietStep ==
    \/ Poll \/ PollTimesOut \/ Stop \/ Close \/ Restart
    \/ \E a \in Apps : Answered(a)
    \/ \E w \in Writers : Announce(w)

LEMMA CacheNextCases ==
    ASSUME CacheNext
    PROVE  \/ \E w \in Others : OtherWrites(w) \/ OtherDrops(w)
           \/ \E a \in Apps : AppWrites(a)
           \/ OtherShadows
           \/ ReloadStep
           \/ QuietStep
BY DEF CacheNext, ReloadStep, QuietStep

LEMMA ReloadTypes ==
    ASSUME CacheTypeOK, ReloadStep
    PROVE  CacheTypeOK'
<1> USE DEF serverUnchanged, serverVars
<1>1. Loop \in Goroutines /\ Apps \subseteq Goroutines /\ Loop \notin Apps
  BY CacheConstants DEF Goroutines
<1>2. UNCHANGED <<known, history, live, shadowed, now, committed, stamp, renumbered>>
  BY DEF ReloadStep, Load, List, Swap, NotifyChanges, Fail
<1>3. NoKeys \in Listing /\ NoKeys.keys \in Map
  BY NoKeysIsListing
<1>4. \A g \in Goroutines :
        reply[g] \in Listing /\ reply[g].keys \in Map /\ reply[g].at \in 0 .. MaxCommits
  BY DEF CacheTypeOK, Listing
<1>5. ASSUME NEW g \in Goroutines, NEW place, Goto(g, place),
             place \in {"swap", "notify", Rest(g)} \/ (g = Loop /\ place \in LoopPlaces)
      PROVE  /\ DOMAIN pc' = Goroutines /\ pc'[Loop] \in LoopPlaces
             /\ \A a \in Apps : pc'[a] \in AppPlaces
  <2>1. /\ g = Loop => place \in LoopPlaces
        /\ g # Loop => place \in AppPlaces
    BY <1>5 DEF LoopPlaces, AppPlaces, Rest
  <2> QED
    BY <1>5, <2>1, GotoTypes
<1> HIDE DEF NoKeys
<1>6. CASE Load
  <2>1. /\ DOMAIN pc' = Goroutines /\ pc'[Loop] \in LoopPlaces
        /\ \A a \in Apps : pc'[a] \in AppPlaces
    BY <1>1, <1>5, <1>6 DEF Load, LoopPlaces
  <2> QED
    BY <1>1, <1>2, <1>3, <1>4, <1>6, <2>1 DEF Load, CacheTypeOK
<1>7. ASSUME NEW g \in Goroutines, List(g) PROVE CacheTypeOK'
  <2>1. PICK map \in Map : reply' = [reply EXCEPT ![g] = [keys |-> map, at |-> now]]
    BY <1>7, ListedIsMap DEF List
  <2>2. [keys |-> map, at |-> now] \in Listing
    BY DEF Listing, CacheTypeOK
  <2>3. /\ DOMAIN pc' = Goroutines /\ pc'[Loop] \in LoopPlaces
        /\ \A a \in Apps : pc'[a] \in AppPlaces
    <3>1. g # Loop => pc[g] # "new"
      BY DEF CacheTypeOK, Goroutines, AppPlaces
    <3> QED
      BY <1>5, <1>7, <3>1 DEF List, LoopPlaces
  <2> QED
    BY <1>2, <1>7, <2>1, <2>2, <2>3 DEF List, CacheTypeOK
<1>8. ASSUME NEW g \in Goroutines, Swap(g) PROVE CacheTypeOK'
  <2>1. /\ DOMAIN pc' = Goroutines /\ pc'[Loop] \in LoopPlaces
        /\ \A a \in Apps : pc'[a] \in AppPlaces
    BY <1>5, <1>8 DEF Swap
  <2>2. cache.keys \in Map /\ newest' \in 0 .. MaxCommits /\ overlapped' \in BOOLEAN
    BY <1>4, <1>8 DEF Swap, CacheTypeOK, Listing
  <2>3. replaced' \in [Goroutines -> Map] /\ cache' \in Listing
    BY <1>4, <1>8, <2>2 DEF Swap, CacheTypeOK
  <2>4. UNCHANGED <<reply, told, cause, closed>>
    BY <1>8 DEF Swap
  <2> QED
    BY <1>2, <2>1, <2>2, <2>3, <2>4 DEF CacheTypeOK
<1>9. ASSUME NEW g \in Goroutines, NotifyChanges(g) PROVE CacheTypeOK'
  <2>1. /\ DOMAIN pc' = Goroutines /\ pc'[Loop] \in LoopPlaces
        /\ \A a \in Apps : pc'[a] \in AppPlaces
    BY <1>5, <1>9 DEF NotifyChanges
  <2>2. told' \in Map
    BY <1>4, <1>9 DEF NotifyChanges, CacheTypeOK, Map
  <2>3. /\ reply' \in [Goroutines -> Listing]
        /\ replaced' \in [Goroutines -> Map]
    BY <1>3, <1>9 DEF NotifyChanges, CacheTypeOK
  <2>4. UNCHANGED <<cache, cause, closed, newest, overlapped>>
    BY <1>9 DEF NotifyChanges
  <2> QED
    BY <1>2, <2>1, <2>2, <2>3, <2>4 DEF CacheTypeOK
<1>10. ASSUME NEW g \in Goroutines, Fail(g) PROVE CacheTypeOK'
  <2>1. /\ DOMAIN pc' = Goroutines /\ pc'[Loop] \in LoopPlaces
        /\ \A a \in Apps : pc'[a] \in AppPlaces
    <3>1. g # Loop => pc[g] # "new"
      BY DEF CacheTypeOK, Goroutines, AppPlaces
    <3> QED
      BY <1>5, <1>10, <3>1 DEF Fail, LoopPlaces
  <2>2. cause' \in [Goroutines -> 0 .. MaxCommits]
    BY <1>10, CacheConstants DEF Fail, CacheTypeOK
  <2>3. UNCHANGED <<reply, replaced, cache, told, closed, newest, overlapped>>
    BY <1>10 DEF Fail
  <2> QED
    BY <1>2, <2>1, <2>2, <2>3 DEF CacheTypeOK
<1> QED
  BY <1>6, <1>7, <1>8, <1>9, <1>10 DEF ReloadStep

LEMMA QuietTypes ==
    ASSUME CacheTypeOK, QuietStep
    PROVE  CacheTypeOK'
<1> USE DEF serverUnchanged, serverVars
<1>1. Loop \in Goroutines /\ Apps \subseteq Goroutines /\ Loop \notin Apps
      /\ Apps \subseteq Writers
  BY CacheConstants DEF Goroutines, Writers
<1>2. UNCHANGED <<known, history, live, shadowed, now, stamp, renumbered, reply,
                  replaced, cache, told, newest, overlapped>>
  BY DEF QuietStep, Poll, PollTimesOut, Stop, Close,
         Restart, Answered, Announce
<1>3. committed' \subseteq Writers /\ closed' \in BOOLEAN
  BY DEF QuietStep, Poll, PollTimesOut, Stop, Close,
         Restart, Answered, Announce, CacheTypeOK
<1>4. cause' \in [Goroutines -> 0 .. MaxCommits]
  <2>1. \A w \in Writers : stamp[w] \in 0 .. MaxCommits
    BY DEF CacheTypeOK
  <2>2. CASE UNCHANGED cause
    BY <2>2 DEF CacheTypeOK
  <2>3. CASE \E a \in Apps : Answered(a)
    BY <1>1, <2>1, <2>3 DEF Answered, CacheTypeOK
  <2>4. CASE \E w \in Writers : Announce(w)
    BY <1>1, <2>1, <2>4 DEF Announce, CacheTypeOK
  <2> QED
    BY <2>2, <2>3, <2>4 DEF QuietStep, Poll, PollTimesOut, Stop,
       Close, Restart
<1>5. /\ DOMAIN pc' = Goroutines /\ pc'[Loop] \in LoopPlaces
      /\ \A a \in Apps : pc'[a] \in AppPlaces
  <2>1. CASE UNCHANGED pc
    BY <2>1 DEF CacheTypeOK
  <2>2. CASE \E place \in LoopPlaces : Goto(Loop, place)
    BY <1>1, <2>2, GotoTypes
  <2>3. CASE \E a \in Apps : Answered(a)
    <3>1. "list" \in AppPlaces
      BY DEF AppPlaces
    <3> QED
      BY <1>1, <2>3, <3>1, GotoTypes DEF Answered
  <2>4. CASE Restart
    BY <1>1, <2>4 DEF Restart, CacheTypeOK, LoopPlaces, AppPlaces
  <2> QED
    BY <2>1, <2>2, <2>3, <2>4 DEF QuietStep, Poll, PollTimesOut, Stop,
       Close, Announce, Goto, LoopPlaces
<1> QED
  BY <1>2, <1>3, <1>4, <1>5 DEF CacheTypeOK

\* A key takes the place of the list, or leaves it.
LEMMA ShadowTypes ==
    ASSUME CacheTypeOK, HistoriesAreSeqs, OtherShadows
    PROVE  CacheTypeOK' /\ HistoriesAreSeqs' /\ HistoriesGrow
<1>1. now' \in 0 .. MaxCommits /\ shadowed' \in BOOLEAN
  BY CacheConstants DEF OtherShadows, CacheTypeOK
<1>2. UNCHANGED <<known, history, live, committed, stamp, renumbered, pc, reply,
                  replaced, cache, told, cause, closed, newest, overlapped>>
  BY DEF OtherShadows, clientVars
<1> QED
  BY <1>1, <1>2 DEF CacheTypeOK, HistoriesAreSeqs, HistoriesGrow

\* What the client reloads for has happened when it lists, and its cache has had
\* a listing of after that once it has swapped.
CausesHeard ==
    /\ \A w \in Writers : stamp[w] <= now
    /\ \A g \in Goroutines :
         /\ cause[g] <= now
         /\ pc[g] \in {"wait", "polling", "idle", "call", "notify"} => cause[g] <= newest
         /\ pc[g] = "swap" => cause[g] <= reply[g].at
    /\ ~Ready =>
         /\ newest = 0
         /\ \A g \in Goroutines : cause[g] = 0
         /\ \A a \in Apps : pc[a] = "idle"

LEMMA CausesInit ==
    ASSUME CacheInit
    PROVE  CausesHeard
BY CacheConstants DEF CacheInit, CausesHeard, Goroutines

\* A change at the server, and what is not about reloading.
LEMMA CausesElsewhere ==
    ASSUME CacheTypeOK, CausesHeard,
           \/ \E w \in Others : OtherWrites(w) \/ OtherDrops(w)
           \/ \E a \in Apps : AppWrites(a)
           \/ OtherShadows
           \/ QuietStep
    PROVE  CausesHeard'
<1> USE DEF serverUnchanged, serverVars, clientVars, Goto,
            Ready
<1>1. /\ now \in Nat /\ newest \in Nat
      /\ Loop \in Goroutines /\ Apps \subseteq Goroutines /\ Loop \notin Apps
      /\ Apps \subseteq Writers
      /\ DOMAIN pc = Goroutines
      /\ \A g \in Goroutines : cause[g] \in Nat /\ reply[g].at \in Nat
      /\ \A w \in Writers : stamp[w] \in Nat
      /\ stamp = [w \in Writers |-> stamp[w]]
      /\ cause = [g \in Goroutines |-> cause[g]]
  BY CacheConstants DEF CacheTypeOK, Goroutines, Writers, Listing
<1>2. ASSUME NEW w \in Writers, Commit(w)
      PROVE  now <= now' /\ \A x \in Writers : stamp'[x] <= now'
  BY <1>1, <1>2 DEF Commit, CausesHeard
<1>3. ASSUME NEW w \in Others, OtherWrites(w) \/ OtherDrops(w) PROVE CausesHeard'
  <2>1. now <= now' /\ now' \in Nat /\ \A x \in Writers : stamp'[x] <= now'
    <3>1. CASE Commit(w)
      <4>1. now' \in Nat
        BY <1>1, <3>1 DEF Commit
      <4>2. w \in Writers
        BY DEF Writers
      <4> QED
        BY <1>2, <3>1, <4>1, <4>2
    <3>2. CASE UNCHANGED <<now, stamp>>
      BY <1>1, <3>2 DEF CausesHeard
    <3> QED
      BY <1>3, <3>1, <3>2 DEF OtherWrites, OtherDrops
  <2>2. UNCHANGED <<pc, cause, newest, reply>>
    BY <1>3 DEF OtherWrites, OtherDrops
  <2> QED
    BY <1>1, <2>1, <2>2 DEF CausesHeard
<1>4. ASSUME NEW a \in Apps, AppWrites(a) PROVE CausesHeard'
  <2>1. now <= now' /\ now' \in Nat /\ \A x \in Writers : stamp'[x] <= now'
    <3>1. Commit(a) /\ a \in Writers
      BY <1>1, <1>4 DEF AppWrites
    <3>2. now' \in Nat
      BY <1>1, <3>1 DEF Commit
    <3> QED
      BY <1>2, <3>1, <3>2
  <2>2. UNCHANGED <<cause, newest, reply>> /\ pc' = [pc EXCEPT ![a] = "call"]
        /\ pc[a] = "idle" /\ Ready
    BY <1>4 DEF AppWrites
  <2> QED
    BY <1>1, <2>1, <2>2 DEF CausesHeard
<1>5. CASE QuietStep
  <2>1. UNCHANGED <<now, stamp, newest, reply>>
    BY <1>5 DEF QuietStep, Poll, PollTimesOut, Stop, Close,
           Restart, Answered, Announce
  <2>2. CASE Poll \/ PollTimesOut \/ Stop \/ Close
    BY <1>1, <2>1, <2>2 DEF Poll, PollTimesOut, Stop, Close,
           CausesHeard
  <2>3. CASE Restart
    BY <1>1, <2>1, <2>3 DEF Restart, CausesHeard
  <2>4. CASE \E a \in Apps : Answered(a)
    BY <1>1, <2>1, <2>4 DEF Answered, CausesHeard
  <2>5. CASE \E w \in Writers : Announce(w)
    BY <1>1, <2>1, <2>5 DEF Announce, CausesHeard
  <2> QED
    BY <1>5, <2>2, <2>3, <2>4, <2>5 DEF QuietStep
<1>6. CASE OtherShadows
  <2>1. now <= now' /\ now' \in Nat
    BY <1>1, <1>6 DEF OtherShadows
  <2>2. UNCHANGED <<stamp, pc, cause, newest, reply>>
    BY <1>6 DEF OtherShadows
  <2> QED
    BY <1>1, <2>1, <2>2 DEF CausesHeard
<1> QED
  BY <1>3, <1>4, <1>5, <1>6

LEMMA CausesReload ==
    ASSUME CacheTypeOK, CausesHeard, ReloadStep
    PROVE  CausesHeard'
<1> USE DEF serverUnchanged, serverVars, Goto, Ready
<1>1. /\ now \in Nat /\ newest \in Nat
      /\ Loop \in Goroutines /\ Apps \subseteq Goroutines /\ Loop \notin Apps
      /\ Goroutines = Apps \cup {Loop}
      /\ DOMAIN pc = Goroutines
      /\ \A g \in Goroutines : cause[g] \in Nat /\ reply[g].at \in Nat
      /\ DOMAIN reply = Goroutines
      /\ DOMAIN cause = Goroutines
      /\ \A a \in Apps : pc[a] \in AppPlaces
  BY CacheConstants DEF CacheTypeOK, Goroutines, Listing
<1>2. UNCHANGED <<now, stamp>>
  BY DEF ReloadStep, Load, List, Swap, NotifyChanges, Fail
<1>3. CASE Load
  BY <1>1, <1>2, <1>3 DEF Load, CausesHeard
<1>4. ASSUME NEW g \in Goroutines, List(g) PROVE CausesHeard'
  <2>1. PICK map : reply' = [reply EXCEPT ![g] = [keys |-> map, at |-> now]]
    BY <1>4 DEF List
  <2>2. UNCHANGED <<cause, newest>>
    BY <1>4 DEF List
  <2>3. \A h \in Goroutines : h # g => reply'[h] = reply[h] /\ pc'[h] = pc[h]
    BY <1>1, <1>4, <2>1 DEF List
  <2>4. reply'[g].at = now
    BY <1>1, <2>1
  <2>5. \/ pc[g] = "new" /\ pc'[g] = "load"
        \/ pc[g] = "list" /\ pc'[g] = "swap"
    BY <1>1, <1>4 DEF List
  <2>6. pc[g] = "new" => g = Loop
    BY <1>1 DEF AppPlaces
  <2> QED
    BY <1>1, <1>2, <2>2, <2>3, <2>4, <2>5, <2>6 DEF CausesHeard
<1>5. ASSUME NEW g \in Goroutines, Swap(g) PROVE CausesHeard'
  <2>1. /\ pc[g] = "swap" /\ pc' = [pc EXCEPT ![g] = "notify"]
        /\ newest' = IF newest < reply[g].at THEN reply[g].at ELSE newest
        /\ UNCHANGED <<reply, cause>>
    BY <1>5 DEF Swap
  <2>2. newest <= newest' /\ reply[g].at <= newest' /\ newest' \in Nat
    BY <1>1, <2>1
  <2>3. Ready
    BY <1>1, <2>1 DEF CausesHeard
  <2> QED
    BY <1>1, <1>2, <2>1, <2>2, <2>3 DEF CausesHeard
<1>6. ASSUME NEW g \in Goroutines, NotifyChanges(g) PROVE CausesHeard'
  <2>1. /\ pc[g] = "notify" /\ pc' = [pc EXCEPT ![g] = Rest(g)]
        /\ UNCHANGED <<newest, cause>>
        /\ \A h \in Goroutines : h # g => reply'[h] = reply[h]
    BY <1>1, <1>6 DEF NotifyChanges
  <2>2. Ready
    BY <1>1, <2>1 DEF CausesHeard
  <2>3. Rest(g) \in {"wait", "idle"}
    BY DEF Rest
  <2> QED
    BY <1>1, <1>2, <2>1, <2>2, <2>3 DEF CausesHeard, Rest
<1>7. ASSUME NEW g \in Goroutines, Fail(g) PROVE CausesHeard'
  <2>1. /\ pc' = [pc EXCEPT ![g] = IF pc[g] = "new" THEN "failed" ELSE Rest(g)]
        /\ pc[g] \in {"new", "list", "polling", "call"}
        /\ cause' = IF pc[g] = "list" THEN [cause EXCEPT ![g] = 0] ELSE cause
        /\ UNCHANGED <<newest, reply>>
    BY <1>7 DEF Fail
  <2>2. pc[g] = "new" => g = Loop
    BY <1>1 DEF AppPlaces
  <2>3. Rest(g) = IF g = Loop THEN "wait" ELSE "idle"
    BY DEF Rest
  <2> QED
    BY <1>1, <1>2, <2>1, <2>2, <2>3 DEF CausesHeard
<1> QED
  BY <1>3, <1>4, <1>5, <1>6, <1>7 DEF ReloadStep

\* What a map says of its keys is in the histories of the server.
StoredIn(map, histories) ==
    \A k \in Keys : map[k] # NoEntry =>
        \E l \in Heard :
            /\ l[2] = k
            /\ map[k].version \in 1 .. Len(histories[l])
            /\ map[k].value = histories[l][map[k].version]

Stored(map) == StoredIn(map, history)

MapsAreStored ==
    ~renumbered =>
        /\ Stored(cache.keys) /\ Stored(told)
        /\ \A g \in Goroutines : Stored(reply[g].keys) /\ Stored(replaced[g])

Agree(map, other) == \A k \in Keys : NamedOnce(k) => map[k] = other[k]

\* While no two reloads have called back at once and no namespace was dropped, one
\* goroutine at most has yet to call back, and what the application was told is
\* the map that this one took out.
OneCallsBack ==
    ~overlapped /\ ~renumbered =>
        \A g \in Goroutines : pc[g] = "notify" =>
            /\ \A h \in Goroutines : pc[h] = "notify" => h = g
            /\ cache.keys = reply[g].keys
            /\ Agree(told, replaced[g])

\* The inductive invariant.
CacheInv ==
    /\ CacheTypeOK
    /\ HistoriesAreSeqs
    /\ CausesHeard
    /\ MapsAreStored
    /\ OneCallsBack
    /\ AppKnowsTheCache

\* What is stored stays stored while histories grow, and a key of one name only
\* was one before.
LEMMA StoredStays ==
    ASSUME HistoriesAreSeqs, HistoriesAreSeqs', HistoriesGrow,
           NEW map, Stored(map)
    PROVE  StoredIn(map, history')
<1> SUFFICES ASSUME NEW k \in Keys, map[k] # NoEntry
             PROVE  \E l \in Heard :
                        /\ l[2] = k
                        /\ map[k].version \in 1 .. Len(history'[l])
                        /\ map[k].value = history'[l][map[k].version]
  BY DEF StoredIn
<1>1. PICK l \in Heard :
          /\ l[2] = k
          /\ map[k].version \in 1 .. Len(history[l])
          /\ map[k].value = history[l][map[k].version]
  BY DEF Stored, StoredIn
<1>2. l \in Loc
  BY HeardAreLocations
<1>3. Len(history[l]) \in Nat /\ Len(history'[l]) \in Nat
  BY <1>2 DEF HistoriesAreSeqs
<1>4. \A v \in 1 .. Len(history[l]) :
          v \in 1 .. Len(history'[l]) /\ history'[l][v] = history[l][v]
  BY <1>2, <1>3 DEF HistoriesGrow
<1> QED
  BY <1>1, <1>4

LEMMA NamedOnceBefore ==
    ASSUME HistoriesAreSeqs, HistoriesAreSeqs', HistoriesGrow,
           NEW k \in Keys, NamedOnce(k)'
    PROVE  NamedOnce(k)
<1>1. \A l \in Heard : history[l] # << >> => history'[l] # << >>
  <2> SUFFICES ASSUME NEW l \in Heard, history[l] # << >>
               PROVE  history'[l] # << >>
    OBVIOUS
  <2>1. history[l] \in Seq(Values) /\ history'[l] \in Seq(Values)
        /\ Len(history[l]) <= Len(history'[l])
    BY HeardAreLocations DEF HistoriesAreSeqs, HistoriesGrow
  <2>2. Len(history[l]) # 0
    BY <2>1
  <2>3. Len(history'[l]) # 0
    BY <2>1, <2>2
  <2> QED
    BY <2>3
<1>2. Heard' = Heard
  BY DEF Heard
<1> QED
  BY <1>1, <1>2 DEF NamedOnce

\* Of a key of one name, a version number says which entry it is.
LEMMA VersionsTellEntries ==
    ASSUME NEW old \in Map, NEW new \in Map, Stored(old), Stored(new),
           NEW k \in Keys, NamedOnce(k),
           k \notin Changes(old, new)
    PROVE  old[k] = new[k]
<1>1. CASE new[k] = NoEntry
  BY <1>1 DEF Changes, Deleted
<1>2. CASE new[k] # NoEntry
  <2>1. old[k] # NoEntry /\ old[k].version = new[k].version
    BY <1>2 DEF Changes, Updated
  <2>2. PICK l \in Heard :
            /\ l[2] = k
            /\ old[k].version \in 1 .. Len(history[l])
            /\ old[k].value = history[l][old[k].version]
    BY <2>1 DEF Stored, StoredIn
  <2>3. PICK m \in Heard :
            /\ m[2] = k
            /\ new[k].version \in 1 .. Len(history[m])
            /\ new[k].value = history[m][new[k].version]
    BY <1>2 DEF Stored, StoredIn
  <2>4. history[l] # << >> /\ history[m] # << >>
    BY <2>2, <2>3
  <2>5. l = m
    BY <2>2, <2>3, <2>4 DEF NamedOnce
  <2>6. old[k].value = new[k].value
    BY <2>1, <2>2, <2>3, <2>5
  <2>7. old[k] \in Entry /\ new[k] \in Entry
    BY <1>2, <2>1 DEF Map
  <2> QED
    BY <2>1, <2>6, <2>7 DEF Entry
<1> QED
  BY <1>1, <1>2

LEMMA CacheInvInit ==
    ASSUME CacheInit
    PROVE  CacheInv
<1>1. CacheTypeOK /\ HistoriesAreSeqs /\ CausesHeard
  BY CacheInitTypes, CausesInit
<1>2. /\ cache.keys = NoKeys.keys /\ told = NoKeys.keys
      /\ \A g \in Goroutines :
           reply[g].keys = NoKeys.keys /\ replaced[g] = NoKeys.keys
      /\ \A g \in Goroutines : pc[g] # "notify"
  BY DEF CacheInit
<1>3. Stored(NoKeys.keys)
  BY DEF Stored, StoredIn, NoKeys
<1> QED
  BY <1>1, <1>2, <1>3 DEF CacheInv, MapsAreStored, OneCallsBack, AppKnowsTheCache

\* A listing is of what the server has stored.
LEMMA ListingIsStored ==
    ASSUME CacheTypeOK, NEW map \in Listed
    PROVE  Stored(map)
<1> SUFFICES ASSUME NEW k \in Keys, map[k] # NoEntry
             PROVE  \E l \in Heard :
                        /\ l[2] = k
                        /\ map[k].version \in 1 .. Len(history[l])
                        /\ map[k].value = history[l][map[k].version]
  BY DEF Stored, StoredIn
<1>0. map \in CurrentMaps
  BY DEF Listed, NoKeys
<1>1. PICK l \in live : IsUnder(Mine, l[1]) /\ l[2] = k /\ map[k] = EntryAt(l)
  BY <1>0 DEF CurrentMaps
<1>2. l \in Heard
  BY <1>1 DEF Heard, CacheTypeOK
<1>3. map[k] \in Entry
  BY <1>0 DEF CurrentMaps, Map
<1>4. /\ map[k].version \in 1 .. MaxVersion
      /\ map[k].version = Len(history[l])
      /\ map[k].value = history[l][Len(history[l])]
  BY <1>1, <1>3 DEF Entry, EntryAt
<1> QED
  BY <1>1, <1>2, <1>4

LEMMA MapsReload ==
    ASSUME CacheInv, ReloadStep
    PROVE  MapsAreStored'
<1>1. UNCHANGED <<history, renumbered>>
  BY DEF ReloadStep, Load, List, Swap, NotifyChanges, Fail,
         serverUnchanged, serverVars
<1>2. SUFFICES ASSUME ~renumbered
               PROVE  /\ Stored(cache'.keys) /\ Stored(told')
                      /\ \A g \in Goroutines :
                           Stored(reply'[g].keys) /\ Stored(replaced'[g])
  <2>1. Heard' = Heard
    BY DEF Heard
  <2>2. Stored(cache.keys)' <=> Stored(cache'.keys)
    BY <1>1, <2>1 DEF Stored
  <2>3. Stored(told)' <=> Stored(told')
    BY <1>1, <2>1 DEF Stored
  <2>4. \A g : (Stored(reply[g].keys)' <=> Stored(reply'[g].keys))
               /\ (Stored(replaced[g])' <=> Stored(replaced'[g]))
    BY <1>1, <2>1 DEF Stored
  <2> QED
    BY <1>1, <1>2, <2>2, <2>3, <2>4 DEF MapsAreStored
<1>3. /\ Stored(cache.keys) /\ Stored(told)
      /\ \A g \in Goroutines : Stored(reply[g].keys) /\ Stored(replaced[g])
  BY <1>2 DEF CacheInv, MapsAreStored
<1>4. Stored(NoKeys.keys)
  BY DEF Stored, StoredIn, NoKeys
<1>5. /\ Loop \in Goroutines
      /\ DOMAIN reply = Goroutines /\ DOMAIN replaced = Goroutines
  BY DEF CacheInv, CacheTypeOK, Goroutines
<1>6. CASE Load
  BY <1>3, <1>4, <1>5, <1>6 DEF Load
<1>7. ASSUME NEW g \in Goroutines, List(g)
      PROVE  /\ Stored(cache'.keys) /\ Stored(told')
             /\ \A h \in Goroutines :
                  Stored(reply'[h].keys) /\ Stored(replaced'[h])
  <2>1. PICK map \in Listed :
            reply' = [reply EXCEPT ![g] = [keys |-> map, at |-> now]]
    BY <1>7 DEF List
  <2>2. Stored(map)
    BY <2>1, ListingIsStored DEF CacheInv
  <2>3. reply'[g].keys = map /\ \A h \in Goroutines : h # g => reply'[h] = reply[h]
    BY <1>5, <2>1
  <2>4. UNCHANGED <<replaced, cache, told>>
    BY <1>7 DEF List
  <2> QED
    BY <1>3, <2>2, <2>3, <2>4
<1>8. ASSUME NEW g \in Goroutines, Swap(g)
      PROVE  /\ Stored(cache'.keys) /\ Stored(told')
             /\ \A h \in Goroutines :
                  Stored(reply'[h].keys) /\ Stored(replaced'[h])
  BY <1>3, <1>5, <1>8 DEF Swap
<1>9. ASSUME NEW g \in Goroutines, NotifyChanges(g)
      PROVE  /\ Stored(cache'.keys) /\ Stored(told')
             /\ \A h \in Goroutines :
                  Stored(reply'[h].keys) /\ Stored(replaced'[h])
  <2>1. told' = [k \in Keys |-> IF k \in Changes(replaced[g], reply[g].keys)
                                THEN reply[g].keys[k] ELSE told[k]]
    BY <1>9 DEF NotifyChanges
  <2>2. Stored(told')
    BY <1>3, <2>1 DEF Stored, StoredIn
  <2>3. \A h \in Goroutines :
          /\ reply'[h].keys \in {reply[h].keys, NoKeys.keys}
          /\ replaced'[h] \in {replaced[h], NoKeys.keys}
    BY <1>5, <1>9 DEF NotifyChanges
  <2>4. UNCHANGED cache
    BY <1>9 DEF NotifyChanges
  <2> QED
    BY <1>3, <1>4, <2>2, <2>3, <2>4
<1>10. ASSUME NEW g \in Goroutines, Fail(g)
       PROVE  /\ Stored(cache'.keys) /\ Stored(told')
              /\ \A h \in Goroutines :
                   Stored(reply'[h].keys) /\ Stored(replaced'[h])
  BY <1>3, <1>10 DEF Fail
<1> QED
  BY <1>6, <1>7, <1>8, <1>9, <1>10 DEF ReloadStep

\* While no map changes hands, what is known stays known.
LEMMA MapsElsewhere ==
    ASSUME CacheInv, HistoriesAreSeqs',
           renumbered' \/ (HistoriesGrow /\ UNCHANGED renumbered),
           UNCHANGED <<reply, replaced, cache, told, overlapped>>,
           \A g \in Goroutines : pc'[g] = "notify" <=> pc[g] = "notify"
    PROVE  MapsAreStored' /\ OneCallsBack' /\ AppKnowsTheCache'
<1>1. CASE renumbered'
  BY <1>1 DEF MapsAreStored, OneCallsBack, AppKnowsTheCache
<1>2. CASE ~renumbered'
  <2>1. HistoriesGrow /\ ~renumbered
    BY <1>2
  <2>2. Heard' = Heard /\ Goroutines' = Goroutines
    BY DEF Heard, Goroutines
  <2>3. MapsAreStored'
    <3>1. /\ Stored(cache.keys) /\ Stored(told)
          /\ \A g \in Goroutines : Stored(reply[g].keys) /\ Stored(replaced[g])
      BY <2>1 DEF CacheInv, MapsAreStored
    <3>2. Stored(cache.keys)'
      BY <2>1, <2>2, <3>1, StoredStays DEF CacheInv, Stored
    <3>3. Stored(told)'
      BY <2>1, <2>2, <3>1, StoredStays DEF CacheInv, Stored
    <3>4. ASSUME NEW g \in Goroutines
          PROVE  Stored(reply[g].keys)' /\ Stored(replaced[g])'
      BY <2>1, <2>2, <3>1, StoredStays DEF CacheInv, Stored
    <3> QED
      BY <2>2, <3>2, <3>3, <3>4 DEF MapsAreStored
  <2>4. \A k \in Keys : NamedOnce(k)' => NamedOnce(k)
    BY <2>1, NamedOnceBefore DEF CacheInv
  <2>5. OneCallsBack'
    BY <2>1, <2>2, <2>4 DEF CacheInv, OneCallsBack, Agree
  <2>6. AppKnowsTheCache'
    BY <2>1, <2>2, <2>4 DEF CacheInv, AppKnowsTheCache
  <2> QED
    BY <2>3, <2>5, <2>6
<1> QED
  BY <1>1, <1>2

LEMMA ToldReload ==
    ASSUME CacheInv, ReloadStep
    PROVE  OneCallsBack' /\ AppKnowsTheCache'
<1>1. UNCHANGED <<history, renumbered>> /\ (overlapped => overlapped')
  <2>1. UNCHANGED <<history, renumbered>>
    BY DEF ReloadStep, Load, List, Swap, NotifyChanges,
           Fail, serverUnchanged, serverVars
  <2>2. UNCHANGED overlapped \/ \E g \in Goroutines : Swap(g)
    BY DEF ReloadStep, Load, List, NotifyChanges, Fail
  <2>3. ASSUME NEW g, Swap(g), overlapped PROVE overlapped'
    BY <2>3, Zenon DEF Swap
  <2> QED
    BY <2>1, <2>2, <2>3
<1>2. /\ Goroutines' = Goroutines
      /\ \A k \in Keys : NamedOnce(k)' <=> NamedOnce(k)
  BY <1>1 DEF Goroutines, NamedOnce, Heard
<1>3. SUFFICES ASSUME ~overlapped', ~overlapped, ~renumbered
               PROVE  /\ \A g \in Goroutines : pc'[g] = "notify" =>
                           /\ \A h \in Goroutines : pc'[h] = "notify" => h = g
                           /\ cache'.keys = reply'[g].keys
                           /\ Agree(told', replaced'[g])
                      /\ (\A g \in Goroutines : pc'[g] # "notify") =>
                           Agree(told', cache'.keys)
  BY <1>1, <1>2, <1>3 DEF OneCallsBack, AppKnowsTheCache, Agree
<1>4. /\ \A g \in Goroutines : pc[g] = "notify" =>
           /\ \A h \in Goroutines : pc[h] = "notify" => h = g
           /\ cache.keys = reply[g].keys
           /\ Agree(told, replaced[g])
      /\ (\A g \in Goroutines : pc[g] # "notify") => Agree(told, cache.keys)
  BY <1>3 DEF CacheInv, OneCallsBack, AppKnowsTheCache, Agree
<1>5. /\ Goroutines = Apps \cup {Loop}
      /\ DOMAIN pc = Goroutines
      /\ DOMAIN reply = Goroutines /\ DOMAIN replaced = Goroutines
  BY DEF CacheInv, CacheTypeOK, Goroutines
<1>6. CASE Load
  <2>1. \A g \in Goroutines : pc'[g] # "notify"
    BY <1>5, <1>6 DEF Load, Goto, Ready, CacheInv, CausesHeard
  <2>2. told' = cache'.keys
    BY <1>6 DEF Load
  <2> QED
    BY <2>1, <2>2 DEF Agree
<1>7. ASSUME NEW g \in Goroutines, List(g) \/ Fail(g)
      PROVE  /\ \A h \in Goroutines :
                  /\ pc'[h] = "notify" <=> pc[h] = "notify"
                  /\ pc[h] = "notify" => reply'[h] = reply[h]
             /\ UNCHANGED <<replaced, cache, told>>
  <2>1. pc[g] # "notify" /\ pc'[g] # "notify"
    BY <1>5, <1>7 DEF List, Fail, Goto, Rest
  <2>2. \A h \in Goroutines : h # g => pc'[h] = pc[h]
    BY <1>5, <1>7 DEF List, Fail, Goto
  <2>3. \A h \in Goroutines : h # g => reply'[h] = reply[h]
    BY <1>5, <1>7 DEF List, Fail
  <2>4. UNCHANGED <<replaced, cache, told>>
    BY <1>7 DEF List, Fail
  <2> QED
    BY <2>1, <2>2, <2>3, <2>4
<1>8. CASE \E g \in Goroutines : List(g) \/ Fail(g)
  BY <1>4, <1>7, <1>8
<1>9. ASSUME NEW g \in Goroutines, Swap(g)
      PROVE  /\ \A h \in Goroutines : pc'[h] = "notify" => h = g
             /\ pc'[g] = "notify"
             /\ cache'.keys = reply'[g].keys
             /\ Agree(told', replaced'[g])
  <2>1. \A h \in Goroutines : pc[h] # "notify"
    BY <1>3, <1>9 DEF Swap
  <2>2. pc' = [pc EXCEPT ![g] = "notify"]
    BY <1>9 DEF Swap, Goto
  <2>3. /\ cache' = reply[g] /\ reply' = reply /\ told' = told
        /\ replaced'[g] = cache.keys
    BY <1>5, <1>9 DEF Swap
  <2> QED
    BY <1>4, <1>5, <2>1, <2>2, <2>3
<1>10. ASSUME NEW g \in Goroutines, NotifyChanges(g)
       PROVE  /\ \A h \in Goroutines : pc'[h] # "notify"
              /\ Agree(told', cache'.keys)
  <2>1. pc[g] = "notify" /\ pc' = [pc EXCEPT ![g] = Rest(g)] /\ cache' = cache
    BY <1>10 DEF NotifyChanges, Goto
  <2>2. /\ \A h \in Goroutines : pc[h] = "notify" => h = g
        /\ cache.keys = reply[g].keys
        /\ Agree(told, replaced[g])
    BY <1>4, <2>1
  <2>3. Rest(g) # "notify"
    BY DEF Rest
  <2>4. told' = [k \in Keys |-> IF k \in Changes(replaced[g], reply[g].keys)
                                THEN reply[g].keys[k] ELSE told[k]]
    BY <1>10 DEF NotifyChanges
  <2>5. replaced[g] \in Map /\ reply[g].keys \in Map
    BY DEF CacheInv, CacheTypeOK, Listing
  <2>6. Stored(replaced[g]) /\ Stored(reply[g].keys)
    BY <1>3 DEF CacheInv, MapsAreStored
  <2>7. ASSUME NEW k \in Keys, NamedOnce(k),
               k \notin Changes(replaced[g], reply[g].keys)
        PROVE  told[k] = reply[g].keys[k]
    <3>1. replaced[g][k] = reply[g].keys[k]
      BY <2>5, <2>6, <2>7, VersionsTellEntries
    <3> QED
      BY <2>2, <2>7, <3>1 DEF Agree
  <2>8. Agree(told', cache'.keys)
    BY <2>1, <2>2, <2>4, <2>7 DEF Agree
  <2> QED
    BY <1>5, <2>1, <2>2, <2>3, <2>8
<1> QED
  BY <1>6, <1>8, <1>9, <1>10 DEF ReloadStep

LEMMA CacheStep ==
    ASSUME CacheInv, [CacheNext]_cacheVars
    PROVE  CacheInv'
<1>1. CASE \E w \in Others : OtherWrites(w)
  <2>1. CacheTypeOK' /\ HistoriesAreSeqs' /\ HistoriesGrow
    BY <1>1, WriteTypes DEF CacheInv
  <2>2. CausesHeard'
    BY <1>1, CausesElsewhere DEF CacheInv
  <2>3. UNCHANGED <<renumbered, pc, reply, replaced, cache, told, overlapped>>
    BY <1>1 DEF OtherWrites, clientVars
  <2> QED
    BY <2>1, <2>2, <2>3, MapsElsewhere DEF CacheInv
<1>2. CASE \E w \in Others : OtherDrops(w)
  <2>1. CacheTypeOK' /\ HistoriesAreSeqs'
    BY <1>2, DropTypes DEF CacheInv
  <2>2. CausesHeard'
    BY <1>2, CausesElsewhere DEF CacheInv
  <2>3. renumbered' /\ UNCHANGED <<pc, reply, replaced, cache, told, overlapped>>
    BY <1>2 DEF OtherDrops, clientVars
  <2> QED
    BY <2>1, <2>2, <2>3, MapsElsewhere DEF CacheInv
<1>3. CASE \E a \in Apps : AppWrites(a)
  <2>1. CacheTypeOK' /\ HistoriesAreSeqs' /\ HistoriesGrow
    BY <1>3, WriteTypes DEF CacheInv
  <2>2. CausesHeard'
    BY <1>3, CausesElsewhere DEF CacheInv
  <2>3. UNCHANGED <<renumbered, reply, replaced, cache, told, overlapped>>
    BY <1>3 DEF AppWrites
  <2>4. \A g \in Goroutines : pc'[g] = "notify" <=> pc[g] = "notify"
    BY <1>3 DEF AppWrites, Goto, CacheInv, CacheTypeOK
  <2> QED
    BY <2>1, <2>2, <2>3, <2>4, MapsElsewhere DEF CacheInv
<1>4. CASE ReloadStep
  <2>1. UNCHANGED history
    BY <1>4 DEF ReloadStep, Load, List, Swap, NotifyChanges,
           Fail, serverUnchanged, serverVars
  <2>2. CacheTypeOK' /\ HistoriesAreSeqs'
    BY <1>4, <2>1, ReloadTypes DEF CacheInv, HistoriesAreSeqs
  <2> QED
    BY <1>4, <2>2, CausesReload, MapsReload, ToldReload DEF CacheInv
<1>5. CASE QuietStep
  <2>1. UNCHANGED <<history, renumbered, reply, replaced, cache, told, overlapped>>
    BY <1>5 DEF QuietStep, Poll, PollTimesOut, Stop, Close,
           Restart, Answered, Announce, serverUnchanged,
           serverVars
  <2>2. CacheTypeOK' /\ HistoriesAreSeqs' /\ HistoriesGrow
    BY <1>5, <2>1, QuietTypes DEF CacheInv, HistoriesAreSeqs, HistoriesGrow
  <2>3. \A g \in Goroutines : pc'[g] = "notify" <=> pc[g] = "notify"
    BY <1>5 DEF QuietStep, Poll, PollTimesOut, Stop, Close,
           Restart, Answered, Announce, Goto, CacheInv,
           CacheTypeOK
  <2> QED
    BY <1>5, <2>1, <2>2, <2>3, CausesElsewhere, MapsElsewhere DEF CacheInv
<1>6. CASE OtherShadows
  <2>1. CacheTypeOK' /\ HistoriesAreSeqs' /\ HistoriesGrow
    BY <1>6, ShadowTypes DEF CacheInv
  <2>2. CausesHeard'
    BY <1>6, CausesElsewhere DEF CacheInv
  <2>3. UNCHANGED <<renumbered, pc, reply, replaced, cache, told, overlapped>>
    BY <1>6 DEF OtherShadows, clientVars
  <2> QED
    BY <2>1, <2>2, <2>3, MapsElsewhere DEF CacheInv
<1>7. CASE UNCHANGED cacheVars
  <2>1. UNCHANGED <<known, history, live, shadowed, now, committed, stamp, renumbered, pc, reply,
                    replaced, cache, told, cause, closed, newest, overlapped>>
    BY <1>7 DEF cacheVars, serverVars, clientVars
  <2>2. CacheTypeOK' /\ HistoriesAreSeqs' /\ HistoriesGrow
    BY <2>1 DEF CacheInv, CacheTypeOK, HistoriesAreSeqs, HistoriesGrow
  <2>3. CausesHeard'
    BY <2>1 DEF CacheInv, CausesHeard, Ready
  <2> QED
    BY <2>1, <2>2, <2>3, MapsElsewhere DEF CacheInv
<1> QED
  BY <1>1, <1>2, <1>3, <1>4, <1>5, <1>6, <1>7, CacheNextCases

\* Under the assumption that CachedClient makes of its constants, as the next two
\* theorems are: whoever reloads, and whatever fails, the goroutines of the client
\* are where the code can be, and the map holds entries of the server.
THEOREM CacheTypeCorrect == CacheSpec => []CacheTypeOK
<1>1. CacheInit => CacheInv
  BY CacheInvInit
<1>2. CacheInv /\ [CacheNext]_cacheVars => CacheInv'
  BY CacheStep
<1>3. CacheInv => CacheTypeOK
  BY DEF CacheInv
<1> QED
  BY <1>1, <1>2, <1>3, PTL DEF CacheSpec

\* A Set or Delete that has returned, and an event the loop has dealt with, are in
\* the cache, unless an older listing has taken the place of a newer one; however
\* many goroutines the application has and whatever is interleaved.
THEOREM ReloadsIncludeTheirCauses == CacheSpec => []CacheIncludesCauses
<1>1. CacheInit => CacheInv
  BY CacheInvInit
<1>2. CacheInv /\ [CacheNext]_cacheVars => CacheInv'
  BY CacheStep
<1>3. CacheInv => CacheIncludesCauses
  BY DEF CacheInv, CausesHeard, CacheIncludesCauses
<1> QED
  BY <1>1, <1>2, <1>3, PTL DEF CacheSpec

\* The callbacks tell the application what the cache holds, unless two reloads
\* called back at once, a namespace was dropped, or two namespaces have a key of
\* that name: until then a version number of a key stands for one value.
THEOREM CallbacksTellTheCache == CacheSpec => []AppKnowsTheCache
<1>1. CacheInit => CacheInv
  BY CacheInvInit
<1>2. CacheInv /\ [CacheNext]_cacheVars => CacheInv'
  BY CacheStep
<1>3. CacheInv => AppKnowsTheCache
  BY DEF CacheInv
<1> QED
  BY <1>1, <1>2, <1>3, PTL DEF CacheSpec
=============================================================================
