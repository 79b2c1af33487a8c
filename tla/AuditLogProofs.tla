--------------------------- MODULE AuditLogProofs ---------------------------
(***************************************************************************)
(* Proofs about AuditLog, for any entries, namespaces and limits.          *)
(***************************************************************************)
EXTENDS AuditLog, FiniteSetTheorems, TLAPS

\* Every entry came in a transaction of its own.
LogIsFinite == IsFiniteSet(log)

\* A walk is about entries that its filter lets through.
WalkMatches == pc # "idle" => before \subseteq Matching(filter)

IInv == TypeOK /\ LogIsFinite /\ WalkMatches /\ NoGaps

----------------------------------------------------------------------------
(* Counting entries.                                                       *)

LEMMA SubsetIsCounted ==
    ASSUME NEW S, IsFiniteSet(S), NEW T, T \subseteq S
    PROVE  IsFiniteSet(T) /\ Cardinality(T) \in Nat
BY FS_Subset, FS_CardinalityType

LEMMA PositionIsNat ==
    ASSUME LogIsFinite, NEW f, NEW e
    PROVE  Position(f, e) \in Nat /\ Cardinality(Matching(f)) \in Nat
BY SubsetIsCounted DEF LogIsFinite, Position, Matching

LEMMA LimitIsCapped ==
    ASSUME NEW l \in Limits
    PROVE  EffectiveLimit(l) \in 1 .. MaxLimit
BY AuditConstants DEF EffectiveLimit

\* Adding entries never moves one towards the front.
LEMMA PositionsGrow ==
    ASSUME log \subseteq log', LogIsFinite', LogIsFinite, NEW f, NEW e
    PROVE  Position(f, e) <= Position(f, e)'
<1> DEFINE Newer == {x \in Matching(f) : x.key > e.key}
<1>1. Newer \subseteq Newer'
  BY DEF Matching
<1>2. IsFiniteSet(Newer')
  BY FS_Subset DEF LogIsFinite, Matching
<1> QED
  BY <1>1, <1>2, FS_Subset DEF Position

----------------------------------------------------------------------------
(* The invariant.                                                          *)

LEMMA IInit == Init => IInv
<1> SUFFICES ASSUME Init PROVE IInv
  OBVIOUS
<1>1. TypeOK
  <2>1. /\ log \subseteq Entry
        /\ pc \in {"idle", "count", "page", "shown"}
        /\ filter \in NamespaceNames \cup {All}
        /\ limit \in 1 .. MaxLimit
        /\ {offset, total} \subseteq Nat
    BY AuditConstants DEF Init
  <2>2. more \in BOOLEAN /\ shown \subseteq seen
    BY DEF Init
  <2>3. before \subseteq log /\ seen \subseteq log
    BY DEF Init
  <2> QED
    BY <2>1, <2>2, <2>3 DEF TypeOK
<1>2. LogIsFinite
  BY FS_EmptySet DEF Init, LogIsFinite
<1>3. WalkMatches /\ NoGaps
  BY DEF Init, WalkMatches, NoGaps
<1> QED
  BY <1>1, <1>2, <1>3 DEF IInv

LEMMA LogKeepsIInv ==
    ASSUME IInv, NEW k \in Keys, NEW ns \in NamespaceNames, LogOperation(k, ns)
    PROVE  IInv'
<1> DEFINE entry == [key |-> k, namespace |-> ns]
<1>1. log' = log \cup {entry} /\ UNCHANGED reader
  BY DEF LogOperation
<1>2. entry \in Entry
  BY DEF Entry
<1> HIDE DEF entry
<1>3. TypeOK'
  BY <1>1, <1>2 DEF IInv, TypeOK, reader
<1>4. LogIsFinite'
  BY <1>1, FS_AddElement DEF IInv, LogIsFinite
<1>5. WalkMatches'
  BY <1>1 DEF IInv, WalkMatches, Matching, reader
<1>6. NoGaps'
  <2> SUFFICES ASSUME pc' # "idle", NEW e \in before' \ seen'
               PROVE  Position(filter, e)' >= NextOffset'
    BY DEF NoGaps
  <2>1. UNCHANGED <<pc, filter, offset, limit, before, seen>>
    BY <1>1 DEF reader
  <2>2. Position(filter, e) >= NextOffset /\ NextOffset' = NextOffset
    BY <2>1 DEF IInv, NoGaps, NextOffset
  <2>3. \A f : Position(f, e) <= Position(f, e)'
    BY <1>1, <1>4, PositionsGrow DEF IInv
  <2>4. Position(filter, e) \in Nat /\ Position(filter, e)' \in Nat /\ NextOffset \in Nat
    <3>1. Position(filter, e) \in Nat
      BY PositionIsNat DEF IInv
    <3>2. Position(filter, e)' \in Nat
      BY <1>4, SubsetIsCounted DEF LogIsFinite, Position, Matching
    <3>3. NextOffset \in Nat
      BY AuditConstants DEF IInv, TypeOK, NextOffset
    <3> QED
      BY <3>1, <3>2, <3>3
  <2>5. Position(filter, e) <= Position(filter, e)'
    BY <2>1, <2>3 DEF Position, Matching
  <2> QED
    BY <2>2, <2>4, <2>5
<1> QED
  BY <1>3, <1>4, <1>5, <1>6 DEF IInv

LEMMA StartKeepsIInv ==
    ASSUME IInv, NEW f \in NamespaceNames \cup {All}, NEW l \in Limits,
           StartWalk(f, l)
    PROVE  IInv'
<1>1. TypeOK'
  <2>1. /\ limit' \in 1 .. MaxLimit /\ filter' \in NamespaceNames \cup {All}
        /\ {offset', total'} \subseteq Nat
    BY LimitIsCapped DEF IInv, TypeOK, StartWalk
  <2>3. more' \in BOOLEAN /\ log' \subseteq Entry /\ pc' = "count"
    BY DEF IInv, TypeOK, StartWalk
  <2>2. /\ shown' \subseteq seen'
        /\ before' \subseteq log' /\ seen' \subseteq log'
    BY DEF StartWalk, Matching
  <2> QED
    BY <2>1, <2>2, <2>3 DEF TypeOK
<1>2. LogIsFinite'
  BY DEF IInv, LogIsFinite, StartWalk
<1>3. WalkMatches'
  BY DEF WalkMatches, StartWalk, Matching
<1>4. NoGaps'
  <2>1. NextOffset' = 0
    BY DEF NextOffset, StartWalk
  <2>2. \A e : Position(filter, e)' \in Nat
    BY <1>2, SubsetIsCounted DEF LogIsFinite, Position, Matching
  <2> QED
    BY <2>1, <2>2 DEF NoGaps
<1> QED
  BY <1>1, <1>2, <1>3, <1>4 DEF IInv

\* What a page leaves out lies before it or behind it.
LEMMA GetPageKeepsIInv ==
    ASSUME IInv, GetPage
    PROVE  IInv'
<1>1. TypeOK'
  BY DEF IInv, TypeOK, GetPage, Page, Matching, HasMore
<1>2. LogIsFinite' /\ WalkMatches'
  BY DEF IInv, LogIsFinite, WalkMatches, GetPage, Matching
<1>3. NoGaps'
  <2> SUFFICES ASSUME NEW e \in before' \ seen'
               PROVE  Position(filter, e)' >= NextOffset'
    BY DEF NoGaps
  <2>1. /\ pc = "page" /\ e \in before \ seen
        /\ e \in Matching(filter) \ Page(filter, offset, limit)
    BY DEF IInv, WalkMatches, GetPage
  <2>2. Position(filter, e) >= offset
    BY <2>1 DEF IInv, NoGaps, NextOffset
  <2>3. Position(filter, e) \in Nat /\ offset \in Nat /\ limit \in Nat
    BY PositionIsNat, AuditConstants DEF IInv, TypeOK
  <2>4. Position(filter, e) >= offset + limit
    BY <2>1, <2>2, <2>3 DEF Page
  <2>5. Position(filter, e)' = Position(filter, e) /\ NextOffset' = offset + limit
    BY DEF Position, Matching, NextOffset, GetPage
  <2> QED
    BY <2>4, <2>5
<1> QED
  BY <1>1, <1>2, <1>3 DEF IInv

LEMMA StepKeepsIInv == IInv /\ [Next]_vars => IInv'
<1> SUFFICES ASSUME IInv, [Next]_vars PROVE IInv'
  OBVIOUS
<1>1. CASE \E k \in Keys, ns \in NamespaceNames : LogOperation(k, ns)
  BY <1>1, LogKeepsIInv
<1>2. CASE \E f \in NamespaceNames \cup {All}, l \in Limits : StartWalk(f, l)
  BY <1>2, StartKeepsIInv
<1>3. CASE GetPage
  BY <1>3, GetPageKeepsIInv
<1>4. CASE Count
  <2>1. Cardinality(Matching(filter)) \in Nat
    BY PositionIsNat DEF IInv
  <2>2. TypeOK'
    BY <1>4, <2>1 DEF IInv, TypeOK, Count
  <2> QED
    BY <1>4, <2>2 DEF IInv, LogIsFinite, WalkMatches, NoGaps, NextOffset, Count,
                      Position, Matching
<1>5. CASE GiveUp
  BY <1>5 DEF IInv, TypeOK, LogIsFinite, WalkMatches, NoGaps, GiveUp
<1>6. CASE NextPage
  <2>1. TypeOK'
    BY <1>6, AuditConstants DEF IInv, TypeOK, NextPage
  <2> QED
    BY <1>6, <2>1 DEF IInv, LogIsFinite, WalkMatches, NoGaps, NextOffset, NextPage,
                      Position, Matching
<1>7. CASE UNCHANGED vars
  BY <1>7 DEF vars, reader, IInv, TypeOK, LogIsFinite, WalkMatches, NoGaps,
              NextOffset, Position, Matching
<1> QED
  BY <1>1, <1>2, <1>3, <1>4, <1>5, <1>6, <1>7 DEF Next

----------------------------------------------------------------------------
\* Every variable keeps its type; a page never has more than MaxLimit entries.
THEOREM TypeCorrect == Spec => []TypeOK
<1>1. IInv => TypeOK
  BY DEF IInv
<1> QED
  BY <1>1, IInit, StepKeepsIInv, PTL DEF Spec

\* A walk over the pages leaves no gap, for any entries and in whatever order
\* they are added.
THEOREM PagesLeaveNoGap == Spec => []NoGaps
<1>1. IInv => NoGaps
  BY DEF IInv
<1> QED
  BY <1>1, IInit, StepKeepsIInv, PTL DEF Spec

----------------------------------------------------------------------------
(* What a page counts for.                                                 *)

\* No two entries have the same key.
KeysDiffer == \A e, x \in log : e.key = x.key => e = x

\* The count that a page is compared with is older than the page.
CountIsPast == pc = "page" => total <= Cardinality(Matching(filter))

\* MoreIsTrue, counted: the next page begins before the end.
MoreIsCounted ==
    pc = "shown" /\ more =>
        /\ Cardinality(shown) = limit
        /\ offset + limit < Cardinality(Matching(filter))

CountInv == IInv /\ KeysDiffer /\ CountIsPast /\ MoreIsCounted

\* The entries a filter lets through have the positions 0, 1, ... without a gap
\* and without a tie.
LEMMA PositionsAreExact ==
    ASSUME TypeOK, LogIsFinite, KeysDiffer, NEW f
    PROVE  [e \in Matching(f) |-> Position(f, e)]
             \in Bijection(Matching(f), 0 .. Cardinality(Matching(f)) - 1)
<1> DEFINE M == Matching(f)
           P == [e \in M |-> Position(f, e)]
           Newer(e) == {x \in M : x.key > e.key}
<1>1. M \subseteq log /\ IsFiniteSet(M) /\ Cardinality(M) \in Nat
  BY SubsetIsCounted DEF LogIsFinite, Matching
<1>2. \A e \in M : e.key \in Nat
  BY <1>1, AuditConstants DEF TypeOK, Entry
<1>3. ASSUME NEW e \in M
      PROVE  IsFiniteSet(Newer(e)) /\ Position(f, e) = Cardinality(Newer(e))
             /\ Position(f, e) \in 0 .. Cardinality(M) - 1 /\ Position(f, e) \in Nat
  <2>1. Newer(e) \in SUBSET (M \ {e})
    BY <1>2
  <2>2. IsFiniteSet(M \ {e}) /\ Cardinality(M \ {e}) = Cardinality(M) - 1
    BY <1>1, FS_RemoveElement
  <2>3. /\ IsFiniteSet(Newer(e)) /\ Cardinality(Newer(e)) \in Nat
        /\ Cardinality(Newer(e)) <= Cardinality(M) - 1
    BY <2>1, <2>2, FS_Subset, FS_CardinalityType
  <2>4. Position(f, e) = Cardinality(Newer(e))
    BY DEF Position
  <2> QED
    BY <1>1, <2>3, <2>4
<1>4. ASSUME NEW e \in M, NEW x \in M, x.key > e.key
      PROVE  Position(f, x) < Position(f, e)
  <2>1. Newer(x) \in SUBSET (Newer(e) \ {x}) /\ x \in Newer(e)
    BY <1>2, <1>4
  <2>2. /\ IsFiniteSet(Newer(e)) /\ Position(f, e) = Cardinality(Newer(e))
        /\ Position(f, x) = Cardinality(Newer(x))
        /\ Position(f, e) \in Nat /\ Position(f, x) \in Nat
    BY <1>3, Zenon
  <2>3. /\ IsFiniteSet(Newer(e) \ {x})
        /\ Cardinality(Newer(e) \ {x}) = Cardinality(Newer(e)) - 1
    BY <2>1, <2>2, FS_RemoveElement
  <2>4. Cardinality(Newer(x)) <= Cardinality(Newer(e) \ {x})
    BY <2>1, <2>3, FS_Subset
  <2> QED
    BY <2>2, <2>3, <2>4
<1>5. P \in Injection(M, 0 .. Cardinality(M) - 1)
  <2>1. P \in [M -> 0 .. Cardinality(M) - 1]
    BY <1>3
  <2>2. ASSUME NEW e \in M, NEW x \in M, P[e] = P[x] PROVE e = x
    <3>1. Position(f, e) = Position(f, x)
      BY <2>2
    <3>2. Position(f, e) \in Nat /\ Position(f, x) \in Nat
      BY <1>3, Zenon
    <3>3. e.key = x.key
      BY <1>2, <1>4, <3>1, <3>2
    <3> QED
      BY <1>1, <3>3 DEF KeysDiffer
  <2> QED
    BY <2>1, <2>2 DEF Injection, IsInjective
<1>6. /\ IsFiniteSet(0 .. Cardinality(M) - 1)
      /\ Cardinality(0 .. Cardinality(M) - 1) = Cardinality(M)
  BY <1>1, FS_Interval
<1>7. P \in Surjection(M, 0 .. Cardinality(M) - 1)
  BY <1>5, <1>6, FS_Injection
<1> QED
  BY <1>5, <1>7 DEF Bijection

\* So between two positions there are as many entries as numbers.
LEMMA RangeIsCounted ==
    ASSUME TypeOK, LogIsFinite, KeysDiffer, NEW f,
           NEW a \in Nat, NEW b \in Nat, a <= b, b <= Cardinality(Matching(f))
    PROVE  Cardinality({e \in Matching(f) : Position(f, e) \in a .. b - 1}) = b - a
<1> DEFINE M == Matching(f)
           n == Cardinality(M)
           P == [e \in M |-> Position(f, e)]
           R == {e \in M : Position(f, e) \in a .. b - 1}
           Q == [e \in R |-> P[e]]
<1>1. /\ P \in [M -> 0 .. n - 1]
      /\ \A e, x \in M : P[e] = P[x] => e = x
      /\ \A k \in 0 .. n - 1 : \E e \in M : P[e] = k
  BY PositionsAreExact DEF Bijection, Injection, Surjection, IsInjective
<1>2. n \in Nat /\ IsFiniteSet(M)
  BY SubsetIsCounted DEF LogIsFinite, Matching
<1>3. Q \in [R -> a .. b - 1]
  OBVIOUS
<1>4. \A e, x \in R : Q[e] = Q[x] => e = x
  BY <1>1
<1>5. ASSUME NEW k \in a .. b - 1 PROVE \E e \in R : Q[e] = k
  <2>1. k \in 0 .. n - 1
    BY <1>2
  <2> QED
    BY <1>1, <2>1
<1> HIDE DEF Q
<1>6. Q \in Bijection(R, a .. b - 1)
  BY <1>3, <1>4, <1>5 DEF Bijection, Injection, Surjection, IsInjective
<1>7. IsFiniteSet(R)
  BY <1>2, FS_Subset
<1>8. Cardinality(a .. b - 1) = Cardinality(R)
  BY <1>6, <1>7, FS_Bijection DEF ExistsBijection
<1>9. Cardinality(a .. b - 1) = b - a
  <2>1. b - 1 \in Int
    OBVIOUS
  <2>2. Cardinality(a .. b - 1) = IF a > b - 1 THEN 0 ELSE (b - 1) - a + 1
    BY <2>1, FS_Interval
  <2> QED
    BY <2>2
<1> QED
  BY <1>8, <1>9

\* A page that does not reach the end is full, and one that begins before it has
\* what is left.
LEMMA PageIsCounted ==
    ASSUME TypeOK, LogIsFinite, KeysDiffer, NEW f,
           NEW from \in Nat, NEW size \in Nat \ {0}
    PROVE  LET n == Cardinality(Matching(f))
               page == Page(f, from, size)
           IN  /\ n \in Nat /\ Cardinality(page) \in Nat
               /\ from + size <= n => Cardinality(page) = size
               /\ from <= n /\ n < from + size => Cardinality(page) = n - from
               /\ from < n => page # {}
<1> DEFINE n == Cardinality(Matching(f))
           page == Page(f, from, size)
           Between(a, b) == {e \in Matching(f) : Position(f, e) \in a .. b - 1}
<1>1. n \in Nat /\ page \subseteq log /\ IsFiniteSet(page) /\ Cardinality(page) \in Nat
  BY SubsetIsCounted DEF LogIsFinite, Matching, Page
<1>2. page = Between(from, from + size)
  BY DEF Page
<1>3. \A e \in Matching(f) : Position(f, e) \in 0 .. n - 1
  <2>1. [e \in Matching(f) |-> Position(f, e)] \in [Matching(f) -> 0 .. n - 1]
    BY PositionsAreExact DEF Bijection, Injection
  <2> QED
    BY <2>1
<1>4. ASSUME from + size <= n PROVE Cardinality(page) = size
  <2>1. Cardinality(Between(from, from + size)) = (from + size) - from
    BY <1>1, <1>4, RangeIsCounted
  <2> QED
    BY <1>2, <2>1
<1>5. ASSUME from <= n, n < from + size PROVE Cardinality(page) = n - from
  <2>1. Between(from, from + size) = Between(from, n)
    <3>1. \A p \in 0 .. n - 1 : p \in from .. from + size - 1 <=> p \in from .. n - 1
      BY <1>1, <1>5
    <3>2. \A e \in Matching(f) :
            Position(f, e) \in from .. from + size - 1 <=> Position(f, e) \in from .. n - 1
      BY <1>3, <3>1, Zenon
    <3> QED
      BY <3>2
  <2>2. Cardinality(Between(from, n)) = n - from
    BY <1>1, <1>5, RangeIsCounted
  <2> QED
    BY <1>2, <2>1, <2>2, Zenon
<1>6. ASSUME from < n PROVE page # {}
  <2>1. Cardinality(page) # 0
    BY <1>1, <1>4, <1>5, <1>6
  <2> QED
    BY <2>1, FS_EmptySet
<1> QED
  BY <1>1, <1>4, <1>5, <1>6

LEMMA MatchingGrows ==
    ASSUME log \subseteq log', LogIsFinite', NEW f
    PROVE  /\ Cardinality(Matching(f)) \in Nat /\ Cardinality(Matching(f)') \in Nat
           /\ Cardinality(Matching(f)) <= Cardinality(Matching(f)')
<1>1. Matching(f) \subseteq Matching(f)' /\ IsFiniteSet(Matching(f)')
  BY FS_Subset DEF Matching, LogIsFinite
<1> QED
  BY <1>1, FS_Subset, FS_CardinalityType

LEMMA CountInit == Init => CountInv
<1> SUFFICES ASSUME Init PROVE CountInv
  OBVIOUS
<1>1. KeysDiffer /\ CountIsPast /\ MoreIsCounted
  BY DEF Init, KeysDiffer, CountIsPast, MoreIsCounted
<1> QED
  BY <1>1, IInit DEF CountInv

\* What a page says about more is right when it is said, ...
LEMMA PageCounts ==
    ASSUME CountInv, GetPage
    PROVE  MoreIsCounted'
<1> SUFFICES ASSUME more' PROVE MoreIsCounted'
  BY DEF MoreIsCounted
<1> DEFINE n == Cardinality(Matching(filter))
           page == Page(filter, offset, limit)
<1>1. /\ offset \in Nat /\ limit \in Nat \ {0} /\ total \in Nat
      /\ shown' = page /\ offset + Cardinality(page) < total /\ total <= n
      /\ UNCHANGED <<log, filter, limit, offset>>
  <2>1. offset \in Nat /\ limit \in Nat \ {0} /\ total \in Nat
    BY AuditConstants DEF CountInv, IInv, TypeOK
  <2>2. shown' = page /\ offset + Cardinality(page) < total
    BY DEF GetPage, HasMore
  <2>3. pc = "page" /\ UNCHANGED <<log, filter, limit, offset>>
    BY DEF GetPage
  <2>4. total <= n
    BY <2>3 DEF CountInv, CountIsPast
  <2> QED
    BY <2>1, <2>2, <2>3, <2>4
<1>2. /\ n \in Nat /\ Cardinality(page) \in Nat
      /\ offset + limit <= n => Cardinality(page) = limit
      /\ offset <= n /\ n < offset + limit => Cardinality(page) = n - offset
  BY <1>1, PageIsCounted DEF CountInv, IInv
<1> HIDE DEF n, page
<1>3. Cardinality(page) = limit /\ offset + limit < n
  BY <1>1, <1>2
<1>4. n' = n
  BY <1>1 DEF n, Matching
<1> QED
  BY <1>1, <1>3, <1>4 DEF MoreIsCounted, n

\* ... and stays right, because the log only grows.
LEMMA CountStep == CountInv /\ IInv' /\ [Next]_vars => CountInv'
<1> SUFFICES ASSUME CountInv, IInv', [Next]_vars PROVE CountInv'
  OBVIOUS
<1>1. CASE \E k \in Keys, ns \in NamespaceNames : LogOperation(k, ns)
  <2>1. PICK k \in Keys, ns \in NamespaceNames : LogOperation(k, ns)
    BY <1>1
  <2>2. /\ log' = log \cup {[key |-> k, namespace |-> ns]} /\ \A e \in log : e.key # k
        /\ UNCHANGED <<pc, filter, limit, offset, total, shown, more>>
    BY <2>1 DEF LogOperation, reader
  <2>3. KeysDiffer'
    BY <2>2 DEF CountInv, KeysDiffer
  <2>4. /\ Cardinality(Matching(filter)) \in Nat /\ Cardinality(Matching(filter)') \in Nat
        /\ Cardinality(Matching(filter)) <= Cardinality(Matching(filter)')
    BY <2>2, MatchingGrows DEF IInv
  <2>5. total \in Nat /\ offset + limit \in Nat
    BY AuditConstants DEF CountInv, IInv, TypeOK
  <2>6. CountIsPast'
    BY <2>2, <2>4, <2>5 DEF CountInv, CountIsPast
  <2>7. MoreIsCounted'
    BY <2>2, <2>4, <2>5 DEF CountInv, MoreIsCounted
  <2> QED
    BY <2>3, <2>6, <2>7 DEF CountInv
<1>2. CASE GetPage
  BY <1>2, PageCounts DEF CountInv, KeysDiffer, CountIsPast, GetPage
<1>3. CASE Count
  <2>1. Cardinality(Matching(filter)) \in Nat /\ Matching(filter)' = Matching(filter)
    BY <1>3, PositionIsNat DEF CountInv, IInv, Count, Matching
  <2> QED
    BY <1>3, <2>1 DEF CountInv, KeysDiffer, CountIsPast, MoreIsCounted, Count
<1>4. CASE \/ \E f \in NamespaceNames \cup {All}, l \in Limits : StartWalk(f, l)
           \/ GiveUp \/ NextPage
  <2>1. log' = log /\ pc' \notin {"page", "shown"}
    BY <1>4 DEF StartWalk, GiveUp, NextPage
  <2> QED
    BY <2>1 DEF CountInv, KeysDiffer, CountIsPast, MoreIsCounted
<1>5. CASE UNCHANGED vars
  BY <1>5 DEF vars, reader, CountInv, KeysDiffer, CountIsPast, MoreIsCounted, Matching
<1> QED
  BY <1>1, <1>2, <1>3, <1>4, <1>5 DEF Next

LEMMA CountHolds == Spec => []CountInv
BY CountInit, CountStep, IInit, StepKeepsIInv, PTL DEF Spec, CountInv

\* A page that says there is more is full, and the next one is not empty, however
\* many entries are added before it is asked for.
THEOREM MoreMeansMore == Spec => []MoreIsTrue
<1>1. CountInv => MoreIsTrue
  <2> SUFFICES ASSUME CountInv, pc = "shown", more
               PROVE  /\ Cardinality(shown) = limit
                      /\ Page(filter, offset + limit, limit) # {}
    BY DEF MoreIsTrue
  <2>1. offset + limit \in Nat /\ limit \in Nat \ {0}
    BY AuditConstants DEF CountInv, IInv, TypeOK
  <2>2. /\ Cardinality(shown) = limit
        /\ offset + limit < Cardinality(Matching(filter))
    BY DEF CountInv, MoreIsCounted
  <2> QED
    BY <2>1, <2>2, PageIsCounted DEF CountInv, IInv
<1> QED
  BY <1>1, CountHolds, PTL

\* A page that says there is no more leaves out no more of the walk than was added
\* after its count.
THEOREM LastPageEndsWalk == Spec => LastPageIsLast
<1> DEFINE Ends ==
             AnswerEndsWalk =>
               Cardinality(before \ seen') <= Cardinality(Matching(filter)) - total
<1>1. CountInv /\ IInv' /\ [Next]_vars => [Ends]_vars
  <2> SUFFICES ASSUME CountInv, IInv', Next, AnswerEndsWalk
               PROVE  Cardinality(before \ seen') <=
                        Cardinality(Matching(filter)) - total
    OBVIOUS
  <2> DEFINE M == Matching(filter)
             n == Cardinality(M)
             page == Page(filter, offset, limit)
             left == before \ seen'
             behind == {e \in M : Position(filter, e) \in offset + limit .. n - 1}
  <2>1. GetPage
    BY DEF AnswerEndsWalk, Next, LogOperation, StartWalk, Count, GetPage, GiveUp,
           NextPage, reader
  <2>2. /\ offset \in Nat /\ limit \in Nat \ {0} /\ total \in Nat
        /\ shown' = page /\ ~(offset + Cardinality(page) < total) /\ total <= n
        /\ UNCHANGED <<log, filter, limit, offset, before>> /\ pc' = "shown"
    <3>1. offset \in Nat /\ limit \in Nat \ {0} /\ total \in Nat
      BY AuditConstants DEF CountInv, IInv, TypeOK
    <3>2. /\ shown' = page /\ ~(offset + Cardinality(page) < total)
          /\ pc = "page" /\ pc' = "shown"
          /\ UNCHANGED <<log, filter, limit, offset, before>>
      BY <2>1 DEF GetPage, HasMore, AnswerEndsWalk
    <3>3. total <= n
      BY <3>2 DEF CountInv, CountIsPast
    <3> QED
      BY <3>1, <3>2, <3>3
  <2>3. /\ n \in Nat /\ Cardinality(page) \in Nat
        /\ offset + limit <= n => Cardinality(page) = limit
    BY <2>2, PageIsCounted DEF CountInv, IInv
  <2>4. \A e \in M : Position(filter, e) \in 0 .. n - 1
    <3>1. [e \in M |-> Position(filter, e)] \in [M -> 0 .. n - 1]
      BY PositionsAreExact DEF CountInv, IInv, Bijection, Injection
    <3> QED
      BY <3>1
  <2>5. left \subseteq behind
    <3> SUFFICES ASSUME NEW e \in left PROVE e \in behind
      OBVIOUS
    <3>1. e \in M /\ Position(filter, e) \in 0 .. n - 1
      BY <2>1, <2>4 DEF CountInv, IInv, WalkMatches, GetPage
    <3>2. Position(filter, e)' >= NextOffset'
      BY <2>2 DEF IInv, NoGaps
    <3>3. Position(filter, e) >= offset + limit
      BY <2>2, <3>2 DEF Position, Matching, NextOffset
    <3>4. Position(filter, e) \in offset + limit .. n - 1
      BY <2>2, <2>3, <3>1, <3>3
    <3> QED
      BY <3>1, <3>4
  <2>6. behind \subseteq M /\ IsFiniteSet(M)
    BY SubsetIsCounted DEF CountInv, IInv, LogIsFinite, Matching
  <2>7. IsFiniteSet(behind) /\ Cardinality(left) <= Cardinality(behind)
        /\ Cardinality(left) \in Nat /\ Cardinality(behind) \in Nat
    BY <2>5, <2>6, FS_Subset, FS_CardinalityType
  <2>8. CASE offset + limit <= n
    <3>1. Cardinality(behind) = n - (offset + limit)
      BY <2>2, <2>3, <2>8, RangeIsCounted DEF CountInv, IInv
    <3> HIDE DEF n, page, left, behind
    <3>2. total <= offset + limit
      BY <2>2, <2>3, <2>8
    <3>3. Cardinality(left) <= n - total
      BY <2>2, <2>3, <2>7, <3>1, <3>2
    <3> QED
      BY <3>3 DEF left, n
  <2>9. CASE n < offset + limit
    <3>1. behind = {}
      BY <2>2, <2>3, <2>9
    <3>2. Cardinality(behind) = 0
      BY <3>1, FS_EmptySet
    <3> HIDE DEF n, page, left, behind
    <3>3. Cardinality(left) <= n - total
      BY <2>2, <2>3, <2>7, <3>2
    <3> QED
      BY <3>3 DEF left, n
  <2> QED
    BY <2>2, <2>3, <2>8, <2>9
<1> QED
  BY <1>1, CountHolds, PTL DEF Spec, LastPageIsLast, CountInv
============================================================================
