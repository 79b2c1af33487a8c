------------------------------ MODULE AuditLog ------------------------------
(***************************************************************************)
(* The audit log: LogOperation, and a reader who walks it page by page     *)
(* with GET /v1/audit while entries are added.                             *)
(*                                                                         *)
(* The bucket's keys begin with the entry's time, so its cursor runs       *)
(* through the entries by time.  An entry gets its time before it waits    *)
(* for the store's write lock, and the clock may step back: entries do not *)
(* come in the order of their keys, and a new one may land anywhere among  *)
(* those already there.  A request for a page counts in one transaction    *)
(* and reads the page in a second one, and a walk takes many requests.     *)
(***************************************************************************)
EXTENDS Naturals, FiniteSets

CONSTANTS
    Keys,           \* keys of the bucket: times, in nanoseconds, made unique
                    \* by the ID behind them
    NamespaceNames, \* the namespaces entries are about
    All,            \* the empty filter
    Limits,         \* the limits readers ask for
    DefaultLimit,   \* 25 in the code
    MaxLimit        \* 100 in the code

ASSUME AuditConstants ==
    /\ Keys \subseteq Nat
    /\ All \notin NamespaceNames
    /\ Limits \subseteq Nat
    /\ DefaultLimit \in 1 .. MaxLimit
    /\ MaxLimit \in Nat

VARIABLES
    log,        \* the bucket
    pc,         \* where the reader is
    filter,     \* the namespace parameter of its walk
    limit,      \* the limit its pages have
    offset,     \* the offset of its current page
    total,      \* what CountLogs told the current request
    shown,      \* the entries of the current page
    more,       \* has_more of the current page
    before,     \* the entries the walk is about: those there when it began
    seen        \* the entries it has been shown

reader == <<pc, filter, limit, offset, total, shown, more, before, seen>>
vars == <<log, reader>>

Entry == [key : Keys, namespace : NamespaceNames]

\* What the filter lets through.
Matching(f) == {e \in log : f = All \/ e.namespace = f}

\* How many matching entries a reverse scan meets before e.
Position(f, e) == Cardinality({x \in Matching(f) : x.key > e.key})

\* Mutant: the scan skips one entry too many.
PageOffByOne(f, from, size) ==
    {e \in Matching(f) : Position(f, e) \in from + 1 .. from + size}

\* GetAuditLogs: size matching entries after the first ones, newest first.
Page(f, from, size) ==
    {e \in Matching(f) : Position(f, e) \in from .. from + size - 1}

\* The limit parameter: absent or not positive, it is the default.
EffectiveLimit(l) ==
    IF l = 0 THEN DefaultLimit ELSE IF l > MaxLimit THEN MaxLimit ELSE l

TypeOK ==
    /\ log \subseteq Entry
    /\ pc \in {"idle", "count", "page", "shown"}
    /\ filter \in NamespaceNames \cup {All}
    /\ limit \in 1 .. MaxLimit
    /\ {offset, total} \subseteq Nat
    /\ more \in BOOLEAN
    /\ shown \subseteq seen
    /\ {before, seen} \subseteq SUBSET log

Init ==
    /\ log = {}
    /\ pc = "idle"
    /\ filter = All
    /\ limit = DefaultLimit
    /\ offset = 0
    /\ total = 0
    /\ shown = {}
    /\ more = FALSE
    /\ before = {}
    /\ seen = {}

----------------------------------------------------------------------------
\* LogOperation, LogAudit: one transaction adds an entry.
LogOperation(k, ns) ==
    /\ \A e \in log : e.key # k
    /\ log' = log \cup {[key |-> k, namespace |-> ns]}
    /\ UNCHANGED reader

\* A reader begins at the newest entries.
StartWalk(f, l) ==
    /\ pc = "idle"
    /\ filter' = f
    /\ limit' = EffectiveLimit(l)
    /\ offset' = 0
    /\ shown' = {}
    /\ more' = FALSE
    /\ before' = Matching(f)
    /\ seen' = {}
    /\ pc' = "count"
    /\ UNCHANGED <<log, total>>

\* handleGetAuditLogs, first transaction: CountLogs.
Count ==
    /\ pc = "count"
    /\ total' = Cardinality(Matching(filter))
    /\ pc' = "page"
    /\ UNCHANGED <<log, filter, limit, offset, shown, more, before, seen>>

\* Mutant: the end of a page is taken for the end of the log one entry early.
HasMoreEarly(count) == offset + count + 1 < total

\* Mutant: a page that reaches the end is not taken for the last.
HasMoreAlways(count) == offset + count <= total

HasMore(count) == offset + count < total

\* Second transaction: GetLogs, and the answer.
GetPage ==
    /\ pc = "page"
    /\ shown' = Page(filter, offset, limit)
    /\ seen' = seen \cup shown'
    /\ more' = HasMore(Cardinality(shown'))
    /\ pc' = "shown"
    /\ UNCHANGED <<log, filter, limit, offset, total, before>>

\* Either transaction fails, or the reader has seen enough.
GiveUp ==
    /\ pc # "idle"
    /\ pc' = "idle"
    /\ UNCHANGED <<log, filter, limit, offset, total, shown, more, before, seen>>

\* The next page, which a reader asks for (and the web UI lets it ask for) only
\* if there is said to be more.
NextPage ==
    /\ pc = "shown"
    /\ more
    /\ offset' = offset + limit
    /\ pc' = "count"
    /\ UNCHANGED <<log, filter, limit, total, shown, more, before, seen>>

----------------------------------------------------------------------------
Next ==
    \/ \E k \in Keys, ns \in NamespaceNames : LogOperation(k, ns)
    \/ \E f \in NamespaceNames \cup {All}, l \in Limits : StartWalk(f, l)
    \/ Count \/ GetPage \/ GiveUp \/ NextPage

Spec == Init /\ [][Next]_vars

----------------------------------------------------------------------------
(* Properties.                                                             *)

\* The offset of the page that a walk has still to read.
NextOffset == IF pc = "shown" THEN offset + limit ELSE offset

\* Pages leave no gap: whatever is added, and wherever, an entry that was there
\* when the walk began has been shown or lies at or behind the offset the walk
\* goes on from.
NoGaps ==
    pc # "idle" => \A e \in before \ seen : Position(filter, e) >= NextOffset

\* A page that says there is more is a full one, and the page after it is not
\* empty: the count is older than the page, and the log only grows.
MoreIsTrue ==
    pc = "shown" /\ more =>
        /\ Cardinality(shown) = limit
        /\ Page(filter, offset + limit, limit) # {}

\* When a page says there is no more, the walk has shown every entry it is
\* about, but for as many as were added between the count and the page.
AnswerEndsWalk == pc = "page" /\ pc' = "shown" /\ ~more'

LastPageIsLast ==
    [][AnswerEndsWalk =>
         Cardinality(before \ seen') <= Cardinality(Matching(filter)) - total]_vars
============================================================================
