-------------------------- MODULE LifecycleProofs --------------------------
(***************************************************************************)
(* Proofs about Lifecycle, for any number of processes, requests and kills.*)
(***************************************************************************)
EXTENDS Lifecycle, TLAPS

\* The places between Open and Close.
Opened == {"key", "check", "start", "listen", "serve", "list", "create", "close"}

\* The places of a process whose encryptor has its key.
HasKey == {"check", "start", "listen", "serve"}

\* Who is between Open and Close, and nobody else, has the lock.
OwnersHaveTheLock == \A p \in Processes : pc[p] \in Opened <=> lock = p

\* A request is in a server that has served; a transaction in one that has not closed.
RequestsAreServed ==
    \A r \in Requests : at[r] # "none" =>
        /\ on[r] \in Servers
        /\ pc[on[r]] \in {"serve", "close", "exit"}
        /\ at[r] = "tx" => pc[on[r]] \in {"serve", "close"}

\* Who is about to create a root token has found none, and nobody came between.
OneRootAtMost == roots <= 1 /\ \A p \in Processes : pc[p] = "create" => roots = 0

Configured == env = "long" \/ (env = "unset" /\ file = "long")
ConfiguredKey == IF env = "long" THEN EnvKey ELSE FileKey

\* A configured key is the key of every server and of everything it stored.
ConfiguredKeyRules ==
    Configured =>
        /\ \A p \in Servers : pc[p] \in HasKey => key[p] = ConfiguredKey
        /\ \A r \in Requests : at[r] # "none" => key[on[r]] = ConfiguredKey
        /\ \A i \in DOMAIN versions : versions[i] = ConfiguredKey

\* Until it commits a request has written nothing, and only then is it refused.
WrittenWhenCommitted ==
    \A r \in Requests :
        /\ at[r] \in {"auth", "set", "tx"} => wrote[r] = 0
        /\ at[r] # "none" => result[r] = "none"
        /\ result[r] = "refused" => wrote[r] = 0

IInv ==
    /\ TypeOK
    /\ OwnersHaveTheLock
    /\ RequestsAreServed
    /\ OneRootAtMost
    /\ ConfiguredKeyRules
    /\ WrittenWhenCommitted

LEMMA NobodyIsNoProcess == Nobody \notin Processes /\ Servers \subseteq Processes
BY ProcessesDiffer DEF Processes

LEMMA IInit == Init => IInv
<1> SUFFICES ASSUME Init PROVE IInv
  OBVIOUS
<1>1. TypeOK
  BY LifecycleBounds DEF Init, TypeOK, Key
<1>2. OwnersHaveTheLock /\ RequestsAreServed /\ OneRootAtMost
  BY NobodyIsNoProcess DEF Init, OwnersHaveTheLock, RequestsAreServed, OneRootAtMost, Opened
<1>3. ConfiguredKeyRules
  BY NobodyIsNoProcess DEF Init, ConfiguredKeyRules, HasKey
<1>4. WrittenWhenCommitted
  BY DEF Init, WrittenWhenCommitted
<1> QED
  BY <1>1, <1>2, <1>3, <1>4 DEF IInv

----------------------------------------------------------------------------
(* The steps.                                                              *)

LEMMA DiesKeeps ==
    ASSUME IInv, NEW p \in Processes, Dies(p), kills' \in 0 .. MaxKills
    PROVE  IInv'
<1> USE NobodyIsNoProcess DEF IInv, Dies, Goto
<1>1. TypeOK'
  BY DEF TypeOK, config, Key
<1>2. OwnersHaveTheLock'
  BY DEF TypeOK, OwnersHaveTheLock, Opened
<1>3. RequestsAreServed'
  BY DEF TypeOK, RequestsAreServed
<1>4. OneRootAtMost'
  BY DEF TypeOK, OneRootAtMost
<1>5. ConfiguredKeyRules'
  BY DEF TypeOK, ConfiguredKeyRules, Configured, ConfiguredKey, HasKey, config,
         RequestsAreServed
<1>6. WrittenWhenCommitted'
  BY DEF TypeOK, WrittenWhenCommitted
<1> QED
  BY <1>1, <1>2, <1>3, <1>4, <1>5, <1>6

\* The steps of start and init that only move the main goroutine.
LEMMA MovesKeep ==
    ASSUME IInv, NEW p \in Processes,
           \/ Launch(p) \/ OpenTimesOut(p) \/ CheckTokens(p) \/ AssignServer(p)
           \/ Listen(p) \/ ListTokens(p) \/ StopServing(p)
    PROVE  IInv'
<1> USE NobodyIsNoProcess
    DEF IInv, Launch, OpenTimesOut, CheckTokens, AssignServer, Listen, ListTokens,
        StopServing, Step, Goto, others, config, request, counts
<1>1. TypeOK'
  <2>1. UNCHANGED <<late, key, drawn, env, file, lock, roots, versions, at, on, wrote,
                    result, kills>>
    OBVIOUS
  <2>2. \E place \in {"open", "exit", "close", "start", "listen", "serve", "create"} :
            pc' = [pc EXCEPT ![p] = place]
    OBVIOUS
  <2>3. sig' \in [Processes -> {"none", "spawned", "waiting", "shutting", "draining"}]
    BY DEF TypeOK
  <2>4. launches' \in 0 .. MaxLaunches
    BY LifecycleBounds DEF TypeOK
  <2> QED
    BY <2>1, <2>2, <2>3, <2>4 DEF TypeOK
<1>2. OwnersHaveTheLock'
  BY DEF TypeOK, OwnersHaveTheLock, Opened
<1>3. RequestsAreServed'
  BY DEF TypeOK, RequestsAreServed
<1>4. OneRootAtMost'
  BY DEF TypeOK, OneRootAtMost
<1>5. ConfiguredKeyRules'
  <2>1. UNCHANGED <<env, file, key, versions, at, on>>
    OBVIOUS
  <2>2. \A q \in Servers : pc'[q] \in HasKey => pc[q] \in HasKey
    BY DEF TypeOK, HasKey
  <2> QED
    BY <2>1, <2>2, Zenon DEF ConfiguredKeyRules, Configured, ConfiguredKey
<1>6. WrittenWhenCommitted'
  BY DEF TypeOK, WrittenWhenCommitted
<1> QED
  BY <1>1, <1>2, <1>3, <1>4, <1>5, <1>6

LEMMA FileKeeps ==
    ASSUME IInv, NEW p \in Processes, Open(p) \/ Close(p) \/ CreateRootToken(p)
    PROVE  IInv'
<1> USE NobodyIsNoProcess
    DEF IInv, Open, Close, CreateRootToken, Step, Goto, others, config, request, counts
<1>1. TypeOK'
  BY DEF TypeOK
<1>2. OwnersHaveTheLock'
  BY DEF TypeOK, OwnersHaveTheLock, Opened
<1>3. RequestsAreServed'
  BY DEF TypeOK, RequestsAreServed
<1>4. OneRootAtMost'
  <2>1. CASE CreateRootToken(p)
    <3>1. \A q \in Processes : pc[q] = "create" => q = p
      BY <2>1 DEF OwnersHaveTheLock, Opened
    <3>2. roots = 0 /\ roots' = 1
      BY <2>1 DEF TypeOK, OneRootAtMost
    <3>3. \A q \in Processes : pc'[q] # "create"
      BY <2>1, <3>1 DEF TypeOK
    <3> QED
      BY <3>2, <3>3 DEF OneRootAtMost
  <2>2. CASE Open(p) \/ Close(p)
    BY <2>2 DEF TypeOK, OneRootAtMost
  <2> QED
    BY <2>1, <2>2
<1>5. ConfiguredKeyRules'
  <2>1. UNCHANGED <<env, file, key, versions, at, on>>
    OBVIOUS
  <2>2. \A q \in Servers : pc'[q] \in HasKey => pc[q] \in HasKey
    BY DEF TypeOK, HasKey
  <2> QED
    BY <2>1, <2>2, Zenon DEF ConfiguredKeyRules, Configured, ConfiguredKey
<1>6. WrittenWhenCommitted'
  BY DEF TypeOK, WrittenWhenCommitted
<1> QED
  BY <1>1, <1>2, <1>3, <1>4, <1>5, <1>6

LEMMA LoadKeyKeeps ==
    ASSUME IInv, NEW p \in Processes, LoadKey(p)
    PROVE  IInv'
<1> USE NobodyIsNoProcess
    DEF IInv, LoadKey, Step, Goto, config, request, counts
<1>1. MasterKey \subseteq Nat /\ (Configured => MasterKey = {ConfiguredKey})
  BY DEF TypeOK, MasterKey, Configured, ConfiguredKey, EnvKey, FileKey
<1>2. TypeOK'
  <2>1. UNCHANGED <<sig, late, env, file, lock, roots, versions, at, on, wrote, result,
                    launches, kills>>
    OBVIOUS
  <2>2. pc' \in [Processes -> {"off", "open", "key", "check", "start", "listen",
                              "serve", "list", "create", "close", "exit"}]
    BY DEF TypeOK
  <2>3. key' \in [Processes -> Key] /\ drawn' \in Nat
    <3>1. CASE UNCHANGED <<key, drawn>>
      BY <3>1 DEF TypeOK
    <3>2. CASE \E k \in MasterKey :
                 /\ key' = [key EXCEPT ![p] = k]
                 /\ drawn' = IF k > FileKey THEN drawn + 1 ELSE drawn
      <4>1. key' \in [Processes -> Key]
        BY <1>1, <3>2 DEF TypeOK, Key
      <4>2. drawn' = drawn \/ drawn' = drawn + 1
        BY <3>2
      <4> QED
        BY <4>1, <4>2 DEF TypeOK
    <3> QED
      BY <3>1, <3>2
  <2> QED
    BY <2>1, <2>2, <2>3 DEF TypeOK
<1>3. OwnersHaveTheLock'
  BY DEF TypeOK, OwnersHaveTheLock, Opened
<1>4. RequestsAreServed'
  BY DEF TypeOK, RequestsAreServed
<1>5. OneRootAtMost'
  BY DEF TypeOK, OneRootAtMost
<1>6. ConfiguredKeyRules'
  <2> SUFFICES ASSUME Configured PROVE ConfiguredKeyRules'
    BY DEF ConfiguredKeyRules, Configured
  <2>1. UNCHANGED <<ConfiguredKey, versions, at, on>>
    BY DEF ConfiguredKey
  <2>2. pc[p] = "key" /\ pc' = [pc EXCEPT ![p] = "check"]
        /\ key' = [key EXCEPT ![p] = ConfiguredKey]
    BY <1>1
  <2>3. \A q \in Servers : pc'[q] \in HasKey => key'[q] = ConfiguredKey
    BY <2>2 DEF TypeOK, ConfiguredKeyRules, HasKey
  <2>4. \A r \in Requests : at[r] # "none" => key'[on[r]] = ConfiguredKey
    BY <2>2 DEF TypeOK, ConfiguredKeyRules, RequestsAreServed
  <2> QED
    BY <2>1, <2>3, <2>4 DEF ConfiguredKeyRules
<1>7. WrittenWhenCommitted'
  BY DEF TypeOK, WrittenWhenCommitted
<1> QED
  BY <1>2, <1>3, <1>4, <1>5, <1>6, <1>7

\* The signal goroutine, as long as it does not end the process.
LEMMA SignalsKeep ==
    ASSUME IInv, NEW p \in Processes,
           \/ \E s \in {"waiting", "shutting", "draining"} :
                 sig' = [sig EXCEPT ![p] = s] /\ late' = late
           \/ late' = [late EXCEPT ![p] = TRUE] /\ sig' = sig,
           UNCHANGED <<pc, others, lock>>
    PROVE  IInv'
<1> USE DEF IInv, others, config, request, counts
<1>1. TypeOK'
  BY DEF TypeOK
<1>2. /\ OwnersHaveTheLock' /\ RequestsAreServed' /\ OneRootAtMost'
      /\ ConfiguredKeyRules' /\ WrittenWhenCommitted'
  BY DEF OwnersHaveTheLock, RequestsAreServed, OneRootAtMost, ConfiguredKeyRules,
         Configured, ConfiguredKey, WrittenWhenCommitted
<1> QED
  BY <1>1, <1>2

LEMMA AcceptKeeps ==
    ASSUME IInv, NEW r \in Requests, NEW p \in Servers, Accept(r, p)
    PROVE  IInv'
<1> USE NobodyIsNoProcess DEF IInv, Accept, process, config, counts
<1>1. TypeOK'
  BY DEF TypeOK
<1>2. OwnersHaveTheLock' /\ OneRootAtMost'
  BY DEF OwnersHaveTheLock, OneRootAtMost
<1>3. RequestsAreServed'
  BY DEF TypeOK, RequestsAreServed
<1>4. ConfiguredKeyRules'
  BY DEF TypeOK, ConfiguredKeyRules, Configured, ConfiguredKey, HasKey
<1>5. WrittenWhenCommitted'
  BY DEF TypeOK, WrittenWhenCommitted
<1> QED
  BY <1>1, <1>2, <1>3, <1>4, <1>5

\* The steps of a request that store nothing.
LEMMA RequestsKeep ==
    ASSUME IInv, NEW r \in Requests,
           \/ Authenticate(r) \/ Begin(r) \/ CommitFails(r)
           \/ Audit(r) \/ WaitEnds(r) \/ Reply(r)
    PROVE  IInv'
<1> USE NobodyIsNoProcess
    DEF IInv, Authenticate, Begin, CommitFails, Audit, WaitEnds, Reply, Moves, Answers,
        IsOpen, process, config, counts
<1>1. UNCHANGED <<pc, sig, late, key, drawn, env, file, lock, roots, versions, wrote,
                  launches, kills>>
  OBVIOUS
<1>2. \/ \E to \in {"set", "wait", "tx", "reply"} :
           /\ at[r] # "none" /\ at' = [at EXCEPT ![r] = to]
           /\ on' = on /\ result' = result
      \/ \E answer \in {"ok", "refused"} :
           /\ at' = [at EXCEPT ![r] = "none"]
           /\ on' = [on EXCEPT ![r] = Nobody]
           /\ result' = [result EXCEPT ![r] = answer]
  OBVIOUS
<1>3. TypeOK'
  <2>1. /\ at' \in [Requests -> {"none", "auth", "set", "tx", "audit", "wait", "reply"}]
        /\ on' \in [Requests -> Processes \cup {Nobody}]
        /\ result' \in [Requests -> {"none", "ok", "refused", "cut"}]
    BY <1>2 DEF TypeOK
  <2>2. ASSUME NEW x \in Requests PROVE at'[x] = "none" <=> on'[x] = Nobody
    <3>1. at[x] = "none" <=> on[x] = Nobody
      BY DEF TypeOK
    <3>2. at \in [Requests -> {"none", "auth", "set", "tx", "audit", "wait", "reply"}]
          /\ on \in [Requests -> Processes \cup {Nobody}]
      BY DEF TypeOK
    <3>3. CASE \E answer \in {"ok", "refused"} :
                 /\ at' = [at EXCEPT ![r] = "none"]
                 /\ on' = [on EXCEPT ![r] = Nobody]
      BY <3>1, <3>2, <3>3
    <3>4. CASE \E to \in {"set", "wait", "tx", "reply"} :
                 at[r] # "none" /\ at' = [at EXCEPT ![r] = to] /\ on' = on
      BY <3>1, <3>2, <3>4
    <3> QED
      BY <1>2, <3>3, <3>4
  <2> QED
    BY <1>1, <2>1, <2>2 DEF TypeOK
<1>4. OwnersHaveTheLock' /\ OneRootAtMost'
  BY DEF OwnersHaveTheLock, OneRootAtMost
<1>5. RequestsAreServed'
  <2>1. ASSUME NEW x \in Requests, at'[x] # "none"
        PROVE  at[x] # "none" /\ on'[x] = on[x]
    BY <1>2, <2>1 DEF TypeOK
  <2>2. ASSUME NEW x \in Requests, at'[x] = "tx"
        PROVE  pc[on[x]] \in {"serve", "close"}
    <3>1. CASE at[x] = "tx"
      BY <3>1 DEF RequestsAreServed
    <3>2. CASE at[x] # "tx"
      <4>1. lock = on[x] /\ at[x] # "none"
        BY <2>2, <3>2 DEF TypeOK
      <4>2. on[x] \in Servers /\ pc[on[x]] \in {"serve", "close", "exit"}
        BY <4>1 DEF RequestsAreServed
      <4> QED
        BY <4>1, <4>2, NobodyIsNoProcess DEF OwnersHaveTheLock, Opened
    <3> QED
      BY <3>1, <3>2
  <2> QED
    BY <1>1, <2>1, <2>2 DEF RequestsAreServed
<1>6. ConfiguredKeyRules'
  <2>1. \A x \in Requests : at'[x] # "none" => at[x] # "none" /\ on'[x] = on[x]
    BY <1>2 DEF TypeOK
  <2> QED
    BY <1>1, <2>1 DEF ConfiguredKeyRules, Configured, ConfiguredKey
<1>7. WrittenWhenCommitted'
  BY DEF TypeOK, WrittenWhenCommitted
<1> QED
  BY <1>3, <1>4, <1>5, <1>6, <1>7

LEMMA CommitKeeps ==
    ASSUME IInv, NEW r \in Requests, Commit(r)
    PROVE  IInv'
<1> USE NobodyIsNoProcess DEF IInv, Commit, Moves, process, config, counts
<1>1. on[r] \in Processes
  BY DEF TypeOK, RequestsAreServed
<1>2. /\ key[on[r]] \in Key /\ versions' \in Seq(Key)
      /\ Len(versions) \in Nat /\ Len(versions') = Len(versions) + 1
  BY <1>1 DEF TypeOK
<1>3. TypeOK'
  BY <1>2 DEF TypeOK
<1>4. OwnersHaveTheLock' /\ OneRootAtMost'
  BY DEF OwnersHaveTheLock, OneRootAtMost
<1>5. RequestsAreServed'
  BY DEF TypeOK, RequestsAreServed
<1>6. ConfiguredKeyRules'
  BY <1>1, <1>2 DEF TypeOK, ConfiguredKeyRules, Configured, ConfiguredKey, HasKey
<1>7. WrittenWhenCommitted'
  BY DEF TypeOK, WrittenWhenCommitted
<1> QED
  BY <1>3, <1>4, <1>5, <1>6, <1>7

LEMMA IStep == IInv /\ [Next]_vars => IInv'
<1> SUFFICES ASSUME IInv, [Next]_vars PROVE IInv'
  OBVIOUS
<1>1. kills \in 0 .. MaxKills
  BY DEF IInv, TypeOK
<1>2. ASSUME NEW p \in Processes, Kill(p) PROVE IInv'
  BY <1>1, <1>2, DiesKeeps, LifecycleBounds DEF Kill
<1>3. ASSUME NEW p \in Processes, Main(p) PROVE IInv'
  <2>1. CASE Exit(p)
    BY <1>1, <2>1, DiesKeeps DEF Exit
  <2>2. CASE Open(p) \/ Close(p) \/ CreateRootToken(p)
    BY <2>2, FileKeeps
  <2>3. CASE LoadKey(p)
    BY <2>3, LoadKeyKeeps
  <2>4. CASE \/ OpenTimesOut(p) \/ CheckTokens(p) \/ AssignServer(p)
             \/ Listen(p) \/ ListTokens(p) \/ StopServing(p)
    BY <2>4, MovesKeep
  <2> QED
    BY <1>3, <2>1, <2>2, <2>3, <2>4 DEF Main
<1>4. ASSUME NEW p \in Processes, Signal(p) \/ SignalGoroutine(p) \/ TenSeconds(p)
      PROVE  IInv'
  <2>1. CASE Dies(p) /\ UNCHANGED kills
    BY <1>1, <2>1, DiesKeeps
  <2>2. CASE ~(Dies(p) /\ UNCHANGED kills)
    <3>1. /\ \/ \E s \in {"waiting", "shutting", "draining"} :
                   sig' = [sig EXCEPT ![p] = s] /\ late' = late
             \/ late' = [late EXCEPT ![p] = TRUE] /\ sig' = sig
          /\ UNCHANGED <<pc, others, lock>>
      BY <1>4, <2>2 DEF Signal, SignalGoroutine, Notify, Shutdown, ExitDrained,
                        TenSeconds
    <3> QED
      BY <3>1, SignalsKeep
  <2> QED
    BY <2>1, <2>2
<1>5. ASSUME NEW r \in Requests, Handler(r) \/ WaitEnds(r) PROVE IInv'
  BY <1>5, RequestsKeep, CommitKeeps DEF Handler
<1>6. CASE UNCHANGED vars
  BY <1>6 DEF IInv, vars, process, config, request, counts, TypeOK, OwnersHaveTheLock,
     RequestsAreServed, OneRootAtMost, ConfiguredKeyRules, Configured, ConfiguredKey,
     WrittenWhenCommitted
<1> QED
  BY <1>2, <1>3, <1>4, <1>5, <1>6, MovesKeep, AcceptKeeps DEF Next

----------------------------------------------------------------------------
LEMMA IInvariant == Spec => []IInv
BY IInit, IStep, PTL DEF Spec

\* Every variable keeps its type, and a process that has ended holds no request.
THEOREM TypeCorrect == Spec => []TypeOK
<1>1. IInv => TypeOK
  BY DEF IInv
<1> QED
  BY <1>1, IInvariant, PTL

\* Between the check of init and its creation nothing comes: the file is locked.
THEOREM OneRootTokenOnly == Spec => []OneRootToken
<1>1. IInv => OneRootToken
  BY DEF IInv, OneRootAtMost, OneRootToken
<1> QED
  BY <1>1, IInvariant, PTL

\* However a server ends, its transactions end before another opens the file.
THEOREM FileIsOwned == Spec => []TransactionsHaveTheFile
<1>1. IInv => TransactionsHaveTheFile
  BY NobodyIsNoProcess
  DEF IInv, RequestsAreServed, OwnersHaveTheLock, TransactionsHaveTheFile, Opened
<1> QED
  BY <1>1, IInvariant, PTL

\* A configured key reads what any server before it has written.
THEOREM ConfiguredSecretsSurvive == Spec => []SecretsSurvive
<1>1. IInv => SecretsSurvive
  BY DEF IInv, ConfiguredKeyRules, Configured, HasKey, SecretsSurvive
<1> QED
  BY <1>1, IInvariant, PTL

\* What was answered with an error was not written.
THEOREM RefusedIsNotThere == Spec => []RefusedMeansNotThere
<1>1. IInv => RefusedMeansNotThere
  BY DEF IInv, WrittenWhenCommitted, RefusedMeansNotThere
<1> QED
  BY <1>1, IInvariant, PTL
============================================================================
