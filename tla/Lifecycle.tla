----------------------------- MODULE Lifecycle -----------------------------
(***************************************************************************)
(* Processes that share one data directory: keyrafted start (cmd/start.go, *)
(* internal/api/server.go) with the requests it serves and its signal      *)
(* goroutine, and keyrafted init (cmd/init.go).                            *)
(*                                                                         *)
(* The database file is locked from Open to Close; the operating system    *)
(* frees the lock of a process that is gone.  Shutdown makes Start return  *)
(* at once: the main goroutine then closes the store and exits, while the  *)
(* signal goroutine still waits for the requests and exits too.            *)
(***************************************************************************)
EXTENDS Naturals, Sequences

CONSTANTS
    Servers,        \* processes that run keyrafted start
    Inits,          \* processes that run keyrafted init
    Nobody,         \* the owner of an unlocked file
    Requests,       \* request goroutines, each in one server at a time
    MaxLaunches,    \* bound on the processes launched
    MaxVersions,    \* bound on the secrets stored
    MaxKills,       \* bound on the processes killed
    EnvKeys,        \* what KEYRAFT_MASTER_KEY may hold
    KeyFiles        \* what --master-key-file may name

Processes == Servers \cup Inits

ASSUME ProcessesDiffer ==
    /\ Servers \cap Inits = {}
    /\ Nobody \notin Processes
ASSUME LifecycleBounds == {MaxLaunches, MaxVersions, MaxKills} \subseteq Nat
ASSUME KeyConfiguration ==
    /\ EnvKeys \subseteq {"unset", "short", "long"}
    /\ KeyFiles \subseteq {"no flag", "missing", "empty", "short", "long"}

VARIABLES
    pc,         \* where a process is
    sig,        \* where its signal goroutine is
    late,       \* whether the ten seconds of Shutdown have passed
    key,        \* the key of its encryptor, or 0
    drawn,      \* how many random keys were drawn
    env,        \* what KEYRAFT_MASTER_KEY holds, for all processes
    file,       \* what --master-key-file names, for all processes
    lock,       \* who has the database open
    roots,      \* how many root tokens were created
    versions,   \* the secret's versions: the key each is encrypted with
    at,         \* where a request is
    on,         \* the server it is in
    wrote,      \* the version it committed, or 0
    result,     \* the answer it got
    launches, kills

process == <<pc, sig, late, key, drawn>>
config == <<env, file>>
request == <<at, on, wrote, result>>
counts == <<launches, kills>>
vars == <<process, config, lock, roots, versions, request, counts>>

\* What the steps of a process mostly leave alone.
others == <<key, drawn, config, roots, versions, request, counts>>

\* Two keys that may be configured; the others are drawn at random.
EnvKey == 1
FileKey == 2
Key == Nat

TypeOK ==
    /\ pc \in [Processes -> {"off", "open", "key", "check", "start", "listen",
                             "serve", "list", "create", "close", "exit"}]
    /\ sig \in [Processes -> {"none", "spawned", "waiting", "shutting", "draining"}]
    /\ late \in [Processes -> BOOLEAN]
    /\ key \in [Processes -> Key]
    /\ drawn \in Nat
    /\ env \in EnvKeys /\ file \in KeyFiles
    /\ lock \in Processes \cup {Nobody}
    /\ roots \in Nat
    /\ versions \in Seq(Key)
    /\ at \in [Requests -> {"none", "auth", "set", "tx", "audit", "wait", "reply"}]
    /\ on \in [Requests -> Processes \cup {Nobody}]
    /\ \A r \in Requests : at[r] = "none" <=> on[r] = Nobody
    /\ wrote \in [Requests -> 0 .. Len(versions)]
    /\ result \in [Requests -> {"none", "ok", "refused", "cut"}]
    /\ launches \in 0 .. MaxLaunches /\ kills \in 0 .. MaxKills

Init ==
    /\ pc = [p \in Processes |-> "off"]
    /\ sig = [p \in Processes |-> "none"]
    /\ late = [p \in Processes |-> FALSE]
    /\ key = [p \in Processes |-> 0]
    /\ drawn = 0
    /\ env \in EnvKeys /\ file \in KeyFiles
    /\ lock = Nobody
    /\ roots = 0
    /\ versions = << >>
    /\ at = [r \in Requests |-> "none"]
    /\ on = [r \in Requests |-> Nobody]
    /\ wrote = [r \in Requests |-> 0]
    /\ result = [r \in Requests |-> "none"]
    /\ launches = 0 /\ kills = 0

----------------------------------------------------------------------------
(* A process begins and ends.                                              *)

Goto(p, place) == pc' = [pc EXCEPT ![p] = place]

Step(p, from, to) ==
    /\ pc[p] = from
    /\ Goto(p, to)
    /\ UNCHANGED <<sig, late>>

Launch(p) ==
    /\ pc[p] = "off"
    /\ launches < MaxLaunches
    /\ launches' = launches + 1
    /\ Goto(p, "open")
    /\ UNCHANGED <<sig, late, key, drawn, config, lock, roots, versions, request,
                   kills>>

\* The end of process p: its lock is freed, its requests are cut off.
Dies(p) ==
    /\ Goto(p, "off")
    /\ sig' = [sig EXCEPT ![p] = "none"]
    /\ late' = [late EXCEPT ![p] = FALSE]
    /\ key' = [key EXCEPT ![p] = 0]
    /\ lock' = IF lock = p THEN Nobody ELSE lock
    /\ at' = [r \in Requests |-> IF on[r] = p THEN "none" ELSE at[r]]
    /\ on' = [r \in Requests |-> IF on[r] = p THEN Nobody ELSE on[r]]
    /\ result' = [r \in Requests |-> IF on[r] = p THEN "cut" ELSE result[r]]
    /\ UNCHANGED <<drawn, config, roots, versions, wrote, launches>>

\* A crash, at any point.
Kill(p) ==
    /\ pc[p] # "off"
    /\ kills < MaxKills
    /\ kills' = kills + 1
    /\ Dies(p)

----------------------------------------------------------------------------
(* keyrafted start and keyrafted init, up to serving.                      *)

\* Mutant: the file is not locked.
OpenAnyway(p) ==
    /\ Step(p, "open", IF p \in Servers THEN "key" ELSE "list")
    /\ lock' = p
    /\ UNCHANGED others

\* BoltDBStorage.Open.
Open(p) ==
    /\ lock = Nobody
    /\ Step(p, "open", IF p \in Servers THEN "key" ELSE "list")
    /\ lock' = p
    /\ UNCHANGED others

\* Another process has had the file for a second.
OpenTimesOut(p) ==
    /\ lock # Nobody
    /\ Step(p, "open", "exit")
    /\ UNCHANGED <<others, lock>>

\* Mutant: the key file is not looked at.
IgnoringFile ==
    CASE env = "long" -> {EnvKey}
      [] env = "short" -> {}
      [] OTHER -> {FileKey + drawn + 1}

\* NewEncryptorFromEnv: the variable, else the file, else a random key; no key if
\* the file cannot be read or the key is shorter than 16 bytes.
MasterKey ==
    CASE env = "long" -> {EnvKey}
      [] env = "short" -> {}
      [] env = "unset" /\ file \in {"missing", "short"} -> {}
      [] env = "unset" /\ file = "long" -> {FileKey}
      [] OTHER -> {FileKey + drawn + 1}

LoadKey(p) ==
    /\ \/ \E k \in MasterKey :
             /\ Step(p, "key", "check")
             /\ key' = [key EXCEPT ![p] = k]
             /\ drawn' = IF k > FileKey THEN drawn + 1 ELSE drawn
       \/ /\ MasterKey = {}
          /\ Step(p, "key", "close")
          /\ UNCHANGED <<key, drawn>>
    /\ UNCHANGED <<config, lock, roots, versions, request, counts>>

\* ListTokens; the signal goroutine is started when there are any.
CheckTokens(p) ==
    /\ pc[p] = "check"
    /\ IF roots = 0
       THEN Goto(p, "close") /\ UNCHANGED sig
       ELSE Goto(p, "start") /\ sig' = [sig EXCEPT ![p] = "spawned"]
    /\ UNCHANGED <<late, others, lock>>

\* Server.Start: s.server is set,
AssignServer(p) ==
    /\ Step(p, "start", "listen")
    /\ UNCHANGED <<others, lock>>

\* and ListenAndServe listens, unless Shutdown was first or the port is taken.
Listen(p) ==
    /\ \/ sig[p] # "draining" /\ Step(p, "listen", "serve")
       \/ Step(p, "listen", "close")
    /\ UNCHANGED <<others, lock>>

\* InitializeRootToken: ListTokens,
ListTokens(p) ==
    /\ Step(p, "list", IF roots = 0 THEN "create" ELSE "close")
    /\ UNCHANGED <<others, lock>>

\* and SaveToken in another transaction.
CreateRootToken(p) ==
    /\ Step(p, "create", "close")
    /\ roots' = roots + 1
    /\ UNCHANGED <<key, drawn, config, lock, versions, request, counts>>

----------------------------------------------------------------------------
(* Shutdown.                                                               *)

\* signal.Notify.
Notify(p) ==
    /\ sig[p] = "spawned"
    /\ sig' = [sig EXCEPT ![p] = "waiting"]
    /\ UNCHANGED <<pc, late, others, lock>>

\* SIGTERM or an interrupt; before signal.Notify it ends the process.
Signal(p) ==
    /\ pc[p] # "off"
    /\ \/ /\ sig[p] = "waiting"
          /\ sig' = [sig EXCEPT ![p] = "shutting"]
          /\ UNCHANGED <<pc, late, others, lock>>
       \/ sig[p] \in {"none", "spawned"} /\ Dies(p) /\ UNCHANGED kills

\* Mutant: without a server Shutdown has nothing to do.
ShutdownIfStarted(p) ==
    /\ sig[p] = "shutting"
    /\ sig' = [sig EXCEPT ![p] = IF pc[p] = "start" THEN "none" ELSE "draining"]
    /\ UNCHANGED <<pc, late, others, lock>>

\* Server.Shutdown: nothing more is accepted.  Before Start has set s.server the
\* goroutine dereferences nil, and the panic ends the process.
Shutdown(p) ==
    /\ sig[p] = "shutting"
    /\ \/ /\ pc[p] # "start"
          /\ sig' = [sig EXCEPT ![p] = "draining"]
          /\ UNCHANGED <<pc, late, others, lock>>
       \/ pc[p] = "start" /\ Dies(p) /\ UNCHANGED kills

\* The context of Shutdown expires.
TenSeconds(p) ==
    /\ sig[p] = "draining" /\ ~late[p]
    /\ late' = [late EXCEPT ![p] = TRUE]
    /\ UNCHANGED <<pc, sig, others, lock>>

\* Shutdown has returned, and os.Exit(0).
ExitDrained(p) ==
    /\ sig[p] = "draining"
    /\ late[p] \/ \A r \in Requests : on[r] # p
    /\ Dies(p)
    /\ UNCHANGED kills

\* ListenAndServe has returned because of Shutdown, and runStart returns.
StopServing(p) ==
    /\ sig[p] = "draining"
    /\ Step(p, "serve", "close")
    /\ UNCHANGED <<others, lock>>

\* Mutant: Close does not wait for transactions.
CloseAtOnce(p) ==
    /\ Step(p, "close", "exit")
    /\ lock' = Nobody
    /\ UNCHANGED others

\* The deferred BoltDBStorage.Close, once no transaction is open.
Close(p) ==
    /\ Step(p, "close", "exit")
    /\ \A r \in Requests : on[r] = p => at[r] # "tx"
    /\ lock' = Nobody
    /\ UNCHANGED others

\* Fatalf of the command, or the end of init.
Exit(p) ==
    /\ pc[p] = "exit"
    /\ Dies(p)
    /\ UNCHANGED kills

----------------------------------------------------------------------------
(* Requests.                                                               *)

\* What a request does to itself: its new place, and its answer when it is done.
Moves(r, from, to) ==
    /\ at[r] = from
    /\ at' = [at EXCEPT ![r] = to]
    /\ UNCHANGED <<on, result>>

Answers(r, from, answer) ==
    /\ at[r] = from
    /\ at' = [at EXCEPT ![r] = "none"]
    /\ on' = [on EXCEPT ![r] = Nobody]
    /\ result' = [result EXCEPT ![r] = answer]

IsOpen(r) == lock = on[r]

Accept(r, p) ==
    /\ at[r] = "none"
    /\ pc[p] = "serve" /\ sig[p] # "draining"
    /\ at' = [at EXCEPT ![r] = "auth"]
    /\ on' = [on EXCEPT ![r] = p]
    /\ wrote' = [wrote EXCEPT ![r] = 0]
    /\ result' = [result EXCEPT ![r] = "none"]
    /\ UNCHANGED <<process, config, lock, roots, versions, counts>>

\* Middleware's ValidateToken: without the database no token is valid.  The
\* request sets a secret, or waits for changes.
Authenticate(r) ==
    /\ \/ IsOpen(r) /\ (Moves(r, "auth", "set") \/ Moves(r, "auth", "wait"))
       \/ ~IsOpen(r) /\ Answers(r, "auth", "refused")
    /\ UNCHANGED <<process, config, lock, roots, versions, wrote, counts>>

\* Engine.Set begins the write transaction (one at a time), or fails.
Begin(r) ==
    /\ \/ /\ IsOpen(r) /\ Len(versions) < MaxVersions
          /\ \A x \in Requests : on[x] = on[r] => at[x] # "tx"
          /\ Moves(r, "set", "tx")
       \/ ~IsOpen(r) /\ Answers(r, "set", "refused")
    /\ UNCHANGED <<process, config, lock, roots, versions, wrote, counts>>

\* It commits what the server's key encrypted.
Commit(r) ==
    /\ Moves(r, "tx", "audit")
    /\ versions' = Append(versions, key[on[r]])
    /\ wrote' = [wrote EXCEPT ![r] = Len(versions')]
    /\ UNCHANGED <<process, config, lock, roots, counts>>

\* The transaction fails, at the disk, and is undone; Set answers the error.
CommitFails(r) ==
    /\ Answers(r, "tx", "refused")
    /\ UNCHANGED <<process, config, lock, roots, versions, wrote, counts>>

\* Mutant: what cannot be logged is refused.
AuditOrRefuse(r) ==
    /\ IF IsOpen(r) THEN Moves(r, "audit", "reply")
                    ELSE Answers(r, "audit", "refused")
    /\ UNCHANGED <<process, config, lock, roots, versions, wrote, counts>>

\* LogOperation, whose error is ignored.
Audit(r) ==
    /\ Moves(r, "audit", "reply")
    /\ UNCHANGED <<process, config, lock, roots, versions, wrote, counts>>

\* A watch ends, by its deadline, an event or its client.
WaitEnds(r) ==
    /\ Moves(r, "wait", "reply")
    /\ UNCHANGED <<process, config, lock, roots, versions, wrote, counts>>

Reply(r) ==
    /\ Answers(r, "reply", "ok")
    /\ UNCHANGED <<process, config, lock, roots, versions, wrote, counts>>

----------------------------------------------------------------------------
Main(p) ==
    \/ Open(p) \/ OpenTimesOut(p)
    \/ LoadKey(p) \/ CheckTokens(p) \/ AssignServer(p) \/ Listen(p) \/ StopServing(p)
    \/ ListTokens(p) \/ CreateRootToken(p)
    \/ Close(p) \/ Exit(p)

SignalGoroutine(p) == Notify(p) \/ Shutdown(p) \/ ExitDrained(p)

Handler(r) ==
    \/ Authenticate(r) \/ Begin(r) \/ Commit(r) \/ CommitFails(r)
    \/ Audit(r) \/ Reply(r)

Next ==
    \/ \E p \in Processes :
         \/ Launch(p) \/ Kill(p) \/ Main(p)
         \/ Signal(p) \/ SignalGoroutine(p) \/ TenSeconds(p)
    \/ \E r \in Requests :
         Handler(r) \/ WaitEnds(r) \/ \E p \in Servers : Accept(r, p)

Spec == Init /\ [][Next]_vars

\* The goroutines of a process that can run do run, and time passes.  Nobody has
\* to launch, signal or kill a process or to send a request, and the handlers of
\* requests may hang.
FairSpec ==
    /\ Spec
    /\ \A p \in Processes :
         WF_vars(Main(p)) /\ WF_vars(SignalGoroutine(p)) /\ WF_vars(TenSeconds(p))

----------------------------------------------------------------------------
(* Properties.                                                             *)

\* Inits that race with each other and with servers create one root token.
OneRootToken == roots <= 1

\* A transaction never works on a file that another process may open: not while
\* its server shuts down, and not when the server is replaced meanwhile.
TransactionsHaveTheFile ==
    \A r \in Requests : at[r] = "tx" => lock = on[r]

\* With a key configured, whether by the variable or by the file, every server
\* reads every secret of every server before it.
SecretsSurvive ==
    env = "long" \/ (env = "unset" /\ file = "long") =>
        \A p \in Servers : pc[p] \in {"start", "listen", "serve"} =>
            \A i \in DOMAIN versions : versions[i] = key[p]

\* A write that was answered with an error is not in the database, wherever the
\* server's end came between: who retries it stores no second version.
RefusedMeansNotThere ==
    \A r \in Requests : result[r] = "refused" => wrote[r] = 0

\* A signal that the goroutine has received ends the server, wherever start is
\* and whatever requests go on.
SignalEndsServer == \A p \in Servers : sig[p] = "shutting" ~> pc[p] = "off"

\* server.go:105: "Shutdown gracefully shuts down the server".  The requests it
\* finds are served, if they take less than its ten seconds.
ShutdownIsGraceful ==
    [][\A r \in Requests :
          /\ at[r] # "none" /\ at'[r] = "none"
          /\ sig[on[r]] = "draining" /\ ~late[on[r]]
          => result'[r] = "ok"]_vars
============================================================================
