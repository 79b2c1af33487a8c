---------------------------- MODULE CachedClient ----------------------------
(***************************************************************************)
(* pkg/client/cache.go over the server's API.                              *)
(*                                                                         *)
(* A cached client holds the keys of one namespace in a map.  Its watch    *)
(* loop opens a long poll now and then and reloads the map when the poll   *)
(* answers a change; Set and Delete of the application's goroutines reload *)
(* it, too.  A reload lists the namespace, puts the new map in the place   *)
(* of the old one, and calls back about what differs, without a lock over  *)
(* the three.  The server is the versioned map, and a handler that         *)
(* announces a change after committing it (see WritePath).                 *)
(*                                                                         *)
(* What every specification has is called Cache... here (CacheSpec), for   *)
(* ClientProofs extends this module and StreamClient.                      *)
(***************************************************************************)
EXTENDS Names

CONSTANTS
    Values, MaxVersion, NoEntry,
    Mine,           \* the namespace of the client
    Loop,           \* the watch loop's goroutine
    Apps,           \* goroutines of the application
    Others,         \* writers elsewhere
    MaxCommits      \* bound on the commits at the server

ASSUME CacheConstants ==
    /\ Mine \in Namespaces
    /\ Loop \notin Apps
    /\ Apps \cap Others = {}
    /\ MaxVersion \in Nat \ {0}
    /\ MaxCommits \in Nat

VARIABLES
    known, history, live,   \* the server's keys
    shadowed,       \* whether a key of the namespace above has the client's name
    now,            \* how many changes it has committed
    committed,      \* the writers whose last change is yet to be announced
    stamp,          \* the number of each writer's last change
    pc,             \* where each goroutine of the client is
    reply,          \* what its List answered, and when
    replaced,       \* the map its Swap took out
    cache,          \* the map, and when it was listed
    told,           \* what the initial load and the callbacks have said: the
                    \* last one started, for the goroutines they run in are
                    \* not ordered
    cause,          \* the last change each goroutine reloaded for
    closed,         \* whether Close was called
    newest,         \* the time of the newest listing that was ever in the map
    overlapped,     \* whether two reloads ever called back at the same time
    renumbered      \* whether a namespace was ever dropped

serverVars == <<known, history, live, shadowed>>
clientVars == <<pc, reply, replaced, cache, told, cause, closed, newest, overlapped>>
cacheVars == <<serverVars, now, committed, stamp, renumbered, clientVars>>

Server == INSTANCE VersionedMap

Goroutines == Apps \cup {Loop}
Writers == Apps \cup Others

Entry == [version : 1 .. MaxVersion, value : Values]
Map == [Keys -> Entry \cup {NoEntry}]
Listing == [keys : Map, at : 0 .. MaxCommits]

NoKeys == [keys |-> [k \in Keys |-> NoEntry], at |-> 0]

LoopPlaces == {"new", "load", "failed", "wait", "polling", "list", "swap", "notify", "stopped"}
AppPlaces == {"idle", "call", "list", "swap", "notify"}

CacheTypeOK ==
    /\ known \subseteq Namespaces
    /\ live \subseteq Loc
    /\ shadowed \in BOOLEAN
    /\ now \in 0 .. MaxCommits
    /\ committed \subseteq Writers
    /\ stamp \in [Writers -> 0 .. MaxCommits]
    /\ DOMAIN pc = Goroutines /\ pc[Loop] \in LoopPlaces /\ \A a \in Apps : pc[a] \in AppPlaces
    /\ reply \in [Goroutines -> Listing]
    /\ replaced \in [Goroutines -> Map]
    /\ cache \in Listing
    /\ told \in Map
    /\ cause \in [Goroutines -> 0 .. MaxCommits]
    /\ closed \in BOOLEAN
    /\ newest \in 0 .. MaxCommits
    /\ overlapped \in BOOLEAN
    /\ renumbered \in BOOLEAN

CacheInit ==
    /\ Server!Init
    /\ shadowed = FALSE
    /\ now = 0
    /\ committed = {}
    /\ stamp = [w \in Writers |-> 0]
    /\ pc = [g \in Goroutines |-> IF g = Loop THEN "new" ELSE "idle"]
    /\ reply = [g \in Goroutines |-> NoKeys]
    /\ replaced = [g \in Goroutines |-> NoKeys.keys]
    /\ cache = NoKeys
    /\ told = NoKeys.keys
    /\ cause = [g \in Goroutines |-> 0]
    /\ closed = FALSE
    /\ newest = 0
    /\ overlapped = FALSE
    /\ renumbered = FALSE

----------------------------------------------------------------------------
(* The server.                                                             *)

EntryAt(l) == [version |-> Len(history[l]), value |-> history[l][Len(history[l])]]

\* The live keys of the namespace and of those nested in it; the client's map has
\* one entry per key name, so one of them stays.
CurrentMaps ==
    {map \in Map : \A k \in Keys :
        LET at == {l \in live : IsUnder(Mine, l[1]) /\ l[2] = k}
        IN  IF at = {} THEN map[k] = NoEntry
                       ELSE \E l \in at : map[k] = EntryAt(l)}

\* What GET with the client's namespace for a path answers.  To handleListKeys that
\* path names a key as well, and if there is one it answers its entry, in which
\* the client finds no keys.
Listed == IF shadowed THEN {NoKeys.keys} ELSE CurrentMaps

\* Writer w's handler commits a change, and will announce it.
Commit(w) ==
    /\ w \notin committed
    /\ now < MaxCommits
    /\ now' = now + 1
    /\ committed' = committed \cup {w}
    /\ stamp' = [stamp EXCEPT ![w] = now + 1]

\* A change elsewhere would neither answer the poll nor be in the listing.
Heard == {l \in Loc : IsUnder(Mine, l[1])}

OtherWrites(w) ==
    /\ \E l \in Heard : Server!Hide(l) \/ \E value \in Values : Server!Put(l, value)
    /\ Commit(w)
    /\ UNCHANGED <<shadowed, renumbered, clientVars>>

\* A namespace without a key goes without a word.
OtherDrops(w) ==
    /\ \E l \in Heard : Server!Drop(l[1])
    /\ IF live' # live THEN Commit(w) ELSE UNCHANGED <<now, committed, stamp>>
    /\ renumbered' = TRUE
    /\ UNCHANGED <<shadowed, clientVars>>

\* Somebody sets or deletes a key in the namespace above: with the client's name,
\* it takes the place of the list, and no event tells the client.
OtherShadows ==
    /\ Len(Mine) >= 2
    /\ now < MaxCommits
    /\ now' = now + 1
    /\ shadowed' = ~shadowed
    /\ UNCHANGED <<known, history, live, committed, stamp, renumbered, clientVars>>

\* NotifySet or NotifyDelete: an open poll is answered, and the loop reloads.
Announce(w) ==
    /\ w \in committed
    /\ committed' = committed \ {w}
    /\ IF pc[Loop] = "polling"
       THEN /\ pc' = [pc EXCEPT ![Loop] = "list"]
            /\ cause' = [cause EXCEPT ![Loop] = stamp[w]]
       ELSE UNCHANGED <<pc, cause>>
    /\ UNCHANGED <<serverVars, now, stamp, renumbered, reply, replaced, cache, told,
                   closed, newest, overlapped>>

\* The server dies and starts again; calls in flight fail.
Restart ==
    /\ committed' = {}
    /\ pc' = [g \in Goroutines |->
                 CASE pc[g] = "polling" -> "wait"
                   [] pc[g] = "call" -> "idle"
                   [] OTHER -> pc[g]]
    /\ UNCHANGED <<serverVars, now, stamp, renumbered, reply, replaced, cache, told,
                   cause, closed, newest, overlapped>>

----------------------------------------------------------------------------
(* reload, in the three steps between which others may come.               *)

Goto(g, place) == pc' = [pc EXCEPT ![g] = place]

\* What a goroutine does when it has reloaded: wait for a tick, or return.
Rest(g) == IF g = Loop THEN "wait" ELSE "idle"

serverUnchanged == UNCHANGED <<serverVars, now, committed, stamp, renumbered>>

\* client.List, answered by the server.
List(g) ==
    /\ pc[g] \in {"new", "list"}
    /\ \E map \in Listed :
         reply' = [reply EXCEPT ![g] = [keys |-> map, at |-> now]]
    /\ Goto(g, IF pc[g] = "new" THEN "load" ELSE "swap")
    /\ serverUnchanged
    /\ UNCHANGED <<replaced, cache, told, cause, closed, newest, overlapped>>

\* The first reload: nobody has registered a callback yet.
Load ==
    /\ pc[Loop] = "load"
    /\ cache' = reply[Loop]
    /\ told' = reply[Loop].keys
    /\ newest' = reply[Loop].at
    /\ reply' = [reply EXCEPT ![Loop] = NoKeys]
    /\ Goto(Loop, "wait")
    /\ serverUnchanged
    /\ UNCHANGED <<replaced, cause, closed, overlapped>>

\* Under cacheMu, the new map takes the place of the old one.
Swap(g) ==
    /\ pc[g] = "swap"
    /\ replaced' = [replaced EXCEPT ![g] = cache.keys]
    /\ cache' = reply[g]
    /\ newest' = IF newest < reply[g].at THEN reply[g].at ELSE newest
    /\ overlapped' = (overlapped \/ \E h \in Goroutines : pc[h] = "notify")
    /\ Goto(g, "notify")
    /\ serverUnchanged
    /\ UNCHANGED <<reply, told, cause, closed>>

\* The keys that are new, or have another version than before.
Updated(old, new) ==
    {k \in Keys : new[k] # NoEntry /\ (old[k] = NoEntry \/ old[k].version # new[k].version)}

Deleted(old, new) == {k \in Keys : old[k] # NoEntry /\ new[k] = NoEntry}

\* What notifyChanges calls back about.
Changes(old, new) == Updated(old, new) \cup Deleted(old, new)

\* notifyChanges; a deleted key is called back with no value.
NotifyChanges(g) ==
    /\ pc[g] = "notify"
    /\ told' = [k \in Keys |-> IF k \in Changes(replaced[g], reply[g].keys)
                               THEN reply[g].keys[k] ELSE told[k]]
    /\ reply' = [reply EXCEPT ![g] = NoKeys]
    /\ replaced' = [replaced EXCEPT ![g] = NoKeys.keys]
    /\ Goto(g, Rest(g))
    /\ serverUnchanged
    /\ UNCHANGED <<cache, cause, closed, newest, overlapped>>

\* A call to the server fails: the reason to reload is forgotten.
Fail(g) ==
    /\ pc[g] \in {"new", "list", "polling", "call"}
    /\ Goto(g, IF pc[g] = "new" THEN "failed" ELSE Rest(g))
    /\ cause' = IF pc[g] = "list" THEN [cause EXCEPT ![g] = 0] ELSE cause
    /\ serverUnchanged
    /\ UNCHANGED <<reply, replaced, cache, told, closed, newest, overlapped>>

----------------------------------------------------------------------------
(* The watch loop, and the application.                                    *)

\* The ticker ticks: client.Watch.
Poll ==
    /\ pc[Loop] = "wait"
    /\ Goto(Loop, "polling")
    /\ serverUnchanged
    /\ UNCHANGED <<reply, replaced, cache, told, cause, closed, newest, overlapped>>

\* Mutant: a poll has no timeout.
NeverTimesOut == FALSE /\ UNCHANGED cacheVars

\* Nothing happened for the five seconds asked for.  The server says so, or, when
\* its handler finds the channel that the cleanup goroutine has closed, answers an
\* event without content, for which the loop reloads.
PollTimesOut ==
    /\ pc[Loop] = "polling"
    /\ \E place \in {"wait", "list"} : Goto(Loop, place)
    /\ serverUnchanged
    /\ UNCHANGED <<reply, replaced, cache, told, cause, closed, newest, overlapped>>

\* The loop sees that it is to stop, which it looks for between polls only.
Stop ==
    /\ pc[Loop] = "wait"
    /\ closed
    /\ Goto(Loop, "stopped")
    /\ serverUnchanged
    /\ UNCHANGED <<reply, replaced, cache, told, cause, closed, newest, overlapped>>

\* The application has a client to use once NewCachedClient has returned it.
Ready == pc[Loop] \notin {"new", "load", "failed"}

Close ==
    /\ Ready
    /\ closed' = TRUE
    /\ serverUnchanged
    /\ UNCHANGED <<pc, reply, replaced, cache, told, cause, newest, overlapped>>

\* Set or Delete, as far as the server's commit.
AppWrites(a) ==
    /\ Ready
    /\ pc[a] = "idle"
    /\ \E k \in Keys :
         Server!Hide(<<Mine, k>>) \/ \E value \in Values : Server!Put(<<Mine, k>>, value)
    /\ Commit(a)
    /\ Goto(a, "call")
    /\ UNCHANGED <<shadowed, renumbered, reply, replaced, cache, told, cause, closed,
                   newest, overlapped>>

\* Mutant: Set and Delete leave it to the watch loop to reload.
AnsweredOnly(a) ==
    /\ pc[a] = "call"
    /\ a \notin committed
    /\ cause' = [cause EXCEPT ![a] = stamp[a]]
    /\ Goto(a, "idle")
    /\ serverUnchanged
    /\ UNCHANGED <<reply, replaced, cache, told, closed, newest, overlapped>>

\* The server answers, having announced the change; Set and Delete reload.
Answered(a) ==
    /\ pc[a] = "call"
    /\ a \notin committed
    /\ cause' = [cause EXCEPT ![a] = stamp[a]]
    /\ Goto(a, "list")
    /\ serverUnchanged
    /\ UNCHANGED <<reply, replaced, cache, told, closed, newest, overlapped>>

CacheNext ==
    \/ Load \/ Poll \/ PollTimesOut \/ Stop \/ Close
    \/ \E g \in Goroutines : List(g) \/ Swap(g) \/ NotifyChanges(g) \/ Fail(g)
    \/ \E a \in Apps : AppWrites(a) \/ Answered(a)
    \/ \E w \in Others : OtherWrites(w) \/ OtherDrops(w)
    \/ OtherShadows
    \/ \E w \in Writers : Announce(w)
    \/ Restart

CacheSpec == CacheInit /\ [][CacheNext]_cacheVars

\* The server answers what it is asked, each poll has an end, and goroutines are
\* run.  Between the ticker and the end of the context, when both are there,
\* select chooses at random: it will not choose the ticker for ever.
CacheFairSpec ==
    /\ CacheSpec
    /\ WF_cacheVars(Load) /\ WF_cacheVars(Poll) /\ WF_cacheVars(PollTimesOut) /\ SF_cacheVars(Stop)
    /\ \A g \in Goroutines : WF_cacheVars(List(g)) /\ WF_cacheVars(Swap(g)) /\ WF_cacheVars(NotifyChanges(g))
    /\ \A a \in Apps : WF_cacheVars(Answered(a))
    /\ \A w \in Writers : WF_cacheVars(Announce(w))

----------------------------------------------------------------------------
(* Properties.                                                             *)

\* cache.go:95: "Set updates a value and refreshes cache".  When Set or Delete
\* has returned without an error, and when the watch loop has dealt with an
\* event, the cache is of a time after that change, and it stays so, whatever
\* other goroutines reload.  Except when an older listing has taken the place
\* of a newer one: nothing orders the listings and the swaps of two reloads.
CacheIncludesCauses ==
    cache.at = newest =>
        \A g \in Goroutines : pc[g] \in {"wait", "polling", "idle"} => cause[g] <= cache.at

\* No two namespaces, the client's and those nested in it, ever had a key of this
\* name: the map, which goes by the name, has one key for it.
NamedOnce(k) ==
    \A l, m \in Heard :
        l[2] = k /\ m[2] = k /\ history[l] # << >> /\ history[m] # << >> => l = m

\* notifyChanges: who adds up the callbacks has the contents of the cache, keys
\* that are gone included, even when reloads overtake each other between List
\* and Swap.  Not when two call back at the same time, and not after a namespace
\* was dropped: its versions start again, and a key that comes back with the
\* version it had is not called back about; nor, for the same reason, for a key
\* that two namespaces have.
AppKnowsTheCache ==
    ~overlapped /\ ~renumbered /\ (\A g \in Goroutines : pc[g] # "notify") =>
        \A k \in Keys : NamedOnce(k) => told[k] = cache.keys[k]

\* cache.go:135: "Close stops the watch loop", a poll that is open included.
CloseStopsTheLoop == closed ~> pc[Loop] = "stopped"
=============================================================================
