# keyrafted, specified in TLA+

keyrafted is a configuration and secrets server: a Go process with an HTTP API
over a bbolt database, watches over long polls and server-sent events, scoped
tokens, an audit log, and a Go client with a local cache. These modules model
its core and are checked with TLC and, where it pays, proved with TLAPS.

Check a run:      tlc -config KVStore_safety.cfg MCKVStore.tla
Check the proofs: tlapm KVStoreProofs.tla

`PROJECT.json` lists the components, the runs, what each definition translates,
the hazards of the code and the properties aimed at them.

## 1. The system

| component | state | operations | talks to |
|---|---|---|---|
| Store (`internal/storage/boltdb.go`) | bbolt buckets `kv_data` (head of each key), `kv_versions` (one record per version), `meta` (version counters), `namespaces`, `tokens`, `audit_log`; a lock on the file | Open, Close; Set, Get, GetVersion, GetVersions, List, Delete, CreateNamespace, DeleteNamespace, tokens, audit records, one transaction each | called by engine, auth, audit, `cmd` |
| Engine (`internal/engine`) | none | Set, Get, List, versions, Delete (with encryption of secrets), DeleteNamespace in three store calls | store, crypto |
| Tokens (`internal/auth`) | the `tokens` bucket; the caller's token in each request's context | GenerateToken, ValidateToken, Middleware, HasAccess, HasPermission, RevokeToken, InitializeRootToken | store; called by handlers, `init`, `start` |
| Watch manager (`internal/watch`) | map from ID to watcher (channel, context), a counter, an RWMutex | Watch, Unwatch, Notify, cleanup goroutine per watcher | called by handlers |
| HTTP handlers (`internal/api`) | one goroutine per request | key, namespace, watch, token, audit and role endpoints | all of the above |
| Audit (`internal/audit`) | the `audit_log` bucket | LogOperation, GetLogs, CountLogs | store |
| Encryption (`internal/crypto`) | the master key | NewEncryptorFromEnv, Encrypt, Decrypt | engine |
| Life cycle (`cmd`, `Server.Start`, `Server.Shutdown`) | main and signal goroutine, the listening server | init, start, graceful shutdown | everything |
| Go client, cached client (`pkg/client`) | HTTP client, a goroutine per stream; a map, a mutex, callbacks, a watch loop | CRUD, Watch, WatchStream; Get, Set, Delete, reload | the API |
| Web UI (`internal/ui`) | browser state | pages over the API | the API |

What is hard about it, and what makes each part correct:

- **Store.** Each method is one transaction, so a single call is atomic, but
  three buckets have to agree over any sequence of sets, deletes and drops:
  the head must be the newest version, numbers must have no gaps and never be
  reused, a drop must not reach a nested or a sibling namespace. DeleteNamespace
  deletes under the cursor that enumerates.
- **Write path.** Commit, notification, audit record and answer are separate
  steps of a goroutine, and a namespace deletion takes three transactions.
  Correct means that nobody who watches is left with an old view for good.
- **Read path.** A path may name a key, a namespace or both, and a GET asks for
  one after the other in three transactions. Correct means that what is there
  all along is found, and that nobody takes a ciphertext for a value.
- **Tokens.** A revocation reads, counts and deletes in three transactions, with
  other requests, crashes and `init` in between. Some root token must remain, or
  the server no longer starts.
- **Watches.** The handler's deferred Unwatch, the cleanup goroutine, the
  deadline and publishers meet at one channel. No panic, nobody loses its
  registration, events arrive in order and at those concerned, a slow consumer
  blocks nobody.
- **Streams.** Watcher's channel, connection and client's channel are bounded, and
  either side may end, fail, close or stop receiving at any time. Nothing may be
  lost from the middle, nobody may wait for good.
- **Audit log.** A page and its total come from two transactions, a walk takes
  many, and entries land anywhere in the order of their keys meanwhile. A walk
  must pass nothing by.
- **Cached client.** It reloads and notifies from a watch loop. It must not stay
  stale, call back for a change that did not happen, or miss one.
- **Life cycle.** Shutdown runs beside the main goroutine, which closes the
  store; the file's lock is handed from process to process. No transaction may
  run without the file, init must create one root token, a signal must end the
  server, and the key that encrypted a secret must be there to decrypt it.

## 2. The modules

| module | models | abstract specification, or composition |
|---|---|---|
| `Paths`, `Names` | namespace names as sequences of segments; the prefix scan, the watch match, name validation, `makeKVKey` | |
| `VersionedMap` | what the key/value buckets promise | is one |
| `KVStore` | the key/value methods of `boltdb.go` | implements `VersionedMap` |
| `WritePath` | set, delete and namespace-delete handlers over `engine` | composes them with `KVStore` |
| `ReadPath` | the handlers that read keys, `engine` with decryption, HasAccess | composes them with `KVStore` |
| `TokenService` | `auth.go`, the token handlers, `init`, `start`, crash | |
| `WatchManager` | `watch.go`, `handleWatchLongPoll`, `handleWatchSSE` | |
| `StreamClient` | `handleWatchSSE` and its watcher, the connection, `WatchStream` | |
| `CachedClient` | `cache.go`, the calls of `client.go` it makes | composes them with `VersionedMap` as the server |
| `AuditLog` | the audit service and its buckets, `handleGetAuditLogs`, a reader that walks the pages | |
| `Lifecycle` | `init`, `start`, `Server.Start`, `Server.Shutdown`, Open and Close of the store, requests in flight, `NewEncryptorFromEnv` | |
| `MC...` | instances for TLC | |
| `...Proofs` | theorems and their proofs | |

Definitions whose comment begins with `Mutant:` are variants of the one after
them, with a plausible bug; no specification uses them. With one in place of
the original, TLC finds the property violated that `PROJECT.json` names for it.

**KVStore.** One action per method that writes (`Set`, `Delete`,
`CreateNamespace`, `DeleteNamespace`); a variable per bucket. A record is a model
value (value, type and metadata together). `SteppedOver` is bbolt's behaviour
when a bucket is changed under one of its cursors. bbolt documents the result as
undefined; in its code a deletion on a leaf that is already an in-memory node
makes the cursor step over the next item, and on a leaf read from its page it
does not. Which leaves are nodes depends on page layout and on the order of
the deletions, so the model takes any prefix of a key's records to be at risk,
except for the first key the scan meets, for which no leaf has been changed yet.
The reads (`Get`, `List`, `GetVersions`) are the operators the
properties are stated with.

**WritePath.** A request is idle, about to list, about to drop, about to notify
or about to audit. The store's own actions are used unchanged through
`Store == INSTANCE KVStore`. Two history variables: `stale`, the locations whose
visible state changed since the last event about them, and `overtaken`, those
last set while a deletion had listed their namespace and not yet deleted it.
`Refuse` stands for every path that changes nothing, also for a transaction that
fails, where the code logs and returns. Restart ends all requests; watch
connections end too, and a new watcher reads first, so nothing stays stale.
Notify is one step: that a Notify reaches whoever is registered is what
`WatchManager` shows.

**ReadPath.** A request for a path looks at the token and goes through `version`,
or through `get`, `namespace` and `list`; one for versions goes to `versions`.
Each place is one store transaction. Between them `Write` is any action of the
store, and `Restart` gives the server any master key. A stored value is the key that
encrypts it, or `Config` when it needs none. Decryption `Fails` for the value of
another key, and `Decrypted` is then empty, as in Go, where an error comes with a zero
value; the engine's methods differ in what they do about it. What the answer shows is
a set of locations, each with what it shows for the value: plain, the ciphertext, or
nothing. `steady` and `exists` record what has
been there since the request began: only for that can a read of several
transactions answer.

**TokenService.** A token is its role, whether it has scopes, whether its
metadata says `type = root`, and its expiry. Requests carry the copy that
Middleware put into the context. `RevokeGet`, `RevokeList` and `RevokeDelete` are
the three transactions of a revocation. `InitializeRootToken` and `Start` are the
two commands, `Crash` ends the process with all its requests. Token strings are
random, so a new one is one that was never there (`minted`).

**WatchManager.** Each watch request is one watcher with its handler and its
cleanup goroutine. A channel is its buffer and whether it is open; `Park` is a
`select` that found nothing ready, after which a sender hands over directly.
`StartNotify` takes the read lock, `Send` visits one watcher (any order: the
range over a Go map), `EndNotify` releases. `Watch`, `Unwatch` and
`CleanupWatcher` need the write lock and are atomic under it. `select` with
several ready cases takes any of them. The ID is the pair of the second and of
what `string(rune(counter))` yields, and the map goes by it: `Watch` overwrites
an entry of the same ID, Unwatch and the cleanup goroutine act on what theirs
finds. `missed` is a history variable: the events that found a watcher's channel
full.

**StreamClient.** One stream, from the response's header on. The watcher is its
channel (`queue`) and its state (`watcher`: none yet, open and in the map, closed and
taken out); `WatchManager` has the rest. It ends with the first of the handler's
`Unwatch` and `CleanupWatcher`, which may come as soon as the request's context is done,
with the handler in a write or in its `select`: the handler then takes what the closed
channel still holds, and leaves by `TakeDone` or `TakeClosed`. The
connection is a bounded sequence that may be broken with a part of it
lost. `Deadline` is the server's WriteTimeout, after which `WriteFails`; net/http then
cancels the request. `ScanEnd` has the three ends of the scanner: end of the
connection, a line beyond its buffer, a closed body. The application receives,
turns away, or closes in the two steps of `closeFn`. `accepted` and `received`
are history variables.

**CachedClient.** The server is `VersionedMap` with writers that commit and then
announce, the order in which `WritePath` does it; commits are numbered. A poll is
open while the loop is `polling`, and only then is an announcement heard. A
reload is `List`, `Swap` (under `cacheMu`) and `NotifyChanges`, by the loop or by
an application goroutine in Set or Delete; the first one, in NewCachedClient, is
`List` and `Load`. A poll whose time is up may still be answered with an event, one
without content (see `WatchManager!TakeClosed`), and the loop then reloads for nothing
(`PollTimesOut`). What `List` gets is an answer to the client's namespace as a path, which
names a key of the namespace above as well: while there is one, its entry takes the
place of the list (`OtherShadows`), no event says so, and the client finds no
keys. `Fail` is any error of a call. `told` adds up the callbacks: one
callback, registered before the first event; each runs in its own goroutine, so
the order meant is that in which they are started. The events of a namespace
deletion count as one. `cause`, `newest`, `overlapped` and `renumbered` are
history variables.

**AuditLog.** An entry is its key (the time, made unique) and its namespace.
`LogOperation` may add any key that is not there: an entry takes its time before
it waits for the store's write lock, and the clock may step back. A request is
`Count` and then `GetPage`. The reader is that of the web UI: it goes on by whole pages
while it is told that there are more. `before` and `seen` are history variables.

**Lifecycle.** A process is at a place of `runStart` or `runInit`, with its signal
goroutine beside it. The lock is taken by `Open` and freed by `Close` or by the end of
the process (`Dies`), which also cuts off its requests. `Signal` before
`signal.Notify` and `Shutdown` before `s.server` is set end the process at once.
`StopServing` is `ListenAndServe` that returns when Shutdown begins, so that from
then on `Close` and `Exit` race `ExitDrained` and the requests. bbolt's Close waits
for open transactions; a request after it finds the database closed. A
transaction commits or fails as a whole (`Commit`, `CommitFails`). A request
sets a secret or waits for a watch. `MasterKey` is what `NewEncryptorFromEnv`
yields from the variable and the file.

## 3. The runs

| run | instance | states | shows |
|---|---|---|---|
| `kv_safety` | `app`, `app/prod` and a name that is too deep; 2 keys, 2 values (symmetric), versions to 2 | 47 thousand | `HeadMatchesHistory`, `HistoryHasNoGaps`, `EntriesHaveNamespace`, `VersionsArePermanent`, `DropIsLocal`, refinement of `VersionedMap` |
| `write` | 2 requests that set, delete and drop at will; 2 namespaces and a name that is too deep, 1 key, versions to 2 | 15 thousand | `TypeOK`, `NoSilentChange`, `LiveChangesAreAnnounced`, `DropsAreReported`, `WatchersCatchUp` |
| `reads` | `app` and `app/DB_URL`, the key `DB_URL`, versions to 2, 2 master keys, 2 tokens, 3 paths, 1 reading request | 346 thousand | `FoundIfThere`, `ValuesArePlain` |
| `tokens_one_revoker` | 3 token strings, 2 requests, 1 may revoke, clock to 1, seven bodies | 11 thousand | `RootRemains`, `TokensAreWriteOnce`, `ServerComesBack` |
| `tokens_two_revokers` | 2 may revoke | violation | `RootRemains` |
| `watch` | a long poll on `app` and a stream on `*`, capacities 1 and 2, two publishers (`app/prod` with 2 events, `apps` with 1), two seconds, the counter at 55295 | 418 thousand | `NoPanic`, `WaitersAreRegistered`, `EventsInOrder`, `NotifyReachesTheInterested`, `HandlersEnd`, `NotifyNeverBlocks` |
| `stream` | every buffer holds 1 event, 3 changes, the third too long | 30 thousand | `StreamIsComplete`, `ConnectedIsListening`, `CloseEndsReader`, `EndIsNoticed`, `HandlerIsNeverStuck` |
| `stream_deadline` | the same without long changes | violation | `ChangesArrive` |
| `cache_reloads` | namespace `app/prod`, an application goroutine, a writer elsewhere, 1 key, 1 value, versions to 2, 3 commits | 375 thousand | `CacheIncludesCauses`, `AppKnowsTheCache`, `CloseStopsTheLoop` |
| `audit` | 5 entries of 2 namespaces, limits 0, 2 and 3 with a maximum of 2 | 639 thousand | `NoGaps`, `MoreIsTrue`, `LastPageIsLast` |
| `life` | 2 servers, 2 inits, 3 launches, a request, a kill, every outcome of the key configuration | 128 thousand | `OneRootToken`, `TransactionsHaveTheFile`, `SecretsSurvive`, `RefusedMeansNotThere`, `SignalEndsServer` |
| `life_graceful` | a server, an init, no kills, a key that is set | violation | `ShutdownIsGraceful` |

**Bounds.** `MaxVersion` bounds the numbers of one key: two is enough for a
delete between two sets, for a second version to be stepped over, and (through a
drop, which restarts the numbering) for numbers to be given out again. Two
namespaces, one inside the other, are what the prefix scan can confuse; siblings
such as `app` and `apps` differ in their first segment, and watches check them.
Keys do not interact except in a scan, so two suffice. In `reads` the inner
namespace has the name of the key, so that one path is both, and one request
reads: requests that read do not interact. In `tokens_one_revoker` three token
strings are a last root, the token being created and one to be revoked.
`MaxTime = 1` is before and after an expiry. In `watch` the channels have room
for one and two events (10 and 100 in the code) against three publications, two
by one publisher: channels fill while a publisher is half way and a handler has
yet to take what it was handed. `MaxSecond = 1` lets two watchers share
a second or not, and the counter starts at the last value before the surrogates:
both get the rune U+FFFD, so in one second they have one ID, and in two they
have two. In `stream` each buffer holds one event and there are four, the
first included: with one event in every buffer and in both hands everything is
full, and the third change is one whose line is too long.
`MaxCommits` bounds the changes at the server of the cached client: three are
enough for a set, a drop and a set under the old number, for a change beneath a
key that takes the place of the list, and for two reloads with different causes that
overtake each other. One value is enough, for what is listed of a key differs by
its version, except after a drop, which `AppKnowsTheCache` leaves out. That instance has no
namespace inside the client's. There two keys of one name share an entry of the
map, and a version number no longer tells what it holds: `AppKnowsTheCache`
excepts such names (`NamedOnce`), and its theorem covers nested namespaces. In `audit` five
entries are three pages of two with the last one short, or five of one, and can
still arrive during the walk. In `life` three launches are a server, its
replacement and an init (or two inits and a server); one request can be at any
step when its server ends, and the database is without tokens, has them, or gets
them during a start.
`CHECK_DEADLOCK FALSE` is set where the system may stop: in `watch`, where each
request registers once, in `stream`, where both sides end, and in `life`, where
nobody has to launch anything.

**Fairness.** `WatchManager!FairSpec`: goroutines that can run do run (the Go
scheduler), for handlers, cleanup goroutines and a publisher inside Notify; nobody
has to publish, to disconnect or to let time pass. Weak fairness is enough for
the write lock because publications are bounded; in the program `sync.RWMutex`
holds new readers back once a writer waits. `TokenService!FairSpec`: a dead
server is started again, as `docker-compose.yml` has it (`restart:
unless-stopped`); whether the start then succeeds is the property.
`WritePath!FairSpec`: a request that has begun is served to its end.
`CachedClient!FairSpec`: the server answers, a poll ends after its five seconds
and goroutines are run; nobody has to write, to fail or to close. Strong fairness
of `Stop` is Go's `select`, which takes one of several ready cases at random.
`StreamClient!FairSpec`: the goroutines of both sides run, the deadline passes,
and TCP finds out about a lost peer; nobody has to publish, to stop or to close,
but who has begun to close goes on, and an application that receives does so.
`Lifecycle!FairSpec`: the two goroutines of a process run, and its ten seconds
pass. Handlers of requests may hang for good, and nobody has to
launch or to signal anything.

## 4. Where the code departs from its docs and comments

Three are runs that TLC ends with a counterexample.

1. `auth.go:195` says that the last root token is not revoked; two concurrent
   revocations revoke the last two (`tokens_two_revokers`). If other tokens are
   left, nobody may manage tokens any more and `init` refuses; if none are,
   `start` refuses the database until `init` is run again.
2. The repository's README (lines 207 to 214) shows a stream that delivers changes
   one and two minutes after it connected; the server's WriteTimeout of 15 seconds ends it at the
   first change after that, and the change is lost (`stream_deadline`). The
   same timeout cuts a long poll of 30 seconds (line 194).
3. `server.go:105` calls the shutdown graceful; the main goroutine closes the store
   and exits while Shutdown still waits, so a request in flight is refused or cut
   off (`life_graceful`). What holds all the same is `TransactionsHaveTheFile`
   and `RefusedMeansNotThere`.

Seen while modelling, and without a run of their own:

- `boltdb.go:307` says that DeleteNamespace removes "all keys (and version
  history)"; records the cursor steps over stay. They answer GetVersion when
  the key exists again, until their number is given out anew. The promise to
  readers of numbered versions up to the counter still holds
  (`ImplementsVersionedMap`).
- `watch.go:165` calls the ID unique. It is not: `rune` folds the surrogates,
  2048 counts in a row from 55296 on, and everything past Unicode into one, so of
  that many watch requests all that register in one second have one ID. The run
  `watch` starts there, and reaches what follows: one request's Unwatch ends
  another's watch, and the cleanup goroutine of a watcher that is gone finds the
  other's entry and closes its own channel for a second time, a panic that ends the
  server. `NoPanic` and `WaitersAreRegistered` therefore say that nothing
  but a shared ID (`SharesID`) does such harm; order and delivery
  (`EventsInOrder`, `NotifyReachesTheInterested`, `HandlersEnd`) hold with shared IDs too.
- `engine.go:161` says that DeleteNamespace returns the "deleted key names"; a
  key set after the listing is deleted and not returned. The properties of
  `WritePath` name the case (`overtaken`).
- `cache.go:164` says that the watch loop "continuously watches for changes"; it
  listens for five seconds of every ten and does not reload without an event, so
  a change between two polls, or one whose reload failed, may stay unseen for good.
- `engine.go:114` says that entries that cannot be decrypted are skipped; a
  list, and the versions of a key, show them as stored. `ValuesArePlain` is
  about single values.
- `auth.go:185` takes a token for root by its metadata alone, also one of role
  `viewer`; the token runs create such tokens.
- `handlers.go:317` receives without looking whether the channel is closed. A
  long poll whose deadline passes before its `select` may answer an event with no
  content (`TakeClosed` answers `"zero"`), for which the cached client reloads.
- `handlers.go:226` looks for a key before it looks for a namespace. With a key
  `prod` in `app`, a list of `app/prod` is that key's entry; the cached client of
  `app/prod` then drops all its keys and calls back that they were deleted.
- `server.go:62` routes every path of three segments or more that ends in
  `versions` to the versions of a key: a key of that name cannot be read there.
- `client.go:362`: a second call of the function that ends a stream panics.
  `client.go:335` delivers the stream's first event, `connected`, as a change
  without a key.
- `start.go:108` declares a flag `--master-key` that nothing reads, and an empty
  key file is taken for none (`encryption.go:54`): secrets are then encrypted
  with a key that the next start does not have.
- Two reloads may put their listings in the map in the wrong order
  (`cache.go:147`). A value that Set has just returned for is then missing from
  the cache; `CacheIncludesCauses` names that case, `cache.at # newest`.
- The map of the cached client is keyed by key name, and a listing includes nested
  namespaces, so a nested key can take the place of an own one (`cache.go:151`).

## 5. What is proved

For every value of the constants that satisfies the named assumptions of the
modules (names are non-empty sequences of strings, sentinels are no data, bounds
are natural numbers, sets of token strings are finite).

**KVStoreProofs.** `TypeCorrect`, `HeadAgreesWithHistory`, `HistoryIsComplete`,
`EntriesAreListed`, `VersionsStay`, `DropStaysLocal`, `StoreImplementsMap`. The
inductive invariant is the conjunction of the checked ones: each alone is not
inductive, because a delete keeps `HistoryHasNoGaps` only if the counter is the
head's version, and the refinement of `Delete` needs a non-empty history for an
existing head. `SetEffect` says once what a set does to every location. The
refinement maps the history of a key to its records 1 to counter, so what
DeleteNamespace leaves behind is invisible to it: the counter is back at 0.

**WritePathProofs.** `LiveKeysAreAnnounced`, `ChangesAreNeverSilent` and
`DropsReportTheirKeys`, for all requests, whatever they do at once. They follow
from `ListingCovers`: what a deletion has listed includes every live key of
the namespace but the overtaken ones. A key deletion only makes keys disappear,
which keeps it; a set by another request marks its key, and the mark stays until
the key is set again outside a deletion. `HandlersKeepToTheStore` is the
refinement: the write path implements `KVStore`'s specification, for what is
dropped is always a valid name (`NamesAreValid`). So the theorems of
`KVStoreProofs`, taken over the buckets of this module (`Proved`), hold behind
the handlers: `TypeCorrect` and `HandlersImplementTheMap`.

**ReadPathProofs.** `TypeCorrect`, `NothingSteadyIsMissed`,
`SingleValuesArePlain`. The invariant says what a place in the handler knows:
what is `steady` is there now (`SteadyIsThere`), and who is past `get` has not found
the key, so it was not there all along (`KeyIsNotSteady`). Neither the writers
nor the restart is restricted. That one value is shown in the clear rests on the error
of Decrypt, which each handler's step has looked at; nothing else keeps what a failed
decryption leaves out of an answer.

**TokenServiceProofs.** `TypeCorrect` and `RecordsAreWriteOnce` hold with any
number of revokers. `LastRootIsKept` assumes that at most one request revokes
(`\A r, s \in Revokers : r = s`) and rests on `AnotherRootRemains`: while the
revocation of a root token is about to delete, a root token other than its
target is stored. Only another revocation could falsify that, and there is none;
creations add, and `init` needs an empty bucket. The run `tokens_two_revokers`
shows that the assumption is needed.

**WatchManagerProofs.** `TypeCorrect`, `PanicsTakeASharedID`,
`WaitersStayRegistered`, `EventsComeInOrder`, `NotifyMissesNobody`, for any counter, so
also with shared IDs. Who is found by an ID other than its own is one of those that
share it (`LookupFindsOwnID`), and who shares an ID goes on sharing it, for IDs
do not change (`SharingLasts`). Beyond those, a watcher's context ends only with the
request's or by its own Unwatch (`WatcherOutlivesNoRequest`), and the read lock keeps
those a Notify has yet to visit in the map (`NotifyVisitsRegistered`).
Order needs two more facts: what a request heard of
a publisher lies in the past or is the current event of a Notify that has visited
it (`HeardIsPast`), and a parked handler has an empty buffer, so a hand-over
overtakes nothing (`ParkedHasNoEvent`). For `NotifyMissesNobody`, the
set that a Notify has yet to visit holds only watchers its event concerns (`VisitsTheInterested`), and each step of it is accounted for in the
buffer, in a hand-over, or as a drop that found the channel full (`IsReached`). That
`Matches` means "at or above" is `MatchingIsBeginning`; names have a first
segment there (`NamesAreSegmentPaths`), be it an empty one.

**ClientProofs.** Of the stream: `TypeCorrect`, `StreamStaysComplete`,
`ConnectedStaysListening`. The invariant `Flow`
lays the stream out as one sequence, from what the application received over
each buffer and hand back to the watcher's channel: every step moves a boundary
of it. Once the stream is down, its end is on its way to nobody, which is why
the rest is under an existential quantifier. That who has received anything is
registered follows from `FreshIsEmpty`, for before Watch nothing is under way, and
from `EndsWithContext`: after Watch the watcher is in the map, and the handler in its
loop, until the request's context is done.

Of the cache (the module extends `StreamClient` and `CachedClient`, whose names
therefore differ): `CacheTypeCorrect`,
`ReloadsIncludeTheirCauses`, `CallbacksTellTheCache`. `CausesHeard` follows a
change from the stamp of its commit over the listing, which comes after it, to
the newest listing ever swapped in; it needs that nothing reloads before the
client is ready. For the callbacks, every entry in a map is a record of the
server's history (`MapsAreStored`), so of a name that one namespace uses, entries
of one version are the same (`VersionsTellEntries`), and what notifyChanges does
not call back about has not changed. `OneCallsBack` carries that over the steps in
between: what was told is the map that the goroutine calling back took out.

**AuditLogProofs.** `TypeCorrect`, `PagesLeaveNoGap`, `MoreMeansMore`,
`LastPageEndsWalk`. An entry's position never
decreases, because the log only grows (`PositionsGrow`); a page shows
all positions from its offset to the next one's. The last two are by counting:
keys differ (`KeysDiffer`), so positions run through 0 to the number of
matching entries less one, each once (`PositionsAreExact`), a page has as many
entries as positions (`PageIsCounted`), and the count is never more than what
matches later (`CountIsPast`).

**LifecycleProofs.** `TypeCorrect`, `OneRootTokenOnly`, `FileIsOwned`,
`ConfiguredSecretsSurvive`, `RefusedIsNotThere`. All rest on `OwnersHaveTheLock`: the
process between Open and Close, and no other, has the lock. So `init` checks
and creates with nobody in between (`OneRootAtMost`); a transaction keeps its
server from getting past Close (`RequestsAreServed`); and a request's key is that of a
process that read the same configuration (`ConfiguredKeyRules`).

`TypeCorrect` of each module is the proof of its `TypeOK` (`CacheTypeCorrect` for
the cache); so that each run has its question, only `write` checks it too.
Every invariant and every action property that a run checks has its theorem.

Only model-checked: liveness (`ServerComesBack`, `HandlersEnd`,
`NotifyNeverBlocks`, `WatchersCatchUp`, `CloseStopsTheLoop`, `CloseEndsReader`,
`EndIsNoticed`, `HandlerIsNeverStuck`, `SignalEndsServer`), for TLAPS does not
reach liveness under fairness; and the counterexamples.

## 6. Not modelled, and why

- AES-GCM and the derivation of its key are libraries. A value opens with its own
  key and no other.
- Character sets of names and keys, JSON, status codes, CORS, logging, metrics:
  layout, no state. `KeyLike` stands for `looksLikeKeyName`.
- Handlers that read one thing and answer it: namespaces, roles, the list of
  tokens, health, and the metrics with their count of watchers (`ActiveWatchers`).
  `GetNextVersion` and `GetWatcher` have no caller in the server.
- Access of writers: `WritePath` lets every caller try everything, which only
  adds behaviours. HasAccess for reading is in `ReadPath`.
- The order of values in events: an event is about a location. Two sets of one
  key may be announced in the opposite order of their versions; a watcher
  that reads again on an event is right in the end, one that trusts the value in
  the event may not be.
- What an audit record says of the operation: `AuditLog` has the record and
  `WritePath` only the step, for nothing reads it back into the system.
- Retries: neither client repeats a request by itself. A reader in `AuditLog`
  and a poller in `CachedClient` may start over.
- bbolt's own crash safety and page format, beyond the cursor behaviour and the
  file lock. A transaction commits or not.
- Two streams of one client, and a long poll as a connection: the first share
  nothing, the second is a stream of one event.
- The web UI beyond its walk over the audit pages: display state. That two
  fetches of pages may be answered out of order (`app.js:943`) is the browser's.

## 7. What is left

- Several callbacks of the cached client and their order, two application
  goroutines; an abstract cache ("a listing of some time, never older than the
  last") that `CachedClient` implements while reloads come one at a time.
- HasAccess against a reference definition over all small scopes and namespaces.
- `WatchManager` as the server side of `StreamClient` in one specification, with a
  refinement in place of the two descriptions of the handler.
- Proofs of the refinements above.
