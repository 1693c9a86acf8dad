# A verification project for seckill.pkg

`seckill.pkg` is a toolbox of Go packages behind a flash-sale service. This
directory models the parts of it whose behaviour is hard to test, checks them
with TLC on small instances and proves the most important results with TLAPS
for every instance. It starts with the package in which several processes meet:
the distributed delayed-job scheduler, `pkg/elastic_job`.

## 1. Inventory

| Component | State | Operations | Interacts with | Hard behaviour |
|---|---|---|---|---|
| Scheduler, `pkg/elastic_job/cron.go` | handlers by tag, context; one `err` per event | `New`, `run` (loop and one goroutine per event), `AddJob`, `RegisterHandler`, `Close` | storage (calls, watch channel), handlers (callbacks) | every node is told of every expiry and one is to run it; the shared `err`; re-adding cyclic jobs; sleep before unlocking |
| etcd storage, `storage/etcd.go`: locks and jobs | `lockMap`, one etcd session, etcd's keys and leases | `Save`, `TryLock`, `UnLock`, `Close` | scheduler goroutines, etcd | unsynchronised `lockMap`, a lock that is re-entrant per session, lost replies, session loss, whole-second leases |
| etcd storage: watch | `reversion`, the key `MultiCron/KeyForWatchReversion` shared by all nodes | `run`, `Watch`, `Close` | etcd, the scheduler's loop | crash between hand-over and saving, writers of one key, compaction, sending on a closed channel |
| Redis storage, `storage/redis.go` | `lockMap`, pub/sub, watch channel | as etcd | Redis | no replay, values that expire, ignored errors, 60 s locks |
| Global job, `global.go` | a `sync.Once`, one instance | `InitGlobalJob`, `Get` | scheduler | a failed initialisation is final |
| Login, `pkg/login` | entries in the cache | generate, cancel, refresh, check | `cache`, `pkg/token` | read-delete-write without atomicity; entries per user |
| Token, `pkg/token` | secret | sign, parse | login, `core/middleware` | time window |
| Decision tree, `pkg/branch_tree` | nodes by id, children of the virtual root | `AddNode`, `Decision`, `PrintTree` | user callbacks | nodes in any order, a queue edited while it is walked |
| HTTP core, `core` | gin context values, context pool | middlewares, `Payload`, `AbortWithError`, `WrapAuthHandler` | `pkg/response`, telemetry | order of middlewares, panics, answers written twice |
| Paging, `pkg/page` | a request | `Offset`, `Sort`, parsing | - | boundary values, white list |
| AES wrapper, `pkg/encrypt/aes.go` | key, iv, `setIv`, mode | `Encrypt`, `Decrypt` | library ciphers | an iv that stays in the object |
| RSA, `pkg/encrypt/rsa.go` | a key | encrypt and decrypt in chunks | library | two ways to cut what was put together one way |
| gorm plug-in, `db/otel_plugin.go` | the Context in each Statement, spans | hooks before and after a statement | gorm, tracing | operations inside operations, panics, Statements used again |
| Shutdown hook, `pkg/shutdown` | a channel of one signal | `NewHook`, `Close` | the process's signals | signals that come too early or twice |
| Logger, `pkg/logger` | the writers | options, one entry | - | which writer takes which level |
| The rest (`cache`, `db/mysql.go`, `jaeger`, `metrics`, `time_parse`, `util`, `mysqlerr_helper`, hashes, encodings, `cert`) | configuration | one library call each | - | none that a model checker reaches |

What makes them correct: a job is run by one node and not before its second
(scheduler); a lock is held by one node and is always given up (lock); what
expires is announced, also across restarts (watch); a value can still be read when
its key has expired (redis); a cancelled credential stays cancelled and a refreshed
one works (login); each node of a tree is found under its parent and a decision
visits what its doc comment says (tree); a request is answered, recorded as it was
answered, and shares its Context with nobody (core); what was encrypted can be
read (AES, RSA); every span is ended by the operation that began it (plug-in).
`PROJECT.json` lists the hazards at their lines, with the properties that
watch over them.

## 2. Modules

| Module | Models | Runs on it |
|---|---|---|
| `ElasticJob` | `cron.go` composed with `Save`, `TryLock`, `UnLock` and `Close` of `etcd.go` | through `MCElasticJob` |
| `EtcdStorage` | `run`, `Watch` and the rest of `Close` of `etcd.go` | through `MCEtcdStorage` |
| `Checkpoint` | what the saved revision is for, without nodes or etcd: the abstract specification `EtcdStorage` implements | property `KeepsPromise` of `watch` |
| `RedisStorage` | `redis.go` under the scheduler's loop | through `MCRedisStorage` |
| `Request` | `core/`: router chain, Context, middlewares, telemetry, recover | through `MCRequest` |
| `Token` | `pkg/token` and the Jwt middleware, as operators | used by `Login` |
| `Login` | `pkg/login` over the cache | through `MCPackages` |
| `DecisionTree` | `pkg/branch_tree` | through `MCPackages`, `MCDecisionTree` |
| `Aes`, `Rsa` | `pkg/encrypt` | through `MCPackages` |
| `OtelPlugin` | `db/otel_plugin.go` | through `MCPackages` |
| `Lifecycle` | `elastic_job/global.go`, `pkg/shutdown` | through `MCPackages` |
| `Page`, `Logger` | pure operators of `pkg/page`, `pkg/logger` | through `MCPackages` |
| `Lists` | the filtering of slices that `DecisionTree` and `Page` share | through both |
| `DecisionTreeProofs`, `PackagesProofs` | theorems about `MCPackages`: those about the tree; those about everything else in it | `tlapm` |
| the other `*Proofs` | theorems about the module they extend | `tlapm` |

`ElasticJob` and `EtcdStorage` meet at the watch channel. `ElasticJob` takes for
granted that an expiry reaches every node that has its storage open, in order, and
asks what the nodes do with it; `EtcdStorage` asks when that holds. Each is checked
under the failures of the other's world too: nodes crash and close in both.
`MCPackages` puts the packages that stand alone into one run: a behaviour belongs
to one of them, chosen in `Init`, and the others stay in one initial state.
Definitions that begin with "Mutant of" are never used by a specification: each is
a plausible mistake in the definition it names, kept to show that a property
would notice it.

### ElasticJob

One `Node` is a process with one `elasticJob` and one etcd session. A *firing*
`f` is one expiry of a key: `Fire(k)` is etcd's part (the lease has run out, the
key goes, every open node has the event queued). From there on the state
follows the code, one action for each piece that no other goroutine or node can
interrupt:

| Action | Code |
|---|---|
| `Dispatch` | `cron.go:131-153`, event taken, handler looked up, goroutine started |
| `CycleAdd` | `cron.go:195-206`, in the loop, concurrent with the goroutine just started |
| `CheckMap`, `Acquire`, `Withdraw`, `StoreMutex` | `TryLock`: look into `lockMap`; the mutex's transaction; deletion of the key a refusal left; entry into `lockMap` |
| `ReadErr` | `cron.go:156`, where `err` is read back |
| `HandlerReturns` | the handler ends and the 3 s sleep starts |
| `UnLock`, `ReleaseKey` | `UnLock`: `lockMap`, then etcd |
| `Cancel`, `StoreClose` | the two halves of `Close` |
| `Save` (in `AddJob` and `CycleAdd`) | `etcd.go:127-144` |
| `Crash`, `SessionExpire` | the end of a process, of a session's lease |

`err` is a variable of one loop iteration, shared by the loop and its goroutine
(`cron.go:136`, 155, 198), so the model has one per node and firing. Time is a
set of countdown timers moved together by `Tick`. The etcd mutex's key is
`prefix/lease`: a session has one key per lock name whichever goroutine put it
there, so `owner[h]` and `waiting[h]` are about nodes, not goroutines, and the
lock is re-entrant. When the owner's key goes, the model lets any waiting session
inherit (etcd: the oldest); that includes what etcd does.

Abstractions. Keys, values and digests are members of small sets; a digest
collision is two jobs with the same `HashOf`. A value that does not decode gives
the zero job, whose tag is empty; no handler is registered for the empty tag, so
that is a job without handler. Concurrent access to `lockMap` that Go detects
ends the process, which is `Crash`. Logging and metrics are left out. Nodes that
crash stay down here; restarts are the subject of `EtcdStorage`.

### EtcdStorage

Revisions count deletions only, since no other write is watched. The places of
`run()` are `get`, `create`, `watch`, then round the loop `persist`, `wait`,
`deliver`, `note`. A batch is `next..last`, its header's revision `last`, which
`Note` assigns to `reversion` after *each* event, the first included. A send on
`watchC` and the assignment after it are two steps, since `Close` runs in another
goroutine and reads the field. `LoseWatch` and the second half of `StartWatch`
are etcd's refusal to replay what it has compacted. Compaction is between two
deletions or not, which the model leaves open by a choice when the saved
revision is exactly the last one discarded. The sets `delivered`, `skipped`,
`cut` and `unheard` are history: nothing reads them.

`Promise` maps this to `Checkpoint`: the produced items are the deletions, the
done ones are `Settled` (told to a receiver, skipped or cut), the mark is the saved
revision. The abstract specification lets the mark move to and fro and vanish, as
it does when several nodes write one key under a lease; what it forbids is a
mark beyond something not dealt with.

### RedisStorage

One job key, saved up to `MaxSaves` times. Redis's part is `Tick`, `Expire`,
`ExpireValue` and `ExpireLock`; an expiry is published to any subset of the open
nodes, which is what pub/sub promises. `SaveKey` and `SaveValue` are the two
requests of `Save`, of either of which nothing may come. `Receive`, `Get` and `Take`
are the steps of `run()`: between the event and the question for the value the key
may be saved again. A lock is a lease (`Obtain`, `ExpireLock`); `Obtain`'s reply may
be lost, `Release` may fail, `UnLock` takes what is in `lockMap` by then, and `Close`
releases what is there while handlers run. `RunEnds` is the closed pub/sub channel;
`Abandon` the send to a scheduler that has left its loop.

### Request

`req[r]` is what gin and the middlewares know of one request: the chain's index,
the stack of handlers waiting in `Next()`, what was written, span and metrics. gin's
loops share the index, so that after a panic the loop *outside* the recovered
middleware goes on behind the handler that panicked: `Recover` aborts nothing.
`NewContext` and `ReleaseContext` are the pool of `context.go`; each middleware that
wraps a handler takes a Context of its own and gives it back by a deferred call.
The limiter's rate is library code and appears as `Refill`.

### Login and Token

`RefreshToken` is three requests (`RefreshGet`, `RefreshDel`, `RefreshSet`), between
which other calls of the same user run. Every request may fail, and a failed one may
have taken effect. Times inside a token are whole seconds, those of the cache are
not: `Second` ticks make one. A token's `form` says how much of it can be read. When
only the part with the claims is broken, `JwtParse` refuses the token, while
`JwtParseUnsafe` hands out the claims as far as it got, without an error. `CheckBlackList` answers whether the token is listed and whether there was
an error; an error comes with false. A service accepts (`Accepted`) what passes `Jwt`
and is not listed without an error: one that overlooks the error is not modelled.

### DecisionTree

`parent` is who names whom in `ChildrenList`, given before anything is added; the
nodes are then added in any order, several times if one likes. A rule answers
anything. `Enter`, `Skip`, `Do` and `NilFront` are one round of the loop of
`levelOrderTree`; `EarlyExit` is the queue it edits, with the elements it takes from
the front while the index stands in the middle of a level.

### Aes, Rsa, OtelPlugin, Lifecycle, Page, Logger

`Aes` follows the settings of the objects over any sequence of calls; a text knows
how it was made, and reading it in another way gives `Garble`. `Rsa` cuts and joins
sequences of bytes as `split` does. `OtelPlugin` has the stack of operations under
way, each with the Context of its Statement. An operation may begin inside another
before and after the plug-in's first hook, which is registered next to `gorm:create`
and so behind gorm's BeforeCreate hooks and the saving of a belongs-to, and with any
Context the request has had: that of the operation around it, a new one, or one that
a finished sibling has left in its Statement. A panic leaves any number of operations.
`Lifecycle` is the `sync.Once` of the global job and the shutdown hook. `Page` and
`Logger` are operators evaluated on bounded inputs.

## 3. Runs

Constants are at their smallest value at which the case in question happens.

| Run | Instance | Shows |
|---|---|---|
| `lock_safety` | 2 nodes, 1 job, 2 firings, both nodes may fail, requests may be lost | `TypeOK`, `Exclusion`, `AtMostOnce` |
| `cycle_beside_plain` | 2 nodes, a cyclic and a plain job, 2 firings, 2 ticks to a second, a delay of 1.5 s | `NotEarly`, `Exclusion`, `AtMostOnce` with a cyclic job beside the plain one |
| `lock_live` | 2 nodes, 1 job, 2 firings, no failures | `LockReleased`, `FiringRuns` |
| `watch` | 2 nodes, 2 expiries, 1 restart, 1 stop, lossy requests, compaction | `TypeOK`, `Covered`, `NonePassedOver`, the refinement `KeepsPromise`, `Announced`, `Resumed` |
| `redis` | 2 nodes, 2 saves, delays of half a second and one, lease 1, one node may be closed | `TypeOK`, `Exclusion`, `EarlyNeedsTwoSaves`, `ValueOutlives`, `RunReturns` |
| `request` | a request to the API and a health check, 1 token, handlers that answer twice or panic | `TypeOK`, `OwnContext`, `UserKnown`, `Accounted`, `Served` |
| `packages` | Login: 3 calls, 6 ticks; DecisionTree: all forests of 4 nodes; Aes: 2 objects, 2 texts; OtelPlugin: 3 spans, depth 3; Lifecycle: 2 callers, 2 functions, 2 signals; `Page`: names of 4 characters; `Rsa`: 86 to 104 bits, 4 bytes; `Logger`: 3 options | the properties listed in `MCPackages` |
| `late_event`, `shared_session`, `err_race`, `missed`, `siblings` | smallest instance | the findings of section 5 |

Why the bounds are enough. Two nodes are the two sides of every race for a lock;
a third adds waiting sessions but no new kind of step, and the theorems hold for
any number. Two firings let one expiry be finished, or half finished, when the
next one of the same lock comes, which is where left-over keys and re-entrancy
matter. `HoldTime = 2` and `MaxLag = 1` are the smallest values with
`MaxLag < HoldTime` in which time passes in both. Two expiries make a batch that
can be cut in the middle; one stop and one restart make the gap in which nobody
listens, or in which the other node goes on. `MaxFaulty = 2` allows every node to
fail. Two saves of a redis key are an old value and a new one; a delay below a
second and one above take both branches of `Life`. A request and a health check
compete for one token and for the pool; fifteen Context objects are one more than
`MemoryAssumption` asks for two requests, so that `newContext` never runs out. Three calls of a user are a refresh, one that overtakes it and one
that looks at the result; six ticks outlast every entry. Four nodes make a forest
with a grandchild beside an uncle, which is where the walk's positions go wrong.
Keys of about 100 bits give chunks of one or two bytes, the parity of which is what
matters. The bounds of the pure functions (`Chars`, `Sorts`, `Allowed`, `PageNumbers`,
`KeyBits`, `Bytes`, `MaxBytes`, `MaxOptions`) are constants of `MCPackages` with values in
`Packages.cfg`, so that the theorems speak of all of them. Symmetry is used in safety runs only.

`LockReleased` with failures (crashes, lost sessions) holds on one firing, but takes
longer than a run should; `lock_live` has none.

*Deadlock* is checked in `ElasticJob`, where `Tick` keeps going. In the other runs it
is off: each of them really stops, when every node is closed and no restart is left,
when the requests are answered, or when a tree has been used.

*Fairness.* `ElasticJob`: weak fairness of `Tick`, of each node's loop and of each
goroutine (the Go scheduler runs runnable goroutines; handlers are assumed to
return, which the lock cannot do without), of a `Close` that was begun, and of
the end of the session of a process that no longer renews it (etcd revokes
expired leases). No fairness of clients, expiries or failures. `EtcdStorage`:
weak fairness of each node's `run()`, which includes that the scheduler's loop
comes back to the channel, and of a `Close` that was begun. `RedisStorage`: of
`run()` with the loop that takes what it hands over. `Request`: of each
request's goroutine, so handlers return or panic. `Lifecycle`: of the callers and
of the `Close` of the hook, not of signals. `DecisionTree`: of a call under way.

## 4. Properties and proofs

`Exclusion`, `AtMostOnce` are about nodes that are `Sound` (up, with their
session) and locks that are `Guarded`: not used by a cyclic job and never by two
goroutines of one node at once. Both exceptions are what the findings
`err_race` and `shared_session` are about, and are stated so that everything
else is covered. `AtMostOnce` needs `MaxLag < HoldTime`: a node learns of an
expiry, and asks for the lock, before the winner's sleep is over. `cron.go:184`
gives exactly this as the reason for the sleep. The model makes it a promise of
the network in the guard of `Tick`; the promise is dropped in run `late_event`
(`MaxLag = HoldTime`), which shows what it is worth.

`FiringRuns` excuses a firing that shares its lock with another one under way
(`Contended`), also through the keys that nodes refused by the earlier one have
not yet deleted: such a *ghost* can inherit the lock and have the next firing
refused on every node. `LockReleased` leaves cyclic locks out, as `err_race` shows.

`Covered` says what a revision saved by any node, after any crash, stands for.
It names the two ways an expiry is lost although the code works as written:
`skipped`, a watch without a revision to start from, and `cut`, a `Close` in the
middle of a batch. `Resumed` is the promise of replay where it holds.

The redis `Exclusion` holds until a lease ends under a goroutine of an open node
(`overran`): nothing renews a lock. `EarlyNeedsTwoSaves` is as much as can be said
of the value asked for after the event: with two saves of a key, the expiry of the
first announces the value of the second. `ValueOutlives` is why `Save` gives the
value twice the delay.

`UserKnown` has one exception, an auth handler that panicked, since recovery does
not abort the chain. `Accounted` names what telemetry leaves out: 404, answers not
given through `Payload` or `AbortWithError`, and requests that panicked below it.
`CancelSticks` allows the refreshes that had read the entry before the cancellation;
`LoginLasts` the moment between the Del and the Set of another refresh;
`RefusedToTheEnd` the last second of a token, because the entry ends at a tick and
the token with its second.

`NonePassedOver` is the other half of `Covered`: not what is saved, but what a running
watch, wherever it started, will never hear of again. `SpansNest` says which spans are
open, and that none ends over one that was begun below it while it was open. It does
not say that what an operation's hooks begin lies below its span, nor that the span
above is open when one begins: section 5 says why. `WrittenOnce` says of each entry
which writer it goes to, and for which options writing it panics instead.

Some hazards that `PROJECT.json` lists have no property, or only one that stops short
of the harm they describe, because the harm is what the code does: what the lock is
worth to a node that is closing or has lost its session, an expiry whose lock another
job's run holds under the same digest, the rest of a batch after `Close`, a watch that was
cancelled, a `run()` that takes a failed Get for an absent key, cyclic jobs that end with
their first run. The note of each says so; the models contain these steps.

Proved, for every value of the constants that satisfies the `ASSUME`s:

| Theorem | Statement | Argument |
|---|---|---|
| `TypeCorrect` | `Spec => []TypeOK` | inductive as it stands |
| `MutualExclusion` | `Spec => []Exclusion` | `LockInv`: a goroutine between `acquired` and `holding` of a sound node and a guarded lock has its node as owner; `UnLock` by one goroutine cannot take another's lock because `clash` records every overlap (`ClashRecorded`), and `err = nil` is read only by who was given the lock (`Bookkeeping`, `Holds`) |
| `RunAtMostOnce` | `Spec => []AtMostOnce`, if `MaxLag < HoldTime` | `OnceInv`: the winner of a firing still holds the lock as long as somebody may ask for it (`Winner`, `WinnerWaits`), since lag runs out before the winner's timer (`LagBounded`); hence a second winner is impossible (`OneWinner`) |
| `AnnouncedInTime` | `Spec => []NotEarly` | truncation costs less than `Second` and both timers move together |
| `WatchTypeCorrect` | `Spec => []TypeOK` in `EtcdStorage` | with `SavedInv`: a batch ends at or before the last deletion |
| `SavedIsCovered` | `Spec => []Covered` | `SavedInv`: everything before `next[n]` is settled, and `reversion[n]` is ahead of `next[n]` inside a batch only (`Owes`) |
| `ImplementsCheckpoint` | `Spec => KeepsPromise`, the refinement | every step but `Expire` leaves `rev` alone and settles deletions up to it (`Settles`, with `LastSeen`: a batch ends at most at `rev`); with `SavedInv` after the step it is a `Move` of `Checkpoint` |
| `NothingIsPassedOver` | `Spec => []NonePassedOver` | from `SavedInv`: a node that watches stands at or before the first deletion nobody dealt with, or in the middle of a batch it will hand over |
| `RedisTypeCorrect` | `Spec => []TypeOK` in `RedisStorage` | `TypeInv`: saves begin in order and each expiry uses one up (`Counted`); whatever a node was told of has happened (`Heard`) |
| `RedisExcludes` | `Spec => []Exclusion` | `Holds`: a goroutine that was answered or runs owns the lock; what `UnLock` and `Close` release is looked up in `lockMap`, and would be another's only if this one did not own it |
| `RedisNotEarly` | `Spec => []EarlyNeedsTwoSaves` | `OnTime`: `Life` cuts off less than a second (`LifeBound`), and the timers of the delay and of the key move together |
| `RedisValueOutlives` | `Spec => []ValueOutlives` | `Kept`, over the time between the two requests, and `TwiceLife`: whole seconds of twice a delay are at least twice its whole seconds |
| `CancellationSticks`, `LoginIsKept` | `Spec => []CancelSticks`, `Spec => []LoginLasts` | `RefreshInv`: whoever is between Get and Set after a cancellation is in `overlap` (`Cancelled`); a promise is covered by the entry or by a refresh that will write it (`Promised`) |
| `CancelledIsRefused` | `Spec => []RefusedToTheEnd` | `Listed`: the entry lasts for `ExpireDuration` from every cancellation; `SameSecond` on the division into seconds |
| `TypesKept` of `LoginProofs` | `Spec => []TypeOK` in `Login` | from `RefreshInv` and `BlackInv`; the calls count up to `MaxCalls` (`Bounded`) |

Of a request, in `RequestProofs`:

| Theorem | Statement | Argument |
|---|---|---|
| `TypesKept` | `Spec => []TypeOK` | of each request that it is `Sound`: its frames lie as its chain has them (`Shape`), it panics and recovers as the flags say (`Panics`) |
| `EachItsOwnContext` | `Spec => []OwnContext` | `Owned`: a frame's object is held by its request and by no other frame, and what is held is in a frame; the objects in hand are counted (at most seven to a request), so by `MemoryAssumption` `newContext` finds a free one. `Notified`: a recovered request was the one notified |
| `UserIsKnown` | `Spec => []UserKnown` | `Known`, over the position in the chain: behind the auth handler the user is set or the request has panicked |
| `EveryRequestAccounted` | `Spec => []Accounted` | `Answered`, `Spanned` and `Written`: what is in the span and the metrics at each place of the chain |

Of the packages that stand alone, each theorem as `FairSpec => []...` of `MCPackages`.
`InitParts` and `StepParts` say that a behaviour of the composition is one of each
part; what holds of a part carries over.

| Theorem | Property | Argument |
|---|---|---|
| `RootsAreRight` | `RootsAreParentless` | `TreeInv`: `Forest` (a node's parent has a smaller number), `RootsRight`: the root's list is the added nodes whose parent is not added, each once. `Among` and the search of `Below` are recursive functions; that they exist, and what they compute, is shown by the least argument for which it would fail (`Least`, `KeepsExists`, `SearchesExists`) |
| `DecisionStaysBelow` | `OnlyBelowEntered` | `Walked`: what is queued was given by a node that said yes and was not looked at, whatever the early exit cuts off |
| `LevelsArePrinted` | `PrintsTheLevels` | `PrintInv`: the lists written down are the levels (`LevelsRight`); in the middle of one the queue holds the rest of it and behind that the children of those that have been (`MidLevel`); or a node nobody added is at the front (`Stuck`). An empty level has nothing below it (`NoDeeper`) |
| `EverySpanNests` | `SpansNest` | `OtelInv`: the operations around the innermost one wait in a hook of the user's (`OuterWaits`); a begun span is its operation's alone (`OwnSpan`); one begun below an open span is below an operation further out, or one lost to a panic (`Nested`); an open span that belongs to nobody under way was lost (`OpenKnown`) |
| `TextsAreReadBack` | `ReadsBack` | `AesInv`: an object that has not chained and was not given an iv has none (`Unused`); a text carries its iv in front exactly if it was chained without a given one (`Described`) |
| `OneGlobalJob` | `OneInstance` | `JobInv`: one caller inside while the Once runs, and one error once it is spent without an instance |
| `CancellationIsKept`, `LoginIsWorthIt`, `CancelledStaysRefused` | `CancelSticks`, `LoginLasts`, `RefusedToTheEnd` | the theorems of `LoginProofs`, through an instance |
| `SortsAreAllowed` | `SortAllowed` | where `TrimSpace`, `Without` and `EndsIn` leave a name that is `Named`; `Among` keeps exactly the elements asked for (`AmongIs`), and of a name with a suffix all but the suffix (`KeptButLast`) |
| `PagesAreTiles` | `PagesTile` | arithmetic of `Offset` over all integers |
| `ChunksAlwaysMeet` | `ChunksMeet` | `JoinOfSplit`, `SplitOfJoin`: cutting a sequence and joining it again gives it back, for pieces of one length but the last; an encrypted chunk has the bytes of the key rounded up, decryption cuts by the bytes rounded down, which is the same exactly if the bits are a whole number of bytes |
| `EntriesAreWrittenOnce` | `WrittenOnce` | the priorities of the two cores exclude each other; options are applied one by one (`AppliedIs`), and `nil` is left where the writer was exactly if none of them is a file option (`NothingBehind`, `IsFile`) |
| `TypesKept` | `TypeOK` | from the invariants above; the hook by `StopType` |

The modules of `MCPackages` state what they ask of their constants as `ConstantsOK`;
`PackagesAssumption` collects these. The theorems of `LoginProofs` assume the one of
`Login`. Hardly a property is inductive by itself. `Covered` is not because a node
writes its own `reversion`, whose meaning depends on where its `run()` is, which
`Owes` spells out; `OwnContext` says nothing of the objects in the pool, one of which
the next handler takes; `PrintsTheLevels` speaks of the end of a call and needs to know
its middle. The invariants were first given to TLC.

Model-checked only: the liveness properties (`LockReleased`, `FiringRuns`,
`Announced`, `Resumed`, `RunReturns`, `Served`, `ClosesDown`, `CallsEnd`), which are
out of the prover's reach. Every safety property of a passing run has a theorem.
The five runs that end in a violation have none, of course; where a theorem leaves
out what they show, section 4 names the exception.

## 5. Findings

Each is a run that ends in a counterexample to what the repository says.

| Run | What happens | What the repository says |
|---|---|---|
| `late_event` | a node told after the winner's sleep runs the job again | `elastic_job/README.md:9`, one node runs a job |
| `shared_session` | two goroutines of one node both get the lock | `cron.go:20`, one callback only |
| `err_race` | the failed re-adding of a cyclic job makes the lock's owner leave without unlocking | `cron.go:184-186`, held, then released |
| `missed` | an expiry after the first one is lost over a restart | `etcd_test.go:142-172`, it is read |
| `siblings` | after a rule said yes the last sibling of the node is still decided | `branch_tree/node.go:11`, siblings are not looked at |

What the models show besides, and no run states:

- A cyclic job is added again with its old `DelayTime`.  A key that lived until
  then, as it does after a delay of whole seconds, finds it passed, `AddJob` refuses
  (`cron.go:216-218`), and the job ends with its first run.
- After a recovered panic gin goes on with the handlers behind the one that
  panicked, without telemetry.
- `BlackListSystem.RefreshToken` does not invalidate the token it is given.
- A failed `Grant` in `run()` leaves a node without a watch, silently.
- `PrintTree` without a root, or with a child nobody added, does not end;
  `Decision` without a root dereferences nil.
- A GoAES object keeps the iv it drew or read, and takes the head of the next
  chained text for text.
- RSA keys whose size is not a whole number of bytes encrypt but do not decrypt.
- A sort field with `-` in its name cannot be sorted in descending order.
- `WithDisableConsole` without a file option gives a logger whose first entry panics
  (`logger.go:190` wraps a nil writer), although `logger.go:175` says that it is one of
  the two, console or file.
- The span of an operation stays in its Statement's Context after it has ended
  (`otel_plugin.go:108`): the next operation on that Statement, in a chain of calls, is
  traced below its ended sibling.
- What gorm does before `gorm:create` (BeforeCreate hooks, the saving of a belongs-to)
  runs ahead of the hook registered at `otel_plugin.go:76`; its spans lie beside the
  operation's span, not below it.

## 6. How the project was laid out

The order was: the scheduler with its locks, then the watch that feeds it; the second
storage under the same interface; the packages whose operations interleave (`Login`,
`Request`); those with long sequences of calls (`DecisionTree`, `Aes`, `OtelPlugin`,
`Lifecycle`); pure functions last. Proofs follow the same order, safety invariants
of the concurrent modules first.

What could come next: nodes that restart in `ElasticJob`, so that it is composed with
`EtcdStorage`; handlers that never return, and what they block; values and the nil
`PrevKv` in `EtcdStorage`; a refinement of a lock by `ElasticJob` and `RedisStorage`,
which now state the same exclusion each for itself.

## 7. Not modelled

Configuration, pure I/O and one-line wrappers of library calls: opening of databases
and caches, `jaeger`, `metrics`, time parsing, `util`, error numbers of MySQL, hashes
and codecs, key files and signatures of RSA, `UrlSign`, binding and redirects of
`context.go`, the pprof, swagger, metrics and CORS routes, log formats and rotation,
the certificate generator. They keep no state of this repository that another part
reads back. In the components that are modelled: the panic on a nil `PrevKv`
(`etcd.go:106`), which needs the previous value compacted between deletion and
delivery, and values in `EtcdStorage` in general; the bytes of keys and texts in
`Aes`; the rates of the limiters.
