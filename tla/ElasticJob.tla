----------------------------- MODULE ElasticJob -----------------------------
(***************************************************************************)
(* The delayed-job scheduler of pkg/elastic_job on its etcd back end: jobs *)
(* are keys with a lease; when the lease runs out every node is told, and  *)
(* the nodes race for a distributed lock so that one of them runs the      *)
(* handler.  The module models cron.go (New, run, AddJob, RegisterHandler, *)
(* Close) together with Save, TryLock, UnLock and Close of                 *)
(* storage/etcd.go.  How storage/etcd.go turns watch events into           *)
(* notifications, and what a restart replays, is module EtcdStorage.       *)
(*                                                                         *)
(* Time is a set of countdown timers that Tick decrements together, so a   *)
(* behaviour may run forever over finitely many states.                    *)
(***************************************************************************)
EXTENDS Integers, FiniteSets

CONSTANTS
    Node,        \* processes, each with one elasticJob and one etcd session
    Key,         \* storage keys
    Job,         \* decoded job values
    Tag,         \* handler tags
    Hash,        \* lock names: MD5(Key+Tag)
    KeyOf,       \* the Key of a job
    TagOf,       \* the Tag of a job
    HashOf,      \* the lock name of a job; two jobs may collide, see cron.go:154
    Cyclic,      \* the jobs with Cycle set
    Gone,        \* the value of a key that is absent
    Free,        \* the owner of a lock nobody holds
    Delays,      \* the delays clients ask for, in ticks
    Second,      \* ticks in a second, the granularity of an etcd lease
    MinLease,    \* the shortest lease etcd grants, in ticks
    HoldTime,    \* the sleep before UnLock, in ticks
    MaxLag,      \* ticks between an expiry and the last live node's TryLock
    MaxFirings,  \* bound: how many expiries a behaviour has
    MaxFaulty,   \* bound: how many nodes close, crash or lose their session
    LossyRPC     \* may an etcd request fail, before or after it took effect?

ASSUME JobAssumption ==
    /\ Job # {}
    /\ KeyOf \in [Job -> Key]
    /\ TagOf \in [Job -> Tag]
    /\ HashOf \in [Job -> Hash]
    /\ Cyclic \subseteq Job
    /\ Gone \notin Job
ASSUME FreeAssumption == Free \notin Node
ASSUME TimeAssumption ==
    /\ Delays \subseteq Nat \ {0}
    /\ Second \in Nat \ {0}
    /\ MinLease \in Nat \ {0}
    /\ HoldTime \in Nat
    /\ MaxLag \in Nat
ASSUME BoundAssumption == MaxFirings \in Nat /\ MaxFaulty \in Nat
ASSUME LossyAssumption == LossyRPC \in BOOLEAN

Firing == 1..MaxFirings

VARIABLES
    stored,    \* key -> the job saved under it, or Gone
    lease,     \* key -> ticks left of its lease
    remain,    \* key -> ticks left to the DelayTime of the job saved under it
    fired,     \* how many keys have expired so far
    src,       \* firing -> the job whose key expired
    lag,       \* firing -> ticks live nodes still have to reach the lock
    until,     \* firing -> ticks left to the DelayTime of its job
    status,    \* node -> its life cycle
    session,   \* node -> is its etcd session alive?
    handlers,  \* node -> tags with a registered handler
    adding,    \* node -> the cyclic firing run() is re-adding, or 0
    phase,     \* node, firing -> where its goroutine is
    err,       \* node, firing -> the variable err of that iteration
    timer,     \* node, firing -> ticks left of the sleep before UnLock
    lockMap,   \* node -> lock names in etcdStorage.lockMap
    owner,     \* lock name -> the session holding it, or Free
    waiting,   \* lock name -> sessions with a key queued behind the owner
    ran,       \* history: firing -> nodes that ran its handler
    clash      \* history: lock names two goroutines of one node used at once

timeVars  == <<lease, remain, lag, until, timer>>
storeVars == <<stored, lease, remain>>
eventVars == <<fired, src, lag, until>>
nodeVars  == <<status, session, handlers>>
goVars    == <<phase, err, timer>>
lockVars  == <<lockMap, owner, waiting>>
history   == <<ran, clash>>
vars == <<storeVars, eventVars, nodeVars, adding, goVars, lockVars, history>>

Statuses == {"up", "closing", "closed", "down"}
Phases == {"none", "queued", "start", "trying", "acquired", "refused",
           "tried", "running", "holding", "unlocking", "ended"}
Errors == {"nil", "locked", "failed"}

\* The goroutine of cron.go:153 exists.
Live == Phases \ {"none", "queued", "ended"}
\* The node has not yet been answered by the lock service.
Pending == {"queued", "start", "trying"}
\* The handler has been entered and the lock not yet given up.
Inside == {"running", "holding"}

HashAt(f) == HashOf[src[f]]

\* Close of the storage closes the etcd client (etcd.go:202); a crash ends it.
ClientOpen(n) == status[n] \in {"up", "closing"}

\* The lock service also needs the session made once in NewEtcdStorage.
Usable(n) == ClientOpen(n) /\ session[n]

\* A node for which no reader of the code would expect anything to go wrong.
Sound(n) == status[n] = "up" /\ session[n]

\* No cyclic job uses the lock.
Plain(h) == \A j \in Cyclic : HashOf[j] # h

TypeOK ==
    /\ stored \in [Key -> Job \cup {Gone}]
    /\ lease \in [Key -> Nat]
    /\ remain \in [Key -> Nat]
    /\ fired \in 0..MaxFirings
    /\ src \in [Firing -> Job]
    /\ lag \in [Firing -> Nat]
    /\ until \in [Firing -> Nat]
    /\ status \in [Node -> Statuses]
    /\ session \in [Node -> BOOLEAN]
    /\ handlers \in [Node -> SUBSET Tag]
    /\ adding \in [Node -> Firing \cup {0}]
    /\ phase \in [Node -> [Firing -> Phases]]
    /\ err \in [Node -> [Firing -> Errors]]
    /\ timer \in [Node -> [Firing -> Nat]]
    /\ lockMap \in [Node -> SUBSET Hash]
    /\ owner \in [Hash -> Node \cup {Free}]
    /\ waiting \in [Hash -> SUBSET Node]
    /\ ran \in [Firing -> SUBSET Node]
    /\ clash \in SUBSET Hash

\* New has returned on every node; no handler can be registered before that.
Init ==
    /\ stored = [k \in Key |-> Gone]
    /\ lease = [k \in Key |-> 0]
    /\ remain = [k \in Key |-> 0]
    /\ fired = 0
    /\ src = [f \in Firing |-> CHOOSE j \in Job : TRUE]
    /\ lag = [f \in Firing |-> 0]
    /\ until = [f \in Firing |-> 0]
    /\ status = [n \in Node |-> "up"]
    /\ session = [n \in Node |-> TRUE]
    /\ handlers = [n \in Node |-> {}]
    /\ adding = [n \in Node |-> 0]
    /\ phase = [n \in Node |-> [f \in Firing |-> "none"]]
    /\ err = [n \in Node |-> [f \in Firing |-> "nil"]]
    /\ timer = [n \in Node |-> [f \in Firing |-> 0]]
    /\ lockMap = [n \in Node |-> {}]
    /\ owner = [h \in Hash |-> Free]
    /\ waiting = [h \in Hash |-> {}]
    /\ ran = [f \in Firing |-> {}]
    /\ clash = {}

-----------------------------------------------------------------------------
(* Saving a job.                                                           *)

\* Save truncates the delay to whole seconds before asking for a lease.
Granted(d) ==
    LET whole == Second * (d \div Second)
    IN IF whole < MinLease THEN MinLease ELSE whole

\* Mutant of Save: the new value keeps the lease the key had.
SaveKeepsLease(j, d) ==
    /\ stored' = [stored EXCEPT ![KeyOf[j]] = j]
    /\ lease' = [lease EXCEPT ![KeyOf[j]] =
                    IF stored[KeyOf[j]] = Gone THEN Granted(d) ELSE @]
    /\ remain' = [remain EXCEPT ![KeyOf[j]] = d]

\* Put replaces the value of the key and detaches its former lease.
Save(j, d) ==
    /\ stored' = [stored EXCEPT ![KeyOf[j]] = j]
    /\ lease' = [lease EXCEPT ![KeyOf[j]] = Granted(d)]
    /\ remain' = [remain EXCEPT ![KeyOf[j]] = d]

RegisterHandler(n, t) ==
    /\ status[n] # "down"
    /\ handlers' = [handlers EXCEPT ![n] = @ \cup {t}]
    /\ UNCHANGED <<storeVars, eventVars, status, session, adding, goVars,
                   lockVars, history>>

\* A client's AddJob that reaches etcd; one with no delay left, or that fails
\* before it takes effect, changes nothing.  MaxFirings bounds the clients too.
AddJob(n, j, d) ==
    /\ fired < MaxFirings
    /\ ClientOpen(n)
    /\ d > 0
    /\ Save(j, d)
    /\ UNCHANGED <<eventVars, nodeVars, adding, goVars, lockVars, history>>

\* The re-adding of a cyclic job, run by every node's loop beside the goroutine
\* it has just started.  DelayTime is absolute and is not moved forward, and
\* the error goes to the variable the goroutine also writes and reads.
CycleAdd(n) ==
    /\ adding[n] # 0
    /\ LET f == adding[n]
           Done(e) == err' = [err EXCEPT ![n][f] = e]
       IN \/ /\ until[f] > 0 /\ ClientOpen(n)
             /\ Save(src[f], until[f])
             /\ Done("nil") \/ (LossyRPC /\ Done("failed"))
          \/ /\ until[f] = 0 \/ ~ClientOpen(n) \/ LossyRPC
             /\ Done("failed")
             /\ UNCHANGED storeVars
    /\ adding' = [adding EXCEPT ![n] = 0]
    /\ UNCHANGED <<eventVars, nodeVars, phase, timer, lockVars, history>>

-----------------------------------------------------------------------------
(* Time and expiry.                                                        *)

\* Mutant of Less: a timer runs below zero.
LessUnclamped(x) == x - 1

Less(x) == IF x = 0 THEN 0 ELSE x - 1

\* Time passes.  MaxLag is a promise of the network: no sound node is still
\* on its way to the lock once the lag of a firing is used up.
Tick ==
    /\ \A f \in 1..fired : lag[f] = 0 =>
            \A n \in Node : Sound(n) => phase[n][f] \notin Pending
    /\ lease' = [k \in Key |-> Less(lease[k])]
    /\ remain' = [k \in Key |-> Less(remain[k])]
    /\ lag' = [f \in Firing |-> Less(lag[f])]
    /\ until' = [f \in Firing |-> Less(until[f])]
    /\ timer' = [n \in Node |-> [f \in Firing |-> Less(timer[n][f])]]
    /\ UNCHANGED <<stored, fired, src, nodeVars, adding, phase, err, lockVars,
                   history>>

\* etcd revokes the lease, at once or late, and the deletion goes to every
\* watcher, in the order of the deletions.
Fire(k) ==
    LET f == fired + 1
    IN /\ fired < MaxFirings
       /\ stored[k] # Gone
       /\ lease[k] = 0
       /\ stored' = [stored EXCEPT ![k] = Gone]
       /\ fired' = f
       /\ src' = [src EXCEPT ![f] = stored[k]]
       /\ lag' = [lag EXCEPT ![f] = MaxLag]
       /\ until' = [until EXCEPT ![f] = remain[k]]
       /\ phase' = [n \in Node |-> IF ClientOpen(n)
                                   THEN [phase[n] EXCEPT ![f] = "queued"]
                                   ELSE phase[n]]
       /\ UNCHANGED <<lease, remain, nodeVars, adding, err, timer, lockVars,
                      history>>

-----------------------------------------------------------------------------
(* The lock of etcd: concurrency.Mutex.  A session's key for a lock is     *)
(* prefix/lease, so a session has at most one key per lock, whichever      *)
(* goroutine of the node put it there; the oldest key owns the lock.       *)

\* Who may own lock h once node n's key for it is deleted.
Heirs(n, h) ==
    IF owner[h] # n THEN {owner[h]}
    ELSE IF waiting[h] \ {n} = {} THEN {Free} ELSE waiting[h] \ {n}

\* Delete node n's keys for the locks hs.
DropKeys(n, hs) ==
    \E next \in [Hash -> Node \cup {Free}] :
        /\ \A h \in Hash :
                next[h] \in IF h \in hs THEN Heirs(n, h) ELSE {owner[h]}
        /\ owner' = next
        /\ waiting' = [h \in Hash |-> IF h \in hs
                                      THEN waiting[h] \ {n, next[h]}
                                      ELSE waiting[h]]

KeepKeys == UNCHANGED <<owner, waiting>>

-----------------------------------------------------------------------------
(* The notification loop and the goroutine it starts for each event.       *)

Goto(n, f, p) == phase' = [phase EXCEPT ![n][f] = p]

\* Node n has a goroutine that uses lock h.
Busy(n, h) == \E g \in Firing : phase[n][g] \in Live /\ HashAt(g) = h

\* An event reaches run().  A tag without a handler ends it there.  After the
\* goroutine is started, a cyclic job keeps run() busy until CycleAdd.
Dispatch(n, f) ==
    /\ ClientOpen(n)
    /\ adding[n] = 0
    /\ phase[n][f] = "queued"
    /\ \A g \in Firing : phase[n][g] = "queued" => f <= g
    /\ \/ /\ TagOf[src[f]] \notin handlers[n]
          /\ Goto(n, f, "ended")
          /\ UNCHANGED <<adding, clash>>
       \/ /\ TagOf[src[f]] \in handlers[n]
          /\ Goto(n, f, "start")
          /\ adding' = [adding EXCEPT ![n] = IF src[f] \in Cyclic THEN f ELSE 0]
          /\ clash' = clash \cup {h \in {HashAt(f)} : Busy(n, h)}
    /\ UNCHANGED <<storeVars, eventVars, nodeVars, err, timer, lockVars, ran>>

\* A goroutine step of node n: what none of them touches.
Frame == UNCHANGED <<storeVars, eventVars, nodeVars, adding, clash>>

\* TryLock returns e: cron.go:155 assigns it to err.
Tried(n, f, e) ==
    /\ Goto(n, f, "tried")
    /\ err' = [err EXCEPT ![n][f] = e]

\* TryLock's look at lockMap.
CheckMap(n, f) ==
    /\ phase[n][f] = "start"
    /\ \/ HashAt(f) \in lockMap[n] /\ Tried(n, f, "locked")
       \/ HashAt(f) \notin lockMap[n] /\ Goto(n, f, "trying") /\ UNCHANGED err
    /\ UNCHANGED <<timer, lockVars, ran>> /\ Frame

\* The transaction of Mutex.TryLock: the session takes the lock, or queues.
Take(n, h) ==
    /\ owner[h] \in {Free, n}
    /\ owner' = [owner EXCEPT ![h] = n]
    /\ UNCHANGED waiting

Queue(n, h) ==
    /\ owner[h] \notin {Free, n}
    /\ waiting' = [waiting EXCEPT ![h] = @ \cup {n}]
    /\ UNCHANGED owner

Acquire(n, f) ==
    LET h == HashAt(f)
    IN /\ phase[n][f] = "trying"
       /\ \/ Usable(n) /\ Take(n, h) /\ Goto(n, f, "acquired") /\ UNCHANGED err
          \/ Usable(n) /\ Queue(n, h) /\ Goto(n, f, "refused") /\ UNCHANGED err
          \/ /\ Usable(n) /\ LossyRPC
             /\ Take(n, h) \/ Queue(n, h) \/ KeepKeys
             /\ Tried(n, f, "failed")
          \/ ~Usable(n) /\ KeepKeys /\ Tried(n, f, "failed")
       /\ UNCHANGED <<timer, lockMap, ran>> /\ Frame

\* A refused TryLock deletes the key it has just put.
Withdraw(n, f) ==
    /\ phase[n][f] = "refused"
    /\ \/ Usable(n) /\ DropKeys(n, {HashAt(f)}) /\ Tried(n, f, "locked")
       \/ /\ Usable(n) /\ LossyRPC
          /\ DropKeys(n, {HashAt(f)}) \/ KeepKeys
          /\ Tried(n, f, "failed")
       \/ ~Usable(n) /\ KeepKeys /\ Tried(n, f, "failed")
    /\ UNCHANGED <<timer, lockMap, ran>> /\ Frame

\* Mutant of StoreMutex: the mutex is not entered in lockMap.
StoreMutexForgets(n, f) ==
    /\ phase[n][f] = "acquired"
    /\ Tried(n, f, "nil")
    /\ UNCHANGED <<timer, lockVars, ran>> /\ Frame

\* A successful TryLock enters the mutex in lockMap and returns nil.
StoreMutex(n, f) ==
    /\ phase[n][f] = "acquired"
    /\ lockMap' = [lockMap EXCEPT ![n] = @ \cup {HashAt(f)}]
    /\ Tried(n, f, "nil")
    /\ UNCHANGED <<timer, owner, waiting, ran>> /\ Frame

\* Mutant of ReadErr: ErrLocked is taken for success.
ReadErrIgnoresLocked(n, f) ==
    /\ phase[n][f] = "tried"
    /\ \/ /\ err[n][f] \in {"nil", "locked"}
          /\ Goto(n, f, "running")
          /\ ran' = [ran EXCEPT ![f] = @ \cup {n}]
       \/ err[n][f] \notin {"nil", "locked"} /\ Goto(n, f, "ended") /\ UNCHANGED ran
    /\ UNCHANGED <<err, timer, lockVars>> /\ Frame

\* The goroutine reads err back: on nil it enters the handler.
ReadErr(n, f) ==
    /\ phase[n][f] = "tried"
    /\ \/ /\ err[n][f] = "nil"
          /\ Goto(n, f, "running")
          /\ ran' = [ran EXCEPT ![f] = @ \cup {n}]
       \/ err[n][f] # "nil" /\ Goto(n, f, "ended") /\ UNCHANGED ran
    /\ UNCHANGED <<err, timer, lockVars>> /\ Frame

\* Mutant of HandlerReturns: no sleep before UnLock.
HandlerReturnsNoSleep(n, f) ==
    /\ phase[n][f] = "running"
    /\ Goto(n, f, "holding")
    /\ UNCHANGED <<err, timer, lockVars, ran>> /\ Frame

\* The handler returns (its error is only logged) and the sleep begins.
HandlerReturns(n, f) ==
    /\ phase[n][f] = "running"
    /\ Goto(n, f, "holding")
    /\ timer' = [timer EXCEPT ![n][f] = HoldTime]
    /\ UNCHANGED <<err, lockVars, ran>> /\ Frame

\* Mutant of UnLock: the mutex stays in lockMap.
UnLockKeepsEntry(n, f) ==
    /\ phase[n][f] = "holding"
    /\ timer[n][f] = 0
    /\ Goto(n, f, IF HashAt(f) \in lockMap[n] THEN "unlocking" ELSE "ended")
    /\ UNCHANGED <<err, timer, lockVars, ran>> /\ Frame

\* The sleep is over; UnLock looks into lockMap and removes the mutex.
UnLock(n, f) ==
    /\ phase[n][f] = "holding"
    /\ timer[n][f] = 0
    /\ \/ /\ HashAt(f) \in lockMap[n]
          /\ lockMap' = [lockMap EXCEPT ![n] = @ \ {HashAt(f)}]
          /\ Goto(n, f, "unlocking")
       \/ HashAt(f) \notin lockMap[n] /\ Goto(n, f, "ended") /\ UNCHANGED lockMap
    /\ UNCHANGED <<err, timer, owner, waiting, ran>> /\ Frame

\* Mutex.Unlock deletes the session's key.
ReleaseKey(n, f) ==
    /\ phase[n][f] = "unlocking"
    /\ \/ Usable(n) /\ DropKeys(n, {HashAt(f)})
       \/ (~Usable(n) \/ LossyRPC) /\ KeepKeys
    /\ Goto(n, f, "ended")
    /\ UNCHANGED <<err, timer, lockMap, ran>> /\ Frame

-----------------------------------------------------------------------------
(* Nodes and sessions come to an end.                                      *)

\* MaxFaulty allows node n to fail.
MayFail(n) == Cardinality({m \in Node : ~Sound(m)} \cup {n}) <= MaxFaulty

\* Close, first half: run() will leave its loop, the storage still works.
Cancel(n) ==
    /\ status[n] = "up"
    /\ MayFail(n)
    /\ status' = [status EXCEPT ![n] = "closing"]
    /\ UNCHANGED <<storeVars, eventVars, session, handlers, adding, goVars,
                   lockVars, history>>

\* Close, second half: the storage unlocks every mutex of lockMap, whether or
\* not its handler is running, then closes the client.  The session is closed
\* after the client, so its lease is left to run out.
StoreClose(n) ==
    /\ status[n] = "closing"
    /\ status' = [status EXCEPT ![n] = "closed"]
    /\ \/ session[n] /\ DropKeys(n, lockMap[n])
       \/ (~session[n] \/ LossyRPC) /\ KeepKeys
    /\ UNCHANGED <<storeVars, eventVars, session, handlers, adding, goVars,
                   lockMap, history>>

\* The process ends; its goroutines are gone, its keys stay.
Crash(n) ==
    /\ status[n] # "down"
    /\ MayFail(n)
    /\ status' = [status EXCEPT ![n] = "down"]
    /\ phase' = [phase EXCEPT ![n] = [f \in Firing |-> "none"]]
    /\ err' = [err EXCEPT ![n] = [f \in Firing |-> "nil"]]
    /\ timer' = [timer EXCEPT ![n] = [f \in Firing |-> 0]]
    /\ adding' = [adding EXCEPT ![n] = 0]
    /\ handlers' = [handlers EXCEPT ![n] = {}]
    /\ lockMap' = [lockMap EXCEPT ![n] = {}]
    /\ UNCHANGED <<storeVars, eventVars, session, owner, waiting, history>>

\* The session's lease runs out, of a node that is gone or cut off; nothing in
\* the code makes a new session.
SessionExpire(n) ==
    /\ session[n]
    /\ MayFail(n)
    /\ session' = [session EXCEPT ![n] = FALSE]
    /\ DropKeys(n, Hash)
    /\ UNCHANGED <<storeVars, eventVars, status, handlers, adding, goVars,
                   lockMap, history>>

\* A step of the loop of run(), and of one of its goroutines.
Loop(n) == CycleAdd(n) \/ \E f \in Firing : Dispatch(n, f)
Step(n, f) ==
    \/ CheckMap(n, f) \/ Acquire(n, f) \/ Withdraw(n, f) \/ StoreMutex(n, f)
    \/ ReadErr(n, f) \/ HandlerReturns(n, f) \/ UnLock(n, f) \/ ReleaseKey(n, f)

Next ==
    \/ Tick
    \/ \E k \in Key : Fire(k)
    \/ \E n \in Node :
        \/ \E t \in Tag : RegisterHandler(n, t)
        \/ \E j \in Job, d \in Delays : AddJob(n, j, d)
        \/ Loop(n)
        \/ \E f \in Firing : Step(n, f)
        \/ Cancel(n) \/ StoreClose(n) \/ Crash(n) \/ SessionExpire(n)

Spec == Init /\ [][Next]_vars

\* Time passes, the loops and goroutines of running nodes are scheduled,
\* handlers return, a Close that was begun goes on, and the session of a node
\* that no longer renews it runs out.  Nothing is assumed of clients,
\* crashes or expiries.
Fairness ==
    /\ WF_vars(Tick)
    /\ \A n \in Node :
        /\ WF_vars(Loop(n))
        /\ WF_vars(StoreClose(n))
        /\ WF_vars(status[n] \in {"closed", "down"} /\ SessionExpire(n))
        /\ \A f \in Firing : WF_vars(Step(n, f))

FairSpec == Spec /\ Fairness

-----------------------------------------------------------------------------
(* Properties.                                                             *)

\* The lock's name was never used by two goroutines of one node at once and
\* never by a cyclic job, the two cases in which cron.go loses the lock.
Guarded(h) == Plain(h) /\ h \notin clash

\* Two nodes that are up and have their session are never in the handlers of
\* one lock name at the same time, not even for different expiries.  This is
\* what TryLock and the order of UnLock's two steps are for.
Exclusion ==
    \A a, b \in Node, f, g \in Firing :
        /\ a # b /\ Sound(a) /\ Sound(b)
        /\ phase[a][f] \in Inside /\ phase[b][g] \in Inside
        /\ HashAt(f) = HashAt(g)
        => ~Guarded(HashAt(f))

\* One expiry is run by one node: a node told late still finds the lock taken,
\* because the winner sleeps before UnLock (the promise of README.md:9 and the
\* reason given at cron.go:184).
AtMostOnce ==
    \A f \in Firing : \A a, b \in ran[f] :
        Sound(a) /\ Sound(b) /\ Guarded(HashAt(f)) => a = b

\* A job is announced less than one second before its DelayTime: truncating the
\* delay (etcd.go:132), saving a key anew while its lease runs and re-adding a
\* cyclic job from several nodes never cost more than the fraction of a second.
NotEarly == \A k \in Key : stored[k] # Gone => remain[k] < lease[k] + Second

\* A lock that is not used by cyclic jobs is always given up again by the node
\* that owns it, be it by UnLock, Close or the end of its session.
LockReleased ==
    \A n \in Node, h \in Hash :
        Plain(h) => (owner[h] = n ~> owner[h] # n)

\* Another expiry with the same lock name is under way.
Contended(f) ==
    \E g \in 1..fired : /\ g # f /\ HashAt(g) = HashAt(f)
                       /\ \E n \in Node : phase[n][g] \notin {"none", "ended"}

\* An expiry told to all nodes, one of which has a handler for it, is run by
\* some node, unless a node fails or another expiry of the same lock is still
\* being dealt with: a finished one has left neither lockMap nor etcd locked,
\* and a refused node does not keep the lock from the others for good.
FiringRuns ==
    \A f \in Firing :
        (/\ \A n \in Node : phase[n][f] = "queued"
         /\ \E n \in Node : TagOf[src[f]] \in handlers[n])
            ~> \/ ran[f] # {}
               \/ Contended(f) \/ ~Plain(HashAt(f))
               \/ \E m \in Node : ~Sound(m)

-----------------------------------------------------------------------------
(* What comments and documents of the repository say and the code does not *)
(* do.                                                                     *)

\* README.md:9 of elastic_job: with several replicas only one node runs a job.
OneNodeRuns ==
    \A f \in Firing : \A a, b \in ran[f] : Sound(a) /\ Sound(b) => a = b

\* cron.go:20: the lock sees to it that only one callback can be executed.
OneCallback ==
    \A a, b \in Node, f, g \in Firing :
        /\ Sound(a) /\ Sound(b)
        /\ phase[a][f] = "running" /\ phase[b][g] = "running"
        /\ HashAt(f) = HashAt(g)
        => <<a, f>> = <<b, g>>

\* cron.go:184: the lock is kept until the expiry has been pushed to every node,
\* and then it is given up, whatever the job.
HeldThenReleased ==
    \A n \in Node, h \in Hash : owner[h] = n ~> owner[h] # n
=============================================================================
