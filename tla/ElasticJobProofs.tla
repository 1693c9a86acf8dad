-------------------------- MODULE ElasticJobProofs --------------------------
(***************************************************************************)
(* What holds of ElasticJob for every number of nodes, jobs, locks and     *)
(* expiries: type correctness, mutual exclusion of the handlers under a    *)
(* guarded lock, and, when the network is faster than the sleep before     *)
(* UnLock, that one expiry is run by at most one node.                     *)
(***************************************************************************)
EXTENDS ElasticJob, TLAPS

-----------------------------------------------------------------------------
(* Facts about the operators.                                              *)

LEMMA GrantedType == ASSUME NEW d \in Nat PROVE Granted(d) \in Nat
<1>1. d \div Second \in Nat
  BY TimeAssumption
<1>2. Second * (d \div Second) \in Nat
  BY <1>1, TimeAssumption
<1>3. QED
  BY <1>2, TimeAssumption DEF Granted

LEMMA GrantedBound == ASSUME NEW d \in Nat PROVE d < Granted(d) + Second
<1>1. d < Second * (d \div Second) + Second
  BY TimeAssumption
<1>3. QED
  BY <1>1, TimeAssumption DEF Granted

\* Deleting keys keeps the lock table well formed.
LEMMA DropKeysType ==
    ASSUME TypeOK, NEW n \in Node, NEW hs, DropKeys(n, hs)
    PROVE  /\ owner' \in [Hash -> Node \cup {Free}]
           /\ waiting' \in [Hash -> SUBSET Node]
<1>1. PICK next \in [Hash -> Node \cup {Free}] :
        /\ owner' = next
        /\ waiting' = [h \in Hash |-> IF h \in hs
                                      THEN waiting[h] \ {n, next[h]}
                                      ELSE waiting[h]]
  BY DEF DropKeys
<1>2. waiting' \in [Hash -> SUBSET Node]
  BY <1>1 DEF TypeOK
<1>3. QED
  BY <1>1, <1>2

\* Node n deletes only its own keys: a lock owned by another node stays owned
\* by it, and so does a lock that is not among hs.
LEMMA DropKeysOwner ==
    ASSUME NEW n \in Node, NEW hs, DropKeys(n, hs),
           NEW h \in Hash, owner[h] # n \/ h \notin hs
    PROVE  owner'[h] = owner[h]
BY DEF DropKeys, Heirs

-----------------------------------------------------------------------------
(* Type correctness.                                                       *)

LEMMA TypeInit == Init => TypeOK
<1>1. (CHOOSE j \in Job : TRUE) \in Job
  BY JobAssumption
<1>2. QED
  BY <1>1, BoundAssumption, JobAssumption DEF Init, TypeOK, Statuses, Phases, Errors, Firing

LEMMA TypeSave ==
    ASSUME TypeOK, NEW j \in Job, NEW d \in Nat, Save(j, d)
    PROVE  /\ stored' \in [Key -> Job \cup {Gone}]
           /\ lease' \in [Key -> Nat]
           /\ remain' \in [Key -> Nat]
BY GrantedType, JobAssumption DEF TypeOK, Save

\* What the eight goroutine steps have in common: the goroutine exists, moves
\* on or ends, assigns at most its own err, and leaves the Frame alone.
LEMMA GoShape ==
    ASSUME NEW n \in Node, NEW f \in Firing, Step(n, f)
    PROVE  /\ phase[n][f] \in Live
           /\ \E p \in Live \cup {"ended"} : Goto(n, f, p)
           /\ \/ UNCHANGED err
              \/ \E e \in Errors : err' = [err EXCEPT ![n][f] = e]
           /\ Frame
<1> USE DEF Live, Phases, Errors
<1>1. CASE CheckMap(n, f)
  BY <1>1 DEF CheckMap, Tried
<1>2. CASE Acquire(n, f)
  BY <1>2 DEF Acquire, Tried
<1>3. CASE Withdraw(n, f)
  BY <1>3 DEF Withdraw, Tried
<1>4. CASE StoreMutex(n, f)
  BY <1>4 DEF StoreMutex, Tried
<1>5. CASE ReadErr(n, f)
  BY <1>5 DEF ReadErr
<1>6. CASE HandlerReturns(n, f)
  BY <1>6 DEF HandlerReturns
<1>7. CASE UnLock(n, f)
  BY <1>7 DEF UnLock
<1>8. CASE ReleaseKey(n, f)
  BY <1>8 DEF ReleaseKey
<1>9. QED
  BY <1>1, <1>2, <1>3, <1>4, <1>5, <1>6, <1>7, <1>8 DEF Step

\* What they do to the lock and to the clock.
LEMMA TypeGoLocks ==
    ASSUME TypeOK, NEW n \in Node, NEW f \in Firing, Step(n, f)
    PROVE  /\ owner' \in [Hash -> Node \cup {Free}]
           /\ waiting' \in [Hash -> SUBSET Node]
           /\ lockMap' \in [Node -> SUBSET Hash]
           /\ timer' \in [Node -> [Firing -> Nat]]
           /\ ran' \in [Firing -> SUBSET Node]
<1>0. HashAt(f) \in Hash
  BY JobAssumption DEF TypeOK, HashAt
<1> USE DEF TypeOK, lockVars
<1>1. CASE CheckMap(n, f)
  BY <1>1 DEF CheckMap
<1>2. CASE Acquire(n, f)
  <2>1. CASE Take(n, HashAt(f))
    BY <1>0, <1>2, <2>1 DEF Acquire, Take
  <2>2. CASE Queue(n, HashAt(f))
    BY <1>0, <1>2, <2>2 DEF Acquire, Queue
  <2>3. CASE KeepKeys
    BY <1>2, <2>3 DEF Acquire, KeepKeys
  <2>4. QED
    BY <1>2, <2>1, <2>2, <2>3 DEF Acquire
<1>3. CASE Withdraw(n, f)
  BY <1>3, DropKeysType DEF Withdraw, KeepKeys
<1>4. CASE StoreMutex(n, f)
  BY <1>0, <1>4 DEF StoreMutex
<1>5. CASE ReadErr(n, f)
  <2>1. CASE UNCHANGED ran
    BY <1>5, <2>1 DEF ReadErr
  <2>2. CASE ran' = [ran EXCEPT ![f] = @ \cup {n}]
    BY <1>5, <2>2 DEF ReadErr
  <2>3. QED
    BY <1>5, <2>1, <2>2 DEF ReadErr
<1>6. CASE HandlerReturns(n, f)
  BY <1>6, TimeAssumption DEF HandlerReturns
<1>7. CASE UnLock(n, f)
  <2>1. CASE UNCHANGED lockMap
    BY <1>7, <2>1 DEF UnLock
  <2>2. CASE lockMap' = [lockMap EXCEPT ![n] = @ \ {HashAt(f)}]
    BY <1>7, <2>2 DEF UnLock
  <2>3. QED
    BY <1>7, <2>1, <2>2 DEF UnLock
<1>8. CASE ReleaseKey(n, f)
  BY <1>8, DropKeysType DEF ReleaseKey, KeepKeys
<1>9. QED
  BY <1>1, <1>2, <1>3, <1>4, <1>5, <1>6, <1>7, <1>8 DEF Step

LEMMA TypeGo ==
    ASSUME TypeOK, NEW n \in Node, NEW f \in Firing, Step(n, f)
    PROVE  TypeOK'
<1>1. phase' \in [Node -> [Firing -> Phases]]
  <2>1. PICK p \in Live \cup {"ended"} : Goto(n, f, p)
    BY GoShape
  <2>2. p \in Phases
    BY <2>1 DEF Live, Phases
  <2>3. QED
    BY <2>1, <2>2 DEF Goto, TypeOK
<1>2. err' \in [Node -> [Firing -> Errors]]
  <2>1. CASE UNCHANGED err
    BY <2>1 DEF TypeOK
  <2>2. CASE \E e \in Errors : err' = [err EXCEPT ![n][f] = e]
    BY <2>2 DEF TypeOK
  <2>3. QED
    BY <2>1, <2>2, GoShape
<1>3. QED
  BY <1>1, <1>2, GoShape, TypeGoLocks
     DEF Frame, storeVars, eventVars, nodeVars, TypeOK

LEMMA TypeNext == TypeOK /\ [Next]_vars => TypeOK'
<1> SUFFICES ASSUME TypeOK, [Next]_vars PROVE TypeOK'
  OBVIOUS
<1> USE DEF storeVars, eventVars, nodeVars, goVars, lockVars, history
<1>1. CASE UNCHANGED vars
  BY <1>1 DEF vars, TypeOK
<1>2. CASE Tick
  <2>1. \A x \in Nat : Less(x) \in Nat
    BY DEF Less
  <2>2. QED
    BY <1>2, <2>1 DEF Tick, TypeOK
<1>3. ASSUME NEW k \in Key, Fire(k) PROVE TypeOK'
  <2>1. /\ fired + 1 \in Firing /\ fired' \in 0..MaxFirings
        /\ stored[k] \in Job /\ stored' \in [Key -> Job \cup {Gone}]
    BY <1>3, BoundAssumption DEF Fire, Firing, TypeOK
  <2>2. src' \in [Firing -> Job]
    BY <1>3, <2>1 DEF Fire, TypeOK
  <2>3. lag' \in [Firing -> Nat] /\ until' \in [Firing -> Nat]
    BY <1>3, <2>1, TimeAssumption DEF Fire, TypeOK
  <2>4. phase' \in [Node -> [Firing -> Phases]]
    BY <1>3, <2>1 DEF Fire, TypeOK, Phases
  <2>5. QED
    BY <1>3, <2>1, <2>2, <2>3, <2>4 DEF Fire, TypeOK
<1>4. ASSUME NEW n \in Node, NEW t \in Tag, RegisterHandler(n, t) PROVE TypeOK'
  BY <1>4 DEF RegisterHandler, TypeOK
<1>5. ASSUME NEW n \in Node, NEW j \in Job, NEW d \in Delays, AddJob(n, j, d)
      PROVE TypeOK'
  BY <1>5, TypeSave, TimeAssumption DEF AddJob, TypeOK
<1>6. ASSUME NEW n \in Node, CycleAdd(n) PROVE TypeOK'
  <2>1. adding[n] \in Firing /\ src[adding[n]] \in Job /\ until[adding[n]] \in Nat
    BY <1>6 DEF CycleAdd, TypeOK
  <2>2. /\ stored' \in [Key -> Job \cup {Gone}]
        /\ lease' \in [Key -> Nat]
        /\ remain' \in [Key -> Nat]
    BY <1>6, <2>1, TypeSave DEF CycleAdd, TypeOK
  <2>3. \E e \in Errors : err' = [err EXCEPT ![n][adding[n]] = e]
    BY <1>6 DEF CycleAdd, Errors
  <2>4. err' \in [Node -> [Firing -> Errors]]
    BY <2>1, <2>3 DEF TypeOK
  <2>5. QED
    BY <1>6, <2>2, <2>4 DEF CycleAdd, TypeOK
<1>7. ASSUME NEW n \in Node, NEW f \in Firing, Dispatch(n, f) PROVE TypeOK'
  <2>1. HashAt(f) \in Hash
    BY JobAssumption DEF TypeOK, HashAt
  <2>2. \E p \in Phases : Goto(n, f, p)
    BY <1>7 DEF Dispatch, Phases
  <2>3. phase' \in [Node -> [Firing -> Phases]]
    BY <2>2 DEF Goto, TypeOK
  <2>4. adding' \in [Node -> Firing \cup {0}] /\ clash' \in SUBSET Hash
    BY <1>7, <2>1 DEF Dispatch, TypeOK
  <2>5. QED
    BY <1>7, <2>3, <2>4 DEF Dispatch, TypeOK
<1>8. ASSUME NEW n \in Node, Cancel(n) PROVE TypeOK'
  BY <1>8 DEF Cancel, TypeOK, Statuses
<1>9. ASSUME NEW n \in Node, StoreClose(n) PROVE TypeOK'
  <2>1. /\ owner' \in [Hash -> Node \cup {Free}]
        /\ waiting' \in [Hash -> SUBSET Node]
    BY <1>9, DropKeysType DEF StoreClose, KeepKeys, TypeOK
  <2>2. QED
    BY <1>9, <2>1 DEF StoreClose, TypeOK, Statuses
<1>10. ASSUME NEW n \in Node, Crash(n) PROVE TypeOK'
  BY <1>10 DEF Crash, TypeOK, Statuses, Phases, Errors
<1>11. ASSUME NEW n \in Node, SessionExpire(n) PROVE TypeOK'
  <2>1. /\ owner' \in [Hash -> Node \cup {Free}]
        /\ waiting' \in [Hash -> SUBSET Node]
    BY <1>11, DropKeysType DEF SessionExpire
  <2>2. QED
    BY <1>11, <2>1 DEF SessionExpire, TypeOK
<1>12. QED
  BY <1>1, <1>2, <1>3, <1>4, <1>5, <1>6, <1>7, <1>8, <1>9, <1>10, <1>11, TypeGo
     DEF Next, Loop

\* Every reachable state is well typed, whatever the constants.
THEOREM TypeCorrect == Spec => []TypeOK
BY TypeInit, TypeNext, PTL DEF Spec

-----------------------------------------------------------------------------
(* Mutual exclusion.  Exclusion is not inductive: that a node inside the   *)
(* handler owns the lock must be known from the moment etcd granted it,    *)
(* and no other goroutine of the node may be about to delete the node's    *)
(* key.  That the err of a plain job's goroutine is its own, and that src  *)
(* of a firing does not change, is part of the bookkeeping.                *)

Bookkeeping ==
    /\ \A n \in Node, f \in Firing : f > fired => phase[n][f] = "none"
    /\ \A f \in Firing : f > fired => ran[f] = {}
    /\ \A n \in Node : adding[n] <= fired
    /\ \A n \in Node : adding[n] # 0 => src[adding[n]] \in Cyclic

\* Two goroutines of one node that use one lock have put it into clash.
ClashRecorded ==
    \A n \in Node, f, g \in Firing :
        /\ f # g /\ HashAt(f) = HashAt(g)
        /\ phase[n][f] \in Live /\ phase[n][g] \in Live
        => HashAt(f) \in clash

\* The goroutine was granted the lock and has not begun to give it up.
Holds(n, f) ==
    \/ phase[n][f] \in {"acquired", "running", "holding"}
    \/ phase[n][f] = "tried" /\ err[n][f] = "nil"

LockOwned ==
    \A n \in Node, f \in Firing :
        Sound(n) /\ Guarded(HashAt(f)) /\ Holds(n, f) => owner[HashAt(f)] = n

LockInv == TypeOK /\ Bookkeeping /\ ClashRecorded /\ LockOwned

Winner(n, f) == n \in ran[f] \/ Holds(n, f)

LagBounded == \A f \in Firing : lag[f] <= MaxLag

\* While a node is still on its way, the winner holds the lock, and will
\* hold it for longer than the other may still take.
WinnerWaits ==
    \A f \in Firing, a, m \in Node :
        /\ a # m /\ Sound(a) /\ Sound(m) /\ Guarded(HashAt(f))
        /\ Winner(a, f) /\ phase[m][f] \in Pending
        => /\ Holds(a, f)
           /\ phase[a][f] = "holding" =>
                  lag[f] + HoldTime <= timer[a][f] + MaxLag

OneWinner ==
    \A f \in Firing, a, b \in Node :
        /\ Sound(a) /\ Sound(b) /\ Guarded(HashAt(f))
        /\ Winner(a, f) /\ Winner(b, f)
        => a = b

OnceInv == LockInv /\ LagBounded /\ WinnerWaits /\ OneWinner

\* What the invariants need to know of a goroutine step: only its own entry of
\* phase and err changes, and it enters ran only while it holds the lock.
LEMMA GoFacts ==
    ASSUME TypeOK, NEW n \in Node, NEW f \in Firing, Step(n, f)
    PROVE  /\ phase[n][f] \in Live
           /\ phase'[n][f] \in Live \cup {"ended"}
           /\ \A m \in Node, g \in Firing : m # n \/ g # f =>
                 phase'[m][g] = phase[m][g] /\ err'[m][g] = err[m][g]
           /\ UNCHANGED <<fired, src, lag, adding, status, session, clash>>
<1>1. PICK p \in Live \cup {"ended"} : Goto(n, f, p)
  BY GoShape
<1>2. /\ phase'[n][f] = p
      /\ \A m \in Node, g \in Firing : m # n \/ g # f => phase'[m][g] = phase[m][g]
  BY <1>1 DEF Goto, TypeOK
<1>3. \A m \in Node, g \in Firing : m # n \/ g # f => err'[m][g] = err[m][g]
  <2>1. CASE UNCHANGED err
    BY <2>1
  <2>2. CASE \E e \in Errors : err' = [err EXCEPT ![n][f] = e]
    BY <2>2 DEF TypeOK
  <2>3. QED
    BY <2>1, <2>2, GoShape
<1>4. UNCHANGED <<fired, src, lag, adding, status, session, clash>>
  BY GoShape DEF Frame, eventVars, nodeVars
<1>5. QED
  BY <1>1, <1>2, <1>3, <1>4, GoShape

LEMMA RanFacts ==
    ASSUME TypeOK, NEW n \in Node, NEW f \in Firing, Step(n, f)
    PROVE  \A m \in Node, g \in Firing :
              m \in ran'[g] => m \in ran[g] \/ (m = n /\ g = f /\ Holds(n, f))
<1>1. CASE ReadErr(n, f)
  <2>1. CASE UNCHANGED ran
    BY <2>1
  <2>2. CASE /\ err[n][f] = "nil"
             /\ ran' = [ran EXCEPT ![f] = @ \cup {n}]
    BY <1>1, <2>2 DEF ReadErr, Holds, TypeOK
  <2>3. QED
    BY <1>1, <2>1, <2>2 DEF ReadErr
<1>2. CASE UNCHANGED ran
  BY <1>2
<1>3. QED
  BY <1>1, <1>2 DEF Step, CheckMap, Acquire, Withdraw, StoreMutex,
     HandlerReturns, UnLock, ReleaseKey

\* An expiry somebody was told of has happened.
LEMMA ToldFired ==
    ASSUME TypeOK, Bookkeeping, NEW n \in Node, NEW f \in Firing,
           phase[n][f] # "none"
    PROVE  f <= fired
<1>1. f \in Int /\ fired \in Int
  BY BoundAssumption DEF TypeOK, Firing
<1>2. ~(f > fired)
  BY DEF Bookkeeping
<1>3. QED
  BY <1>1, <1>2

LEMMA BookkeepingInit == Init => Bookkeeping /\ ClashRecorded
BY DEF Init, Bookkeeping, ClashRecorded, Live

LEMMA BookkeepingNext ==
    TypeOK /\ Bookkeeping /\ ClashRecorded /\ [Next]_vars
        => Bookkeeping' /\ ClashRecorded'
<1> SUFFICES ASSUME TypeOK, Bookkeeping, ClashRecorded, [Next]_vars
             PROVE  Bookkeeping' /\ ClashRecorded'
  OBVIOUS
<1> USE DEF Bookkeeping, ClashRecorded, HashAt, eventVars, goVars, history
<1>1. CASE UNCHANGED <<fired, src, phase, adding, ran, clash>>
  BY <1>1
<1>2. ASSUME NEW k \in Key, Fire(k) PROVE Bookkeeping' /\ ClashRecorded'
  <2>1. fired \in Nat /\ fired' = fired + 1
    BY <1>2, BoundAssumption DEF Fire, TypeOK
  <2>2. \A n \in Node, f \in Firing : f # fired + 1 => phase'[n][f] = phase[n][f]
    BY <1>2 DEF Fire, TypeOK
  <2>3. \A n \in Node : phase'[n][fired + 1] \notin Live
    BY <1>2, <2>1, BoundAssumption DEF Fire, TypeOK, Live, Firing
  <2>4. \A f \in Firing : f # fired + 1 => src'[f] = src[f]
    BY <1>2 DEF Fire, TypeOK
  <2>5. ClashRecorded'
    BY <1>2, <2>2, <2>3, <2>4 DEF Fire
  <2>6. Bookkeeping'
    <3>1. UNCHANGED <<adding, ran>>
      BY <1>2 DEF Fire
    <3>2. \A n \in Node, f \in Firing : f > fired + 1 => phase'[n][f] = "none"
      BY <2>1, <2>2 DEF Firing
    <3>3. \A f \in Firing : f > fired + 1 => ran[f] = {}
      BY <2>1 DEF Firing
    <3>4. \A n \in Node : adding[n] <= fired + 1 /\ adding[n] # fired + 1
      <4>1. \A n \in Node : adding[n] \in Int /\ adding[n] <= fired
        BY BoundAssumption DEF TypeOK, Firing
      <4>2. QED
        BY <2>1, <4>1
    <3>5. \A n \in Node : adding[n] # 0 => src'[adding[n]] \in Cyclic
      BY <2>4, <3>4 DEF TypeOK
    <3>6. QED
      BY <2>1, <3>1, <3>2, <3>3, <3>4, <3>5
  <2>7. QED
    BY <2>5, <2>6
<1>3. ASSUME NEW n \in Node, CycleAdd(n) PROVE Bookkeeping' /\ ClashRecorded'
  BY <1>3 DEF CycleAdd, TypeOK
<1>4. ASSUME NEW n \in Node, NEW f \in Firing, Dispatch(n, f)
      PROVE  Bookkeeping' /\ ClashRecorded'
  <2>1. /\ \A m \in Node, g \in Firing : m # n \/ g # f => phase'[m][g] = phase[m][g]
        /\ phase[n][f] = "queued"
    BY <1>4 DEF Dispatch, Goto, TypeOK
  <2>2. f <= fired
    BY <2>1, ToldFired
  <2>3. \A m \in Node : adding'[m] # adding[m] =>
            adding'[m] = 0 \/ (adding'[m] = f /\ src[f] \in Cyclic)
    BY <1>4 DEF Dispatch, TypeOK
  <2>4. Bookkeeping'
    <3>1. UNCHANGED <<fired, src, ran>>
      BY <1>4 DEF Dispatch
    <3>2. \A m \in Node, g \in Firing : g > fired => phase'[m][g] = "none"
      <4> SUFFICES ASSUME NEW m \in Node, NEW g \in Firing, g > fired
                   PROVE  phase'[m][g] = "none"
        OBVIOUS
      <4>1. g # f
        BY <2>2, BoundAssumption DEF TypeOK, Firing
      <4>2. QED
        BY <2>1, <4>1
    <3>3. \A m \in Node : adding'[m] <= fired /\ (adding'[m] # 0 => src[adding'[m]] \in Cyclic)
      <4> SUFFICES ASSUME NEW m \in Node
                   PROVE  adding'[m] <= fired /\ (adding'[m] # 0 => src[adding'[m]] \in Cyclic)
        OBVIOUS
      <4>1. CASE adding'[m] = adding[m]
        BY <4>1
      <4>2. CASE adding'[m] = 0
        BY <4>2, BoundAssumption DEF TypeOK
      <4>3. CASE adding'[m] = f /\ src[f] \in Cyclic
        BY <4>3, <2>2
      <4>4. QED
        BY <2>3, <4>1, <4>2, <4>3
    <3>4. QED
      BY <3>1, <3>2, <3>3
  <2>5. ClashRecorded'
    <3>1. clash \subseteq clash' /\ (phase'[n][f] \in Live =>
              \A g \in Firing : phase[n][g] \in Live /\ HashAt(g) = HashAt(f)
                                    => HashAt(f) \in clash')
      <4>1. CASE Goto(n, f, "ended")
        BY <1>4, <4>1 DEF Dispatch, Goto, TypeOK, Live
      <4>2. CASE clash' = clash \cup {h \in {HashAt(f)} : Busy(n, h)}
        BY <4>2 DEF Busy
      <4>3. QED
        BY <1>4, <4>1, <4>2 DEF Dispatch
    <3>2. QED
      BY <1>4, <2>1, <3>1 DEF Dispatch
  <2>6. QED
    BY <2>4, <2>5
<1>5. ASSUME NEW n \in Node, NEW f \in Firing, Step(n, f)
      PROVE  Bookkeeping' /\ ClashRecorded'
  <2>1. f <= fired
    <3>1. phase[n][f] # "none"
      BY <1>5, GoFacts DEF Live
    <3>2. QED
      BY <3>1, ToldFired
  <2>2. ClashRecorded'
    BY <1>5, GoFacts DEF Live
  <2>3. \A g \in Firing : g > fired => ran'[g] = {}
    <3> SUFFICES ASSUME NEW g \in Firing, g > fired, NEW m \in Node, m \in ran'[g]
                 PROVE  FALSE
      BY <1>5, TypeGoLocks
    <3>1. g # f
      BY <2>1 DEF TypeOK, Firing
    <3>2. m \in ran[g]
      BY <1>5, <3>1, RanFacts
    <3>3. QED
      BY <3>2
  <2>4. \A m \in Node, g \in Firing : g > fired => phase'[m][g] = "none"
    <3> SUFFICES ASSUME NEW m \in Node, NEW g \in Firing, g > fired
                 PROVE  phase'[m][g] = "none"
      OBVIOUS
    <3>1. g # f
      BY <2>1 DEF TypeOK, Firing
    <3>2. QED
      BY <1>5, <3>1, GoFacts
  <2>5. UNCHANGED <<fired, src, adding>>
    BY <1>5, GoFacts
  <2>6. QED
    BY <2>2, <2>3, <2>4, <2>5
<1>6. ASSUME NEW n \in Node, Crash(n) PROVE Bookkeeping' /\ ClashRecorded'
  <2>1. \A m \in Node, g \in Firing :
            phase'[m][g] = "none" \/ phase'[m][g] = phase[m][g]
    BY <1>6 DEF Crash, TypeOK
  <2>2. \A m \in Node : adding'[m] = 0 \/ adding'[m] = adding[m]
    BY <1>6 DEF Crash, TypeOK
  <2>3. QED
    BY <1>6, <2>1, <2>2 DEF Crash, Live, TypeOK
<1>7. QED
  BY <1>1, <1>2, <1>3, <1>4, <1>5, <1>6
     DEF Next, Loop, vars, Tick, RegisterHandler, AddJob, Cancel, StoreClose,
         SessionExpire

LEMMA HashType == ASSUME TypeOK, NEW f \in Firing PROVE HashAt(f) \in Hash
BY JobAssumption DEF TypeOK, HashAt

LEMMA HoldsLive == ASSUME NEW n, NEW f, Holds(n, f) PROVE phase[n][f] \in Live
BY DEF Holds, Live, Phases

\* A step that gives nobody a lock and takes it from no sound node.
LEMMA QuietStep ==
    ASSUME TypeOK, Bookkeeping, LockOwned, clash \subseteq clash',
           \A n \in Node : Sound(n)' => Sound(n),
           \A n \in Node, h \in Hash : owner[h] = n /\ Sound(n)' => owner'[h] = n,
           \A n \in Node, f \in Firing :
               Holds(n, f)' => Holds(n, f) \/ (f <= fired /\ ~Plain(HashAt(f))),
           \A f \in Firing : f <= fired => src'[f] = src[f]
    PROVE  LockOwned'
<1> SUFFICES ASSUME NEW n \in Node, NEW f \in Firing,
                    Sound(n)', Guarded(HashAt(f))', Holds(n, f)'
             PROVE  owner'[HashAt(f)'] = n
  BY DEF LockOwned
<1>1. CASE f <= fired
  <2>1. HashAt(f)' = HashAt(f)
    BY <1>1 DEF HashAt
  <2>2. Guarded(HashAt(f))
    BY <2>1 DEF Guarded, Plain
  <2>3. Holds(n, f)
    BY <2>2 DEF Guarded
  <2>4. owner[HashAt(f)] = n
    BY <2>2, <2>3 DEF LockOwned
  <2>5. QED
    BY <2>1, <2>4, HashType
<1>2. CASE ~(f <= fired)
  <2>1. phase[n][f] = "none"
    BY <1>2, BoundAssumption DEF Bookkeeping, TypeOK, Firing
  <2>2. ~Holds(n, f)
    BY <2>1 DEF Holds
  <2>3. QED
    BY <1>2, <2>2
<1>3. QED
  BY <1>1, <1>2

\* A goroutine step leaves the lock with any other goroutine that holds it.
LEMMA StepKeepsOwner ==
    ASSUME LockInv, NEW n \in Node, NEW f \in Firing, Step(n, f),
           NEW m \in Node, NEW g \in Firing, m # n \/ g # f,
           Sound(m), Guarded(HashAt(g)), Holds(m, g)
    PROVE  owner'[HashAt(g)] = m
<1>1. owner[HashAt(g)] = m /\ m # Free
  BY FreeAssumption DEF LockInv, LockOwned
<1>2. m = n => HashAt(f) # HashAt(g)
  BY GoFacts, HoldsLive DEF LockInv, ClashRecorded, Guarded
<1>3. HashAt(f) \in Hash /\ HashAt(g) \in Hash
  BY HashType DEF LockInv
<1>4. ASSUME DropKeys(n, {HashAt(f)}) PROVE owner'[HashAt(g)] = m
  BY <1>1, <1>2, <1>3, <1>4, DropKeysOwner
<1>5. ASSUME Take(n, HashAt(f)) PROVE owner'[HashAt(g)] = m
  BY <1>1, <1>2, <1>3, <1>5 DEF Take, LockInv, TypeOK
<1>6. CASE UNCHANGED owner
  BY <1>1, <1>6
<1>7. QED
  BY <1>4, <1>5, <1>6
     DEF Step, CheckMap, Acquire, Withdraw, StoreMutex, ReadErr, HandlerReturns,
         UnLock, ReleaseKey, Queue, KeepKeys, lockVars

\* A goroutine that holds the lock after its step held it before, with the
\* owner unchanged, or has just been granted it.
LEMMA StepHolds ==
    ASSUME TypeOK, NEW n \in Node, NEW f \in Firing, Step(n, f), Holds(n, f)'
    PROVE  \/ Holds(n, f) /\ UNCHANGED owner
           \/ phase[n][f] = "trying" /\ Take(n, HashAt(f))
<1> USE DEF Holds, TypeOK, lockVars
<1>1. CASE CheckMap(n, f)
  BY <1>1 DEF CheckMap, Tried, Goto
<1>2. CASE Acquire(n, f)
  BY <1>2 DEF Acquire, Tried, Goto
<1>3. CASE Withdraw(n, f)
  BY <1>3 DEF Withdraw, Tried, Goto
<1>4. CASE StoreMutex(n, f)
  BY <1>4 DEF StoreMutex, Tried, Goto
<1>5. CASE ReadErr(n, f)
  BY <1>5 DEF ReadErr, Goto
<1>6. CASE HandlerReturns(n, f)
  BY <1>6 DEF HandlerReturns, Goto
<1>7. CASE UnLock(n, f)
  BY <1>7 DEF UnLock, Goto
<1>8. CASE ReleaseKey(n, f)
  BY <1>8 DEF ReleaseKey, Goto
<1>9. QED
  BY <1>1, <1>2, <1>3, <1>4, <1>5, <1>6, <1>7, <1>8 DEF Step

LEMMA LockOwnedNext == LockInv /\ [Next]_vars => LockOwned'
<1> SUFFICES ASSUME LockInv, [Next]_vars PROVE LockOwned'
  OBVIOUS
<1> USE DEF LockInv
<1>1. CASE UNCHANGED <<fired, src, phase, err, owner, clash, status, session>>
  BY <1>1 DEF LockOwned, Sound, Guarded, Holds, HashAt
<1>2. ASSUME NEW k \in Key, Fire(k) PROVE LockOwned'
  <2>1. /\ fired \in Nat
        /\ \A f \in Firing : f <= fired => src'[f] = src[f]
    BY <1>2, BoundAssumption DEF Fire, TypeOK, Firing
  <2>2. \A n \in Node, f \in Firing :
            phase'[n][f] = "queued" \/ phase'[n][f] = phase[n][f]
    BY <1>2 DEF Fire, TypeOK
  <2>3. UNCHANGED <<owner, err, clash, status, session>>
    BY <1>2 DEF Fire, nodeVars, lockVars, history
  <2>4. QED
    BY <2>1, <2>2, <2>3, QuietStep DEF Holds, Sound
<1>3. ASSUME NEW n \in Node, CycleAdd(n) PROVE LockOwned'
  <2>1. adding[n] \in Firing /\ adding[n] <= fired /\ src[adding[n]] \in Cyclic
    BY <1>3 DEF CycleAdd, TypeOK, Bookkeeping
  <2>2. ~Plain(HashAt(adding[n]))
    BY <2>1 DEF Plain, HashAt
  <2>3. \A m \in Node, g \in Firing :
            m # n \/ g # adding[n] => err'[m][g] = err[m][g]
    BY <1>3, <2>1 DEF CycleAdd, TypeOK
  <2>4. UNCHANGED <<owner, phase, clash, status, session, src>>
    BY <1>3 DEF CycleAdd, eventVars, nodeVars, lockVars, history
  <2>5. QED
    BY <2>1, <2>2, <2>3, <2>4, QuietStep DEF Holds, Sound
<1>4. ASSUME NEW n \in Node, NEW f \in Firing, Dispatch(n, f) PROVE LockOwned'
  <2>1. \A m \in Node, g \in Firing :
            phase'[m][g] \in {"start", "ended"} \/ phase'[m][g] = phase[m][g]
    <3>1. \E p \in {"start", "ended"} : Goto(n, f, p)
      BY <1>4 DEF Dispatch
    <3>2. QED
      BY <3>1 DEF Goto, TypeOK
  <2>2. UNCHANGED <<owner, err, status, session, src>> /\ clash \subseteq clash'
    BY <1>4 DEF Dispatch, eventVars, nodeVars, lockVars
  <2>3. QED
    BY <2>1, <2>2, QuietStep DEF Holds, Sound
<1>5. ASSUME NEW n \in Node, NEW f \in Firing, Step(n, f) PROVE LockOwned'
  <2> SUFFICES ASSUME NEW m \in Node, NEW g \in Firing,
                      Sound(m)', Guarded(HashAt(g))', Holds(m, g)'
               PROVE  owner'[HashAt(g)'] = m
    BY DEF LockOwned
  <2>1. /\ Sound(m) /\ Guarded(HashAt(g)) /\ HashAt(g)' = HashAt(g)
    BY <1>5, GoFacts DEF Sound, Guarded, HashAt
  <2>2. CASE m # n \/ g # f
    <3>1. Holds(m, g)
      BY <1>5, <2>2, GoFacts DEF Holds
    <3>2. QED
      BY <1>5, <2>1, <2>2, <3>1, StepKeepsOwner
  <2>3. CASE m = n /\ g = f
    <3>1. CASE Holds(n, f) /\ UNCHANGED owner
      BY <2>1, <2>3, <3>1 DEF LockOwned
    <3>2. CASE Take(n, HashAt(f))
      BY <2>1, <2>3, <3>2, HashType DEF Take, TypeOK
    <3>3. QED
      BY <1>5, <2>3, <3>1, <3>2, StepHolds
  <2>4. QED
    BY <2>2, <2>3
<1>6. ASSUME NEW n \in Node, Cancel(n) PROVE LockOwned'
  <2>1. \A m \in Node : Sound(m)' => Sound(m)
    BY <1>6 DEF Cancel, Sound, TypeOK
  <2>2. UNCHANGED <<owner, phase, err, clash, src>>
    BY <1>6 DEF Cancel, eventVars, goVars, lockVars, history
  <2>3. QED
    BY <2>1, <2>2, QuietStep DEF Holds
<1>7. ASSUME NEW n \in Node, StoreClose(n) PROVE LockOwned'
  <2>1. (\A m \in Node : Sound(m)' => Sound(m)) /\ ~Sound(n)'
    BY <1>7 DEF StoreClose, Sound, TypeOK
  <2>2. UNCHANGED <<phase, err, clash, src>>
    BY <1>7 DEF StoreClose, eventVars, goVars, history
  <2>3. \A m \in Node, h \in Hash : owner[h] = m /\ Sound(m)' => owner'[h] = m
    BY <1>7, <2>1, DropKeysOwner DEF StoreClose, KeepKeys
  <2>4. QED
    BY <2>1, <2>2, <2>3, QuietStep DEF Holds
<1>8. ASSUME NEW n \in Node, Crash(n) PROVE LockOwned'
  <2>1. \A m \in Node : Sound(m)' => Sound(m)
    BY <1>8 DEF Crash, Sound, TypeOK
  <2>2. UNCHANGED <<owner, clash, src>>
    BY <1>8 DEF Crash, eventVars, history
  <2>3. \A m \in Node, g \in Firing : Holds(m, g)' => Holds(m, g)
    BY <1>8 DEF Crash, Holds, TypeOK
  <2>4. QED
    BY <2>1, <2>2, <2>3, QuietStep
<1>9. ASSUME NEW n \in Node, SessionExpire(n) PROVE LockOwned'
  <2>1. (\A m \in Node : Sound(m)' => Sound(m)) /\ ~Sound(n)'
    BY <1>9 DEF SessionExpire, Sound, TypeOK
  <2>2. UNCHANGED <<phase, err, clash, src>>
    BY <1>9 DEF SessionExpire, eventVars, goVars, history
  <2>3. \A m \in Node, h \in Hash : owner[h] = m /\ Sound(m)' => owner'[h] = m
    BY <1>9, <2>1, DropKeysOwner DEF SessionExpire
  <2>4. QED
    BY <2>1, <2>2, <2>3, QuietStep DEF Holds
<1>10. QED
  BY <1>1, <1>2, <1>3, <1>4, <1>5, <1>6, <1>7, <1>8, <1>9
     DEF Next, Loop, vars, Tick, RegisterHandler, AddJob, eventVars, nodeVars,
         goVars, lockVars, history

LEMMA LockInvInit == Init => LockInv
<1>1. Init => LockOwned
  BY DEF Init, LockOwned, Holds
<1>2. QED
  BY <1>1, TypeInit, BookkeepingInit DEF LockInv

LEMMA LockInvNext == LockInv /\ [Next]_vars => LockInv'
BY TypeNext, BookkeepingNext, LockOwnedNext DEF LockInv

LEMMA LockInvExcludes == LockInv => Exclusion
BY DEF LockInv, LockOwned, Exclusion, Holds, Inside

\* Under a guarded lock no two sound nodes are in the handler at once, for any
\* number of nodes and expiries, whatever requests get lost or nodes fail.
THEOREM MutualExclusion == Spec => []Exclusion
<1>1. Spec => []LockInv
  BY LockInvInit, LockInvNext, PTL DEF Spec
<1>2. QED
  BY <1>1, LockInvExcludes, PTL

-----------------------------------------------------------------------------
(* At most one node runs an expiry.  The proof adds time to the invariant: *)
(* a winner that sleeps before UnLock has more of its sleep left than the  *)
(* other nodes have of their lag (WinnerWaits), so that whoever is still   *)
(* to ask for the lock finds it owned.                                     *)

\* A step that makes no new winner and ends no winner's hold on the lock.
LEMMA QuietOnce ==
    ASSUME OnceInv, clash \subseteq clash',
           \A n \in Node : Sound(n)' => Sound(n),
           \A f \in Firing : f <= fired => src'[f] = src[f],
           \A n \in Node, f \in Firing : Winner(n, f)' =>
               f <= fired /\ (Winner(n, f) \/ ~Plain(HashAt(f))),
           \A n \in Node, f \in Firing : phase'[n][f] \in Pending =>
               (f <= fired => phase[n][f] \in Pending),
           \A n \in Node, f \in Firing :
               Holds(n, f) /\ Sound(n)' /\ Plain(HashAt(f)) => Holds(n, f)',
           \A n \in Node, f \in Firing : phase'[n][f] = "holding" =>
               /\ phase[n][f] = "holding"
               /\ timer'[n][f] = timer[n][f] /\ lag'[f] = lag[f]
    PROVE  WinnerWaits' /\ OneWinner'
<1>1. ASSUME NEW f \in Firing, f <= fired, Guarded(HashAt(f))'
      PROVE  Guarded(HashAt(f)) /\ Plain(HashAt(f))
  BY <1>1 DEF Guarded, Plain, HashAt
<1>2. WinnerWaits'
  <2> SUFFICES ASSUME NEW f \in Firing, NEW a \in Node, NEW m \in Node,
                      a # m, Sound(a)', Sound(m)', Guarded(HashAt(f))',
                      Winner(a, f)', phase'[m][f] \in Pending
               PROVE  /\ Holds(a, f)'
                      /\ phase'[a][f] = "holding" =>
                             lag'[f] + HoldTime <= timer'[a][f] + MaxLag
    BY DEF WinnerWaits
  <2>1. /\ f <= fired /\ Guarded(HashAt(f)) /\ Plain(HashAt(f))
        /\ Winner(a, f) /\ phase[m][f] \in Pending
    BY <1>1
  <2>2. /\ Holds(a, f)
        /\ phase[a][f] = "holding" => lag[f] + HoldTime <= timer[a][f] + MaxLag
    BY <2>1 DEF OnceInv, WinnerWaits
  <2>3. QED
    BY <2>1, <2>2
<1>3. OneWinner'
  <2> SUFFICES ASSUME NEW f \in Firing, NEW a \in Node, NEW b \in Node,
                      Sound(a)', Sound(b)', Guarded(HashAt(f))',
                      Winner(a, f)', Winner(b, f)'
               PROVE  a = b
    BY DEF OneWinner
  <2>1. Guarded(HashAt(f)) /\ Winner(a, f) /\ Winner(b, f)
    BY <1>1
  <2>2. QED
    BY <2>1 DEF OnceInv, OneWinner
<1>4. QED
  BY <1>2, <1>3

\* No winner, and no goroutine, of an expiry that has not happened.
LEMMA WinnerFired ==
    ASSUME TypeOK, Bookkeeping, NEW n \in Node, NEW f \in Firing, Winner(n, f)
    PROVE  f <= fired
<1> SUFFICES ASSUME ~(f <= fired) PROVE FALSE
  OBVIOUS
<1>1. f > fired
  BY BoundAssumption DEF TypeOK, Firing
<1>2. QED
  BY <1>1 DEF Bookkeeping, Winner, Holds

\* A goroutine step never goes back on the way to the lock, and only the end
\* of the sleep gives up a lock that is held.
LEMMA HolderStep ==
    ASSUME TypeOK, NEW n \in Node, NEW f \in Firing, Step(n, f)
    PROVE  /\ phase'[n][f] \in Pending => phase[n][f] \in Pending
           /\ Holds(n, f) =>
                 \/ /\ Holds(n, f)'
                    /\ phase'[n][f] = "holding" => timer'[n][f] = HoldTime
                 \/ phase[n][f] = "holding" /\ timer[n][f] = 0
           /\ \A m \in Node, g \in Firing :
                 m # n \/ g # f => timer'[m][g] = timer[m][g]
<1> USE DEF Holds, TypeOK, Pending
<1>1. CASE CheckMap(n, f)
  BY <1>1 DEF CheckMap, Tried, Goto
<1>2. CASE Acquire(n, f)
  BY <1>2 DEF Acquire, Tried, Goto
<1>3. CASE Withdraw(n, f)
  BY <1>3 DEF Withdraw, Tried, Goto
<1>4. CASE StoreMutex(n, f)
  BY <1>4 DEF StoreMutex, Tried, Goto
<1>5. CASE ReadErr(n, f)
  BY <1>5 DEF ReadErr, Goto
<1>6. CASE HandlerReturns(n, f)
  BY <1>6 DEF HandlerReturns, Goto
<1>7. CASE UnLock(n, f)
  BY <1>7 DEF UnLock, Goto
<1>8. CASE ReleaseKey(n, f)
  BY <1>8 DEF ReleaseKey, Goto
<1>9. QED
  BY <1>1, <1>2, <1>3, <1>4, <1>5, <1>6, <1>7, <1>8 DEF Step

LEMMA LagNext == TypeOK /\ LagBounded /\ [Next]_vars => LagBounded'
<1> SUFFICES ASSUME TypeOK, LagBounded, [Next]_vars PROVE LagBounded'
  OBVIOUS
<1>1. CASE UNCHANGED lag
  BY <1>1 DEF LagBounded
<1>2. CASE Tick
  BY <1>2, TimeAssumption DEF Tick, Less, LagBounded, TypeOK
<1>3. ASSUME NEW k \in Key, Fire(k) PROVE LagBounded'
  BY <1>3, TimeAssumption DEF Fire, LagBounded, TypeOK
<1>4. QED
  BY <1>1, <1>2, <1>3, GoFacts
     DEF Next, Loop, vars, eventVars, RegisterHandler, AddJob, CycleAdd, Dispatch,
         Cancel, StoreClose, Crash, SessionExpire

\* Whoever wins by this step was a winner already or has just been granted the
\* lock.
LEMMA StepWinner ==
    ASSUME TypeOK, NEW n \in Node, NEW f \in Firing, Step(n, f),
           NEW m \in Node, NEW g \in Firing, Winner(m, g)'
    PROVE  \/ Winner(m, g)
           \/ m = n /\ g = f /\ phase[n][f] = "trying" /\ Take(n, HashAt(f))
<1>1. CASE m \in ran'[g]
  BY <1>1, RanFacts DEF Winner
<1>2. CASE Holds(m, g)' /\ (m # n \/ g # f)
  BY <1>2, GoFacts DEF Winner, Holds
<1>3. CASE Holds(m, g)' /\ m = n /\ g = f
  BY <1>3, StepHolds DEF Winner
<1>4. QED
  BY <1>1, <1>2, <1>3 DEF Winner

LEMMA StepOnce ==
    ASSUME OnceInv, MaxLag < HoldTime, NEW n \in Node, NEW f \in Firing, Step(n, f)
    PROVE  WinnerWaits' /\ OneWinner'
<1> USE DEF OnceInv, LockInv
<1>1. /\ \A m \in Node : Sound(m)' => Sound(m)
      /\ \A g \in Firing : HashAt(g)' = HashAt(g)
      /\ \A g \in Firing : Guarded(HashAt(g))' => Guarded(HashAt(g))
      /\ UNCHANGED lag
  BY GoFacts DEF Sound, HashAt, Guarded
<1>2. ASSUME NEW a \in Node, NEW g \in Firing, Sound(a), Sound(n),
             Guarded(HashAt(g)), Winner(a, g), phase[n][g] = "trying", Take(n, HashAt(g))
      PROVE  a = n
  <2> SUFFICES ASSUME a # n PROVE FALSE
    OBVIOUS
  <2>1. Holds(a, g)
    BY <1>2 DEF WinnerWaits, Pending
  <2>2. owner[HashAt(g)] = a
    BY <1>2, <2>1 DEF LockOwned
  <2>3. QED
    BY <1>2, <2>2, FreeAssumption DEF Take
<1>3. WinnerWaits'
  <2> SUFFICES ASSUME NEW g \in Firing, NEW a \in Node, NEW m \in Node,
                      a # m, Sound(a)', Sound(m)', Guarded(HashAt(g))',
                      Winner(a, g)', phase'[m][g] \in Pending
               PROVE  /\ Holds(a, g)'
                      /\ phase'[a][g] = "holding" =>
                             lag'[g] + HoldTime <= timer'[a][g] + MaxLag
    BY DEF WinnerWaits
  <2>1. /\ Sound(a) /\ Sound(m) /\ Guarded(HashAt(g))
        /\ phase[m][g] \in Pending
    BY <1>1, GoFacts, HolderStep
  <2>2. CASE Winner(a, g) /\ (a # n \/ g # f)
    <3>1. /\ Holds(a, g)
          /\ phase[a][g] = "holding" => lag[g] + HoldTime <= timer[a][g] + MaxLag
      BY <2>1, <2>2 DEF WinnerWaits
    <3>2. QED
      BY <1>1, <2>2, <3>1, GoFacts, HolderStep DEF Holds
  <2>3. CASE Winner(a, g) /\ a = n /\ g = f
    <3>1. /\ Holds(n, f)
          /\ phase[n][f] = "holding" => lag[f] + HoldTime <= timer[n][f] + MaxLag
      BY <2>1, <2>3 DEF WinnerWaits
    <3>2. ~(phase[n][f] = "holding" /\ timer[n][f] = 0)
      BY <3>1, TimeAssumption DEF TypeOK
    <3>3. /\ Holds(n, f)'
          /\ phase'[n][f] = "holding" => timer'[n][f] = HoldTime
      BY <3>1, <3>2, HolderStep
    <3>4. lag[f] \in Nat /\ lag[f] <= MaxLag
      BY DEF LagBounded, TypeOK
    <3>5. QED
      BY <1>1, <2>3, <3>3, <3>4, TimeAssumption
  <2>4. CASE ~Winner(a, g)
    <3>1. a = n /\ g = f /\ phase[n][f] = "trying"
      BY <2>4, StepWinner
    <3>2. ~Holds(n, f)
      BY <2>4, <3>1 DEF Winner
    <3>3. Holds(n, f)'
      BY <2>4, <3>1, <3>2, RanFacts DEF Winner
    <3>4. phase'[n][f] # "holding"
      BY <3>1 DEF Step, CheckMap, Acquire, Withdraw, StoreMutex, ReadErr,
         HandlerReturns, UnLock, ReleaseKey, Tried, Goto, TypeOK
    <3>5. QED
      BY <3>1, <3>3, <3>4
  <2>5. QED
    BY <2>2, <2>3, <2>4
<1>4. OneWinner'
  <2> SUFFICES ASSUME NEW g \in Firing, NEW a \in Node, NEW b \in Node,
                      Sound(a)', Sound(b)', Guarded(HashAt(g))',
                      Winner(a, g)', Winner(b, g)'
               PROVE  a = b
    BY DEF OneWinner
  <2>1. Sound(a) /\ Sound(b) /\ Guarded(HashAt(g))
    BY <1>1
  <2>2. CASE Winner(a, g) /\ Winner(b, g)
    BY <2>1, <2>2 DEF OneWinner
  <2>3. CASE ~Winner(a, g)
    <3>1. a = n /\ g = f /\ phase[n][f] = "trying" /\ Take(n, HashAt(f))
      BY <2>3, StepWinner
    <3>2. Winner(b, g) \/ b = n
      BY StepWinner
    <3>3. QED
      BY <1>2, <2>1, <3>1, <3>2
  <2>4. CASE ~Winner(b, g)
    <3>1. b = n /\ g = f /\ phase[n][f] = "trying" /\ Take(n, HashAt(f))
      BY <2>4, StepWinner
    <3>2. Winner(a, g) \/ a = n
      BY StepWinner
    <3>3. QED
      BY <1>2, <2>1, <3>1, <3>2
  <2>5. QED
    BY <2>2, <2>3, <2>4
<1>5. QED
  BY <1>3, <1>4

LEMMA OnceNext ==
    ASSUME MaxLag < HoldTime
    PROVE  OnceInv /\ [Next]_vars => OnceInv'
<1> SUFFICES ASSUME OnceInv, [Next]_vars PROVE WinnerWaits' /\ OneWinner'
  BY LockInvNext, LagNext DEF OnceInv, LockInv
<1> USE DEF Winner, Sound, Holds
<1>0. TypeOK /\ Bookkeeping /\ \A n \in Node, f \in Firing : Winner(n, f) => f <= fired
  BY WinnerFired DEF OnceInv, LockInv
<1>1. CASE UNCHANGED <<fired, src, lag, timer, phase, err, ran, clash, status, session>>
  BY <1>0, <1>1, QuietOnce
<1>2. CASE Tick
  <2>1. UNCHANGED <<fired, src, phase, err, ran, clash, status, session>>
    BY <1>2 DEF Tick, nodeVars, history
  <2>2. \A f \in Firing : HashAt(f)' = HashAt(f) /\ Guarded(HashAt(f))' = Guarded(HashAt(f))
    BY <2>1 DEF HashAt, Guarded
  <2>3. OneWinner'
    BY <2>1, <2>2 DEF OnceInv, OneWinner
  <2>4. WinnerWaits'
    <3> SUFFICES ASSUME NEW f \in Firing, NEW a \in Node, NEW m \in Node,
                        a # m, Sound(a), Sound(m), Guarded(HashAt(f)),
                        Winner(a, f), phase[m][f] \in Pending,
                        phase[a][f] = "holding" =>
                            lag[f] + HoldTime <= timer[a][f] + MaxLag
                 PROVE  phase[a][f] = "holding" =>
                            lag'[f] + HoldTime <= timer'[a][f] + MaxLag
      BY <2>1, <2>2 DEF OnceInv, WinnerWaits
    <3>1. f \in 1..fired
      BY <1>0 DEF Firing, TypeOK
    <3>2. lag[f] # 0
      BY <1>2, <3>1 DEF Tick
    <3>3. /\ lag[f] \in Nat /\ timer[a][f] \in Nat
          /\ lag'[f] = Less(lag[f]) /\ timer'[a][f] = Less(timer[a][f])
      BY <1>0, <1>2 DEF Tick, TypeOK
    <3>4. QED
      BY <3>2, <3>3, TimeAssumption DEF Less
  <2>5. QED
    BY <2>3, <2>4
<1>3. ASSUME NEW k \in Key, Fire(k) PROVE WinnerWaits' /\ OneWinner'
  <2>1. /\ fired \in Nat /\ fired < MaxFirings
        /\ \A f \in Firing : f <= fired => src'[f] = src[f] /\ lag'[f] = lag[f]
    BY <1>0, <1>3, BoundAssumption DEF Fire, TypeOK, Firing
  <2>2. \A n \in Node, f \in Firing :
            /\ phase'[n][f] = "queued" \/ phase'[n][f] = phase[n][f]
            /\ f <= fired => phase'[n][f] = phase[n][f]
    BY <1>0, <1>3, <2>1 DEF Fire, TypeOK, Firing
  <2>3. UNCHANGED <<timer, err, ran, clash, status, session>>
    BY <1>3 DEF Fire, nodeVars, history
  <2>4. \A n \in Node, f \in Firing : phase[n][f] = "holding" => f <= fired
    BY <1>0
  <2>5. QED
    BY <1>0, <2>1, <2>2, <2>3, <2>4, QuietOnce
<1>4. ASSUME NEW n \in Node, CycleAdd(n) PROVE WinnerWaits' /\ OneWinner'
  <2>1. adding[n] \in Firing /\ adding[n] <= fired /\ src[adding[n]] \in Cyclic
    BY <1>0, <1>4 DEF CycleAdd, TypeOK, Bookkeeping
  <2>2. ~Plain(HashAt(adding[n]))
    BY <2>1 DEF Plain, HashAt
  <2>3. \A m \in Node, g \in Firing :
            m # n \/ g # adding[n] => err'[m][g] = err[m][g]
    BY <1>0, <1>4, <2>1 DEF CycleAdd, TypeOK
  <2>4. UNCHANGED <<fired, src, lag, timer, phase, ran, clash, status, session>>
    BY <1>4 DEF CycleAdd, eventVars, nodeVars, history
  <2>5. QED
    BY <1>0, <2>1, <2>2, <2>3, <2>4, QuietOnce
<1>5. ASSUME NEW n \in Node, NEW f \in Firing, Dispatch(n, f)
      PROVE  WinnerWaits' /\ OneWinner'
  <2>1. \A m \in Node, g \in Firing :
            \/ phase'[m][g] = phase[m][g]
            \/ phase[m][g] = "queued" /\ phase'[m][g] \in {"start", "ended"}
    <3>1. phase[n][f] = "queued" /\ \E p \in {"start", "ended"} : Goto(n, f, p)
      BY <1>5 DEF Dispatch
    <3>2. QED
      BY <1>0, <3>1 DEF Goto, TypeOK
  <2>2. /\ UNCHANGED <<fired, src, lag, timer, err, ran, status, session>>
        /\ clash \subseteq clash'
    BY <1>5 DEF Dispatch, eventVars, nodeVars
  <2>3. QED
    BY <1>0, <2>1, <2>2, QuietOnce DEF Pending
<1>6. ASSUME NEW n \in Node, NEW f \in Firing, Step(n, f)
      PROVE  WinnerWaits' /\ OneWinner'
  BY <1>6, StepOnce
<1>7. ASSUME NEW n \in Node,
             Cancel(n) \/ StoreClose(n) \/ SessionExpire(n)
      PROVE  WinnerWaits' /\ OneWinner'
  <2>1. \A m \in Node : Sound(m)' => Sound(m)
    BY <1>0, <1>7 DEF Cancel, StoreClose, SessionExpire, TypeOK
  <2>2. UNCHANGED <<fired, src, lag, timer, phase, err, ran, clash>>
    BY <1>7 DEF Cancel, StoreClose, SessionExpire, eventVars, goVars, history
  <2>3. QED
    BY <1>0, <2>1, <2>2, QuietOnce
<1>8. ASSUME NEW n \in Node, Crash(n) PROVE WinnerWaits' /\ OneWinner'
  <2>1. (\A m \in Node : Sound(m)' => Sound(m)) /\ ~Sound(n)'
    BY <1>0, <1>8 DEF Crash, TypeOK
  <2>2. UNCHANGED <<fired, src, lag, ran, clash>>
    BY <1>8 DEF Crash, eventVars, history
  <2>3. \A m \in Node, g \in Firing :
            /\ m = n => phase'[m][g] = "none"
            /\ m # n => /\ phase'[m][g] = phase[m][g]
                        /\ err'[m][g] = err[m][g]
                        /\ timer'[m][g] = timer[m][g]
    BY <1>0, <1>8 DEF Crash, TypeOK
  <2>4. QED
    BY <1>0, <2>1, <2>2, <2>3, QuietOnce DEF Pending
<1>9. QED
  BY <1>1, <1>2, <1>3, <1>4, <1>5, <1>6, <1>7, <1>8
     DEF Next, Loop, vars, RegisterHandler, AddJob, eventVars, nodeVars, goVars,
         history

LEMMA OnceInit == Init => OnceInv
<1>1. Init => LagBounded /\ WinnerWaits /\ OneWinner
  BY TimeAssumption DEF Init, LagBounded, WinnerWaits, OneWinner, Winner, Holds
<1>2. QED
  BY <1>1, LockInvInit DEF OnceInv

LEMMA OnceInvOnce == OnceInv => AtMostOnce
BY DEF OnceInv, LockInv, TypeOK, OneWinner, Winner, AtMostOnce

\* If every live node asks for the lock sooner after an expiry than the sleep
\* before UnLock lasts, an expiry is run by at most one sound node under a
\* guarded lock, for any number of nodes and expiries.
THEOREM RunAtMostOnce ==
    ASSUME MaxLag < HoldTime
    PROVE  Spec => []AtMostOnce
<1>1. Spec => []OnceInv
  <2>1. OnceInv /\ [Next]_vars => OnceInv'
    BY OnceNext
  <2>2. QED
    BY <2>1, OnceInit, PTL DEF Spec
<1>2. QED
  BY <1>1, OnceInvOnce, PTL

-----------------------------------------------------------------------------
(* The lease of a saved job.                                               *)

LEMMA SaveNotEarly ==
    ASSUME TypeOK, NotEarly, NEW j \in Job, NEW d \in Nat, Save(j, d)
    PROVE  NotEarly'
<1>1. KeyOf[j] \in Key
  BY JobAssumption
<1>2. \A k \in Key : k # KeyOf[j] =>
          /\ stored'[k] = stored[k] /\ lease'[k] = lease[k]
          /\ remain'[k] = remain[k]
  BY DEF Save, TypeOK
<1>3. remain'[KeyOf[j]] = d /\ lease'[KeyOf[j]] = Granted(d)
  BY <1>1 DEF Save, TypeOK
<1>4. QED
  BY <1>2, <1>3, GrantedBound DEF NotEarly

\* However often keys are saved, overwritten and saved again by cyclic jobs, no
\* job is announced a whole second before its DelayTime.
THEOREM AnnouncedInTime == Spec => []NotEarly
<1>1. Init => NotEarly
  BY DEF Init, NotEarly
<1>2. TypeOK /\ NotEarly /\ [Next]_vars => NotEarly'
  <2> SUFFICES ASSUME TypeOK, NotEarly, [Next]_vars PROVE NotEarly'
    OBVIOUS
  <2>1. CASE UNCHANGED storeVars
    BY <2>1 DEF storeVars, NotEarly
  <2>2. CASE Tick
    <3> SUFFICES ASSUME NEW k \in Key, stored[k] # Gone
                 PROVE  Less(remain[k]) < Less(lease[k]) + Second
      BY <2>2 DEF Tick, NotEarly
    <3>1. /\ remain[k] \in Nat /\ lease[k] \in Nat
          /\ remain[k] < lease[k] + Second
      BY DEF NotEarly, TypeOK
    <3>2. QED
      BY <3>1, TimeAssumption DEF Less
  <2>3. ASSUME NEW k \in Key, Fire(k) PROVE NotEarly'
    BY <2>3 DEF Fire, NotEarly, TypeOK
  <2>4. ASSUME NEW n \in Node, NEW j \in Job, NEW d \in Delays, AddJob(n, j, d)
        PROVE  NotEarly'
    BY <2>4, SaveNotEarly, TimeAssumption DEF AddJob
  <2>5. ASSUME NEW n \in Node, CycleAdd(n) PROVE NotEarly'
    <3>1. src[adding[n]] \in Job /\ until[adding[n]] \in Nat
      BY <2>5 DEF CycleAdd, TypeOK
    <3>2. QED
      BY <2>5, <2>1, <3>1, SaveNotEarly DEF CycleAdd
  <2>6. ASSUME NEW n \in Node, NEW f \in Firing, Step(n, f) PROVE NotEarly'
    BY <2>1, <2>6, GoShape DEF Frame
  <2>7. QED
    BY <2>1, <2>2, <2>3, <2>4, <2>5, <2>6
       DEF Next, Loop, vars, storeVars, RegisterHandler, Dispatch, Cancel,
           StoreClose, Crash, SessionExpire
<1>3. QED
  BY <1>1, <1>2, TypeCorrect, PTL DEF Spec

=============================================================================
