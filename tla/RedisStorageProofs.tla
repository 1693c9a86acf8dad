------------------------- MODULE RedisStorageProofs -------------------------
(***************************************************************************)
(* Proofs about RedisStorage for any number of nodes and saves and for any *)
(* delays and leases: type correctness, mutual exclusion as long as no     *)
(* lease ends under a handler, and that only a second Save makes an early  *)
(* announcement.                                                           *)
(***************************************************************************)
EXTENDS RedisStorage, FiniteSetTheorems, TLAPS

\* The saves that have begun are the first k, and each expiry has used one up.
Counted ==
    \E k \in 0..MaxSaves :
        /\ \A s \in Saves : sv[s] # "new" <=> s <= k
        /\ fired <= k
        /\ key.by # Empty => fired < k

\* Whatever a node has been told of has happened.
Heard ==
    \A n \in Node :
        /\ \A j \in 1..Len(queue[n]) : queue[n][j] <= fired
        /\ at[n] \in {"get", "send"} => msg[n].ev \in 1..fired

TypeInv == TypeOK /\ Counted /\ Heard

\* Until a lease ends under it, a goroutine of an open node that was answered
\* or runs its handler is the owner of the lock.
Holds ==
    ~overran =>
        \A g \in Goroutine :
            go[g] \in {"obtained", "run"} /\ state[g[1]] = "open" => lock.by = g

USE NodeAssumption, SecondAssumption, DelayAssumption, LeaseAssumption, LimitAssumption, CloserAssumption

-----------------------------------------------------------------------------
(* The lock.                                                               *)

\* A goroutine is not the owner of a free lock.
LEMMA NobodyIsNone == Nobody \notin Goroutine
  BY DEF Nobody, Goroutine

\* The lock does not change hands and no goroutine comes nearer to its handler.
LEMMA SameHolds ==
    ASSUME Holds, lock'.by = lock.by, overran' = overran, state' = state,
           \A g \in Goroutine : go'[g] \in {go[g], "idle", "try", "done"}
    PROVE  Holds'
  BY DEF Holds

LEMMA TakeHolds ==
    ASSUME TypeOK, Holds, NEW n \in Node, Take(n) PROVE Holds'
<1>1. \A g \in Goroutine : go'[g] \in {go[g], "try"}
  BY DEF TypeOK, Take
<1> QED
  BY <1>1, SameHolds DEF Take

LEMMA RefusedHolds ==
    ASSUME TypeOK, Holds, NEW n \in Node, NEW e \in Events, Refused(n, e) PROVE Holds'
<1>1. \A g \in Goroutine : go'[g] \in {go[g], "done"}
  BY DEF TypeOK, Refused, Ask
<1> QED
  BY <1>1, SameHolds DEF Refused

\* An ending lease is noticed in overran if it matters.
LEMMA ExpireLockHolds ==
    ASSUME TypeOK, Holds, ExpireLock PROVE Holds'
  BY DEF TypeOK, Holds, ExpireLock

\* Only a free lock is obtained, so that nobody else holds it.
LEMMA ObtainHolds ==
    ASSUME TypeOK, Holds, NEW n \in Node, NEW e \in Events, Obtain(n, e) PROVE Holds'
<1>1. <<n, e>> \in Goroutine
  BY DEF Goroutine
<1>2. \A g \in Goroutine \ {<<n, e>>} : go'[g] = go[g]
  BY DEF TypeOK, Obtain, Ask
<1>3. lock.by = Nobody /\ lock'.by = <<n, e>> /\ state' = state /\ overran' = overran
  BY DEF Obtain
<1> QED
  BY <1>1, <1>2, <1>3, NobodyIsNone DEF Holds

LEMMA StoreLockHolds ==
    ASSUME TypeOK, Holds, NEW n \in Node, NEW e \in Events, StoreLock(n, e) PROVE Holds'
<1>1. <<n, e>> \in Goroutine
  BY DEF Goroutine
<1>2. \A g \in Goroutine : go'[g] = IF g = <<n, e>> THEN "run" ELSE go[g]
  BY <1>1 DEF TypeOK, StoreLock
<1> QED
  BY <1>1, <1>2 DEF Holds, StoreLock

\* The lock given back is the one under lockMap; when that is another
\* goroutine's of the node, this one would not run.
LEMMA UnLockHolds ==
    ASSUME TypeOK, Holds, NEW n \in Node, NEW e \in Events, UnLock(n, e) PROVE Holds'
<1>1. <<n, e>> \in Goroutine /\ go[<<n, e>>] = "run"
  BY DEF Goroutine, UnLock
<1>2. \A g \in Goroutine : go'[g] = IF g = <<n, e>> THEN "done" ELSE go[g]
  BY <1>1 DEF TypeOK, UnLock
<1>3. state' = state /\ overran' = overran
  BY DEF UnLock
<1>4. CASE lock' = lock
  BY <1>2, <1>3, <1>4 DEF Holds
<1>5. CASE state[n] = "open" /\ lock.by = <<n, lockMap[n]>>
  <2>1. ASSUME ~overran PROVE lock.by = <<n, e>>
    BY <1>1, <1>5, <2>1 DEF Holds
  <2> QED
    BY <1>2, <1>3, <2>1 DEF Holds
<1> QED
  BY <1>4, <1>5 DEF UnLock, Release

\* Close gives back no lock but one of its own node.
LEMMA CloseHolds ==
    ASSUME TypeOK, Holds, NEW n \in Node, Close(n) PROVE Holds'
<1>1. /\ \A m \in Node : state'[m] = IF m = n THEN "closed" ELSE state[m]
      /\ go' = go /\ overran' = overran
  BY DEF TypeOK, Close
<1>2. \A g \in Goroutine : g[1] \in Node
  BY DEF Goroutine
<1>3. CASE lock' = lock
  BY <1>1, <1>2, <1>3 DEF Holds
<1>4. CASE lock.by = <<n, lockMap[n]>>
  <2>1. \A g \in Goroutine : lock.by = g => g[1] = n
    BY <1>4
  <2> QED
    BY <1>1, <1>2, <2>1 DEF Holds
<1> QED
  BY <1>3, <1>4 DEF Close, Release

\* A step that has nothing to do with locks and handlers.
LEMMA OtherHolds ==
    ASSUME TypeOK, Holds, UNCHANGED <<go, state, overran>>, lock'.by = lock.by
    PROVE  Holds'
  BY DEF Holds

LEMMA NextHolds ==
    ASSUME TypeOK, Holds, [Next]_vars PROVE Holds'
<1>1. CASE Tick
  BY <1>1, OtherHolds DEF TypeOK, Tick
<1>2. CASE Expire \/ ExpireValue
  BY <1>2, OtherHolds DEF Expire, ExpireValue, lockVars
<1>3. ASSUME NEW s \in Saves, SaveValue(s) PROVE Holds'
  BY <1>3, OtherHolds DEF SaveValue, lockVars
<1>4. ASSUME NEW s \in Saves, NEW d \in Delays, SaveKey(s, d) PROVE Holds'
  BY <1>4, OtherHolds DEF SaveKey, lockVars
<1>5. ASSUME NEW n \in Node, Run(n) PROVE Holds'
  <2>1. CASE Receive(n) \/ Get(n)
    BY <2>1, OtherHolds DEF Receive, Get, lockVars
  <2>2. CASE Abandon(n) \/ RunEnds(n)
    BY <2>2, OtherHolds DEF Abandon, RunEnds, lockVars
  <2> QED
    BY <1>5, <2>1, <2>2, TakeHolds DEF Run
<1>6. CASE UNCHANGED vars
  BY <1>6, OtherHolds DEF vars, lockVars
<1> QED
  BY <1>1, <1>2, <1>3, <1>4, <1>5, <1>6, ExpireLockHolds, CloseHolds, RefusedHolds,
     ObtainHolds, StoreLockHolds, UnLockHolds DEF Next

-----------------------------------------------------------------------------
(* Types, and how many expiries there can be.                              *)

\* Life is a number of ticks and cuts off less than a second.
LEMMA LifeBound == \A d \in Nat : Life(d) \in Nat /\ d < Life(d) + Second
<1> TAKE d \in Nat
<1>1. CASE d < Second
  BY <1>1 DEF Life
<1>2. CASE d >= Second
  <2>1. d \div Second \in Nat
    OBVIOUS
  <2>2. d = Second * (d \div Second) + (d % Second) /\ d % Second \in 0..Second - 1
    OBVIOUS
  <2>3. (d \div Second) * Second \in Nat
    BY <2>1
  <2>4. Life(d) = (d \div Second) * Second
    BY <1>2 DEF Life
  <2>5. (d \div Second) * Second = Second * (d \div Second)
    BY <2>1
  <2> QED
    BY <2>1, <2>2, <2>3, <2>4, <2>5
<1> QED
  BY <1>1, <1>2

LEMMA LessType == \A t \in Nat : Less(t) \in Nat /\ Less(t) <= t
  BY DEF Less

LEMMA SameCounted ==
    ASSUME Counted, UNCHANGED <<sv, fired>>, key'.by \in {key.by, Empty}
    PROVE  Counted'
  BY DEF Counted

LEMMA SameHeard ==
    ASSUME Heard, UNCHANGED <<fired, queue>>,
           \A n \in Node : at'[n] \in {"get", "send"} =>
               at[n] \in {"get", "send"} /\ msg'[n].ev = msg[n].ev
    PROVE  Heard'
  BY DEF Heard

\* A step that leaves the saves, the keys and run() alone.
LEMMA OtherType ==
    ASSUME TypeInv, UNCHANGED <<saveVars, dataVars, runVars>>,
           state' \in [Node -> {"open", "closed"}],
           lock' \in [by : Goroutine \cup {Nobody}, left : Nat],
           lockMap' \in [Node -> 0..MaxSaves],
           go' \in [Goroutine -> {"idle", "try", "obtained", "run", "done"}],
           overran' \in BOOLEAN
    PROVE  TypeInv'
<1>1. TypeOK'
  BY DEF TypeInv, TypeOK, saveVars, dataVars, runVars
<1>2. Counted'
  BY SameCounted DEF TypeInv, saveVars, dataVars
<1>3. Heard'
  BY SameHeard DEF TypeInv, dataVars, runVars
<1> QED
  BY <1>1, <1>2, <1>3 DEF TypeInv

LEMMA InitType == Init => TypeInv
<1> SUFFICES ASSUME Init PROVE TypeInv
  OBVIOUS
<1>1. TypeOK
  <2>1. 0 \in 0..MaxSaves /\ 0 \in 0..MaxReached /\ <<>> \in Seq(Message)
    OBVIOUS
  <2>2. /\ key \in [by : Saves \cup {Empty}, left : Nat, grace : Nat]
        /\ value \in [by : Saves \cup {Empty}, left : Nat]
    BY DEF Init, Empty
  <2>3. msg \in [Node -> [ev : 0..MaxSaves, by : Saves \cup {Empty}]]
    BY <2>1 DEF Init, NoMessage, Empty
  <2>4. lock \in [by : Goroutine \cup {Nobody}, left : Nat]
    BY DEF Init
  <2> QED
    BY <2>1, <2>2, <2>3, <2>4 DEF Init, TypeOK
<1>2. Counted
  <2>1. 0 \in 0..MaxSaves /\ \A s \in Saves : ~(s <= 0)
    BY DEF Saves
  <2> QED
    BY <2>1 DEF Init, Counted, Empty
<1>3. Heard
  BY DEF Init, Heard
<1> QED
  BY <1>1, <1>2, <1>3 DEF TypeInv

LEMMA TickType == ASSUME TypeInv, Tick PROVE TypeInv'
<1>1. TypeOK'
  <2>1. key' \in [by : Saves \cup {Empty}, left : Nat, grace : Nat]
    BY LessType DEF TypeInv, TypeOK, Tick
  <2>2. value' \in [by : Saves \cup {Empty}, left : Nat]
    BY LessType DEF TypeInv, TypeOK, Tick
  <2>3. lock' \in [by : Goroutine \cup {Nobody}, left : Nat]
    BY LessType DEF TypeInv, TypeOK, Tick
  <2>4. due' \in [Saves -> Nat]
    BY LessType DEF TypeInv, TypeOK, Tick
  <2> QED
    BY <2>1, <2>2, <2>3, <2>4 DEF TypeInv, TypeOK, Tick, runVars
<1>2. Counted'
  BY SameCounted DEF TypeInv, TypeOK, Tick
<1>3. Heard'
  BY SameHeard DEF TypeInv, Tick, runVars
<1> QED
  BY <1>1, <1>2, <1>3 DEF TypeInv

\* A message of the present kind reaches some nodes.
LEMMA PublishType ==
    ASSUME TypeInv, NEW m \in Message, NEW R \in SUBSET Node, Publish(m, R)
    PROVE  /\ queue' \in [Node -> Seq(Message)]
           /\ \A n \in Node : queue'[n] \in {queue[n], Append(queue[n], m)}
  BY DEF TypeInv, TypeOK, Publish

LEMMA PublishHeard ==
    ASSUME TypeInv, NEW m \in Message, m <= fired', fired' \in Nat, fired <= fired',
           UNCHANGED <<at, msg>>,
           \A n \in Node : queue'[n] \in {queue[n], Append(queue[n], m)}
    PROVE  Heard'
<1>1. ASSUME NEW n \in Node, NEW j \in 1..Len(queue'[n]) PROVE queue'[n][j] <= fired'
  <2>1. queue[n] \in Seq(Message) /\ fired \in Nat
    BY DEF TypeInv, TypeOK
  <2>2. ASSUME j \in 1..Len(queue[n]) PROVE queue[n][j] <= fired'
    <3>1. queue[n][j] \in Message /\ queue[n][j] <= fired
      BY <2>1, <2>2 DEF TypeInv, Heard
    <3> QED
      BY <2>1, <3>1 DEF Message
  <2>3. CASE queue'[n] = queue[n]
    BY <1>1, <2>2, <2>3
  <2>4. CASE queue'[n] = Append(queue[n], m)
    BY <1>1, <2>1, <2>2, <2>4
  <2> QED
    BY <2>3, <2>4
<1>2. \A n \in Node : at[n] \in {"get", "send"} => msg[n].ev \in 1..fired'
  BY DEF TypeInv, TypeOK, Heard
<1> QED
  BY <1>1, <1>2 DEF Heard

LEMMA ExpireType == ASSUME TypeInv, Expire PROVE TypeInv'
<1>1. PICK R \in SUBSET Subscribed :
        /\ reached + Cardinality(R) <= MaxReached
        /\ reached' = reached + Cardinality(R)
        /\ Publish(fired + 1, R)
  BY DEF Expire
<1>2. Counted' /\ fired + 1 \in 1..MaxSaves /\ fired' = fired + 1
  <2>1. PICK k \in 0..MaxSaves :
            /\ \A s \in Saves : sv[s] # "new" <=> s <= k
            /\ fired <= k
            /\ key.by # Empty => fired < k
    BY DEF TypeInv, Counted
  <2>2. /\ fired' = fired + 1 /\ key'.by = Empty /\ sv' = sv
        /\ fired \in Nat /\ fired < k
    BY <2>1 DEF TypeInv, TypeOK, Expire, saveVars
  <2> QED
    BY <2>1, <2>2 DEF Counted
<1>3. Subscribed \subseteq Node
  BY DEF Subscribed
<1>4. /\ queue' \in [Node -> Seq(Message)]
      /\ \A n \in Node : queue'[n] \in {queue[n], Append(queue[n], fired + 1)}
  BY <1>1, <1>2, <1>3, PublishType DEF Message
<1>5. Heard'
  <2>1. fired \in Nat /\ fired + 1 \in Message
    BY <1>2 DEF TypeInv, TypeOK, Message
  <2> QED
    BY <1>2, <1>4, <2>1, PublishHeard DEF Expire
<1>6. TypeOK'
  <2>1. reached' \in 0..MaxReached
    <3>1. reached \in Nat /\ reached <= MaxReached /\ reached' <= MaxReached
      BY <1>1 DEF TypeInv, TypeOK
    <3>2. Cardinality(R) \in Nat
      BY <1>1, <1>3, FS_Subset, FS_CardinalityType
    <3>3. reached' \in Nat
      BY <1>1, <3>1, <3>2
    <3> QED
      BY <3>1, <3>3
  <2>2. key' \in [by : Saves \cup {Empty}, left : Nat, grace : Nat]
    BY DEF Expire
  <2> QED
    BY <1>2, <1>4, <2>1, <2>2 DEF TypeInv, TypeOK, Expire, saveVars, lockVars
<1> QED
  BY <1>2, <1>5, <1>6 DEF TypeInv

LEMMA ExpireValueType == ASSUME TypeInv, ExpireValue PROVE TypeInv'
<1>1. Subscribed \in SUBSET Node /\ 0 \in Message
  BY DEF Subscribed, Message
<1>2. /\ queue' \in [Node -> Seq(Message)]
      /\ \A n \in Node : queue'[n] \in {queue[n], Append(queue[n], 0)}
  BY <1>1, PublishType DEF ExpireValue
<1>3. Heard'
  <2>1. fired \in Nat /\ fired' = fired
    BY DEF TypeInv, TypeOK, ExpireValue
  <2> QED
    BY <1>1, <1>2, <2>1, PublishHeard DEF ExpireValue
<1>4. Counted'
  BY SameCounted DEF TypeInv, ExpireValue, saveVars
<1>5. TypeOK'
  <2>1. value' \in [by : Saves \cup {Empty}, left : Nat]
    BY DEF ExpireValue
  <2> QED
    BY <1>2, <2>1 DEF TypeInv, TypeOK, ExpireValue, saveVars, lockVars
<1> QED
  BY <1>3, <1>4, <1>5 DEF TypeInv

\* The saves begin in order, so that the next one is the first that has not.
LEMMA SaveKeyType ==
    ASSUME TypeInv, NEW s \in Saves, NEW d \in Delays, SaveKey(s, d) PROVE TypeInv'
<1>1. d \in Nat /\ Life(d) \in Nat
  BY LifeBound
<1>2. TypeOK'
  <2>1. key' \in [by : Saves \cup {Empty}, left : Nat, grace : Nat]
    <3>1. (IF d < Second THEN 0 ELSE Life(d)) \in Nat
      BY <1>1
    <3> QED
      BY <1>1, <3>1 DEF TypeInv, TypeOK, SaveKey
  <2>2. /\ sv' \in [Saves -> {"new", "half", "done", "lost"}]
        /\ due' \in [Saves -> Nat] /\ wish' \in [Saves -> Nat]
    BY <1>1 DEF TypeInv, TypeOK, SaveKey
  <2> QED
    BY <2>1, <2>2 DEF TypeInv, TypeOK, SaveKey, runVars, lockVars
<1>3. Counted'
  <2>1. PICK k \in 0..MaxSaves :
            /\ \A t \in Saves : sv[t] # "new" <=> t <= k
            /\ fired <= k
            /\ key.by # Empty => fired < k
    BY DEF TypeInv, Counted
  <2>2. s = k + 1
    <3>1. s > k
      BY <2>1 DEF SaveKey, Saves
    <3>2. ~(s > k + 1)
      <4>1. SUFFICES ASSUME s > k + 1 PROVE FALSE
        OBVIOUS
      <4>2. k + 1 \in Saves /\ k + 1 < s
        BY <4>1 DEF Saves
      <4>3. sv[k + 1] # "new"
        BY <4>2 DEF SaveKey
      <4> QED
        BY <2>1, <4>2, <4>3
    <3> QED
      BY <3>1, <3>2 DEF Saves
  <2>3. \A t \in Saves : sv'[t] # "new" <=> t <= k + 1
    BY <2>1, <2>2 DEF TypeInv, TypeOK, SaveKey, Saves
  <2>4. k + 1 \in 0..MaxSaves /\ fired' = fired /\ fired < k + 1 /\ fired \in Nat
    BY <2>1, <2>2 DEF SaveKey, Saves, TypeInv, TypeOK
  <2> QED
    BY <2>3, <2>4 DEF Counted
<1>4. Heard'
  BY SameHeard DEF TypeInv, SaveKey, runVars
<1> QED
  BY <1>2, <1>3, <1>4 DEF TypeInv

LEMMA SaveValueType ==
    ASSUME TypeInv, NEW s \in Saves, SaveValue(s) PROVE TypeInv'
<1>1. Life(2 * wish[s]) \in Nat
  <2>1. 2 * wish[s] \in Nat
    BY DEF TypeInv, TypeOK
  <2> QED
    BY <2>1, LifeBound
<1>2. TypeOK'
  <2>1. value' \in [by : Saves \cup {Empty}, left : Nat]
    BY <1>1 DEF TypeInv, TypeOK, SaveValue
  <2>2. /\ sv' \in [Saves -> {"new", "half", "done", "lost"}]
        /\ wish' \in [Saves -> Nat]
    BY DEF TypeInv, TypeOK, SaveValue
  <2> QED
    BY <2>1, <2>2 DEF TypeInv, TypeOK, SaveValue, runVars, lockVars
<1>3. \A t \in Saves : sv'[t] = "new" <=> sv[t] = "new"
  BY DEF TypeInv, TypeOK, SaveValue
<1>4. Counted'
  BY <1>3 DEF TypeInv, Counted, SaveValue
<1>5. Heard'
  BY SameHeard DEF TypeInv, SaveValue, runVars
<1> QED
  BY <1>2, <1>4, <1>5 DEF TypeInv

LEMMA ReceiveType == ASSUME TypeInv, NEW n \in Node, Receive(n) PROVE TypeInv'
<1>1. /\ queue[n] \in Seq(Message) /\ queue[n] # <<>>
      /\ Head(queue[n]) \in Message /\ Head(queue[n]) = queue[n][1]
      /\ Tail(queue[n]) \in Seq(Message)
      /\ \A j \in 1..Len(Tail(queue[n])) :
            j + 1 \in 1..Len(queue[n]) /\ Tail(queue[n])[j] = queue[n][j + 1]
  BY DEF TypeInv, TypeOK, Receive
<1>2. TypeOK'
  <2>1. msg' \in [Node -> [ev : 0..MaxSaves, by : Saves \cup {Empty}]]
    BY <1>1 DEF TypeInv, TypeOK, Receive, Message
  <2>2. queue' \in [Node -> Seq(Message)]
    BY <1>1 DEF TypeInv, TypeOK, Receive
  <2>3. at' \in [Node -> {"recv", "get", "send", "stuck", "ended"}]
    BY DEF TypeInv, TypeOK, Receive
  <2> QED
    BY <2>1, <2>2, <2>3 DEF TypeInv, TypeOK, Receive, saveVars, dataVars, lockVars
<1>3. Counted'
  BY SameCounted DEF TypeInv, Receive, saveVars, dataVars
<1>4. Heard'
  <2>1. \A m \in Node : \A j \in 1..Len(queue'[m]) : queue'[m][j] <= fired
    <3> TAKE m \in Node
    <3>1. CASE m = n
      BY <1>1, <3>1 DEF TypeInv, TypeOK, Heard, Receive
    <3>2. CASE m # n
      BY <3>2 DEF TypeInv, TypeOK, Heard, Receive
    <3> QED
      BY <3>1, <3>2
  <2>2. at'[n] = "get" => msg'[n].ev \in 1..fired
    <3>1. Head(queue[n]) <= fired
      BY <1>1 DEF TypeInv, Heard
    <3> QED
      BY <1>1, <3>1 DEF TypeInv, TypeOK, Receive, Message
  <2>3. at'[n] \in {"recv", "get"}
    BY DEF TypeInv, TypeOK, Receive
  <2>4. \A m \in Node \ {n} : at'[m] = at[m] /\ msg'[m] = msg[m]
    BY DEF TypeInv, TypeOK, Receive
  <2>5. fired' = fired
    BY DEF Receive, dataVars
  <2> QED
    BY <2>1, <2>2, <2>3, <2>4, <2>5 DEF TypeInv, Heard
<1> QED
  BY <1>2, <1>3, <1>4 DEF TypeInv

LEMMA GetType == ASSUME TypeInv, NEW n \in Node, Get(n) PROVE TypeInv'
<1>1. PICK v \in {value.by, Empty} :
        msg' = [msg EXCEPT ![n] = [ev |-> msg[n].ev, by |-> v]]
  BY DEF TypeInv, TypeOK, Get
<1>2. TypeOK'
  <2>1. msg' \in [Node -> [ev : 0..MaxSaves, by : Saves \cup {Empty}]]
    BY <1>1 DEF TypeInv, TypeOK
  <2>2. at' \in [Node -> {"recv", "get", "send", "stuck", "ended"}]
    BY DEF TypeInv, TypeOK, Get
  <2> QED
    BY <2>1, <2>2 DEF TypeInv, TypeOK, Get, saveVars, dataVars, lockVars
<1>3. Counted'
  BY SameCounted DEF TypeInv, Get, saveVars, dataVars
<1>4. Heard'
  <2>1. \A m \in Node : msg'[m].ev = msg[m].ev
    BY <1>1 DEF TypeInv, TypeOK
  <2>2. \A m \in Node : at'[m] \in {"get", "send"} => at[m] \in {"get", "send"}
    BY DEF TypeInv, TypeOK, Get
  <2> QED
    BY <2>1, <2>2, SameHeard DEF TypeInv, Get, dataVars
<1> QED
  BY <1>2, <1>3, <1>4 DEF TypeInv

\* run() has handed over its message, or never will.
LEMMA TakeType == ASSUME TypeInv, NEW n \in Node, Take(n) \/ Abandon(n) PROVE TypeInv'
<1>1. TypeOK'
  <2>1. msg' \in [Node -> [ev : 0..MaxSaves, by : Saves \cup {Empty}]]
    <3>1. msg' = [msg EXCEPT ![n] = NoMessage]
      BY DEF Take, Abandon
    <3> QED
      BY <3>1 DEF TypeInv, TypeOK, NoMessage
  <2>2. at' \in [Node -> {"recv", "get", "send", "stuck", "ended"}]
    <3>1. \E p \in {"recv", "stuck"} : at' = [at EXCEPT ![n] = p]
      BY DEF Take, Abandon
    <3> QED
      BY <3>1 DEF TypeInv, TypeOK
  <2>3. go' \in [Goroutine -> {"idle", "try", "obtained", "run", "done"}]
    BY DEF TypeInv, TypeOK, Take, Abandon, lockVars
  <2>4. UNCHANGED <<saveVars, dataVars, queue, state, lock, lockMap, overran>>
    BY DEF Take, Abandon, lockVars
  <2> QED
    BY <2>1, <2>2, <2>3, <2>4 DEF TypeInv, TypeOK, saveVars, dataVars
<1>2. Counted'
  BY SameCounted DEF TypeInv, Take, Abandon, saveVars, dataVars
<1>3. Heard'
  <2>1. \A m \in Node : at'[m] \in {"get", "send"} =>
            at[m] \in {"get", "send"} /\ msg'[m].ev = msg[m].ev
    BY DEF TypeInv, TypeOK, Take, Abandon
  <2> QED
    BY <2>1, SameHeard DEF TypeInv, Take, Abandon, dataVars
<1> QED
  BY <1>1, <1>2, <1>3 DEF TypeInv

LEMMA RunEndsType == ASSUME TypeInv, NEW n \in Node, RunEnds(n) PROVE TypeInv'
<1>1. TypeOK'
  BY DEF TypeInv, TypeOK, RunEnds, saveVars, dataVars, lockVars
<1>2. Counted'
  BY SameCounted DEF TypeInv, RunEnds, saveVars, dataVars
<1>3. Heard'
  <2>1. \A m \in Node : at'[m] \in {"get", "send"} =>
            at[m] \in {"get", "send"} /\ msg'[m].ev = msg[m].ev
    BY DEF TypeInv, TypeOK, RunEnds
  <2> QED
    BY <2>1, SameHeard DEF TypeInv, RunEnds, dataVars
<1> QED
  BY <1>1, <1>2, <1>3 DEF TypeInv

-----------------------------------------------------------------------------
(* Types of the lock, the goroutines and Close.                            *)

LEMMA ExpireLockType == ASSUME TypeInv, ExpireLock PROVE TypeInv'
<1>1. lock' \in [by : Goroutine \cup {Nobody}, left : Nat]
  BY DEF ExpireLock
<1>2. overran' \in BOOLEAN
  BY Zenon DEF ExpireLock
<1> QED
  BY <1>1, <1>2, OtherType DEF TypeInv, TypeOK, ExpireLock

\* Giving back the lock leaves it free or as it was.
LEMMA ReleaseType ==
    ASSUME TypeOK, NEW n \in Node, NEW e, lock' = lock \/ Release(n, e)
    PROVE  lock' \in [by : Goroutine \cup {Nobody}, left : Nat]
<1>1. lock' \in {lock, [by |-> Nobody, left |-> 0]}
  BY DEF Release
<1> QED
  BY <1>1 DEF TypeOK

LEMMA AskType ==
    ASSUME TypeInv, NEW n \in Node, NEW e \in Events,
           Refused(n, e) \/ Obtain(n, e) \/ StoreLock(n, e)
    PROVE  TypeInv'
<1>1. <<n, e>> \in Goroutine
  BY DEF Goroutine
<1>2. go' \in [Goroutine -> {"idle", "try", "obtained", "run", "done"}]
  <2>1. \E to \in {"obtained", "run", "done"} : go' = [go EXCEPT ![<<n, e>>] = to]
    BY DEF Refused, Obtain, StoreLock, Ask
  <2> QED
    BY <2>1 DEF TypeInv, TypeOK
<1>3. lock' \in [by : Goroutine \cup {Nobody}, left : Nat]
  <2>1. lock' \in {lock, [by |-> <<n, e>>, left |-> Lease]}
    BY DEF Refused, Obtain, StoreLock
  <2>2. [by |-> <<n, e>>, left |-> Lease] \in [by : Goroutine \cup {Nobody}, left : Nat]
    BY <1>1
  <2>3. lock \in [by : Goroutine \cup {Nobody}, left : Nat]
    BY DEF TypeInv, TypeOK
  <2> QED
    BY <2>1, <2>2, <2>3
<1>4. lockMap' \in [Node -> 0..MaxSaves]
  BY DEF TypeInv, TypeOK, Refused, Obtain, StoreLock, Events
<1>5. UNCHANGED <<saveVars, dataVars, runVars, state, overran>>
  BY DEF Refused, Obtain, StoreLock
<1> QED
  BY <1>2, <1>3, <1>4, <1>5, OtherType DEF TypeInv, TypeOK

LEMMA UnLockType ==
    ASSUME TypeInv, NEW n \in Node, NEW e \in Events, UnLock(n, e) PROVE TypeInv'
<1>1. go' \in [Goroutine -> {"idle", "try", "obtained", "run", "done"}]
  BY DEF TypeInv, TypeOK, UnLock
<1>2. lock' \in [by : Goroutine \cup {Nobody}, left : Nat]
  BY ReleaseType DEF TypeInv, UnLock
<1>3. lockMap' \in [Node -> 0..MaxSaves]
  BY DEF TypeInv, TypeOK, UnLock
<1> QED
  BY <1>1, <1>2, <1>3, OtherType DEF TypeInv, TypeOK, UnLock

LEMMA CloseType == ASSUME TypeInv, NEW n \in Node, Close(n) PROVE TypeInv'
<1>1. state' \in [Node -> {"open", "closed"}]
  BY DEF TypeInv, TypeOK, Close
<1>2. lock' \in [by : Goroutine \cup {Nobody}, left : Nat]
  BY ReleaseType DEF TypeInv, Close
<1> QED
  BY <1>1, <1>2, OtherType DEF TypeInv, TypeOK, Close

LEMMA NextType == TypeInv /\ [Next]_vars => TypeInv'
<1> SUFFICES ASSUME TypeInv, [Next]_vars PROVE TypeInv'
  OBVIOUS
<1>1. ASSUME NEW n \in Node, Run(n) PROVE TypeInv'
  BY <1>1, ReceiveType, GetType, TakeType, RunEndsType DEF Run
<1>2. CASE UNCHANGED vars
  BY <1>2, OtherType DEF TypeInv, TypeOK, vars, lockVars
<1> QED
  BY <1>1, <1>2, TickType, ExpireType, ExpireValueType, ExpireLockType, SaveKeyType,
     SaveValueType, AskType, UnLockType, CloseType DEF Next

-----------------------------------------------------------------------------
(* Early announcements.                                                    *)

\* Nobody but perhaps s has begun to save.
Only(s) == \A t \in Saves \ {s} : sv[t] = "new"

\* Who wrote what is there has begun its save.
Writers ==
    /\ key.by # Empty => sv[key.by] # "new"
    /\ value.by # Empty => sv[value.by] # "new"
    /\ \A n \in Node : msg[n].by # Empty => sv[msg[n].by] # "new"

\* The only save there is: its key is not ahead of the delay by a second, neither
\* while it is there nor when it has gone.
OnTime ==
    \A s \in Saves :
        Only(s) /\ sv[s] # "new" =>
            /\ key.by = s => due[s] < key.left + Second
            /\ fired > 0 => due[s] < Second

EarlyInv == TypeInv /\ Writers /\ OnTime

\* Steps that leave the saves alone and bring no value to a node.
LEMMA SameWriters ==
    ASSUME EarlyInv, sv' = sv, key'.by \in {key.by, Empty}, value'.by \in {value.by, Empty},
           \A n \in Node : msg'[n].by \in {msg[n].by, value.by, Empty}
    PROVE  Writers'
  BY DEF EarlyInv, Writers

LEMMA SameOnTime ==
    ASSUME EarlyInv, UNCHANGED <<sv, due, key, fired>>
    PROVE  OnTime'
  BY DEF EarlyInv, OnTime, Only

\* A step of run(), the lock, a goroutine or Close.
LEMMA NodeEarly ==
    ASSUME EarlyInv, TypeInv', UNCHANGED <<saveVars, dataVars>>,
           \A n \in Node : msg'[n].by \in {msg[n].by, value.by, Empty}
    PROVE  EarlyInv'
<1>1. Writers'
  BY SameWriters DEF saveVars, dataVars
<1>2. OnTime'
  BY SameOnTime DEF saveVars, dataVars
<1> QED
  BY <1>1, <1>2 DEF EarlyInv

LEMMA TickEarly == ASSUME EarlyInv, TypeInv', Tick PROVE EarlyInv'
<1>1. /\ key'.by = key.by /\ key'.left = Less(key.left) /\ value'.by = value.by
      /\ \A s \in Saves : due'[s] = Less(due[s])
      /\ sv' = sv /\ fired' = fired /\ msg' = msg
      /\ key.left \in Nat /\ \A s \in Saves : due[s] \in Nat
  BY DEF EarlyInv, TypeInv, TypeOK, Tick, runVars
<1>2. Writers'
  BY <1>1, SameWriters
<1>3. \A s \in Saves : due[s] < key.left + Second => due'[s] < key'.left + Second
  BY <1>1 DEF Less
<1>4. \A s \in Saves : due[s] < Second => due'[s] < Second
  BY <1>1 DEF Less
<1>5. OnTime'
  BY <1>1, <1>3, <1>4 DEF EarlyInv, OnTime, Only
<1> QED
  BY <1>2, <1>5 DEF EarlyInv

\* What expires was written by the only save, and its time is over.
LEMMA ExpireEarly == ASSUME EarlyInv, TypeInv', Expire PROVE EarlyInv'
<1>1. /\ key.by \in Saves /\ key.left = 0 /\ key'.by = Empty
      /\ UNCHANGED <<sv, due, value, msg>>
  BY DEF EarlyInv, TypeInv, TypeOK, Expire, saveVars
<1>2. Writers'
  BY <1>1, SameWriters
<1>3. \A s \in Saves : Only(s) /\ sv[s] # "new" => due[s] < Second
  <2> SUFFICES ASSUME NEW s \in Saves, Only(s), sv[s] # "new" PROVE due[s] < Second
    OBVIOUS
  <2>1. key.by = s
    BY <1>1 DEF EarlyInv, Writers, Only, Empty, Saves
  <2> QED
    BY <1>1, <2>1 DEF EarlyInv, OnTime
<1>4. OnTime'
  BY <1>1, <1>3 DEF OnTime, Only, Empty, Saves
<1> QED
  BY <1>2, <1>4 DEF EarlyInv

LEMMA ExpireValueEarly == ASSUME EarlyInv, TypeInv', ExpireValue PROVE EarlyInv'
<1>1. UNCHANGED <<sv, due, key, fired, msg>> /\ value'.by = Empty
  BY DEF ExpireValue, saveVars
<1>2. Writers'
  BY <1>1, SameWriters
<1> QED
  BY <1>1, <1>2, SameOnTime DEF EarlyInv

\* The first save finds no expiry and asks for a life that is short of its delay
\* by less than a second; a later one is not the only one.
LEMMA SaveKeyEarlyInv ==
    ASSUME EarlyInv, TypeInv', NEW s \in Saves, NEW d \in Delays, SaveKey(s, d)
    PROVE  EarlyInv'
<1>1. /\ \A t \in Saves : sv'[t] = IF t = s THEN "half" ELSE sv[t]
      /\ \A t \in Saves : due'[t] = IF t = s THEN d ELSE due[t]
      /\ sv[s] = "new" /\ value' = value /\ msg' = msg /\ fired' = fired
  BY DEF EarlyInv, TypeInv, TypeOK, SaveKey, runVars
<1>2. key' = key \/ (key'.by = s /\ key'.left = Life(d))
  BY DEF SaveKey
<1>3. Writers'
  <2>1. /\ key.by \in Saves \cup {Empty} /\ value.by \in Saves \cup {Empty}
        /\ \A n \in Node : msg[n].by \in Saves \cup {Empty}
    BY DEF EarlyInv, TypeInv, TypeOK
  <2> QED
    BY <1>1, <1>2, <2>1 DEF EarlyInv, Writers, Empty
<1>4. ASSUME Only(s) PROVE key.by = Empty /\ fired = 0
  <2>1. \A t \in Saves : sv[t] = "new"
    BY <1>1, <1>4 DEF Only
  <2>2. PICK k \in 0..MaxSaves : (\A t \in Saves : sv[t] # "new" <=> t <= k) /\ fired <= k
    BY DEF EarlyInv, TypeInv, Counted
  <2>3. k = 0
    <3>1. k > 0 => k \in Saves
      BY DEF Saves
    <3> QED
      BY <2>1, <2>2, <3>1
  <2>4. key.by \in Saves \cup {Empty} /\ fired \in Nat
    BY DEF EarlyInv, TypeInv, TypeOK
  <2> QED
    BY <2>1, <2>2, <2>3, <2>4 DEF EarlyInv, Writers
<1>5. d < Life(d) + Second
  BY LifeBound
<1>6. \A t \in Saves : Only(t)' /\ sv'[t] # "new" => t = s /\ Only(s)
  BY <1>1 DEF Only
<1>7. OnTime'
  <2> SUFFICES ASSUME NEW t \in Saves, Only(t)', sv'[t] # "new"
               PROVE  (key.by = t => due[t] < key.left + Second)'
                      /\ (fired > 0 => due[t] < Second)'
    BY DEF OnTime
  <2>1. t = s /\ Only(s)
    BY <1>6
  <2>2. due'[s] = d /\ fired' = 0 /\ key.by = Empty /\ Empty # s
    BY <1>1, <1>4, <2>1 DEF Empty, Saves
  <2> QED
    BY <1>2, <1>5, <2>1, <2>2
<1> QED
  BY <1>3, <1>7 DEF EarlyInv

LEMMA SaveValueEarly ==
    ASSUME EarlyInv, TypeInv', NEW s \in Saves, SaveValue(s) PROVE EarlyInv'
<1>1. /\ \A t \in Saves : sv'[t] = "new" <=> sv[t] = "new"
      /\ sv[s] # "new" /\ UNCHANGED <<due, key, fired, msg>>
  BY DEF EarlyInv, TypeInv, TypeOK, SaveValue, runVars
<1>2. value' = value \/ value'.by = s
  BY DEF SaveValue
<1>3. Writers'
  <2>1. /\ key.by \in Saves \cup {Empty} /\ value.by \in Saves \cup {Empty}
        /\ \A n \in Node : msg[n].by \in Saves \cup {Empty}
    BY DEF EarlyInv, TypeInv, TypeOK
  <2> QED
    BY <1>1, <1>2, <2>1 DEF EarlyInv, Writers
<1>4. OnTime'
  BY <1>1 DEF EarlyInv, OnTime, Only
<1> QED
  BY <1>3, <1>4 DEF EarlyInv

LEMMA RunEarly == ASSUME EarlyInv, TypeInv', NEW n \in Node, Run(n) PROVE EarlyInv'
<1>1. UNCHANGED <<saveVars, dataVars>>
  BY DEF Run, Receive, Get, Take, Abandon, RunEnds
<1>2. msg \in [Node -> [ev : 0..MaxSaves, by : Saves \cup {Empty}]]
  BY DEF EarlyInv, TypeInv, TypeOK
<1>3. \A m \in Node : msg'[m].by \in {msg[m].by, value.by, Empty}
  <2>1. CASE Receive(n)
    <3>1. msg' = [msg EXCEPT ![n] = [ev |-> Head(queue[n]), by |-> Empty]]
      BY <2>1 DEF Receive
    <3> QED
      BY <1>2, <3>1
  <2>2. CASE Get(n)
    <3>1. \E v \in {value.by, Empty} : msg' = [msg EXCEPT ![n] = [ev |-> msg[n].ev, by |-> v]]
      BY <1>2, <2>2 DEF Get
    <3> QED
      BY <1>2, <3>1
  <2>3. CASE Take(n) \/ Abandon(n)
    <3>1. msg' = [msg EXCEPT ![n] = [ev |-> 0, by |-> Empty]]
      BY <2>3 DEF Take, Abandon, NoMessage
    <3> QED
      BY <1>2, <3>1
  <2>4. CASE RunEnds(n)
    BY <2>4 DEF RunEnds
  <2> QED
    BY <2>1, <2>2, <2>3, <2>4 DEF Run
<1> QED
  BY <1>1, <1>3, NodeEarly

LEMMA NextEarly == EarlyInv /\ [Next]_vars => EarlyInv'
<1> SUFFICES ASSUME EarlyInv, [Next]_vars PROVE EarlyInv'
  OBVIOUS
<1>1. TypeInv'
  BY NextType DEF EarlyInv
<1>2. ASSUME UNCHANGED <<saveVars, dataVars, runVars>> PROVE EarlyInv'
  BY <1>1, <1>2, NodeEarly DEF runVars
<1>3. CASE ExpireLock \/ UNCHANGED vars
  BY <1>2, <1>3 DEF ExpireLock, vars
<1>4. ASSUME NEW n \in Node, Close(n) PROVE EarlyInv'
  BY <1>2, <1>4 DEF Close
<1>5. ASSUME NEW n \in Node, NEW e \in Events,
             Refused(n, e) \/ Obtain(n, e) \/ StoreLock(n, e) \/ UnLock(n, e)
      PROVE  EarlyInv'
  BY <1>2, <1>5 DEF Refused, Obtain, StoreLock, UnLock
<1> QED
  BY <1>1, <1>3, <1>4, <1>5, TickEarly, ExpireEarly, ExpireValueEarly, SaveKeyEarlyInv,
     SaveValueEarly, RunEarly DEF Next

LEMMA InitEarly == Init => EarlyInv
<1> SUFFICES ASSUME Init PROVE EarlyInv
  OBVIOUS
<1>1. Writers
  BY DEF Init, Writers, NoMessage
<1>2. OnTime
  BY DEF Init, OnTime
<1> QED
  BY <1>1, <1>2, InitType DEF EarlyInv

-----------------------------------------------------------------------------
(* The value outlives the key.                                             *)

\* Twice the delay gives at least twice the life, but for delays below a second.
LEMMA TwiceLife ==
    \A d \in Nat : Life(d) + (IF d < Second THEN 0 ELSE Life(d)) <= Life(2 * d)
<1> TAKE d \in Nat
<1>1. CASE d < Second
  <2>1. Second <= Life(2 * d)
    <3>1. CASE 2 * d < Second
      BY <3>1 DEF Life
    <3>2. CASE 2 * d >= Second
      <4> DEFINE q == (2 * d) \div Second
      <4>1. q \in Nat /\ 2 * d = Second * q + ((2 * d) % Second)
            /\ (2 * d) % Second \in 0..Second - 1
        OBVIOUS
      <4>2. q # 0
        BY <3>2, <4>1
      <4> HIDE DEF q
      <4>3. Second <= q * Second
        BY <4>1, <4>2
      <4> QED
        BY <3>2, <4>3 DEF Life, q
    <3> QED
      BY <3>1, <3>2
  <2> QED
    BY <1>1, <2>1 DEF Life
<1>2. CASE d >= Second
  <2> DEFINE p == d \div Second
             q == (2 * d) \div Second
  <2>1. p \in Nat /\ d = Second * p + (d % Second) /\ d % Second \in 0..Second - 1
    OBVIOUS
  <2>2. q \in Nat /\ 2 * d = Second * q + ((2 * d) % Second)
        /\ (2 * d) % Second \in 0..Second - 1
    OBVIOUS
  <2>3. Life(d) = p * Second /\ Life(2 * d) = q * Second
    BY <1>2 DEF Life
  <2> HIDE DEF p, q
  <2>4. 2 * p <= q
    <3>1. SUFFICES ASSUME q + 1 <= 2 * p PROVE FALSE
      BY <2>1, <2>2
    <3>2. Second * (q + 1) <= Second * (2 * p)
      BY <2>1, <2>2, <3>1
    <3>3. Second * (q + 1) = Second * q + Second /\ Second * (2 * p) = 2 * (Second * p)
      BY <2>1, <2>2
    <3>4. 2 * d < Second * q + Second /\ 2 * (Second * p) <= 2 * d
      BY <2>1, <2>2
    <3> QED
      BY <2>1, <2>2, <3>2, <3>3, <3>4
  <2>5. (2 * p) * Second <= q * Second /\ (2 * p) * Second = p * Second + p * Second
    BY <2>1, <2>2, <2>4
  <2> QED
    BY <1>2, <2>3, <2>5
<1> QED
  BY <1>1, <1>2

\* While the only save is between its two requests, the key has at most the life
\* its delay gives; once both are made, the value outlives it by its grace.
Kept ==
    \A s \in Saves :
        Only(s) /\ key.by = s /\ key.left > 0 =>
            /\ sv[s] = "half" =>
                  /\ key.left <= Life(wish[s])
                  /\ key.grace <= IF wish[s] < Second THEN 0 ELSE Life(wish[s])
            /\ sv[s] = "done" => value.by = s /\ value.left >= key.left + key.grace

KeptInv == EarlyInv /\ Kept

LEMMA SameKept ==
    ASSUME KeptInv, UNCHANGED <<saveVars, dataVars>>
    PROVE  Kept'
  BY DEF KeptInv, Kept, Only, saveVars, dataVars

LEMMA TickKept == ASSUME KeptInv, Tick PROVE Kept'
<1>1. /\ key'.by = key.by /\ key'.left = Less(key.left) /\ key'.grace = key.grace
      /\ value'.by = value.by /\ value'.left = Less(value.left)
      /\ sv' = sv /\ wish' = wish
      /\ key.left \in Nat /\ key.grace \in Nat /\ value.left \in Nat
      /\ \A s \in Saves : wish[s] \in Nat
  BY DEF KeptInv, EarlyInv, TypeInv, TypeOK, Tick
<1>2. \A s \in Saves : Life(wish[s]) \in Nat
  BY <1>1, LifeBound
<1> SUFFICES ASSUME NEW s \in Saves, Only(s)', key'.by = s, key'.left > 0
             PROVE  /\ sv'[s] = "half" =>
                          /\ key'.left <= Life(wish'[s])
                          /\ key'.grace <= IF wish'[s] < Second THEN 0 ELSE Life(wish'[s])
                    /\ sv'[s] = "done" =>
                          value'.by = s /\ value'.left >= key'.left + key'.grace
  BY DEF Kept, Life
<1>3. key.left > 0 /\ key'.left = key.left - 1 /\ Only(s) /\ key.by = s
  BY <1>1 DEF Less, Only
<1>4. CASE sv[s] = "half"
  <2>1. /\ key.left <= Life(wish[s])
        /\ key.grace <= IF wish[s] < Second THEN 0 ELSE Life(wish[s])
    BY <1>3, <1>4 DEF KeptInv, Kept
  <2> QED
    BY <1>1, <1>2, <1>3, <1>4, <2>1
<1>5. CASE sv[s] = "done"
  <2>1. value.by = s /\ value.left >= key.left + key.grace
    BY <1>3, <1>5 DEF KeptInv, Kept
  <2> QED
    BY <1>1, <1>3, <1>5, <2>1 DEF Less
<1> QED
  BY <1>1, <1>4, <1>5

\* A value that has expired was not that of a key still there.
LEMMA ExpireValueKept == ASSUME KeptInv, ExpireValue PROVE Kept'
<1>1. /\ key' = key /\ sv' = sv /\ wish' = wish /\ value.left = 0
      /\ key.left \in Nat /\ key.grace \in Nat
  BY DEF KeptInv, EarlyInv, TypeInv, TypeOK, ExpireValue, saveVars
<1>2. \A s \in Saves : ~(Only(s) /\ key.by = s /\ key.left > 0 /\ sv[s] = "done")
  BY <1>1 DEF KeptInv, Kept
<1> QED
  BY <1>1, <1>2 DEF KeptInv, Kept, Only

LEMMA SaveKeyKept ==
    ASSUME KeptInv, NEW s \in Saves, NEW d \in Delays, SaveKey(s, d) PROVE Kept'
<1>1. /\ \A t \in Saves : sv'[t] = IF t = s THEN "half" ELSE sv[t]
      /\ wish'[s] = d /\ sv[s] = "new"
  BY DEF KeptInv, EarlyInv, TypeInv, TypeOK, SaveKey
<1>2. \A t \in Saves : Only(t)' => t = s
  BY <1>1 DEF Only
<1>3. CASE key' = key
  <2>1. key.by # s
    BY <1>1 DEF KeptInv, EarlyInv, Writers, Empty, Saves
  <2> QED
    BY <1>2, <1>3, <2>1 DEF Kept
<1>4. CASE key' = [by |-> s, left |-> Life(d), grace |-> IF d < Second THEN 0 ELSE Life(d)]
  <2>1. d \in Nat /\ Life(d) \in Nat
    BY LifeBound
  <2>2. key'.left <= Life(d) /\ key'.grace <= IF d < Second THEN 0 ELSE Life(d)
    BY <1>4, <2>1
  <2>3. sv'[s] = "half"
    BY <1>1
  <2> QED
    BY <1>1, <1>2, <2>2, <2>3 DEF Kept, Life
<1> QED
  BY <1>3, <1>4 DEF SaveKey

LEMMA SaveValueKept == ASSUME KeptInv, NEW s \in Saves, SaveValue(s) PROVE Kept'
<1>1. /\ \A t \in Saves \ {s} : sv'[t] = sv[t]
      /\ sv[s] = "half" /\ sv'[s] \in {"done", "lost"}
      /\ sv'[s] = "done" => value'.by = s /\ value'.left = Life(2 * wish[s])
      /\ key' = key /\ wish[s] \in Nat /\ key.left \in Nat /\ key.grace \in Nat
  BY DEF KeptInv, EarlyInv, TypeInv, TypeOK, SaveValue
<1>2. \A t \in Saves : Only(t)' => t = s
  BY <1>1 DEF Only
<1>3. ASSUME Only(s), key.by = s, key.left > 0
      PROVE  key.left + key.grace <= Life(2 * wish[s])
  <2>1. /\ key.left <= Life(wish[s])
        /\ key.grace <= IF wish[s] < Second THEN 0 ELSE Life(wish[s])
    BY <1>1, <1>3 DEF KeptInv, Kept
  <2>2. Life(wish[s]) \in Nat /\ 2 * wish[s] \in Nat
    BY <1>1, LifeBound
  <2>3. Life(2 * wish[s]) \in Nat
    BY <2>2, LifeBound
  <2>4. Life(wish[s]) + (IF wish[s] < Second THEN 0 ELSE Life(wish[s])) <= Life(2 * wish[s])
    BY <1>1, TwiceLife
  <2> QED
    BY <1>1, <2>1, <2>2, <2>3, <2>4
<1>4. Only(s)' => Only(s)
  BY <1>1 DEF Only
<1> QED
  BY <1>1, <1>2, <1>3, <1>4 DEF Kept

LEMMA NextKept == KeptInv /\ [Next]_vars => KeptInv'
<1> SUFFICES ASSUME KeptInv, [Next]_vars PROVE KeptInv'
  OBVIOUS
<1>1. EarlyInv'
  BY NextEarly DEF KeptInv
<1>2. ASSUME UNCHANGED <<saveVars, dataVars>> PROVE Kept'
  BY <1>2, SameKept
<1>3. ASSUME Expire PROVE Kept'
  <2>1. key'.by = Empty
    BY <1>3 DEF Expire
  <2>2. \A s \in Saves : key'.by # s
    BY <2>1 DEF Empty, Saves
  <2> QED
    BY <2>2 DEF Kept
<1>4. ASSUME ExpireLock PROVE Kept'
  BY <1>2, <1>4 DEF ExpireLock
<1>5. ASSUME UNCHANGED vars PROVE Kept'
  BY <1>2, <1>5 DEF vars
<1>6. ASSUME NEW n \in Node, Run(n) \/ Close(n) PROVE Kept'
  BY <1>2, <1>6 DEF Run, Receive, Get, Take, Abandon, RunEnds, Close
<1>7. ASSUME NEW n \in Node, NEW e \in Events,
             Refused(n, e) \/ Obtain(n, e) \/ StoreLock(n, e) \/ UnLock(n, e)
      PROVE  Kept'
  BY <1>2, <1>7 DEF Refused, Obtain, StoreLock, UnLock
<1>8. Kept'
  BY <1>3, <1>4, <1>5, <1>6, <1>7, TickKept, ExpireValueKept, SaveKeyKept, SaveValueKept
     DEF Next
<1> QED
  BY <1>1, <1>8 DEF KeptInv

-----------------------------------------------------------------------------
(* The theorems.                                                           *)

\* The program's variables keep the ranges the code gives them; no more keys
\* expire than were saved, and no node is told of more.
THEOREM RedisTypeCorrect == Spec => []TypeOK
<1>1. TypeInv => TypeOK
  BY DEF TypeInv
<1> QED
  BY InitType, NextType, <1>1, PTL DEF Spec

\* As long as no lease ends under it, at most one goroutine of the open nodes is
\* in its handler, whatever requests fail or lose their answer.
THEOREM RedisExcludes == Spec => []Exclusion
<1>1. Init => TypeInv /\ Holds
  <2>1. Init => Holds
    BY DEF Init, Holds
  <2> QED
    BY <2>1, InitType
<1>2. TypeInv /\ Holds /\ [Next]_vars => TypeInv' /\ Holds'
  BY NextType, NextHolds DEF TypeInv
<1>3. TypeInv /\ Holds => Exclusion
  BY DEF Holds, Exclusion
<1> QED
  BY <1>1, <1>2, <1>3, PTL DEF Spec

\* A node never hands over a value a second or more before its time, unless the
\* key was saved twice.
THEOREM RedisNotEarly == Spec => []EarlyNeedsTwoSaves
<1>1. EarlyInv => EarlyNeedsTwoSaves
  <2> SUFFICES ASSUME EarlyInv, NEW n \in Node, at[n] = "send", msg[n].by # Empty,
                      \A s \in Saves \ {msg[n].by} : sv[s] = "new"
               PROVE  due[msg[n].by] < Second
    BY DEF EarlyNeedsTwoSaves
  <2>1. msg[n].by \in Saves /\ sv[msg[n].by] # "new" /\ Only(msg[n].by)
    BY DEF EarlyInv, TypeInv, TypeOK, Writers, Only
  <2>2. fired > 0
    BY DEF EarlyInv, TypeInv, TypeOK, Heard
  <2> QED
    BY <2>1, <2>2 DEF EarlyInv, OnTime
<1> QED
  BY InitEarly, NextEarly, <1>1, PTL DEF Spec

\* While the key of the only save is there and both requests were made, its value
\* is there for at least the whole seconds of the delay longer.
THEOREM RedisValueOutlives == Spec => []ValueOutlives
<1>1. Init => KeptInv
  <2>1. Init => Kept
    BY DEF Init, Kept
  <2> QED
    BY <2>1, InitEarly DEF KeptInv
<1>2. KeptInv => ValueOutlives
  BY DEF KeptInv, Kept, Only, ValueOutlives
<1> QED
  BY <1>1, NextKept, <1>2, PTL DEF Spec
=============================================================================
