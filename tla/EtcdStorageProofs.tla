-------------------------- MODULE EtcdStorageProofs --------------------------
(***************************************************************************)
(* Proofs about EtcdStorage for any number of nodes, deletions, restarts   *)
(* and crashes: type correctness, and that the saved revision never covers *)
(* a deletion that was not dealt with.                                     *)
(***************************************************************************)
EXTENDS EtcdStorage, TLAPS

SettledTo(k) == \A r \in 1..k : r \in Settled

\* What node n still owes, by the place its run() is at: everything before
\* next[n] is settled, and reversion[n] is ahead of that only inside a batch.
Owes(n) ==
    /\ pc[n] \in {"get", "create"} => reversion[n] = 0
    /\ pc[n] = "stopped" => closing[n] = "yes" \/ reversion[n] = 0
    /\ pc[n] = "watch" => SettledTo(reversion[n])
    /\ pc[n] \in {"persist", "wait"} => reversion[n] < next[n]
    /\ pc[n] \in {"persist", "wait", "deliver", "note"} => SettledTo(next[n] - 1)
    /\ pc[n] = "deliver" => next[n] <= last[n]
    /\ pc[n] \in {"deliver", "note"} =>
            reversion[n] <= last[n] /\ next[n] <= last[n] + 1

SavedSettled == saved # Absent => SettledTo(saved)

SavedInv == TypeOK /\ SavedSettled /\ \A n \in Node : Owes(n)

\* A step of node m alone, as far as what another node owes is concerned.
Alone(m) ==
    \A n \in Node \ {m} :
        /\ pc'[n] = pc[n] /\ closing'[n] = closing[n]
        /\ reversion'[n] = reversion[n]
        /\ next'[n] = next[n] /\ last'[n] = last[n]

-----------------------------------------------------------------------------

\* A deletion handed to one receiver has been announced.
LEMMA ToldGrows ==
    ASSUME TypeOK, NEW m \in Node, NEW D,
           delivered' = [delivered EXCEPT ![m] = @ \cup D]
    PROVE  Told' = Told \cup D
  BY DEF Told, TypeOK

\* What is settled stays settled.
LEMMA SettledGrows ==
    ASSUME NEW k, SettledTo(k), Settled \subseteq Settled'
    PROVE  (\A r \in 1..k : r \in Settled')
  BY DEF SettledTo

\* What a node owes does not change when others act.
LEMMA OthersOwe ==
    ASSUME NEW m \in Node, Alone(m), Settled \subseteq Settled',
           NEW n \in Node \ {m}, Owes(n)
    PROVE  Owes(n)'
<1>1. \A k : SettledTo(k) => \A r \in 1..k : r \in Settled'
  BY SettledGrows
<1> QED
  BY <1>1 DEF Alone, Owes, SettledTo

\* How a step of one node preserves the invariant.
LEMMA NodeStep ==
    ASSUME SavedInv, NEW n \in Node, Alone(n), TypeOK', Settled \subseteq Settled',
           SavedSettled', Owes(n)'
    PROVE  SavedInv'
  BY OthersOwe DEF SavedInv

\* When a step leaves the history alone, so do the sets made of it.
LEMMA SameSettled ==
    ASSUME UNCHANGED <<delivered, skipped, cut>>
    PROVE  Settled' = Settled /\ \A k : SettledTo(k)' <=> SettledTo(k)
  BY DEF Settled, SettledTo, Told

\* A step that leaves pc, the batches and the saved revision alone.
LEMMA EtcdStep ==
    ASSUME SavedInv, TypeOK', UNCHANGED <<pc, closing, reversion, next, last,
           delivered, skipped, cut>>, saved' \in {saved, Absent}
    PROVE  SavedInv'
<1>1. Settled' = Settled
  BY DEF Settled, Told
<1>2. SavedSettled'
  BY <1>1 DEF SavedInv, SavedSettled, SettledTo
<1>3. \A n \in Node : Owes(n)'
  BY <1>1 DEF SavedInv, Owes, SettledTo
<1> QED
  BY <1>2, <1>3 DEF SavedInv

\* Every start state satisfies the invariant.
LEMMA InitSaved == Init => SavedInv
<1> SUFFICES ASSUME Init PROVE SavedInv
  OBVIOUS
<1>1. TypeOK
  <2>1. 0 \in 0..MaxRev /\ 1 \in 1..MaxRev + 1 /\ 0 \in 0..0
    BY LimitAssumption
  <2>2. 0 \in 0..MaxRestarts /\ 0 \in 0..MaxStops
    BY LimitAssumption
  <2> QED
    BY <2>1, <2>2 DEF Init, TypeOK
<1>2. SavedSettled
  BY DEF Init, SavedSettled
<1>3. \A n \in Node : Owes(n)
  BY DEF Init, Owes
<1> QED
  BY <1>1, <1>2, <1>3 DEF SavedInv

-----------------------------------------------------------------------------
(* run().                                                                  *)

LEMMA GetSaved == ASSUME SavedInv, NEW n \in Node, Get(n) PROVE SavedInv'
<1> USE LimitAssumption, AbsentAssumption
<1>1. TypeOK'
  BY DEF SavedInv, Get, Goto, TypeOK, etcdVars, keyVars, watchVars, boundVars, history
<1>2. Settled' = Settled /\ \A k : SettledTo(k)' <=> SettledTo(k)
  BY SameSettled DEF Get, history
<1>3. Alone(n)
  BY DEF SavedInv, TypeOK, Get, Goto, Alone, watchVars
<1>4. SavedSettled'
  BY <1>2 DEF SavedInv, Get, SavedSettled, SettledTo, keyVars
<1>5. Owes(n)'
  <2>1. CASE pc'[n] = "watch" /\ reversion'[n] = saved /\ saved # Absent
    BY <1>2, <2>1 DEF SavedInv, SavedSettled, Owes, SettledTo
  <2>2. CASE pc'[n] = "create" /\ reversion'[n] = reversion[n]
    BY <2>2 DEF SavedInv, Get, Owes
  <2> QED
    BY <2>1, <2>2 DEF SavedInv, TypeOK, Get, Goto
<1> QED
  BY <1>1, <1>2, <1>3, <1>4, <1>5, NodeStep

LEMMA CreateKeySaved == ASSUME SavedInv, NEW n \in Node, CreateKey(n) PROVE SavedInv'
<1> USE LimitAssumption, AbsentAssumption
<1>1. TypeOK'
  <2>1. saved' \in 0..MaxRev \cup {Absent} /\ leased' \in BOOLEAN
    <3>1. saved' \in {saved, 0} /\ leased' \in {leased, TRUE}
      BY DEF CreateKey, keyVars
    <3>2. saved' \in 0..MaxRev \cup {Absent}
      BY <3>1 DEF SavedInv, TypeOK
    <3>3. leased' \in BOOLEAN
      BY <3>1, Zenon DEF SavedInv, TypeOK
    <3> QED
      BY <3>2, <3>3
  <2>2. pc' \in [Node -> {"down", "get", "create", "watch", "persist", "wait",
                          "deliver", "note", "stopped"}]
    BY DEF SavedInv, TypeOK, CreateKey, Goto
  <2> QED
    BY <2>1, <2>2 DEF SavedInv, CreateKey, TypeOK, etcdVars, watchVars, boundVars, history
<1>2. Settled' = Settled /\ \A k : SettledTo(k)' <=> SettledTo(k)
  BY SameSettled DEF CreateKey, history
<1>3. Alone(n)
  BY DEF SavedInv, TypeOK, CreateKey, Goto, Alone, watchVars
<1>4. SavedSettled'
  BY <1>2 DEF SavedInv, CreateKey, SavedSettled, SettledTo, keyVars
<1>5. Owes(n)'
  BY DEF SavedInv, TypeOK, CreateKey, Goto, Owes, SettledTo
<1> QED
  BY <1>1, <1>2, <1>3, <1>4, <1>5, NodeStep

LEMMA StartWatchSaved == ASSUME SavedInv, NEW n \in Node, StartWatch(n) PROVE SavedInv'
<1> USE LimitAssumption, AbsentAssumption
<1>1. TypeOK'
  <2>1. next' \in [Node -> 1..MaxRev + 1]
    BY DEF SavedInv, TypeOK, StartWatch
  <2>2. skipped' \in SUBSET Rev /\ deaf' \in SUBSET Node
    <3>1. 1..rev \subseteq Rev
      BY DEF SavedInv, TypeOK, Rev
    <3> QED
      BY <3>1 DEF SavedInv, TypeOK, StartWatch
  <2>3. pc' \in [Node -> {"down", "get", "create", "watch", "persist", "wait",
                          "deliver", "note", "stopped"}]
    BY DEF SavedInv, TypeOK, StartWatch, Goto
  <2> QED
    BY <2>1, <2>2, <2>3 DEF SavedInv, StartWatch, TypeOK, etcdVars, keyVars, boundVars
<1>2. Told' = Told /\ Settled \subseteq Settled'
  BY DEF StartWatch, Settled, Told
<1>3. Alone(n)
  BY DEF SavedInv, TypeOK, StartWatch, Goto, Alone
<1>4. SavedSettled'
  BY <1>2 DEF SavedInv, StartWatch, SavedSettled, SettledTo, keyVars
<1>5. Owes(n)'
  <2>1. CASE reversion[n] = 0 /\ closing[n] # "yes"
    <3>1. \A r \in 1..rev : r \in Settled'
      BY <1>2, <2>1 DEF StartWatch, Settled
    <3>2. pc'[n] = "persist" /\ next'[n] = rev + 1 /\ reversion'[n] = 0
      BY <2>1 DEF SavedInv, TypeOK, StartWatch, Goto
    <3> QED
      BY <3>1, <3>2 DEF SavedInv, TypeOK, Owes, SettledTo
  <2>2. CASE reversion[n] > 0 /\ closing[n] # "yes"
    <3>1. \A r \in 1..reversion[n] : r \in Settled'
      BY <1>2 DEF SavedInv, StartWatch, Owes, SettledTo
    <3>2. /\ pc'[n] = "persist" /\ next'[n] = reversion[n] + 1
          /\ reversion'[n] = reversion[n]
      BY <2>2 DEF SavedInv, TypeOK, StartWatch, Goto
    <3> QED
      BY <3>1, <3>2 DEF SavedInv, TypeOK, Owes, SettledTo
  <2>3. CASE closing[n] = "yes"
    BY <2>3 DEF SavedInv, TypeOK, StartWatch, Goto, Owes
  <2> QED
    BY <2>1, <2>2, <2>3 DEF SavedInv, TypeOK
<1> QED
  BY <1>1, <1>2, <1>3, <1>4, <1>5, NodeStep

LEMMA PersistSaved == ASSUME SavedInv, NEW n \in Node, Persist(n) PROVE SavedInv'
<1> USE LimitAssumption, AbsentAssumption
<1>1. TypeOK'
  BY DEF SavedInv, Persist, Goto, TypeOK, etcdVars, keyVars, watchVars, boundVars, history
<1>2. Settled' = Settled /\ \A k : SettledTo(k)' <=> SettledTo(k)
  BY SameSettled DEF Persist, history
<1>3. Alone(n)
  BY DEF SavedInv, TypeOK, Persist, Goto, Alone, watchVars
<1>4. SavedSettled'
  <2>1. SettledTo(reversion[n])
    BY DEF SavedInv, TypeOK, Persist, Owes, SettledTo
  <2>2. saved' \in {saved, reversion[n]}
    BY DEF Persist, keyVars
  <2> QED
    BY <1>2, <2>1, <2>2 DEF SavedInv, SavedSettled, SettledTo
<1>5. Owes(n)'
  BY <1>2 DEF SavedInv, TypeOK, Persist, Goto, Owes, SettledTo, watchVars
<1> QED
  BY <1>1, <1>2, <1>3, <1>4, <1>5, NodeStep

LEMMA ReceiveSaved == ASSUME SavedInv, NEW n \in Node, Receive(n) PROVE SavedInv'
<1> USE LimitAssumption, AbsentAssumption
<1>1. TypeOK'
  BY DEF SavedInv, Receive, Goto, TypeOK, etcdVars, keyVars, boundVars, history
<1>2. Settled' = Settled /\ \A k : SettledTo(k)' <=> SettledTo(k)
  BY SameSettled DEF Receive, history
<1>3. Alone(n)
  BY DEF SavedInv, TypeOK, Receive, Goto, Alone
<1>4. SavedSettled'
  BY <1>2 DEF SavedInv, Receive, SavedSettled, SettledTo, keyVars
<1>5. Owes(n)'
  <2>1. PICK to \in next[n]..rev : last' = [last EXCEPT ![n] = to]
    BY DEF Receive
  <2> QED
    BY <1>2, <2>1 DEF SavedInv, TypeOK, Receive, Goto, Owes, SettledTo
<1> QED
  BY <1>1, <1>2, <1>3, <1>4, <1>5, NodeStep

LEMMA DeliverSaved == ASSUME SavedInv, NEW n \in Node, Deliver(n) PROVE SavedInv'
<1> USE LimitAssumption, AbsentAssumption
<1>1. next[n] \in Rev /\ next[n] <= last[n] /\ pc[n] = "deliver"
  BY DEF SavedInv, TypeOK, Owes, Deliver, Rev
<1>2. TypeOK'
  BY <1>1 DEF SavedInv, Deliver, Goto, TypeOK, etcdVars, keyVars, boundVars, Rev
<1>3. Told' = Told \cup {next[n]}
  BY ToldGrows DEF SavedInv, Deliver
<1>4. Settled' = Settled \cup {next[n]}
  BY <1>3 DEF Deliver, Settled
<1>5. Alone(n)
  BY DEF SavedInv, TypeOK, Deliver, Goto, Alone
<1>6. SavedSettled'
  BY <1>4 DEF SavedInv, Deliver, SavedSettled, SettledTo, keyVars
<1>7. Owes(n)'
  <2>1. /\ pc'[n] = "note" /\ next'[n] = next[n] + 1
        /\ last'[n] = last[n] /\ reversion'[n] = reversion[n]
    BY DEF SavedInv, TypeOK, Deliver, Goto
  <2>2. \A r \in 1..next[n] : r \in Settled'
    BY <1>1, <1>4 DEF SavedInv, TypeOK, Owes, SettledTo
  <2> QED
    BY <1>1, <2>1, <2>2 DEF SavedInv, TypeOK, Owes, SettledTo
<1> QED
  BY <1>2, <1>4, <1>5, <1>6, <1>7, NodeStep

LEMMA NoteSaved == ASSUME SavedInv, NEW n \in Node, Note(n) PROVE SavedInv'
<1> USE LimitAssumption, AbsentAssumption
<1>1. TypeOK'
  BY DEF SavedInv, Note, Goto, TypeOK, etcdVars, keyVars, watchVars, boundVars, history
<1>2. Settled' = Settled /\ \A k : SettledTo(k)' <=> SettledTo(k)
  BY SameSettled DEF Note, history
<1>3. Alone(n)
  BY DEF SavedInv, TypeOK, Note, Goto, Alone, watchVars
<1>4. SavedSettled'
  BY <1>2 DEF SavedInv, Note, SavedSettled, SettledTo, keyVars
<1>5. Owes(n)'
  <2>1. /\ reversion'[n] = last[n] /\ next'[n] = next[n] /\ last'[n] = last[n]
        /\ pc'[n] = IF next[n] > last[n] THEN "persist" ELSE "deliver"
        /\ SettledTo(next[n] - 1) /\ next[n] <= last[n] + 1
    BY DEF SavedInv, TypeOK, Note, Goto, Owes, watchVars
  <2> QED
    BY <1>2, <2>1 DEF SavedInv, TypeOK, Owes, SettledTo
<1> QED
  BY <1>1, <1>2, <1>3, <1>4, <1>5, NodeStep

LEMMA SpinSaved == ASSUME SavedInv, NEW n \in Node, Spin(n) PROVE SavedInv'
<1> USE LimitAssumption, AbsentAssumption
<1>1. TypeOK'
  BY DEF SavedInv, Spin, Goto, TypeOK, etcdVars, keyVars, watchVars, boundVars, history
<1>2. Settled' = Settled /\ \A k : SettledTo(k)' <=> SettledTo(k)
  BY SameSettled DEF Spin, history
<1>3. Alone(n)
  BY DEF SavedInv, TypeOK, Spin, Goto, Alone, watchVars
<1>4. SavedSettled'
  BY <1>2 DEF SavedInv, Spin, SavedSettled, SettledTo, keyVars
<1>5. Owes(n)'
  BY <1>2 DEF SavedInv, TypeOK, Spin, Goto, Owes, SettledTo, watchVars
<1> QED
  BY <1>1, <1>2, <1>3, <1>4, <1>5, NodeStep

-----------------------------------------------------------------------------
(* Close, crashes and restarts.                                            *)

\* run() ends, by Stop, a panic or a crash.
LEMMA EndSaved ==
    ASSUME SavedInv, NEW n \in Node, Stop(n) \/ SendOnClosed(n) \/ Crash(n)
    PROVE  SavedInv'
<1> USE LimitAssumption, AbsentAssumption
<1>1. TypeOK'
  <2>1. pc' \in [Node -> {"down", "get", "create", "watch", "persist", "wait",
                          "deliver", "note", "stopped"}]
    BY DEF SavedInv, TypeOK, Stop, SendOnClosed, Crash, Goto
  <2>2. stops' \in 0..MaxStops
    BY DEF SavedInv, TypeOK, Stop, SendOnClosed, Crash, boundVars
  <2> QED
    BY <2>1, <2>2 DEF SavedInv, TypeOK, Stop, SendOnClosed, Crash, etcdVars, keyVars,
       watchVars, boundVars, history
<1>2. Settled' = Settled /\ \A k : SettledTo(k)' <=> SettledTo(k)
  BY SameSettled DEF Stop, SendOnClosed, Crash, history
<1>3. Alone(n)
  BY DEF SavedInv, TypeOK, Stop, SendOnClosed, Crash, Goto, Alone, watchVars
<1>4. SavedSettled'
  BY <1>2 DEF SavedInv, Stop, SendOnClosed, Crash, SavedSettled, SettledTo, keyVars
<1>5. Owes(n)'
  BY DEF SavedInv, TypeOK, Stop, SendOnClosed, Crash, Goto, Owes
<1> QED
  BY <1>1, <1>2, <1>3, <1>4, <1>5, NodeStep

LEMMA ClosePutSaved == ASSUME SavedInv, NEW n \in Node, ClosePut(n) PROVE SavedInv'
<1> USE LimitAssumption, AbsentAssumption
<1>1. TypeOK'
  <2>1. saved' \in 0..MaxRev \cup {Absent} /\ leased' \in BOOLEAN
    BY DEF SavedInv, TypeOK, ClosePut, keyVars
  <2>2. cut' \in SUBSET Rev
    <3>1. \A r \in next[n]..last[n] : r \in Rev
      BY DEF SavedInv, TypeOK, Rev
    <3> QED
      BY <3>1 DEF SavedInv, TypeOK, ClosePut
  <2>3. closing' \in [Node -> {"no", "put", "yes"}] /\ stops' \in 0..MaxStops
    BY DEF SavedInv, TypeOK, ClosePut
  <2> QED
    BY <2>1, <2>2, <2>3 DEF SavedInv, ClosePut, TypeOK, etcdVars, watchVars
<1>2. Settled \subseteq Settled'
  BY DEF ClosePut, Settled, Told
<1>3. Alone(n)
  BY DEF SavedInv, TypeOK, ClosePut, Alone, watchVars
<1>4. SavedSettled'
  <2>1. CASE saved' = saved
    BY <1>2, <2>1 DEF SavedInv, SavedSettled, SettledTo
  <2>2. CASE /\ saved' = reversion[n]
             /\ cut' = cut \cup {r \in next[n]..last[n] : r <= reversion[n]}
    <3>1. \A r \in next[n]..last[n] : r <= reversion[n] => r \in Settled'
      BY <2>2 DEF Settled
    <3>2. \A r \in 1..reversion[n] : r \in Settled'
      BY <1>2, <3>1 DEF SavedInv, TypeOK, ClosePut, Owes, SettledTo
    <3> QED
      BY <2>2, <3>2 DEF SavedSettled, SettledTo
  <2> QED
    BY <2>1, <2>2 DEF ClosePut, keyVars
<1>5. Owes(n)'
  <2>1. /\ pc' = pc /\ reversion' = reversion /\ next' = next /\ last' = last
        /\ closing[n] = "no"
    BY DEF ClosePut, watchVars
  <2> QED
    BY <1>2, <2>1 DEF SavedInv, Owes, SettledTo
<1> QED
  BY <1>1, <1>2, <1>3, <1>4, <1>5, NodeStep

LEMMA CloseCancelSaved ==
    ASSUME SavedInv, NEW n \in Node, CloseCancel(n) PROVE SavedInv'
<1> USE LimitAssumption, AbsentAssumption
<1>1. TypeOK'
  BY DEF SavedInv, CloseCancel, TypeOK, etcdVars, keyVars, watchVars, boundVars, history
<1>2. Settled' = Settled /\ \A k : SettledTo(k)' <=> SettledTo(k)
  BY SameSettled DEF CloseCancel, history
<1>3. Alone(n)
  BY DEF SavedInv, TypeOK, CloseCancel, Alone, watchVars
<1>4. SavedSettled'
  BY <1>2 DEF SavedInv, CloseCancel, SavedSettled, SettledTo, keyVars
<1>5. Owes(n)'
  BY <1>2 DEF SavedInv, TypeOK, CloseCancel, Owes, SettledTo, watchVars
<1> QED
  BY <1>1, <1>2, <1>3, <1>4, <1>5, NodeStep

LEMMA RestartSaved == ASSUME SavedInv, NEW n \in Node, Restart(n) PROVE SavedInv'
<1> USE LimitAssumption, AbsentAssumption
<1>1. TypeOK'
  BY DEF SavedInv, Restart, Goto, TypeOK, etcdVars, keyVars, history
<1>2. Settled' = Settled /\ \A k : SettledTo(k)' <=> SettledTo(k)
  BY SameSettled DEF Restart, history
<1>3. Alone(n)
  BY DEF SavedInv, TypeOK, Restart, Goto, Alone
<1>4. SavedSettled'
  BY <1>2 DEF SavedInv, Restart, SavedSettled, SettledTo, keyVars
<1>5. Owes(n)'
  BY DEF SavedInv, TypeOK, Restart, Goto, Owes
<1> QED
  BY <1>1, <1>2, <1>3, <1>4, <1>5, NodeStep

-----------------------------------------------------------------------------
(* The theorems.                                                           *)

\* Every step preserves the invariant.
LEMMA NextSaved == SavedInv /\ [Next]_vars => SavedInv'
<1> SUFFICES ASSUME SavedInv, [Next]_vars PROVE SavedInv'
  OBVIOUS
<1> USE LimitAssumption, AbsentAssumption
<1>1. CASE Expire
  <2>1. TypeOK'
    <3>1. rev' \in 0..MaxRev /\ compacted' \in 0..rev'
      BY <1>1 DEF SavedInv, TypeOK, Expire
    <3>2. rev + 1 \in Rev /\ unheard' \subseteq unheard \cup {rev + 1}
      BY <1>1 DEF SavedInv, TypeOK, Expire, Rev
    <3>3. unheard' \in SUBSET Rev
      BY <3>2 DEF SavedInv, TypeOK
    <3> QED
      BY <1>1, <3>1, <3>3 DEF SavedInv, TypeOK, Expire, keyVars, watchVars, boundVars
  <2> QED
    BY <1>1, <2>1, EtcdStep DEF Expire, keyVars, watchVars
<1>2. CASE Compact
  <2>1. TypeOK'
    BY <1>2 DEF SavedInv, TypeOK, Compact, keyVars, watchVars, boundVars, history
  <2> QED
    BY <1>2, <2>1, EtcdStep DEF Compact, keyVars, watchVars, history
<1>3. CASE Lapse
  <2>1. TypeOK'
    BY <1>3 DEF SavedInv, TypeOK, Lapse, etcdVars, watchVars, boundVars, history
  <2> QED
    BY <1>3, <2>1, EtcdStep DEF Lapse, watchVars, history
<1>4. ASSUME NEW n \in Node, Run(n) PROVE SavedInv'
  BY <1>4, GetSaved, CreateKeySaved, StartWatchSaved, PersistSaved, ReceiveSaved,
     DeliverSaved, NoteSaved, SpinSaved, EndSaved DEF Run
<1>5. ASSUME NEW n \in Node, LoseWatch(n) PROVE SavedInv'
  <2>1. TypeOK'
    BY <1>5 DEF SavedInv, TypeOK, LoseWatch, etcdVars, keyVars, boundVars, history
  <2> QED
    BY <1>5, <2>1, EtcdStep DEF LoseWatch, keyVars, history
<1>6. CASE UNCHANGED vars
  <2>1. TypeOK'
    BY <1>6 DEF SavedInv, TypeOK, vars, etcdVars, keyVars, watchVars, boundVars, history
  <2> QED
    BY <1>6, <2>1, EtcdStep DEF vars, keyVars, watchVars, history
<1> QED
  BY <1>1, <1>2, <1>3, <1>4, <1>5, <1>6, ClosePutSaved, CloseCancelSaved, EndSaved,
     RestartSaved DEF Next

\* The program's variables keep the ranges the code gives them, in particular a
\* batch never reaches beyond the last deletion.
THEOREM WatchTypeCorrect == Spec => []TypeOK
<1>1. SavedInv => TypeOK
  BY DEF SavedInv
<1> QED
  BY InitSaved, NextSaved, <1>1, PTL DEF Spec

\* The revision saved for the next start never covers a deletion that was not
\* handed to a receiver, passed over by a node without a revision, or cut off
\* by Close, however the nodes' writes of the one key and their crashes fall.
THEOREM SavedIsCovered == Spec => []Covered
<1>1. SavedInv => Covered
  BY DEF SavedInv, SavedSettled, SettledTo, Settled, Covered
<1> QED
  BY InitSaved, NextSaved, <1>1, PTL DEF Spec

\* No running watch has gone past a deletion that was not dealt with: what it read
\* from the one key, when it starts, and every event of every batch, while it runs.
THEOREM NothingIsPassedOver == Spec => []NonePassedOver
<1>1. SavedInv => NonePassedOver
  BY DEF SavedInv, Owes, SettledTo, NonePassedOver
<1> QED
  BY InitSaved, NextSaved, <1>1, PTL DEF Spec

-----------------------------------------------------------------------------
(* EtcdStorage implements Checkpoint.                                      *)

\* No batch reaches beyond the last deletion.
LastSeen == \A n \in Node : last[n] <= rev

RefInv == SavedInv /\ LastSeen

\* A step that is no deletion: what it settles is a deletion that has happened.
Settles ==
    /\ rev' = rev
    /\ Settled \subseteq Settled'
    /\ Settled' \subseteq Settled \cup 1..rev

\* Such a step, whatever it writes to the key, is a Move or a Settle of Checkpoint.
LEMMA SettlesMoves ==
    ASSUME Settles, SavedInv'
    PROVE  Promise!Move
<1>1. saved' # Absent => 1..saved' \subseteq Settled'
  BY DEF SavedInv, SavedSettled, SettledTo
<1>2. 1..0 = {}
  OBVIOUS
<1>3. 1..(IF saved' = Absent THEN 0 ELSE saved') \subseteq Settled'
  BY <1>1, <1>2
<1> QED
  BY <1>3 DEF Settles, Promise!Move, Promise!Settle

\* Steps that leave the deletions and the history alone settle nothing.
LEMMA QuietSettles ==
    ASSUME rev' = rev, UNCHANGED <<delivered, skipped, cut>>
    PROVE  Settles
  BY DEF Settles, Settled, Told

LEMMA StartWatchSettles ==
    ASSUME RefInv, NEW n \in Node, StartWatch(n) PROVE Settles
<1>1. rev' = rev /\ delivered' = delivered /\ cut' = cut
  BY DEF StartWatch, etcdVars
<1>2. skipped' \in {skipped, skipped \cup (1..rev \ Told)}
  BY DEF StartWatch
<1> QED
  BY <1>1, <1>2 DEF Settles, Settled, Told

LEMMA DeliverSettles ==
    ASSUME RefInv, NEW n \in Node, Deliver(n) PROVE Settles
<1>1. next[n] \in 1..rev
  BY DEF RefInv, SavedInv, LastSeen, TypeOK, Owes, Deliver
<1>2. Told' = Told \cup {next[n]}
  BY ToldGrows DEF RefInv, SavedInv, Deliver
<1>3. rev' = rev /\ skipped' = skipped /\ cut' = cut
  BY DEF Deliver, etcdVars
<1> QED
  BY <1>1, <1>2, <1>3 DEF Settles, Settled

LEMMA ClosePutSettles ==
    ASSUME RefInv, NEW n \in Node, ClosePut(n) PROVE Settles
<1>1. rev' = rev /\ delivered' = delivered /\ skipped' = skipped
  BY DEF ClosePut, etcdVars
<1>2. next[n]..last[n] \subseteq 1..rev
  BY DEF RefInv, SavedInv, LastSeen, TypeOK
<1>3. cut \subseteq cut' /\ cut' \subseteq cut \cup next[n]..last[n]
  BY DEF ClosePut
<1> QED
  BY <1>1, <1>2, <1>3 DEF Settles, Settled, Told

\* Every step but a deletion is one that settles.
LEMMA NextSettles ==
    ASSUME RefInv, Next, ~Expire
    PROVE  Settles
<1>1. CASE Compact
  BY <1>1, QuietSettles DEF Compact, history
<1>2. CASE Lapse
  BY <1>2, QuietSettles DEF Lapse, etcdVars, history
<1>3. ASSUME NEW n \in Node, Run(n) PROVE Settles
  <2>1. CASE StartWatch(n) \/ Deliver(n)
    BY <2>1, StartWatchSettles, DeliverSettles
  <2>2. CASE Get(n) \/ CreateKey(n)
    BY <2>2, QuietSettles DEF Get, CreateKey, etcdVars, history
  <2>3. CASE Persist(n) \/ Receive(n)
    BY <2>3, QuietSettles DEF Persist, Receive, etcdVars, history
  <2>4. CASE Note(n) \/ Spin(n) \/ Stop(n)
    BY <2>4, QuietSettles DEF Note, Spin, Stop, etcdVars, history
  <2> QED
    BY <1>3, <2>1, <2>2, <2>3, <2>4 DEF Run
<1>4. ASSUME NEW n \in Node, LoseWatch(n) \/ CloseCancel(n) \/ SendOnClosed(n) PROVE Settles
  BY <1>4, QuietSettles DEF LoseWatch, CloseCancel, SendOnClosed, etcdVars, history
<1>5. ASSUME NEW n \in Node, Crash(n) \/ Restart(n) PROVE Settles
  BY <1>5, QuietSettles DEF Crash, Restart, etcdVars, history
<1> QED
  BY <1>1, <1>2, <1>3, <1>4, <1>5, ClosePutSettles DEF Next

\* The end of a batch changes when one is received, which ends at most at rev,
\* and when the process starts anew.
LEMMA NextLastSeen ==
    ASSUME RefInv, [Next]_vars
    PROVE  LastSeen'
<1>1. CASE Expire
  BY <1>1 DEF RefInv, SavedInv, LastSeen, TypeOK, Expire, watchVars
<1>2. ASSUME NEW n \in Node, Receive(n) PROVE LastSeen'
  <2>1. PICK to \in next[n]..rev : last' = [last EXCEPT ![n] = to]
    BY <1>2 DEF Receive
  <2> QED
    BY <1>2, <2>1 DEF RefInv, SavedInv, LastSeen, TypeOK, Receive, etcdVars
<1>3. ASSUME NEW n \in Node, Restart(n) PROVE LastSeen'
  BY <1>3 DEF RefInv, SavedInv, LastSeen, TypeOK, Restart, etcdVars
<1>4. ASSUME rev' = rev, last' = last PROVE LastSeen'
  BY <1>4 DEF RefInv, LastSeen
<1>5. ASSUME NEW n \in Node, Run(n) PROVE LastSeen'
  <2>1. CASE Get(n) \/ CreateKey(n) \/ StartWatch(n)
    BY <1>4, <2>1 DEF Get, CreateKey, StartWatch, etcdVars, watchVars
  <2>2. CASE Persist(n) \/ Deliver(n) \/ Note(n)
    BY <1>4, <2>2 DEF Persist, Deliver, Note, etcdVars, watchVars
  <2>3. CASE Spin(n) \/ Stop(n)
    BY <1>4, <2>3 DEF Spin, Stop, etcdVars, watchVars
  <2> QED
    BY <1>2, <1>5, <2>1, <2>2, <2>3 DEF Run
<1>6. ASSUME NEW n \in Node, LoseWatch(n) \/ ClosePut(n) \/ CloseCancel(n) PROVE LastSeen'
  BY <1>4, <1>6 DEF LoseWatch, ClosePut, CloseCancel, etcdVars, watchVars
<1>7. ASSUME NEW n \in Node, SendOnClosed(n) \/ Crash(n) PROVE LastSeen'
  BY <1>4, <1>7 DEF SendOnClosed, Crash, etcdVars, watchVars
<1>8. CASE Compact \/ Lapse \/ UNCHANGED vars
  BY <1>4, <1>8 DEF Compact, Lapse, vars, etcdVars, watchVars
<1> QED
  BY <1>1, <1>3, <1>5, <1>6, <1>7, <1>8 DEF Next

\* Every step maps to a step of Checkpoint or leaves its variables alone.
LEMMA StepMaps ==
    ASSUME RefInv, RefInv', [Next]_vars
    PROVE  [Promise!Next]_(Promise!vars)
<1>1. CASE Expire
  <2>1. Settled' = Settled
    BY <1>1 DEF Expire, Settled, Told
  <2>2. rev' = rev + 1 /\ saved' = saved
    BY <1>1 DEF Expire, keyVars
  <2>3. Promise!Produce
    BY <2>1, <2>2 DEF Promise!Produce
  <2> QED
    BY <2>3 DEF Promise!Next
<1>2. CASE Next /\ ~Expire
  BY <1>2, NextSettles, SettlesMoves DEF Promise!Next, RefInv
<1>3. CASE UNCHANGED vars
  BY <1>3 DEF vars, etcdVars, keyVars, history, Promise!vars, Settled, Told
<1> QED
  BY <1>1, <1>2, <1>3

\* The start states map to the one of Checkpoint.
LEMMA InitMaps == Init => RefInv /\ Promise!Init
<1> SUFFICES ASSUME Init PROVE RefInv /\ Promise!Init
  OBVIOUS
<1>1. Settled = {}
  BY DEF Init, Settled, Told
<1>2. LastSeen
  BY DEF Init, LastSeen
<1> QED
  BY <1>1, <1>2, InitSaved DEF Init, RefInv, Promise!Init

\* The storage implements Checkpoint: for every number of nodes, deletions and
\* restarts the revision saved moves over prefixes of the deletions that have
\* been dealt with, and nothing dealt with is ever taken back.
THEOREM ImplementsCheckpoint == Spec => KeepsPromise
<1>1. RefInv /\ [Next]_vars => RefInv'
  BY NextSaved, NextLastSeen DEF RefInv
<1>2. RefInv /\ RefInv' /\ [Next]_vars => [Promise!Next]_(Promise!vars)
  BY StepMaps
<1> QED
  BY InitMaps, <1>1, <1>2, PTL DEF Spec, KeepsPromise, Promise!Spec

=============================================================================
