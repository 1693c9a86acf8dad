----------------------------- MODULE EtcdStorage -----------------------------
(***************************************************************************)
(* How storage/etcd.go turns the deletion of expired keys into             *)
(* notifications, and how it remembers, under one key that all nodes       *)
(* write, the revision up to which this has been done, so that a restarted *)
(* process can ask etcd to replay what happened while nobody listened.     *)
(* The module models run(), Watch and the part of Close that concerns      *)
(* them, with crashes, restarts and compaction; what the receiver does     *)
(* with a notification is module ElasticJob.                               *)
(*                                                                         *)
(* Only deletions are given a revision: 1, 2, ... in the order of etcd.    *)
(***************************************************************************)
EXTENDS Integers, FiniteSets

CONSTANTS
    Node,         \* processes, all using the one KeyForWatchReversion
    Absent,       \* the value of KeyForWatchReversion when there is none
    MaxRev,       \* bound: how many keys expire
    MaxRestarts,  \* bound: how many times a process is started again
    MaxStops,     \* bound: how many times a node is closed or dies
    LossyRPC      \* may an etcd request of run() or Close fail?

ASSUME AbsentAssumption == Absent \notin Nat
ASSUME LimitAssumption ==
    /\ MaxRev \in Nat
    /\ MaxRestarts \in Nat
    /\ MaxStops \in Nat
    /\ LossyRPC \in BOOLEAN

Rev == 1..MaxRev

VARIABLES
    rev,        \* the last deletion
    saved,      \* value of KeyForWatchReversion
    leased,     \* does that key still have the lease it was created with?
    compacted,  \* deletions up to this one are no longer in etcd's history
    pc,         \* node -> where its run() is
    closing,    \* node -> how far its Close is
    reversion,  \* node -> etcdStorage.reversion
    next,       \* node -> the first deletion not yet handed to the receiver
    last,       \* node -> the last deletion of the batch being handed out
    deaf,       \* nodes whose watch was cancelled by a compaction
    restarts, stops,
    delivered,  \* history: node -> deletions its receiver was told of
    skipped,    \* history: deletions a node that watches from now passed over
    cut,        \* history: the rest of a batch whose revision Close saved
    unheard     \* history: deletions at a time when no node was running

etcdVars == <<rev, compacted>>
keyVars == <<saved, leased>>
watchVars == <<next, last, deaf>>
boundVars == <<restarts, stops>>
history == <<delivered, skipped, cut, unheard>>
vars == <<etcdVars, keyVars, pc, closing, reversion, watchVars, boundVars, history>>

Told == UNION {delivered[n] : n \in Node}

\* What no restart has to ask for again.
Settled == Told \cup skipped \cup cut

\* Node n's run() has left its loop or has never entered it.
Ended(n) == pc[n] \in {"down", "stopped"}

\* Node n receives the events from next[n] on, and nobody closes it.
Watching(n) ==
    pc[n] \in {"persist", "wait", "deliver", "note"} /\ n \notin deaf /\ closing[n] = "no"

TypeOK ==
    /\ rev \in 0..MaxRev
    /\ saved \in 0..MaxRev \cup {Absent}
    /\ leased \in BOOLEAN
    /\ compacted \in 0..rev
    /\ pc \in [Node -> {"down", "get", "create", "watch", "persist", "wait",
                        "deliver", "note", "stopped"}]
    /\ closing \in [Node -> {"no", "put", "yes"}]
    /\ reversion \in [Node -> 0..MaxRev]
    /\ next \in [Node -> 1..MaxRev + 1]
    /\ last \in [Node -> 0..MaxRev]
    /\ deaf \in SUBSET Node
    /\ restarts \in 0..MaxRestarts
    /\ stops \in 0..MaxStops
    /\ delivered \in [Node -> SUBSET Rev]
    /\ skipped \in SUBSET Rev /\ cut \in SUBSET Rev /\ unheard \in SUBSET Rev

\* The first start of every process: NewEtcdStorage has started run().
Init ==
    /\ rev = 0 /\ saved = Absent /\ leased = FALSE /\ compacted = 0
    /\ pc = [n \in Node |-> "get"]
    /\ closing = [n \in Node |-> "no"]
    /\ reversion = [n \in Node |-> 0]
    /\ next = [n \in Node |-> 1]
    /\ last = [n \in Node |-> 0]
    /\ deaf = {}
    /\ restarts = 0 /\ stops = 0
    /\ delivered = [n \in Node |-> {}]
    /\ skipped = {} /\ cut = {} /\ unheard = {}

Goto(n, p) == pc' = [pc EXCEPT ![n] = p]

-----------------------------------------------------------------------------
(* etcd.                                                                   *)

\* The lease of a job's key runs out.
Expire ==
    /\ rev < MaxRev
    /\ rev' = rev + 1
    /\ unheard' = unheard \cup {r \in {rev + 1} : \A n \in Node : Ended(n)}
    /\ UNCHANGED <<compacted, keyVars, pc, closing, reversion, watchVars,
                   boundVars, delivered, skipped, cut>>

\* History up to the present is discarded.
Compact ==
    /\ compacted < rev
    /\ compacted' = rev
    /\ UNCHANGED <<rev, keyVars, pc, closing, reversion, watchVars, boundVars,
                   history>>

\* The lease of the key runs out: run() does not renew the one it has granted.
Lapse ==
    /\ leased
    /\ saved' = Absent
    /\ leased' = FALSE
    /\ UNCHANGED <<etcdVars, pc, closing, reversion, watchVars, boundVars, history>>

-----------------------------------------------------------------------------
(* The start of run().                                                     *)

\* A failed Get is taken for an absent key.
Get(n) ==
    /\ pc[n] = "get"
    /\ \/ /\ closing[n] # "yes" /\ saved # Absent
          /\ reversion' = [reversion EXCEPT ![n] = saved]
          /\ Goto(n, "watch")
       \/ /\ closing[n] = "yes" \/ saved = Absent \/ LossyRPC
          /\ Goto(n, "create")
          /\ UNCHANGED reversion
    /\ UNCHANGED <<etcdVars, keyVars, closing, watchVars, boundVars, history>>

\* When Grant fails run() ends, which nobody is told; Put's error is ignored.
CreateKey(n) ==
    /\ pc[n] = "create"
    /\ \/ /\ closing[n] # "yes"
          /\ saved' = 0 /\ leased' = TRUE
          /\ Goto(n, "watch")
       \/ LossyRPC /\ Goto(n, "watch") /\ UNCHANGED keyVars
       \/ /\ closing[n] = "yes" \/ LossyRPC
          /\ Goto(n, "stopped") /\ UNCHANGED keyVars
    /\ UNCHANGED <<etcdVars, closing, reversion, watchVars, boundVars, history>>

\* Mutant of StartWatch: the saved revision is never used.
StartWatchFromNow(n) ==
    /\ pc[n] = "watch"
    /\ Goto(n, "persist")
    /\ next' = [next EXCEPT ![n] = rev + 1]
    /\ skipped' = skipped \cup (1..rev \ Told)
    /\ UNCHANGED <<etcdVars, keyVars, closing, reversion, last, deaf, boundVars,
                   delivered, cut, unheard>>

\* Watch from the revision after the one read, or, when that is 0, from now.
\* A start that lies before the compacted revision cancels the watch; writes
\* of other keys decide it when no deletion lies in between.
StartWatch(n) ==
    /\ pc[n] = "watch"
    /\ \/ /\ closing[n] # "yes" /\ reversion[n] = 0
          /\ next' = [next EXCEPT ![n] = rev + 1]
          /\ skipped' = skipped \cup (1..rev \ Told)
          /\ Goto(n, "persist")
          /\ UNCHANGED deaf
       \/ /\ closing[n] # "yes" /\ reversion[n] > 0
          /\ next' = [next EXCEPT ![n] = reversion[n] + 1]
          /\ \/ reversion[n] >= compacted /\ UNCHANGED deaf
             \/ reversion[n] <= compacted /\ deaf' = deaf \cup {n}
          /\ Goto(n, "persist")
          /\ UNCHANGED skipped
       \/ /\ closing[n] = "yes"
          /\ Goto(n, "stopped")
          /\ UNCHANGED <<next, deaf, skipped>>
    /\ UNCHANGED <<etcdVars, keyVars, closing, reversion, last, boundVars,
                   delivered, cut, unheard>>

-----------------------------------------------------------------------------
(* The loop of run().                                                      *)

\* The Put at the head of the loop; it takes the lease off the key.
Persist(n) ==
    /\ pc[n] = "persist"
    /\ Goto(n, "wait")
    /\ \/ closing[n] # "yes" /\ saved' = reversion[n] /\ leased' = FALSE
       \/ (closing[n] = "yes" \/ LossyRPC) /\ UNCHANGED keyVars
    /\ UNCHANGED <<etcdVars, closing, reversion, watchVars, boundVars, history>>

\* A batch arrives: the events of some next revisions, its header the last.
Receive(n) ==
    /\ pc[n] = "wait"
    /\ n \notin deaf
    /\ \E to \in next[n]..rev : last' = [last EXCEPT ![n] = to]
    /\ Goto(n, "deliver")
    /\ UNCHANGED <<etcdVars, keyVars, closing, reversion, next, deaf, boundVars,
                   history>>

\* The receiver takes one event.
Deliver(n) ==
    /\ pc[n] = "deliver"
    /\ closing[n] # "yes"
    /\ delivered' = [delivered EXCEPT ![n] = @ \cup {next[n]}]
    /\ next' = [next EXCEPT ![n] = @ + 1]
    /\ Goto(n, "note")
    /\ UNCHANGED <<etcdVars, keyVars, closing, reversion, last, deaf, boundVars,
                   skipped, cut, unheard>>

\* Mutant of Note: the revision noted is the one to watch from.
NoteNext(n) ==
    /\ pc[n] = "note"
    /\ reversion' = [reversion EXCEPT ![n] = last[n] + 1]
    /\ Goto(n, IF next[n] > last[n] THEN "persist" ELSE "deliver")
    /\ UNCHANGED <<etcdVars, keyVars, closing, watchVars, boundVars, history>>

\* Mutant of Note: the loop over the batch ends after its first event.
NoteFirst(n) ==
    /\ pc[n] = "note"
    /\ reversion' = [reversion EXCEPT ![n] = last[n]]
    /\ next' = [next EXCEPT ![n] = last[n] + 1]
    /\ Goto(n, "persist")
    /\ UNCHANGED <<etcdVars, keyVars, closing, last, deaf, boundVars, history>>

\* The revision of the whole batch is noted after each of its events.
Note(n) ==
    /\ pc[n] = "note"
    /\ reversion' = [reversion EXCEPT ![n] = last[n]]
    /\ Goto(n, IF next[n] > last[n] THEN "persist" ELSE "deliver")
    /\ UNCHANGED <<etcdVars, keyVars, closing, watchVars, boundVars, history>>

\* The client reconnects and finds that its place in the history is gone.
LoseWatch(n) ==
    /\ LossyRPC
    /\ pc[n] = "wait"
    /\ compacted > 0 /\ next[n] <= compacted + 1
    /\ deaf' = deaf \cup {n}
    /\ UNCHANGED <<etcdVars, keyVars, pc, closing, reversion, next, last,
                   boundVars, history>>

\* The channel of a cancelled watch is always ready and gives no events.
Spin(n) ==
    /\ pc[n] = "wait"
    /\ n \in deaf
    /\ Goto(n, "persist")
    /\ UNCHANGED <<etcdVars, keyVars, closing, reversion, watchVars, boundVars,
                   history>>

\* The context is done.
Stop(n) ==
    /\ pc[n] \in {"wait", "deliver"}
    /\ closing[n] = "yes"
    /\ Goto(n, "stopped")
    /\ UNCHANGED <<etcdVars, keyVars, closing, reversion, watchVars, boundVars,
                   history>>

-----------------------------------------------------------------------------
(* Close, crashes and restarts.                                            *)

\* Close's own Put.
ClosePut(n) ==
    /\ pc[n] # "down"
    /\ closing[n] = "no"
    /\ stops < MaxStops
    /\ stops' = stops + 1
    /\ closing' = [closing EXCEPT ![n] = "put"]
    /\ \/ /\ saved' = reversion[n] /\ leased' = FALSE
          /\ cut' = cut \cup {r \in next[n]..last[n] : r <= reversion[n]}
       \/ LossyRPC /\ UNCHANGED <<keyVars, cut>>
    /\ UNCHANGED <<etcdVars, pc, reversion, watchVars, restarts, delivered,
                   skipped, unheard>>

\* Close cancels the context and closes watchC.
CloseCancel(n) ==
    /\ pc[n] # "down"
    /\ closing[n] = "put"
    /\ closing' = [closing EXCEPT ![n] = "yes"]
    /\ UNCHANGED <<etcdVars, keyVars, pc, reversion, watchVars, boundVars, history>>

\* A select that finds both the context done and watchC closed may take the
\* send, which panics and ends the process.
SendOnClosed(n) ==
    /\ pc[n] = "deliver"
    /\ closing[n] = "yes"
    /\ Goto(n, "down")
    /\ UNCHANGED <<etcdVars, keyVars, closing, reversion, watchVars, boundVars,
                   history>>

Crash(n) ==
    /\ pc[n] # "down"
    /\ stops < MaxStops
    /\ stops' = stops + 1
    /\ Goto(n, "down")
    /\ UNCHANGED <<etcdVars, keyVars, closing, reversion, watchVars, restarts,
                   history>>

\* A new process, or a new storage in a process that has closed the old one.
Restart(n) ==
    /\ pc[n] = "down" \/ (pc[n] = "stopped" /\ closing[n] = "yes")
    /\ restarts < MaxRestarts
    /\ restarts' = restarts + 1
    /\ Goto(n, "get")
    /\ closing' = [closing EXCEPT ![n] = "no"]
    /\ reversion' = [reversion EXCEPT ![n] = 0]
    /\ next' = [next EXCEPT ![n] = 1]
    /\ last' = [last EXCEPT ![n] = 0]
    /\ deaf' = deaf \ {n}
    /\ UNCHANGED <<etcdVars, keyVars, stops, history>>

Run(n) ==
    \/ Get(n) \/ CreateKey(n) \/ StartWatch(n) \/ Persist(n)
    \/ Receive(n) \/ Deliver(n) \/ Note(n) \/ Spin(n) \/ Stop(n)

Next ==
    \/ Expire \/ Compact \/ Lapse
    \/ \E n \in Node :
        \/ Run(n) \/ LoseWatch(n) \/ ClosePut(n) \/ CloseCancel(n)
        \/ SendOnClosed(n) \/ Crash(n) \/ Restart(n)

Spec == Init /\ [][Next]_vars

\* run() is scheduled and its receiver, the loop of cron.go:132, comes back to
\* the channel; a Close that was begun goes on.
FairSpec ==
    Spec /\ \A n \in Node : WF_vars(Run(n)) /\ WF_vars(CloseCancel(n))

-----------------------------------------------------------------------------
(* Properties.                                                             *)

\* The saved revision is never ahead of what was announced: whatever deletion
\* it covers, which no restart will ask for again, has been handed to the
\* receiver of some node, or was passed over by a node that had no revision to
\* start from, or belongs to a batch Close cut short (etcd.go:182).  All nodes
\* write the one key, in any order, with what each of them has got to.
Covered ==
    saved # Absent => \A r \in 1..saved : r \in Told \cup skipped \cup cut

\* A running watch has gone past no deletion that was not dealt with: neither when
\* it starts at the revision read (etcd.go:91), which another node may have written
\* for its own progress, nor from one event of a batch, or one batch, to the next
\* (etcd.go:99).  What a watch has gone past is never sent to its node again.
NonePassedOver ==
    \A n \in Node :
        pc[n] \in {"persist", "wait", "deliver", "note"} => 1..next[n] - 1 \subseteq Settled

\* The storage implements the checkpoint it is there for: over any interleaving
\* of the nodes' writes, crashes and restarts, nothing that was dealt with has
\* to be dealt with again, and the revision saved (etcd.go:96, 182) moves, to and
\* fro, over prefixes that have been dealt with.
Promise == INSTANCE Checkpoint WITH
    produced <- rev,
    done     <- Settled,
    mark     <- IF saved = Absent THEN 0 ELSE saved

KeepsPromise == Promise!Spec

\* A deletion that a watching node has yet to hand out is handed out, unless
\* the node is closed, dies or loses its watch: no batch is left half done.
Announced ==
    \A n \in Node, r \in Rev :
        Watching(n) /\ next[n] <= r /\ r <= rev
            ~> r \in delivered[n] \/ ~Watching(n)

\* What expired while no node was running is announced by the node that starts
\* next, once a revision greater than 0 has been saved, unless that node dies, a
\* starting node takes a failed Get for an absent key, a running node is closed
\* meanwhile, or etcd has compacted that history.
Resumed ==
    \A n \in Node, r \in Rev :
        (/\ pc[n] = "get" /\ r \in unheard
         /\ saved # Absent /\ saved \in 1..r - 1)
            ~> \/ r \in Told
               \/ pc[n] = "down" \/ n \in deaf
               \/ \E m \in Node : pc[m] = "create" \/ (closing[m] # "no" /\ ~Ended(m))

-----------------------------------------------------------------------------
(* What a test of the repository says and the code does not do.            *)

\* etcd_test.go:131-173: once an expiry has been announced, one that happens
\* after the node has gone is read by the next node that starts.
NoneMissed ==
    \A r \in unheard \cap skipped : \A t \in Told : t > r

=============================================================================
