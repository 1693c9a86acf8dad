---------------------------- MODULE RedisStorage ----------------------------
(***************************************************************************)
(* storage/redis.go under the scheduler of cron.go: Redis publishes the    *)
(* expiry of a key without its value and only to whom it reaches; the      *)
(* value is asked for afterwards, under a key of its own that lives twice  *)
(* as long; locks are leases nobody renews.                                *)
(*                                                                         *)
(* The module follows one job key, since keys share nothing but lockMap,   *)
(* and may be saved several times.  Time is counted in ticks.  A process   *)
(* that dies is one that takes no more steps, which no fairness forbids.   *)
(***************************************************************************)
EXTENDS Integers, Sequences, FiniteSets

CONSTANTS
    Node,       \* processes
    MaxSaves,   \* bound: how many times the key is saved
    Delays,     \* the delays a Save may ask for, in ticks
    Second,     \* ticks to a second
    Lease,      \* ticks a lock lives: the 60 s of Obtain
    MaxReached, \* bound: how many notices of an expiry reach a node
    Closers     \* bound: the nodes that may be closed

ASSUME NodeAssumption == IsFiniteSet(Node)
ASSUME SecondAssumption == Second \in Nat \ {0}
ASSUME DelayAssumption == Delays \subseteq Nat \ {0}
ASSUME LeaseAssumption == Lease \in Nat \ {0}
ASSUME LimitAssumption == MaxSaves \in Nat /\ MaxReached \in Nat
ASSUME CloserAssumption == Closers \subseteq Node

Saves == 1..MaxSaves     \* in the order in which they begin
Events == 1..MaxSaves    \* expiries of the key, in order; each needs a Save
Goroutine == Node \X Events
Nobody == <<>>           \* the owner of a free lock

VARIABLES
    sv,       \* save -> how far the call is
    due,      \* save -> ticks until the delay it asked for is over
    wish,     \* save -> the delay it asked for, while it is under way
    key,      \* who wrote the expiring key (0: none), the ticks it lives, and
              \* the whole seconds of delay, for which the value is to outlive it
    value,    \* who wrote the value and the ticks it lives; by 0: none
    fired,    \* how many times the key has expired
    reached,  \* how many notices of that have reached a node
    queue,    \* node -> messages of its pub/sub channel
    at,       \* node -> where its run() is
    msg,      \* node -> the message run() is busy with
    state,    \* node -> open or closed
    lock,     \* owner and life of the lock in Redis
    lockMap,  \* node -> the event whose lock is in lockMap, 0: none
    go,       \* node, event -> where the goroutine is
    overran   \* history: did a lease end under a goroutine of an open node?

saveVars == <<sv, due, wish>>
dataVars == <<key, value, fired, reached>>
runVars == <<queue, at, msg>>
lockVars == <<lock, lockMap, go, overran>>
vars == <<saveVars, dataVars, runVars, state, lockVars>>

\* A message: which expiry; 0 is that of a key without the prefix, such as the
\* value's.
Message == 0..MaxSaves
Empty == 0
NoMessage == [ev |-> 0, by |-> Empty]

TypeOK ==
    /\ sv \in [Saves -> {"new", "half", "done", "lost"}]
    /\ due \in [Saves -> Nat] /\ wish \in [Saves -> Nat]
    /\ key \in [by : Saves \cup {Empty}, left : Nat, grace : Nat]
    /\ value \in [by : Saves \cup {Empty}, left : Nat]
    /\ fired \in 0..MaxSaves /\ reached \in 0..MaxReached
    /\ queue \in [Node -> Seq(Message)]
    /\ at \in [Node -> {"recv", "get", "send", "stuck", "ended"}]
    /\ msg \in [Node -> [ev : 0..MaxSaves, by : Saves \cup {Empty}]]
    /\ state \in [Node -> {"open", "closed"}]
    /\ lock \in [by : Goroutine \cup {Nobody}, left : Nat]
    /\ lockMap \in [Node -> 0..MaxSaves]
    /\ go \in [Goroutine -> {"idle", "try", "obtained", "run", "done"}]
    /\ overran \in BOOLEAN

\* Mutant of Life: a second is taken off for the time the message takes.
LifeSooner(d) == (d \div Second) * Second - Second

\* What SetEX makes of a duration: whole seconds, at least one.
Life(d) == IF d < Second THEN Second ELSE (d \div Second) * Second

Less(t) == IF t > 0 THEN t - 1 ELSE t

\* NewRedisStorage on every node: subscribed, run() started.
Init ==
    /\ sv = [s \in Saves |-> "new"]
    /\ due = [s \in Saves |-> 0] /\ wish = [s \in Saves |-> 0]
    /\ key = [by |-> Empty, left |-> 0, grace |-> 0]
    /\ value = [by |-> Empty, left |-> 0]
    /\ fired = 0 /\ reached = 0
    /\ queue = [n \in Node |-> <<>>]
    /\ at = [n \in Node |-> "recv"]
    /\ msg = [n \in Node |-> NoMessage]
    /\ state = [n \in Node |-> "open"]
    /\ lock = [by |-> Nobody, left |-> 0]
    /\ lockMap = [n \in Node |-> 0]
    /\ go = [g \in Goroutine |-> "idle"]
    /\ overran = FALSE

-----------------------------------------------------------------------------
(* Redis: the passing of time and the expiry of keys.                      *)

Tick ==
    /\ \/ key.left > 0 \/ value.left > 0 \/ lock.left > 0 \/ \E s \in Saves : due[s] > 0
    /\ key' = [key EXCEPT !.left = Less(@)]
    /\ value' = [value EXCEPT !.left = Less(@)]
    /\ lock' = [lock EXCEPT !.left = Less(@)]
    /\ due' = [s \in Saves |-> Less(due[s])]
    /\ UNCHANGED <<sv, wish, fired, reached, runVars, state, lockMap, go, overran>>

Subscribed == {n \in Node : state[n] = "open"}

\* The message m reaches the nodes R.
Publish(m, R) ==
    queue' = [n \in Node |-> IF n \in R THEN Append(queue[n], m) ELSE queue[n]]

\* Redis finds the key past its time and deletes it; how long after is open.
Expire ==
    /\ key.by # Empty /\ key.left = 0
    /\ key' = [by |-> Empty, left |-> 0, grace |-> 0]
    /\ fired' = fired + 1
    /\ \E R \in SUBSET Subscribed :
        /\ reached + Cardinality(R) <= MaxReached
        /\ reached' = reached + Cardinality(R)
        /\ Publish(fired + 1, R)
    /\ UNCHANGED <<saveVars, value, at, msg, state, lockVars>>

\* The value's key expires, which is published as well.
ExpireValue ==
    /\ value.by # Empty /\ value.left = 0
    /\ value' = [by |-> Empty, left |-> 0]
    /\ Publish(0, Subscribed)
    /\ UNCHANGED <<saveVars, key, fired, reached, at, msg, state, lockVars>>

\* The lease of a lock ends; run() passes over the message about it.
ExpireLock ==
    /\ lock.by # Nobody /\ lock.left = 0
    /\ lock' = [by |-> Nobody, left |-> 0]
    /\ overran' = (overran \/ (go[lock.by] \in {"obtained", "run"}
                                 /\ state[lock.by[1]] = "open"))
    /\ UNCHANGED <<saveVars, dataVars, runVars, state, lockMap, go>>

-----------------------------------------------------------------------------
(* Save: two requests, of which either may fail without anybody noticing.  *)
(* A key past its time is found expired before it is written again.        *)

\* Mutant of SaveKey: the key goes a second early.
SaveKeyEarly(s, d) ==
    /\ sv[s] = "new" /\ \A t \in Saves : t < s => sv[t] # "new"
    /\ sv' = [sv EXCEPT ![s] = "half"]
    /\ wish' = [wish EXCEPT ![s] = d]
    /\ due' = [due EXCEPT ![s] = d]
    /\ \/ /\ key.by # Empty => key.left > 0
          /\ key' = [by |-> s, left |-> Life(d) - Second,
                     grace |-> IF d < Second THEN 0 ELSE Life(d)]
       \/ UNCHANGED key
    /\ UNCHANGED <<value, fired, reached, runVars, state, lockVars>>

SaveKey(s, d) ==
    /\ sv[s] = "new" /\ \A t \in Saves : t < s => sv[t] # "new"
    /\ sv' = [sv EXCEPT ![s] = "half"]
    /\ wish' = [wish EXCEPT ![s] = d]
    /\ due' = [due EXCEPT ![s] = d]
    /\ \/ /\ key.by # Empty => key.left > 0
          /\ key' = [by |-> s, left |-> Life(d),
                     grace |-> IF d < Second THEN 0 ELSE Life(d)]
       \/ UNCHANGED key
    /\ UNCHANGED <<value, fired, reached, runVars, state, lockVars>>

\* Mutant of SaveValue: the value lives as long as the key.
SaveValueOnce(s) ==
    /\ sv[s] = "half"
    /\ \/ /\ value.by # Empty => value.left > 0
          /\ value' = [by |-> s, left |-> Life(wish[s])]
          /\ sv' = [sv EXCEPT ![s] = "done"]
       \/ UNCHANGED value /\ sv' = [sv EXCEPT ![s] = "lost"]
    /\ wish' = [wish EXCEPT ![s] = 0]
    /\ UNCHANGED <<due, key, fired, reached, runVars, state, lockVars>>

SaveValue(s) ==
    /\ sv[s] = "half"
    /\ \/ /\ value.by # Empty => value.left > 0
          /\ value' = [by |-> s, left |-> Life(2 * wish[s])]
          /\ sv' = [sv EXCEPT ![s] = "done"]
       \/ UNCHANGED value /\ sv' = [sv EXCEPT ![s] = "lost"]
    /\ wish' = [wish EXCEPT ![s] = 0]
    /\ UNCHANGED <<due, key, fired, reached, runVars, state, lockVars>>

-----------------------------------------------------------------------------
(* run(), and the scheduler that takes what it hands over.                 *)

\* The next message; a key without the prefix is passed over.
Receive(n) ==
    /\ at[n] = "recv" /\ queue[n] # <<>>
    /\ msg' = [msg EXCEPT ![n] = [ev |-> Head(queue[n]), by |-> Empty]]
    /\ queue' = [queue EXCEPT ![n] = Tail(@)]
    /\ at' = [at EXCEPT ![n] = IF Head(queue[n]) = 0 THEN "recv" ELSE "get"]
    /\ UNCHANGED <<saveVars, dataVars, state, lockVars>>

\* Get's error is ignored; a closed client always gives one.
Get(n) ==
    /\ at[n] = "get"
    /\ msg' = [msg EXCEPT ![n] =
                  [ev |-> @.ev, by |-> IF value.left > 0 /\ state[n] = "open"
                                       THEN value.by ELSE Empty]]
    /\ at' = [at EXCEPT ![n] = "send"]
    /\ UNCHANGED <<saveVars, dataVars, queue, state, lockVars>>

\* The loop takes the notification and starts a goroutine when it finds a
\* handler, which a value that does not decode never has.
Take(n) ==
    /\ at[n] = "send"
    /\ at' = [at EXCEPT ![n] = "recv"]
    /\ go' = IF msg[n].by = Empty THEN go
             ELSE [go EXCEPT ![<<n, msg[n].ev>>] = "try"]
    /\ msg' = [msg EXCEPT ![n] = NoMessage]
    /\ UNCHANGED <<saveVars, dataVars, queue, state, lock, lockMap, overran>>

\* The loop has been cancelled and takes nothing any more.
Abandon(n) ==
    /\ at[n] = "send" /\ state[n] = "closed"
    /\ at' = [at EXCEPT ![n] = "stuck"]
    /\ msg' = [msg EXCEPT ![n] = NoMessage]
    /\ UNCHANGED <<saveVars, dataVars, queue, state, lockVars>>

\* Mutant of RunEnds: the channel of a closed subscription stays open.
RunEndsNever(n) ==
    /\ at[n] = "ended"
    /\ UNCHANGED vars

\* The channel is closed and empty.
RunEnds(n) ==
    /\ at[n] = "recv" /\ queue[n] = <<>> /\ state[n] = "closed"
    /\ at' = [at EXCEPT ![n] = "ended"]
    /\ UNCHANGED <<saveVars, dataVars, queue, msg, state, lockVars>>

-----------------------------------------------------------------------------
(* The lock and the goroutine that asks for it.                            *)

Ask(n, e, to) == go[<<n, e>>] = "try" /\ go' = [go EXCEPT ![<<n, e>>] = to]

\* lockMap or Redis refuses, or the request fails.
Refused(n, e) ==
    /\ Ask(n, e, "done")
    /\ UNCHANGED <<saveVars, dataVars, runVars, state, lock, lockMap, overran>>

\* Mutant of Obtain: what Redis answers is not looked at.
ObtainHeld(n, e) ==
    /\ state[n] = "open" /\ lockMap[n] = 0
    /\ lock' = [by |-> <<n, e>>, left |-> Lease]
    /\ Ask(n, e, "obtained")
    /\ UNCHANGED <<saveVars, dataVars, runVars, state, lockMap, overran>>

\* SET NX with a token of its own; the answer may be lost.
Obtain(n, e) ==
    /\ state[n] = "open" /\ lockMap[n] = 0
    /\ lock.by = Nobody /\ lock' = [by |-> <<n, e>>, left |-> Lease]
    /\ Ask(n, e, "obtained") \/ Ask(n, e, "done")
    /\ UNCHANGED <<saveVars, dataVars, runVars, state, lockMap, overran>>

\* The lock is entered in lockMap and the handler starts.
StoreLock(n, e) ==
    /\ go[<<n, e>>] = "obtained"
    /\ go' = [go EXCEPT ![<<n, e>>] = "run"]
    /\ lockMap' = [lockMap EXCEPT ![n] = e]
    /\ UNCHANGED <<saveVars, dataVars, runVars, state, lock, overran>>

\* Release deletes the lock whose token it has, unless the request fails.
Release(n, e) ==
    \/ /\ state[n] = "open"
       /\ lock' = IF lock.by = <<n, e>> THEN [by |-> Nobody, left |-> 0] ELSE lock
    \/ UNCHANGED lock

\* Handler and sleep are over; UnLock takes what lockMap has.
UnLock(n, e) ==
    /\ go[<<n, e>>] = "run"
    /\ go' = [go EXCEPT ![<<n, e>>] = "done"]
    /\ lockMap' = [lockMap EXCEPT ![n] = 0]
    /\ IF lockMap[n] = 0 THEN UNCHANGED lock ELSE Release(n, lockMap[n])
    /\ UNCHANGED <<saveVars, dataVars, runVars, state, overran>>

-----------------------------------------------------------------------------
(* Close.                                                                  *)

\* elasticJob.Close: the loop is cancelled, and the storage releases what is in
\* lockMap, running or not, and leaves it there.
Close(n) ==
    /\ state[n] = "open" /\ n \in Closers
    /\ state' = [state EXCEPT ![n] = "closed"]
    /\ IF lockMap[n] = 0 THEN UNCHANGED lock ELSE Release(n, lockMap[n])
    /\ UNCHANGED <<saveVars, dataVars, runVars, lockMap, go, overran>>

Run(n) == Receive(n) \/ Get(n) \/ Take(n) \/ Abandon(n) \/ RunEnds(n)

Next ==
    \/ Tick \/ Expire \/ ExpireValue \/ ExpireLock
    \/ \E s \in Saves : SaveValue(s) \/ \E d \in Delays : SaveKey(s, d)
    \/ \E n \in Node :
        \/ Run(n) \/ Close(n)
        \/ \E e \in Events :
            Refused(n, e) \/ Obtain(n, e) \/ StoreLock(n, e) \/ UnLock(n, e)

Spec == Init /\ [][Next]_vars

\* run() and the scheduler's loop are scheduled.
FairSpec == Spec /\ \A n \in Node : WF_vars(Run(n))

-----------------------------------------------------------------------------
(* Properties.                                                             *)

\* TryLock, UnLock and Close of redis.go:92-146: as long as no handler takes
\* longer than the lease of redis.go:97, two nodes with an open storage, or two
\* goroutines of one, are never in the handler at once.
Exclusion ==
    ~overran =>
        \A g, h \in Goroutine :
            go[g] = "run" /\ go[h] = "run" /\ state[g[1]] = "open" /\ state[h[1]] = "open" => g = h

\* A value announced a second or more before its time (redis.go:57 asks for the
\* value after the event, redis.go:74-80 writes key and value separately) was
\* saved while another Save of the key was on its way or had been made.
EarlyNeedsTwoSaves ==
    \A n \in Node : at[n] = "send" /\ msg[n].by # Empty =>
        \/ due[msg[n].by] < Second
        \/ \E s \in Saves \ {msg[n].by} : sv[s] # "new"

\* A key saved once for a second or more, without a lost request, is outlived by
\* its value for at least the whole seconds of the delay: for that long the nodes
\* can ask for it after the expiry, which is what redis.go:76-80 keeps it for.
ValueOutlives ==
    \A s \in Saves :
        /\ key.by = s /\ key.left > 0 /\ sv[s] = "done"
        /\ \A t \in Saves \ {s} : sv[t] = "new"
        => value.by = s /\ value.left >= key.left + key.grace

\* After Close run() comes to its end, but for one that has something to hand
\* over to a loop that is gone (redis.go:62), where it stays.
RunReturns ==
    \A n \in Node :
        state[n] = "closed" ~> at[n] \in {"ended", "stuck"}
=============================================================================
