------------------------------ MODULE Lifecycle ------------------------------
(***************************************************************************)
(* How a process starts and stops: pkg/elastic_job/global.go, the one job  *)
(* of the process made behind a sync.Once, and pkg/shutdown/shutdown.go,   *)
(* the hook that waits for a signal and calls the functions it was given.  *)
(***************************************************************************)
EXTENDS Naturals, Sequences, FiniteSets

CONSTANTS
    Callers,      \* goroutines that call InitGlobalJob and then Get
    Closers,      \* how many functions Close is given
    MaxSignals    \* bound: signals the process is sent

ConstantsOK == Closers \in Nat /\ MaxSignals \in Nat

VARIABLES
    once,      \* the sync.Once: "new", "running", "done"
    made,      \* calls of New so far
    ej,        \* is the global there?
    at,        \* where each caller is
    result,    \* what InitGlobalJob returned to each
    hook,      \* the hook: "none", "made", "waiting", "closing", "closed"
    signals,   \* its channel, which holds one
    sent,      \* signals sent
    called,    \* functions called by Close, in order
    killed     \* has a signal ended the process, as signals do that nobody waits for?

job == <<once, made, ej, at, result>>
stop == <<hook, signals, sent, called, killed>>
vars == <<job, stop>>

TypeOK ==
    /\ once \in {"new", "running", "done"} /\ made \in Nat /\ ej \in BOOLEAN
    /\ at \in [Callers -> {"start", "blocked", "in", "inited", "got", "panic"}]
    /\ result \in [Callers -> {"none", "nil", "error"}]
    /\ hook \in {"none", "made", "waiting", "closing", "closed"}
    /\ signals \in 0..1 /\ sent \in 0..MaxSignals
    /\ called \in Seq(1..Closers) /\ killed \in BOOLEAN

Init ==
    /\ once = "new" /\ made = 0 /\ ej = FALSE
    /\ at = [c \in Callers |-> "start"] /\ result = [c \in Callers |-> "none"]
    /\ hook = "none" /\ signals = 0 /\ sent = 0 /\ called = <<>> /\ killed = FALSE

-----------------------------------------------------------------------------
(* The global job.                                                         *)

\* Mutant of InitGlobalJob: a plain flag in place of the Once.
InitGlobalJobUnguarded(c) ==
    /\ ~killed /\ at[c] = "start"
    /\ IF ~ej THEN at' = [at EXCEPT ![c] = "in"] /\ once' = "running" /\ UNCHANGED result
       ELSE /\ at' = [at EXCEPT ![c] = "inited"]
            /\ result' = [result EXCEPT ![c] = "nil"]
            /\ UNCHANGED once
    /\ UNCHANGED <<made, ej, stop>>

\* once.Do: the first caller goes in, others wait for it and return nil.
InitGlobalJob(c) ==
    /\ ~killed /\ at[c] \in {"start", "blocked"}
    /\ CASE once = "new" -> /\ at' = [at EXCEPT ![c] = "in"]
                            /\ once' = "running"
                            /\ UNCHANGED result
         [] once = "running" -> /\ at[c] = "start"
                                /\ at' = [at EXCEPT ![c] = "blocked"]
                                /\ UNCHANGED <<once, result>>
         [] once = "done" -> /\ at' = [at EXCEPT ![c] = "inited"]
                             /\ result' = [result EXCEPT ![c] = "nil"]
                             /\ UNCHANGED once
    /\ UNCHANGED <<made, ej, stop>>

\* New inside the Once, which is spent whether New fails or not.
New(c) ==
    /\ ~killed /\ at[c] = "in"
    /\ made' = made + 1
    /\ once' = "done"
    /\ at' = [at EXCEPT ![c] = "inited"]
    /\ \E fails \in BOOLEAN : /\ ej' = ~fails
                              /\ result' = [result EXCEPT ![c] = IF fails THEN "error" ELSE "nil"]
    /\ UNCHANGED stop

\* Get panics when there is no instance.  A caller told of an error leaves it.
Get(c) ==
    /\ ~killed /\ at[c] = "inited" /\ result[c] = "nil"
    /\ at' = [at EXCEPT ![c] = IF ej THEN "got" ELSE "panic"]
    /\ UNCHANGED <<once, made, ej, result, stop>>

-----------------------------------------------------------------------------
(* The shutdown hook.                                                      *)

NewHook ==
    /\ ~killed /\ hook = "none"
    /\ hook' = "made"
    /\ UNCHANGED <<job, signals, sent, called, killed>>

\* Mutant of Close: the channel is made when it is waited for.
CloseForgets ==
    /\ ~killed /\ hook = "made"
    /\ hook' = "waiting" /\ signals' = 0
    /\ UNCHANGED <<job, sent, called, killed>>

Close ==
    /\ ~killed /\ hook = "made"
    /\ hook' = "waiting"
    /\ UNCHANGED <<job, signals, sent, called, killed>>

\* Mutant of Signal: the channel takes all of them.
SignalQueued ==
    /\ ~killed /\ sent < MaxSignals
    /\ sent' = sent + 1
    /\ IF hook \in {"made", "waiting"}
       THEN signals' = signals + 1 /\ UNCHANGED killed
       ELSE killed' = TRUE /\ UNCHANGED signals
    /\ UNCHANGED <<job, hook, called>>

\* A signal goes into the channel when there is room and is dropped when there
\* is not; before NewHook and after signal.Stop it ends the process.
Signal ==
    /\ ~killed /\ sent < MaxSignals
    /\ sent' = sent + 1
    /\ IF hook \in {"made", "waiting"}
       THEN signals' = 1 /\ UNCHANGED killed
       ELSE killed' = TRUE /\ UNCHANGED signals
    /\ UNCHANGED <<job, hook, called>>

Awake ==
    /\ ~killed /\ hook = "waiting" /\ signals = 1
    /\ hook' = "closing" /\ signals' = 0
    /\ UNCHANGED <<job, sent, called, killed>>

\* The functions are called one after the other.
CloseNext ==
    /\ ~killed /\ hook = "closing"
    /\ IF Len(called) < Closers THEN called' = Append(called, Len(called) + 1) /\ UNCHANGED hook
       ELSE hook' = "closed" /\ UNCHANGED called
    /\ UNCHANGED <<job, signals, sent, killed>>

-----------------------------------------------------------------------------
Next ==
    \/ \E c \in Callers : InitGlobalJob(c) \/ New(c) \/ Get(c)
    \/ NewHook \/ Close \/ Signal \/ Awake \/ CloseNext

Spec == Init /\ [][Next]_vars

\* Goroutines go on, and main ends with Close; signals come or do not.
Fair ==
    /\ \A c \in Callers : WF_vars(InitGlobalJob(c) \/ New(c) \/ Get(c))
    /\ WF_vars(Close \/ Awake \/ CloseNext)

-----------------------------------------------------------------------------
(* Properties.                                                             *)

\* One instance at most is made, and Get works for whoever InitGlobalJob
\* answered nil, unless the one call of New failed: its error goes to the first
\* caller only, and the others are told nil with no instance behind it.
OneInstance ==
    /\ made <= 1
    /\ \A c \in Callers : at[c] = "panic" =>
          \E d \in Callers \ {c} : result[d] = "error"
    /\ Cardinality({c \in Callers : result[c] = "error"}) <= 1

\* A signal that came after NewHook leads to the functions being called, also
\* one that came before Close, unless a second signal ends the process first.
ClosesDown == (hook \in {"made", "waiting"} /\ signals = 1) ~> (hook = "closed" \/ killed)
=============================================================================
