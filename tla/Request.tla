------------------------------- MODULE Request -------------------------------
(***************************************************************************)
(* core/: what happens to a request between gin and the user's handlers.   *)
(* The chain of a route is the list of handlers gin runs: each is called   *)
(* by a loop, the outermost one or the Next() of a middleware that is      *)
(* waiting for those behind it, and the loops share one index.  Several    *)
(* requests run at once and share the pool of Context objects and the      *)
(* rate limiter.                                                           *)
(***************************************************************************)
EXTENDS Naturals, Sequences, SequencesExt, FiniteSetsExt

CONSTANTS
    Requests,   \* the requests of the run
    RoutesOf,   \* the routes each of them may ask for
    Object,     \* the Context objects there are memory for: 1..n
    Burst,      \* _MaxBurstSize
    Refusals,   \* the errors an auth handler answers with (middle_jwt.go)
    Errors,     \* the other response.Errors a handler may fail with
    MaxCalls,   \* bound: Payload and AbortWithError calls of one handler
    Nil

ASSUME RequestAssumption ==
    /\ Object \subseteq Nat /\ Burst \in Nat /\ MaxCalls \in Nat
    /\ Nil \notin Requests /\ Nil \notin Nat
    /\ \A e \in Refusals \cup Errors : e.http \in Nat /\ e.code \in Nat \ {0}

\* newContext always gets one: there are more objects than the frames of all
\* requests, of which each has at most one to a handler of its chain.
ASSUME MemoryAssumption ==
    /\ IsFiniteSet(Requests) /\ IsFiniteSet(Object)
    /\ Cardinality(Object) > 7 * Cardinality(Requests)

\* The codes of response.go that this package uses by itself.
ServerError == 10001
TooManyRequests == 10002

\* Routes of New and of a group that uses the middlewares.  The health check
\* is registered before the telemetry; a 404 of gin's own passes none of them.
Chain == [api |-> <<"recover", "rate", "telemetry", "limit", "disablelog", "auth", "handler">>,
          open |-> <<"recover", "rate", "telemetry", "handler">>,
          health |-> <<"recover", "rate", "health">>]
Waiting == {"recover", "rate", "telemetry"}  \* call Next() and go on afterwards
Kinds == {"recover", "rate", "telemetry", "limit", "disablelog", "auth", "handler", "health"}

VARIABLES
    req,     \* per request: gin's context, the writer, and what is recorded
    holds,   \* Object -> the request in its ctx field, or Nil
    pool,    \* contextPool
    tokens   \* the limiter's

vars == <<req, holds, pool, tokens>>

Frames == UNION {ToSet(req[r].stack) : r \in Requests}

TypeOK ==
    /\ req \in [Requests ->
         [state : {"new", "running", "done", "broken"}, route : DOMAIN Chain,
          next : Nat, stack : Seq([kind : Kinds, object : Object, calls : Nat]),
          panicking : BOOLEAN, panicked : BOOLEAN, notified : Requests \cup {Nil},
          aborted : BOOLEAN, user : BOOLEAN, nolog : BOOLEAN,
          status : Nat, sent : Nat, bodies : Nat, response : Nat \cup {Nil},
          span : {"none", "open", "ended"}, ok : BOOLEAN,
          metrics : Seq([http : Nat, code : Nat]), logged : BOOLEAN]]
    /\ holds \in [Object -> Requests \cup {Nil}]
    /\ pool \subseteq Object /\ tokens \in 0..Burst

Init ==
    /\ req \in [Requests ->
         {[state |-> "new", route |-> route, next |-> 0, stack |-> <<>>,
           panicking |-> FALSE, panicked |-> FALSE, notified |-> Nil,
           aborted |-> FALSE, user |-> FALSE, nolog |-> FALSE,
           status |-> 200, sent |-> 0, bodies |-> 0, response |-> Nil,
           span |-> "none", ok |-> FALSE, metrics |-> <<>>, logged |-> FALSE] :
          route \in DOMAIN Chain}]
    /\ \A r \in Requests : req[r].route \in RoutesOf[r]
    /\ holds = [o \in Object |-> Nil] /\ pool = {}
    /\ tokens = Burst

-----------------------------------------------------------------------------
(* The Context objects.                                                    *)

\* newContext: a pooled object or a new one.  Those in the pool are alike, and
\* so are those never made: the lowest stands for any.
Taken == Min(IF pool # {} THEN pool ELSE Object \ {f.object : f \in Frames})

Push(q, kind) == [q EXCEPT !.next = @ + 1,
                           !.stack = <<[kind |-> kind, object |-> Taken, calls |-> 0]>> \o @]
NewContext(r) ==
    /\ holds' = [holds EXCEPT ![Taken] = r]
    /\ pool' = pool \ {Taken}

Pop(q) == [q EXCEPT !.stack = Tail(@)]
ReleaseContext(q) ==
    /\ holds' = [holds EXCEPT ![Head(q.stack).object] = Nil]
    /\ pool' = pool \cup {Head(q.stack).object}

-----------------------------------------------------------------------------
(* Answers.                                                                *)

\* The first WriteHeaderNow goes out; Status() is the last code set (gin 1.7).
\* A JSON body follows whatever has been written before.
Write(q, http, code) ==
    [q EXCEPT !.status = http, !.sent = IF @ = 0 THEN http ELSE @,
              !.bodies = @ + 1, !.response = code]

\* Payload: nothing when there is a response already.
Payload(q) == IF q.response # Nil THEN q ELSE Write(q, 200, 0)

\* AbortWithError with a response.Error; 0 means 500.  Whatever has been
\* written, the error is written too.
AbortWithError(q, e) ==
    [Write(q, IF e.http = 0 THEN 500 ELSE e.http, e.code) EXCEPT !.aborted = TRUE]

PlainError == [http |-> 500, code |-> ServerError]

-----------------------------------------------------------------------------
(* The loops that call handlers.                                           *)

Top(q) == IF q.stack = <<>> THEN "none" ELSE Head(q.stack).kind
Looping(q) == q.state = "running" /\ ~q.panicking /\ Top(q) \in Waiting \cup {"none"}
Over(q) == q.aborted \/ q.next = Len(Chain[q.route])
Calls(q, kind) == Looping(q) /\ ~Over(q) /\ Chain[q.route][q.next + 1] = kind
Set(r, q) == req' = [req EXCEPT ![r] = q]

ServeHTTP(r) ==
    /\ req[r].state = "new"
    /\ req' = [req EXCEPT ![r].state = "running"]
    /\ UNCHANGED <<holds, pool, tokens>>

\* The outermost loop is over: what nobody wrote is an empty 200.
Finish(r) ==
    /\ Looping(req[r]) /\ Over(req[r]) /\ req[r].stack = <<>>
    /\ Set(r, [req[r] EXCEPT !.state = "done", !.sent = IF @ = 0 THEN req[r].status ELSE @])
    /\ UNCHANGED <<holds, pool, tokens>>

-----------------------------------------------------------------------------
(* The middlewares of New.                                                 *)

CallRecover(r) ==
    /\ Calls(req[r], "recover")
    /\ Set(r, Push(req[r], "recover"))
    /\ NewContext(r)
    /\ UNCHANGED tokens

\* Mutant of CallRate: it waits for a token.
CallRateWaits(r) ==
    /\ Calls(req[r], "rate") /\ tokens > 0
    /\ Set(r, Push(req[r], "rate"))
    /\ NewContext(r)
    /\ tokens' = tokens - 1

\* Mutant of CallRate: the answer of Allow is not looked at.
CallRateIgnored(r) ==
    /\ Calls(req[r], "rate")
    /\ Set(r, Push(req[r], "rate"))
    /\ NewContext(r)
    /\ tokens' = tokens - 1

\* With a token the chain goes on inside; without one the answer is 429.
CallRate(r) ==
    /\ Calls(req[r], "rate")
    /\ IF tokens > 0
       THEN /\ Set(r, Push(req[r], "rate"))
            /\ NewContext(r)
            /\ tokens' = tokens - 1
       ELSE /\ Set(r, AbortWithError([req[r] EXCEPT !.next = @ + 1],
                                     [http |-> 429, code |-> TooManyRequests]))
            /\ UNCHANGED <<holds, pool, tokens>>

Refill ==
    /\ tokens < Burst
    /\ tokens' = tokens + 1
    /\ UNCHANGED <<req, holds, pool>>

CallTelemetry(r) ==
    /\ Calls(req[r], "telemetry")
    /\ Set(r, [Push(req[r], "telemetry") EXCEPT !.span = "open"])
    /\ NewContext(r)
    /\ UNCHANGED tokens

\* Mutant of Recorded: the metric is written only for what went well.
RecordedIfOk(q) ==
    IF q.response = Nil \/ q.aborted THEN q
    ELSE [q EXCEPT !.ok = TRUE, !.logged = ~q.nolog,
                   !.metrics = Append(@, [http |-> q.status, code |-> q.response])]

\* What Telemetry writes down after Next(): nothing of a 404, nor of a request
\* that neither Payload nor AbortWithError has answered.
Recorded(q) ==
    IF q.status = 404 \/ q.response = Nil THEN q
    ELSE [q EXCEPT !.ok = ~q.aborted /\ q.status = 200,
                   !.metrics = Append(@, [http |-> q.status, code |-> q.response]),
                   !.logged = ~q.nolog]

\* A waiting middleware whose loop is over returns.
Leave(r) ==
    /\ Looping(req[r]) /\ Over(req[r]) /\ req[r].stack # <<>>
    /\ Set(r, IF Top(req[r]) = "telemetry" THEN [Recorded(Pop(req[r])) EXCEPT !.span = "ended"]
              ELSE Pop(req[r]))
    /\ ReleaseContext(req[r])
    /\ UNCHANGED tokens

-----------------------------------------------------------------------------
(* Wrapped handlers: each gets a Context of its own and gives it back.     *)

\* RequestLimit and DisableLog do one thing and return.
CallLimit(r) ==
    /\ Calls(req[r], "limit")
    /\ \/ Set(r, [req[r] EXCEPT !.next = @ + 1])
       \/ Set(r, AbortWithError([req[r] EXCEPT !.next = @ + 1],
                                [http |-> 403, code |-> TooManyRequests]))
    /\ UNCHANGED <<holds, pool, tokens>>

CallDisableLog(r) ==
    /\ Calls(req[r], "disablelog")
    /\ Set(r, [req[r] EXCEPT !.next = @ + 1, !.nolog = TRUE])
    /\ UNCHANGED <<holds, pool, tokens>>

CallUser(r, kind) ==
    /\ kind \in {"auth", "handler", "health"}
    /\ Calls(req[r], kind)
    /\ Set(r, Push(req[r], kind))
    /\ NewContext(r)
    /\ UNCHANGED tokens

In(q, kind) == q.state = "running" /\ ~q.panicking /\ Top(q) = kind
Return(r, q) == Set(r, Pop(q)) /\ ReleaseContext(req[r]) /\ UNCHANGED tokens

\* Mutant of Auth: a refusal does not stop the chain.
AuthGoesOn(r) ==
    /\ In(req[r], "auth")
    /\ \/ Return(r, [req[r] EXCEPT !.user = TRUE])
       \/ \E e \in Refusals : Return(r, Write(req[r], e.http, e.code))

\* WrapAuthHandler.
Auth(r) ==
    /\ In(req[r], "auth")
    /\ \/ Return(r, [req[r] EXCEPT !.user = TRUE])
       \/ \E e \in Refusals : Return(r, AbortWithError(req[r], e))

Health(r) ==
    /\ In(req[r], "health")
    /\ Return(r, Payload(req[r]))

\* A handler answers in any way, more than once if it likes, and returns.
Answer(r) ==
    /\ In(req[r], "handler") /\ Head(req[r].stack).calls < MaxCalls
    /\ \E q \in {Payload(req[r])} \cup {AbortWithError(req[r], e) : e \in Errors \cup {PlainError}} :
          Set(r, [q EXCEPT !.stack[1].calls = @ + 1])
    /\ UNCHANGED <<holds, pool, tokens>>

HandlerReturns(r) ==
    /\ In(req[r], "handler")
    /\ Return(r, req[r])

-----------------------------------------------------------------------------
(* Panics.                                                                 *)

\* In a handler or in an auth handler.
Panic(r) ==
    /\ In(req[r], "handler") \/ In(req[r], "auth")
    /\ Set(r, [req[r] EXCEPT !.panicking = TRUE, !.panicked = TRUE])
    /\ UNCHANGED <<holds, pool, tokens>>

\* Mutant of Unwind: the span is ended by a last statement, not by a defer.
UnwindPlain(r) ==
    /\ req[r].panicking /\ req[r].stack # <<>> /\ Top(req[r]) # "recover"
    /\ Set(r, Pop(req[r]))
    /\ ReleaseContext(req[r])
    /\ UNCHANGED tokens

\* A frame below: its deferred calls run, the rest of it does not.
Unwind(r) ==
    /\ req[r].panicking /\ req[r].stack # <<>> /\ Top(req[r]) # "recover"
    /\ Set(r, [Pop(req[r]) EXCEPT !.span = IF Top(req[r]) = "telemetry" THEN "ended" ELSE @])
    /\ ReleaseContext(req[r])
    /\ UNCHANGED tokens

\* Mutant of Recover: the context is given back before the callback has it.
RecoverLate(r) ==
    /\ req[r].panicking /\ Top(req[r]) = "recover"
    /\ ReleaseContext(req[r])
    /\ Set(r, [Pop(req[r]) EXCEPT !.panicking = FALSE,
                                  !.notified = holds'[Head(req[r].stack).object]])
    /\ UNCHANGED tokens

\* The recover middleware: panicNotify is given its Context, then the Context
\* goes back and the middleware returns.  It does not abort: the outermost loop
\* goes on with the handler behind the one that panicked.
Recover(r) ==
    /\ req[r].panicking /\ Top(req[r]) = "recover"
    /\ Set(r, [Pop(req[r]) EXCEPT !.panicking = FALSE,
                                  !.notified = holds[Head(req[r].stack).object]])
    /\ ReleaseContext(req[r])
    /\ UNCHANGED tokens

\* Nobody recovers any more: net/http gives the connection up.
Break(r) ==
    /\ req[r].panicking /\ req[r].stack = <<>>
    /\ req' = [req EXCEPT ![r].panicking = FALSE, ![r].state = "broken"]
    /\ UNCHANGED <<holds, pool, tokens>>

-----------------------------------------------------------------------------
Step(r) ==
    \/ CallRecover(r) \/ CallRate(r) \/ CallTelemetry(r) \/ Leave(r) \/ Finish(r)
    \/ CallLimit(r) \/ CallDisableLog(r)
    \/ \E kind \in {"auth", "handler", "health"} : CallUser(r, kind)
    \/ Auth(r) \/ Health(r) \/ Answer(r) \/ HandlerReturns(r)
    \/ Panic(r) \/ Unwind(r) \/ Recover(r) \/ Break(r)

Next == (\E r \in Requests : ServeHTTP(r) \/ Step(r)) \/ Refill

Spec == Init /\ [][Next]_vars

\* A request's goroutine is not stopped.
FairSpec == Spec /\ \A r \in Requests : WF_vars(Step(r))

-----------------------------------------------------------------------------
(* Properties.                                                             *)

Ended(q) == q.state \in {"done", "broken"}

\* No Context object is in two hands, through returns, refusals and panics of
\* any requests: each one a handler is running with holds its own request, those
\* in the pool hold none, and panicNotify is given the request that panicked.
OwnContext ==
    /\ \A r \in Requests : \A j \in DOMAIN req[r].stack :
          /\ holds[req[r].stack[j].object] = r
          /\ \A k \in DOMAIN req[r].stack :
                req[r].stack[j].object = req[r].stack[k].object => j = k
    /\ \A o \in Object : holds[o] # Nil => o \in {f.object : f \in Frames} \ pool
    /\ \A r \in Requests : req[r].panicked /\ ~req[r].panicking /\ req[r].state # "broken"
                              => req[r].notified = r

\* Behind an auth handler a handler runs for a known user: the one exception is
\* an auth handler that panicked, after which gin goes on with the chain.
UserKnown ==
    \A r \in Requests :
        (req[r].route = "api" /\ Top(req[r]) = "handler") =>
            /\ ~req[r].user => req[r].panicked
            /\ req[r].aborted => Head(req[r].stack).calls > 0

\* Telemetry accounts for every request of the API: one metric for each that
\* got an answer other than 404 and did not panic below it, with the business
\* code of the last answer, and with the HTTP code the client was sent unless
\* the handler answered twice; nothing is left open, and only a success is Ok.
Accounted ==
    \A r \in Requests : LET q == req[r] IN
        Ended(q) =>
            /\ q.span # "open" /\ q.stack = <<>>
            /\ (q.span = "ended" /\ q.response # Nil /\ q.status # 404 /\ ~q.panicked)
                  <=> Len(q.metrics) = 1
            /\ Len(q.metrics) <= 1
            /\ \A m \in ToSet(q.metrics) : /\ m.code = q.response
                                           /\ m.http = q.sent \/ q.bodies > 1
            /\ q.ok => q.response = 0 /\ q.sent = 200

\* Every request comes to an end, whatever its handlers do.
Served == \A r \in Requests : req[r].state = "running" ~> Ended(req[r])
=============================================================================
