---------------------------- MODULE RequestProofs ----------------------------
(***************************************************************************)
(* Proofs about Request for any number of requests, routes and errors, and *)
(* any number of answers a handler gives.                                  *)
(***************************************************************************)
EXTENDS Request, FiniteSetTheorems, SequenceTheorems, WellFoundedInduction, TLAPS

USE RequestAssumption

-----------------------------------------------------------------------------
(* What is true of one request, whatever the others do.                    *)

Frame == [kind : Kinds, object : Object, calls : Nat]

RequestState ==
    [state : {"new", "running", "done", "broken"}, route : DOMAIN Chain,
     next : Nat, stack : Seq(Frame),
     panicking : BOOLEAN, panicked : BOOLEAN, notified : Requests \cup {Nil},
     aborted : BOOLEAN, user : BOOLEAN, nolog : BOOLEAN,
     status : Nat, sent : Nat, bodies : Nat, response : Nat \cup {Nil},
     span : {"none", "open", "ended"}, ok : BOOLEAN,
     metrics : Seq([http : Nat, code : Nat]), logged : BOOLEAN]

\* The frames lie on one another as their handlers stand in the chain: below the
\* top one only those that wait, at the bottom the one that recovers.
Shape(q) ==
    /\ q.next <= Len(Chain[q.route]) /\ Len(q.stack) <= q.next
    /\ \A j \in 2..Len(q.stack) : q.stack[j].kind \in Waiting
    /\ \A j \in 1..Len(q.stack) : q.stack[j].kind = "recover" => j = Len(q.stack)
    /\ \A j \in 1..Len(q.stack) : q.stack[j].kind \in {"auth", "handler"} => q.next >= 4
    /\ q.state # "running" => q.stack = <<>>

Panics(q) ==
    /\ q.panicking => q.panicked /\ q.state = "running"
    /\ q.panicked => q.next >= 4
    /\ q.state = "broken" => q.panicked

\* What was written fits what is remembered of it.
Answered(q) ==
    /\ q.bodies = 0 => /\ q.response = Nil /\ q.status = 200 /\ ~q.aborted
                       /\ q.state # "done" => q.sent = 0
    /\ q.bodies > 0 => q.response # Nil /\ q.sent # 0
    /\ q.bodies = 1 => q.sent = q.status
    /\ ~q.aborted /\ q.bodies > 0 => q.bodies = 1 /\ q.response = 0 /\ q.status = 200

\* The span is open as long as the telemetry waits, and it waits once.
Spanned(q) ==
    /\ q.span = "open" <=> \E j \in 1..Len(q.stack) : q.stack[j].kind = "telemetry"
    /\ \A j, k \in 1..Len(q.stack) :
          q.stack[j].kind = "telemetry" /\ q.stack[k].kind = "telemetry" => j = k
    /\ q.span # "none" => q.next >= 3
    /\ q.span = "open" /\ q.panicked => q.panicking

\* After the telemetry has returned nothing is answered any more; when it did
\* not return, or was passed by a panic, it has written nothing.
Written(q) ==
    /\ q.span # "ended" \/ q.panicked => q.metrics = <<>> /\ ~q.ok
    /\ q.span = "ended" /\ ~q.panicked =>
          /\ Over(q) /\ \A j \in 1..Len(q.stack) : q.stack[j].kind \in Waiting
          /\ q.metrics = IF q.status = 404 \/ q.response = Nil THEN <<>>
                         ELSE <<[http |-> q.status, code |-> q.response]>>
          /\ q.ok => ~q.aborted /\ q.status = 200 /\ q.response # Nil

\* Whoever has passed the auth handler is known, refused, or it panicked.
Known(q) ==
    q.route = "api" =>
        /\ q.next >= 6 /\ ~q.user => q.panicked \/ q.aborted \/ Top(q) = "auth"
        /\ Top(q) = "handler" => /\ q.user \/ q.panicked
                                 /\ q.aborted => q.stack[1].calls > 0

Sound(q) == q \in RequestState /\ Shape(q) /\ Panics(q) /\ Answered(q)
            /\ Spanned(q) /\ Written(q) /\ Known(q)

Notified(r, q) == q.panicked /\ ~q.panicking /\ q.state # "broken" => q.notified = r

-----------------------------------------------------------------------------
(* Who has which Context.                                                  *)

Owned ==
    /\ \A r \in Requests : \A j \in 1..Len(req[r].stack) :
          /\ holds[req[r].stack[j].object] = r
          /\ \A k \in 1..Len(req[r].stack) :
                req[r].stack[j].object = req[r].stack[k].object => j = k
    /\ \A o \in Object : holds[o] # Nil =>
          \E r \in Requests : \E j \in 1..Len(req[r].stack) : req[r].stack[j].object = o
    /\ \A o \in pool : holds[o] = Nil

IInv ==
    /\ DOMAIN req = Requests /\ req = [r \in Requests |-> req[r]]
    /\ holds \in [Object -> Requests \cup {Nil}] /\ pool \subseteq Object /\ tokens \in 0..Burst
    /\ \A r \in Requests : Sound(req[r]) /\ Notified(r, req[r])
    /\ Owned

-----------------------------------------------------------------------------
(* The chain and the stack.                                                *)

\* Where a handler stands in the chains.
LEMMA ChainFacts ==
    ASSUME NEW route \in DOMAIN Chain
    PROVE  /\ Len(Chain[route]) \in 1..7
           /\ route = "api" => Len(Chain[route]) = 7
           /\ \A j \in 1..Len(Chain[route]) :
                 /\ Chain[route][j] \in Kinds
                 /\ Chain[route][j] = "recover" => j = 1
                 /\ Chain[route][j] = "rate" => j = 2
                 /\ Chain[route][j] = "telemetry" => j = 3
                 /\ Chain[route][j] = "limit" => j = 4
                 /\ Chain[route][j] = "disablelog" => j = 5
                 /\ Chain[route][j] = "auth" => j = 6
                 /\ Chain[route][j] = "handler" => j >= 4 /\ (route = "api" => j = 7)
                 /\ Chain[route][j] = "health" => j = 3 /\ route # "api"
<1>1. CASE route = "api"
  <2>1. Chain[route] = <<"recover", "rate", "telemetry", "limit", "disablelog", "auth", "handler">>
    BY <1>1 DEF Chain
  <2> QED
    BY <1>1, <2>1 DEF Kinds
<1>2. CASE route = "open"
  <2>1. Chain[route] = <<"recover", "rate", "telemetry", "handler">>
    BY <1>2 DEF Chain
  <2> QED
    BY <1>2, <2>1 DEF Kinds
<1>3. CASE route = "health"
  <2>1. Chain[route] = <<"recover", "rate", "health">>
    BY <1>3 DEF Chain
  <2> QED
    BY <1>3, <2>1 DEF Kinds
<1> QED
  BY <1>1, <1>2, <1>3 DEF Chain

\* All but the position and the stack.
Alike(p, q) ==
    /\ p.state = q.state /\ p.route = q.route /\ p.panicking = q.panicking
    /\ p.panicked = q.panicked /\ p.notified = q.notified /\ p.aborted = q.aborted
    /\ p.user = q.user /\ p.status = q.status /\ p.sent = q.sent /\ p.bodies = q.bodies
    /\ p.response = q.response /\ p.span = q.span /\ p.ok = q.ok /\ p.metrics = q.metrics

LEMMA Pushed ==
    ASSUME NEW q \in RequestState, NEW kind \in Kinds, Taken \in Object,
           NEW p, p = Push(q, kind)
    PROVE  /\ p \in RequestState
           /\ Alike(p, q) /\ p.next = q.next + 1
           /\ Len(p.stack) = Len(q.stack) + 1
           /\ p.stack[1] = [kind |-> kind, object |-> Taken, calls |-> 0]
           /\ \A j \in 1..Len(q.stack) : p.stack[j + 1] = q.stack[j]
           /\ \A j \in 2..Len(p.stack) : p.stack[j] = q.stack[j - 1]
<1> DEFINE f == [kind |-> kind, object |-> Taken, calls |-> 0]
<1>1. <<f>> \in Seq(Frame) /\ Len(<<f>>) = 1 /\ <<f>>[1] = f
  BY DEF Frame
<1>2. q.stack \in Seq(Frame) /\ q.next \in Nat
  BY DEF RequestState
<1>3. p = [q EXCEPT !.next = q.next + 1, !.stack = <<f>> \o q.stack]
  BY DEF Push
<1>4. /\ <<f>> \o q.stack \in Seq(Frame) /\ Len(<<f>> \o q.stack) = 1 + Len(q.stack)
      /\ \A i \in 1..1 + Len(q.stack) :
            (<<f>> \o q.stack)[i] = IF i <= 1 THEN <<f>>[i] ELSE q.stack[i - 1]
  BY <1>1, <1>2, ConcatProperties
<1>5. p.stack = <<f>> \o q.stack /\ p.next = q.next + 1
  BY <1>3 DEF RequestState
<1>6. Len(q.stack) \in Nat
  BY <1>2
<1> HIDE DEF f
<1>7. p \in RequestState
  <2>1. \A n \in Nat, s \in Seq(Frame) : [q EXCEPT !.next = n, !.stack = s] \in RequestState
    BY DEF RequestState
  <2>2. q.next + 1 \in Nat /\ <<f>> \o q.stack \in Seq(Frame)
    BY <1>2, <1>4
  <2> QED
    BY <1>3, <2>1, <2>2, Zenon
<1>11. Alike(p, q)
  BY <1>3 DEF Alike, RequestState
<1>8. p.stack[1] = f
  BY <1>1, <1>4, <1>5, <1>6
<1>9. \A j \in 1..Len(q.stack) : p.stack[j + 1] = q.stack[j]
  BY <1>4, <1>5, <1>6
<1>10. \A j \in 2..Len(p.stack) : p.stack[j] = q.stack[j - 1]
  BY <1>4, <1>5, <1>6
<1> QED
  BY <1>4, <1>5, <1>6, <1>7, <1>8, <1>9, <1>10, <1>11 DEF f

LEMMA Popped ==
    ASSUME NEW q \in RequestState, q.stack # <<>>, NEW p, p = Pop(q)
    PROVE  /\ p \in RequestState
           /\ Alike(p, q) /\ p.next = q.next
           /\ Len(q.stack) >= 1 /\ Len(p.stack) = Len(q.stack) - 1
           /\ Head(q.stack) = q.stack[1]
           /\ \A j \in 1..Len(p.stack) : p.stack[j] = q.stack[j + 1]
<1>1. q.stack \in Seq(Frame)
  BY DEF RequestState
<1>2. /\ Tail(q.stack) \in Seq(Frame) /\ Len(Tail(q.stack)) = Len(q.stack) - 1
      /\ \A j \in 1..Len(Tail(q.stack)) : Tail(q.stack)[j] = q.stack[j + 1]
  BY <1>1, HeadTailProperties
<1>3. p = [q EXCEPT !.stack = Tail(q.stack)]
  BY DEF Pop
<1>4. p.stack = Tail(q.stack)
  BY <1>3 DEF RequestState
<1>5. p \in RequestState /\ Alike(p, q) /\ p.next = q.next
  BY <1>2, <1>3 DEF Alike, RequestState
<1>6. Len(q.stack) \in Nat \ {0}
  BY <1>1, EmptySeq
<1> QED
  BY <1>1, <1>2, <1>4, <1>5, <1>6

LEMMA TopIs ==
    ASSUME NEW q \in RequestState
    PROVE  /\ q.stack = <<>> <=> Len(q.stack) = 0
           /\ Len(q.stack) \in Nat
           /\ Top(q) = IF Len(q.stack) = 0 THEN "none" ELSE q.stack[1].kind
           /\ \A j \in 1..Len(q.stack) : q.stack[j] \in Frame
  BY DEF RequestState, Top

LEMMA WaitingTop ==
    ASSUME NEW q \in RequestState, \A j \in 1..Len(q.stack) : q.stack[j].kind \in Waiting
    PROVE  Top(q) \notin {"handler", "auth"}
<1>1. Len(q.stack) \in Nat /\ Top(q) = IF Len(q.stack) = 0 THEN "none" ELSE q.stack[1].kind
  BY TopIs
<1>2. Len(q.stack) # 0 => q.stack[1].kind \in Waiting
  BY <1>1
<1> QED
  BY <1>1, <1>2 DEF Waiting

-----------------------------------------------------------------------------
(* Each operator on a request keeps it sound.                              *)

\* The request in which something is called, and the place of what is called.
LEMMA Calling ==
    ASSUME NEW q, Sound(q), NEW kind \in Kinds, Calls(q, kind)
    PROVE  /\ q \in RequestState
           /\ q.state = "running" /\ ~q.panicking /\ ~q.aborted
           /\ q.next + 1 \in 1..Len(Chain[q.route]) /\ Chain[q.route][q.next + 1] = kind
           /\ \A j \in 1..Len(q.stack) : q.stack[j].kind \in Waiting
           /\ q.span = "ended" => q.panicked
           /\ q.bodies = 0 \/ (q.bodies = 1 /\ q.response = 0 /\ q.status = 200)
<1>1. q \in RequestState
  BY DEF Sound
<1>2. q.state = "running" /\ ~q.panicking /\ ~q.aborted /\ q.next # Len(Chain[q.route])
      /\ Top(q) \in Waiting \cup {"none"} /\ Chain[q.route][q.next + 1] = kind
  BY DEF Calls, Looping, Over
<1>3. q.route \in DOMAIN Chain /\ q.next \in Nat /\ q.bodies \in Nat
  BY <1>1 DEF RequestState
<1>4. q.next + 1 \in 1..Len(Chain[q.route])
  BY <1>2, <1>3, ChainFacts DEF Sound, Shape
<1>5. \A j \in 1..Len(q.stack) : q.stack[j].kind \in Waiting
  <2>1. Shape(q) /\ Len(q.stack) \in Nat
    BY <1>1, TopIs DEF Sound
  <2>2. Len(q.stack) > 0 => q.stack[1].kind \in Waiting
    <3> SUFFICES ASSUME Len(q.stack) > 0 PROVE q.stack[1].kind \in Waiting
      OBVIOUS
    <3>1. q.stack[1] \in Frame /\ Top(q) = q.stack[1].kind
      BY <1>1, <2>1, TopIs
    <3> QED
      BY <1>2, <3>1 DEF Frame, Kinds
  <2> QED
    BY <2>1, <2>2 DEF Shape
<1>6. q.span = "ended" => q.panicked
  BY <1>1, <1>2 DEF Sound, Written, Over, RequestState
<1>7. q.bodies = 0 \/ (q.bodies = 1 /\ q.response = 0 /\ q.status = 200)
  BY <1>2, <1>3 DEF Sound, Answered
<1> QED
  BY <1>1, <1>2, <1>4, <1>5, <1>6, <1>7

LEMMA PushSound ==
    ASSUME NEW q, Sound(q), NEW kind \in {"recover", "rate", "auth", "handler", "health"},
           Calls(q, kind), Taken \in Object, NEW p, p = Push(q, kind)
    PROVE  Sound(p)
<1>1. /\ q \in RequestState
      /\ q.state = "running" /\ ~q.panicking /\ ~q.aborted
      /\ q.next + 1 \in 1..Len(Chain[q.route]) /\ Chain[q.route][q.next + 1] = kind
      /\ \A j \in 1..Len(q.stack) : q.stack[j].kind \in Waiting
      /\ q.span = "ended" => q.panicked
  BY Calling DEF Kinds
<1>2. /\ p \in RequestState
      /\ Alike(p, q) /\ p.next = q.next + 1
      /\ Len(p.stack) = Len(q.stack) + 1
      /\ p.stack[1] = [kind |-> kind, object |-> Taken, calls |-> 0]
      /\ \A j \in 1..Len(q.stack) : p.stack[j + 1] = q.stack[j]
      /\ \A j \in 2..Len(p.stack) : p.stack[j] = q.stack[j - 1]
  <2>1. kind \in Kinds
    BY DEF Kinds
  <2>2. q \in RequestState
    BY <1>1
  <2> QED
    BY <2>1, <2>2, Pushed, SMTT(60)
<1>3. /\ p.state = q.state /\ p.route = q.route /\ p.panicking = q.panicking
      /\ p.panicked = q.panicked /\ p.notified = q.notified /\ p.aborted = q.aborted
      /\ p.user = q.user /\ p.status = q.status /\ p.sent = q.sent /\ p.bodies = q.bodies
      /\ p.response = q.response /\ p.span = q.span /\ p.ok = q.ok /\ p.metrics = q.metrics
  BY <1>2 DEF Alike
<1>4. q.next \in Nat /\ q.route \in DOMAIN Chain /\ Len(q.stack) \in Nat /\ p.stack[1].kind = kind
      /\ p.stack[1].calls = 0 /\ p.next = q.next + 1 /\ Len(p.stack) = Len(q.stack) + 1
  BY <1>1, <1>2, TopIs DEF RequestState
<1>10. \A j \in 2..Len(p.stack) : j - 1 \in 1..Len(q.stack) /\ p.stack[j].kind = q.stack[j - 1].kind
  <2> SUFFICES ASSUME NEW j \in 2..Len(p.stack)
               PROVE  j - 1 \in 1..Len(q.stack) /\ p.stack[j].kind = q.stack[j - 1].kind
    OBVIOUS
  <2>1. p.stack[j] = q.stack[j - 1]
    BY <1>2
  <2>2. Len(q.stack) \in Nat /\ Len(p.stack) = Len(q.stack) + 1
    BY <1>4
  <2>3. j - 1 \in 1..Len(q.stack)
    BY <2>2
  <2> QED
    BY <2>1, <2>3
<1>5. Shape(p)
  <2>1. kind = "recover" => Len(q.stack) = 0
    BY <1>1, <1>4, ChainFacts DEF Sound, Shape
  <2>2. kind \in {"auth", "handler"} => p.next >= 4
    BY <1>1, <1>2, <1>4, ChainFacts
  <2>3. Shape(q)
    BY DEF Sound
  <2>4. p.next <= Len(Chain[p.route]) /\ Len(p.stack) <= p.next
    BY <1>1, <1>2, <1>3, <1>4, <2>3 DEF Shape
  <2>5. \A j \in 2..Len(p.stack) : p.stack[j].kind \in Waiting
    BY <1>1, <1>4, <1>10
  <2>6. \A j \in 1..Len(p.stack) : p.stack[j].kind = "recover" => j = Len(p.stack)
    <3> SUFFICES ASSUME NEW j \in 1..Len(p.stack), p.stack[j].kind = "recover"
                 PROVE  j = Len(p.stack)
      OBVIOUS
    <3>1. CASE j = 1
      BY <1>4, <2>1, <3>1
    <3>2. CASE j # 1
      <4>1. j - 1 \in 1..Len(q.stack) /\ q.stack[j - 1].kind = "recover"
        <5>1. j \in 2..Len(p.stack)
          BY <1>4, <3>2
        <5> QED
          BY <1>10, <5>1
      <4> QED
        BY <1>4, <2>3, <4>1, SMTT(60) DEF Shape
    <3> QED
      BY <3>1, <3>2
  <2>7. \A j \in 1..Len(p.stack) : p.stack[j].kind \in {"auth", "handler"} => p.next >= 4
    BY <1>4, <2>2, <2>5, SMTT(60) DEF Waiting
  <2>8. p.state = "running"
    BY <1>1, <1>3
  <2> QED
    BY <2>4, <2>5, <2>6, <2>7, <2>8 DEF Shape
<1>6. Panics(p) /\ Answered(p)
  BY <1>1, <1>2, <1>3, <1>4 DEF Sound, Panics, Answered
<1>7. Spanned(p)
  <2>1. Spanned(q)
    BY DEF Sound
  <2>2. \A j \in 1..Len(p.stack) : p.stack[j].kind = "telemetry" =>
            j \in 2..Len(p.stack) /\ j - 1 \in 1..Len(q.stack) /\ q.stack[j - 1].kind = "telemetry"
    BY <1>4, <1>10, SMTT(60)
  <2>3. p.span = "open" <=> \E j \in 1..Len(p.stack) : p.stack[j].kind = "telemetry"
    <3>1. ASSUME NEW j \in 1..Len(q.stack), q.stack[j].kind = "telemetry"
          PROVE  \E k \in 1..Len(p.stack) : p.stack[k].kind = "telemetry"
      <4>1. j + 1 \in 1..Len(p.stack) /\ p.stack[j + 1].kind = "telemetry"
        BY <1>2, <1>4, <3>1
      <4> QED
        BY <4>1
    <3> QED
      BY <1>3, <2>1, <2>2, <3>1 DEF Spanned
  <2>4. \A j, k \in 1..Len(p.stack) :
           p.stack[j].kind = "telemetry" /\ p.stack[k].kind = "telemetry" => j = k
    <3> SUFFICES ASSUME NEW j \in 1..Len(p.stack), NEW k \in 1..Len(p.stack),
                        p.stack[j].kind = "telemetry", p.stack[k].kind = "telemetry"
                 PROVE  j = k
      OBVIOUS
    <3>1. j - 1 = k - 1
      BY <2>1, <2>2 DEF Spanned
    <3> QED
      BY <3>1
  <2>5. (p.span # "none" => p.next >= 3) /\ (p.span = "open" /\ p.panicked => p.panicking)
    BY <1>2, <1>3, <1>4, <2>1 DEF Spanned
  <2> QED
    BY <2>3, <2>4, <2>5 DEF Spanned
<1>8. Written(p)
  BY <1>1, <1>3 DEF Sound, Written
<1>9. Known(p)
  <2>1. Top(p) = kind
    BY <1>2, <1>4, TopIs
  <2>2. q.route = "api" /\ p.next >= 6 => kind \in {"auth", "handler"}
    BY <1>1, <1>2, <1>4, ChainFacts
  <2>3. q.route = "api" /\ kind = "handler" => q.next = 6
    BY <1>1, <1>2, <1>4, ChainFacts
  <2>4. Top(q) # "auth"
    BY <1>1, TopIs DEF Waiting
  <2> QED
    BY <1>1, <1>2, <1>3, <1>4, <2>1, <2>2, <2>3, <2>4 DEF Sound, Known
<1> QED
  BY <1>2, <1>5, <1>6, <1>7, <1>8, <1>9 DEF Sound

\* A handler that is called and returns at once, or answers in its caller's place.
LEMMA NextTyped ==
    ASSUME NEW q \in RequestState, NEW n \in Nat
    PROVE  [q EXCEPT !.next = n] \in RequestState
  BY DEF RequestState

LEMMA WriteTyped ==
    ASSUME NEW q \in RequestState, NEW http \in Nat, NEW code \in Nat
    PROVE  Write(q, http, code) \in RequestState
<1>1. \A sent, bodies \in Nat :
         [q EXCEPT !.status = http, !.sent = sent, !.bodies = bodies, !.response = code]
            \in RequestState
  BY DEF RequestState
<1>2. (IF q.sent = 0 THEN http ELSE q.sent) \in Nat /\ q.bodies + 1 \in Nat
  BY DEF RequestState
<1> QED
  BY <1>1, <1>2, Zenon DEF Write

LEMMA PassSound ==
    ASSUME NEW q, Sound(q), NEW kind \in {"rate", "limit", "disablelog"}, Calls(q, kind),
           NEW p, p = [q EXCEPT !.next = @ + 1]
    PROVE  Sound(p) /\ Alike(p, q) /\ p.stack = q.stack
<1>1. /\ q \in RequestState
      /\ q.state = "running" /\ ~q.panicking /\ ~q.aborted
      /\ q.next + 1 \in 1..Len(Chain[q.route]) /\ Chain[q.route][q.next + 1] = kind
      /\ q.span = "ended" => q.panicked
  BY Calling DEF Kinds
<1>2. p \in RequestState
  <2>1. q.next + 1 \in Nat
    BY <1>1 DEF RequestState
  <2> QED
    BY <1>1, <2>1, NextTyped, Zenon
<1>3. Alike(p, q) /\ p.stack = q.stack /\ p.next = q.next + 1
  BY <1>1 DEF Alike, RequestState
<1>4. q.next \in Nat /\ q.route \in DOMAIN Chain /\ Len(q.stack) \in Nat
  BY <1>1, TopIs DEF RequestState
<1>5. Shape(p)
  BY <1>1, <1>3, <1>4 DEF Sound, Shape, Alike
<1>6. Panics(p) /\ Answered(p)
  BY <1>1, <1>3, <1>4 DEF Sound, Panics, Answered, Alike
<1>7. Spanned(p)
  BY <1>3, <1>4 DEF Sound, Spanned, Alike
<1>8. Written(p)
  BY <1>1, <1>3 DEF Sound, Written, Alike
<1>9. Known(p)
  <2>1. q.route = "api" => p.next < 6
    BY <1>1, <1>3, <1>4, ChainFacts
  <2>2. Top(p) = Top(q)
    BY <1>3 DEF Top
  <2> QED
    BY <1>3, <1>4, <2>1, <2>2 DEF Sound, Known, Alike
<1> QED
  BY <1>2, <1>3, <1>5, <1>6, <1>7, <1>8, <1>9 DEF Sound

\* May an answer be written?  In a handler not before the answer is counted.
Answering(q) ==
    /\ q.state = "running" /\ (q.span = "ended" => q.panicked)
    /\ Top(q) = "handler" => q.stack[1].calls > 0

\* What is left as it is by an answer.
Kept(p, q) ==
    /\ p.state = q.state /\ p.route = q.route /\ p.panicking = q.panicking
    /\ p.panicked = q.panicked /\ p.notified = q.notified /\ p.user = q.user
    /\ p.span = q.span /\ p.ok = q.ok /\ p.metrics = q.metrics
    /\ p.next = q.next /\ p.stack = q.stack

LEMMA KeptSound ==
    ASSUME NEW q, Sound(q), Answering(q), NEW p \in RequestState, Kept(p, q), Answered(p),
           q.aborted => p.aborted
    PROVE  Sound(p)
<1>1. Shape(p) /\ Panics(p) /\ Spanned(p)
  BY DEF Sound, Shape, Panics, Spanned, Kept
<1>2. Written(p)
  BY DEF Sound, Written, Kept, Answering
<1>3. Top(p) = Top(q)
  BY DEF Top, Kept
<1>4. Known(p)
  BY <1>3 DEF Sound, Known, Kept, Answering
<1> QED
  BY <1>1, <1>2, <1>4 DEF Sound

LEMMA AbortIs ==
    ASSUME NEW q \in RequestState, NEW e, e.http \in Nat, e.code \in Nat \ {0},
           NEW p, p = AbortWithError(q, e)
    PROVE  /\ p \in RequestState /\ Kept(p, q) /\ p.aborted
           /\ p.status # 0 /\ p.sent = (IF q.sent = 0 THEN p.status ELSE q.sent)
           /\ p.bodies = q.bodies + 1 /\ p.response \in Nat \ {0}
<1> DEFINE http == IF e.http = 0 THEN 500 ELSE e.http
<1>1. http \in Nat \ {0} /\ q.bodies \in Nat /\ q.sent \in Nat
  BY DEF RequestState
<1>2. p = [q EXCEPT !.status = http, !.sent = IF @ = 0 THEN http ELSE @,
                    !.bodies = @ + 1, !.response = e.code, !.aborted = TRUE]
  BY DEF AbortWithError, Write
<1> HIDE DEF http
<1>3. p \in RequestState
  <2>1. Write(q, http, e.code) \in RequestState
    BY <1>1, WriteTyped
  <2>2. \A w \in RequestState : [w EXCEPT !.aborted = TRUE] \in RequestState
    BY DEF RequestState
  <2>3. p = [Write(q, http, e.code) EXCEPT !.aborted = TRUE]
    BY DEF AbortWithError, http
  <2> QED
    BY <2>1, <2>2, <2>3, Zenon
<1>4. Kept(p, q)
  BY <1>2 DEF RequestState, Kept
<1>5. /\ p.status = http /\ p.sent = (IF q.sent = 0 THEN http ELSE q.sent)
      /\ p.bodies = q.bodies + 1 /\ p.response = e.code /\ p.aborted
  BY <1>1, <1>2 DEF RequestState
<1> QED
  BY <1>1, <1>3, <1>4, <1>5

LEMMA AbortSound ==
    ASSUME NEW q, Sound(q), Answering(q), NEW e, e.http \in Nat, e.code \in Nat \ {0},
           NEW p, p = AbortWithError(q, e)
    PROVE  Sound(p) /\ Kept(p, q) /\ p.aborted
<1>1. q \in RequestState /\ q.bodies \in Nat /\ q.sent \in Nat
  BY DEF Sound, RequestState
<1>2. /\ p \in RequestState /\ Kept(p, q) /\ p.aborted
      /\ p.status # 0 /\ p.sent = (IF q.sent = 0 THEN p.status ELSE q.sent)
      /\ p.bodies = q.bodies + 1 /\ p.response \in Nat \ {0}
  BY <1>1, AbortIs
<1>3. Answered(p)
  BY <1>1, <1>2 DEF Sound, Answered, Answering, Kept
<1> QED
  BY <1>2, <1>3, KeptSound

LEMMA PayloadIs ==
    ASSUME NEW q, Sound(q), q.state = "running", NEW p, p = Payload(q), q.response = Nil
    PROVE  /\ p \in RequestState /\ Kept(p, q) /\ ~p.aborted /\ ~q.aborted
           /\ p.status = 200 /\ p.sent = 200 /\ p.bodies = 1 /\ p.response = 0
<1>1. q \in RequestState /\ q.bodies \in Nat /\ q.bodies = 0 /\ q.sent = 0 /\ ~q.aborted
  BY DEF Sound, RequestState, Answered
<1>2. p = [q EXCEPT !.status = 200, !.sent = IF @ = 0 THEN 200 ELSE @,
                    !.bodies = @ + 1, !.response = 0]
  BY DEF Payload, Write
<1>3. p \in RequestState
  BY <1>1, WriteTyped DEF Payload
<1>4. Kept(p, q)
  BY <1>1, <1>2 DEF RequestState, Kept
<1>5. p.status = 200 /\ p.sent = 200 /\ p.bodies = 1 /\ p.response = 0 /\ ~p.aborted
  BY <1>1, <1>2 DEF RequestState
<1> QED
  BY <1>1, <1>3, <1>4, <1>5

LEMMA PayloadSound ==
    ASSUME NEW q, Sound(q), Answering(q), NEW p, p = Payload(q)
    PROVE  Sound(p) /\ Kept(p, q)
<1>1. CASE q.response # Nil
  BY <1>1 DEF Payload, Kept
<1>2. CASE q.response = Nil
  <2>1. /\ p \in RequestState /\ Kept(p, q) /\ ~p.aborted /\ ~q.aborted
        /\ p.status = 200 /\ p.sent = 200 /\ p.bodies = 1 /\ p.response = 0
    BY <1>2, PayloadIs DEF Answering
  <2>2. Answered(p)
    BY <2>1 DEF Answered
  <2> QED
    BY <2>1, <2>2, KeptSound
<1> QED
  BY <1>1, <1>2

\* The frames that are left when the top one has gone.
LEMMA BelowTop ==
    ASSUME NEW q, Sound(q), q.stack # <<>>, NEW p, p.stack = Tail(q.stack),
           p.next = q.next, p.route = q.route, p.state = "running"
    PROVE  /\ Shape(p)
           /\ Len(q.stack) \in Nat /\ Len(p.stack) = Len(q.stack) - 1 /\ Top(q) = q.stack[1].kind
           /\ \A j \in 1..Len(p.stack) : j + 1 \in 2..Len(q.stack) /\ p.stack[j] = q.stack[j + 1]
           /\ \A j \in 1..Len(p.stack) : p.stack[j].kind \in Waiting
<1>1. q \in RequestState /\ Shape(q)
  BY DEF Sound
<1>2. Len(q.stack) \in Nat \ {0} /\ Top(q) = q.stack[1].kind /\ q.next \in Nat
  BY <1>1, TopIs DEF RequestState
<1>3. Len(p.stack) = Len(q.stack) - 1 /\ \A j \in 1..Len(p.stack) : p.stack[j] = q.stack[j + 1]
  <2>1. q.stack \in Seq(Frame)
    BY <1>1 DEF RequestState
  <2> QED
    BY <2>1, HeadTailProperties
<1>4. \A j \in 1..Len(p.stack) : j + 1 \in 2..Len(q.stack) /\ p.stack[j] = q.stack[j + 1]
  BY <1>2, <1>3
<1>5. \A j \in 1..Len(p.stack) : p.stack[j].kind \in Waiting
  BY <1>1, <1>4 DEF Shape
<1>6. Shape(p)
  <2>1. Len(p.stack) <= p.next /\ p.next <= Len(Chain[p.route])
    BY <1>1, <1>2, <1>3 DEF Shape
  <2>2. \A j \in 1..Len(p.stack) : p.stack[j].kind = "recover" => j = Len(p.stack)
    <3> SUFFICES ASSUME NEW j \in 1..Len(p.stack), p.stack[j].kind = "recover"
                 PROVE  j = Len(p.stack)
      OBVIOUS
    <3>1. j + 1 \in 1..Len(q.stack) /\ q.stack[j + 1].kind = "recover"
      BY <1>4
    <3>2. j + 1 = Len(q.stack)
      BY <1>1, <3>1 DEF Shape
    <3> QED
      BY <1>3, <3>2
  <2>3. \A j \in 1..Len(p.stack) : p.stack[j].kind \notin {"auth", "handler"}
    BY <1>5 DEF Waiting
  <2>4. \A j \in 2..Len(p.stack) : p.stack[j].kind \in Waiting
    BY <1>5
  <2> QED
    BY <2>1, <2>2, <2>3, <2>4 DEF Shape
<1> QED
  BY <1>2, <1>3, <1>4, <1>5, <1>6

\* A frame that is none of the telemetry's goes.
LEMMA PopSound ==
    ASSUME NEW q, Sound(q), q.state = "running", q.stack # <<>>, Top(q) # "telemetry",
           Top(q) = "auth" => q.user \/ q.panicked \/ q.aborted,
           NEW p, p = Pop(q)
    PROVE  Sound(p) /\ Alike(p, q) /\ p.stack = Tail(q.stack)
<1>1. q \in RequestState
  BY DEF Sound
<1>2. p \in RequestState /\ Alike(p, q) /\ p.next = q.next
  BY <1>1, Popped
<1>3. p.stack = Tail(q.stack)
  BY <1>1 DEF Pop, RequestState
<1>4. /\ Shape(p)
      /\ Len(q.stack) \in Nat /\ Len(p.stack) = Len(q.stack) - 1 /\ Top(q) = q.stack[1].kind
      /\ \A j \in 1..Len(p.stack) : j + 1 \in 2..Len(q.stack) /\ p.stack[j] = q.stack[j + 1]
      /\ \A j \in 1..Len(p.stack) : p.stack[j].kind \in Waiting
  <2>1. p.next = q.next /\ p.route = q.route /\ p.state = "running"
    BY <1>2 DEF Alike
  <2>2. \A w : w.stack = Tail(q.stack) /\ w.next = q.next /\ w.route = q.route
               /\ w.state = "running" =>
           /\ Shape(w)
           /\ Len(q.stack) \in Nat /\ Len(w.stack) = Len(q.stack) - 1 /\ Top(q) = q.stack[1].kind
           /\ \A j \in 1..Len(w.stack) : j + 1 \in 2..Len(q.stack) /\ w.stack[j] = q.stack[j + 1]
           /\ \A j \in 1..Len(w.stack) : w.stack[j].kind \in Waiting
    BY BelowTop
  <2> QED
    BY <1>3, <2>1, <2>2, Zenon
<1>5. Panics(p) /\ Answered(p)
  BY <1>2 DEF Sound, Panics, Answered, Alike
<1>6. Spanned(p)
  <2>1. Spanned(q)
    BY DEF Sound
  <2>2. \A j \in 1..Len(q.stack) : q.stack[j].kind = "telemetry" =>
           j - 1 \in 1..Len(p.stack) /\ p.stack[j - 1] = q.stack[j]
    BY <1>4
  <2>3. p.span = "open" <=> \E j \in 1..Len(p.stack) : p.stack[j].kind = "telemetry"
    BY <1>2, <1>4, <2>1, <2>2, SMTT(60) DEF Spanned, Alike
  <2>4. \A j, k \in 1..Len(p.stack) :
           p.stack[j].kind = "telemetry" /\ p.stack[k].kind = "telemetry" => j = k
    <3> SUFFICES ASSUME NEW j \in 1..Len(p.stack), NEW k \in 1..Len(p.stack),
                        p.stack[j].kind = "telemetry", p.stack[k].kind = "telemetry"
                 PROVE  j = k
      OBVIOUS
    <3>1. j + 1 \in 1..Len(q.stack) /\ k + 1 \in 1..Len(q.stack)
          /\ q.stack[j + 1].kind = "telemetry" /\ q.stack[k + 1].kind = "telemetry"
      BY <1>4
    <3>2. j + 1 = k + 1
      BY <2>1, <3>1 DEF Spanned
    <3> QED
      BY <3>2
  <2> QED
    BY <1>2, <2>1, <2>3, <2>4 DEF Spanned, Alike
<1>7. Written(p)
  BY <1>2, <1>4 DEF Sound, Written, Alike, Over
<1>8. Known(p)
  <2>1. Top(p) # "handler" /\ Top(p) # "auth"
    BY <1>2, <1>4, TopIs DEF Waiting
  <2> QED
    BY <1>2, <2>1 DEF Sound, Known, Alike
<1> QED
  BY <1>2, <1>3, <1>4, <1>5, <1>6, <1>7, <1>8 DEF Sound

\* The telemetry's frame goes, and the span is ended.
LEMMA EndsSpanned ==
    ASSUME NEW q, Sound(q), q.state = "running", q.stack # <<>>, Top(q) = "telemetry",
           NEW p, p.stack = Tail(q.stack), p.next = q.next, p.route = q.route,
           p.state = "running", p.span = "ended", p.panicked = q.panicked
    PROVE  Shape(p) /\ Spanned(p) /\ \A j \in 1..Len(p.stack) : p.stack[j].kind \in Waiting
<1>1. /\ Shape(p)
      /\ Len(q.stack) \in Nat /\ Len(p.stack) = Len(q.stack) - 1 /\ Top(q) = q.stack[1].kind
      /\ \A j \in 1..Len(p.stack) : j + 1 \in 2..Len(q.stack) /\ p.stack[j] = q.stack[j + 1]
      /\ \A j \in 1..Len(p.stack) : p.stack[j].kind \in Waiting
  BY BelowTop
<1>2. Spanned(q) /\ Len(q.stack) > 0
  BY TopIs DEF Sound
<1>3. 1 \in 1..Len(q.stack) /\ q.stack[1].kind = "telemetry"
  BY <1>1, <1>2
<1>4. \A j \in 1..Len(p.stack) : p.stack[j].kind # "telemetry"
  <2> SUFFICES ASSUME NEW j \in 1..Len(p.stack), p.stack[j].kind = "telemetry" PROVE FALSE
    OBVIOUS
  <2>1. j + 1 \in 1..Len(q.stack) /\ q.stack[j + 1].kind = "telemetry" /\ j + 1 # 1
    BY <1>1
  <2> QED
    BY <1>2, <1>3, <2>1 DEF Spanned
<1>5. q.span # "none"
  BY <1>2, <1>3 DEF Spanned
<1>6. p.next >= 3
  BY <1>2, <1>5 DEF Spanned
<1> QED
  BY <1>1, <1>4, <1>6 DEF Spanned

LEMMA SpanEnded ==
    ASSUME NEW q \in RequestState, NEW p, p = [q EXCEPT !.span = "ended"]
    PROVE  /\ p \in RequestState
           /\ p.stack = q.stack /\ p.next = q.next /\ p.route = q.route /\ p.state = q.state
           /\ p.span = "ended" /\ p.panicked = q.panicked /\ p.panicking = q.panicking
           /\ p.notified = q.notified /\ p.user = q.user /\ p.aborted = q.aborted
           /\ p.status = q.status /\ p.sent = q.sent /\ p.bodies = q.bodies /\ p.response = q.response
           /\ p.metrics = q.metrics /\ p.ok = q.ok
  BY DEF RequestState

LEMMA RecordedIs ==
    ASSUME NEW q \in RequestState, q.metrics = <<>>, ~q.ok, NEW p, p = [Recorded(q) EXCEPT !.span = "ended"]
    PROVE  /\ p \in RequestState
           /\ p.stack = q.stack /\ p.next = q.next /\ p.route = q.route /\ p.state = q.state
           /\ p.span = "ended" /\ p.panicked = q.panicked /\ p.panicking = q.panicking
           /\ p.notified = q.notified /\ p.user = q.user /\ p.aborted = q.aborted
           /\ p.status = q.status /\ p.sent = q.sent /\ p.bodies = q.bodies /\ p.response = q.response
           /\ p.metrics = IF q.status = 404 \/ q.response = Nil THEN <<>>
                          ELSE <<[http |-> q.status, code |-> q.response]>>
           /\ p.ok => ~q.aborted /\ q.status = 200 /\ q.response # Nil
<1>1. CASE q.status = 404 \/ q.response = Nil
  <2>1. p = [q EXCEPT !.span = "ended"]
    BY <1>1 DEF Recorded
  <2> QED
    BY <1>1, <2>1 DEF RequestState
<1>2. CASE ~(q.status = 404 \/ q.response = Nil)
  <2> DEFINE m == <<[http |-> q.status, code |-> q.response]>>
  <2>1. q.status \in Nat /\ q.response \in Nat /\ q.aborted \in BOOLEAN /\ q.nolog \in BOOLEAN
    BY <1>2 DEF RequestState
  <2>2. m \in Seq([http : Nat, code : Nat])
    BY <2>1
  <2>3. Append(q.metrics, [http |-> q.status, code |-> q.response]) = m
    OBVIOUS
  <2> HIDE DEF m
  <2> DEFINE b == ~q.aborted /\ q.status = 200
             c == ~q.nolog
  <2>4. b \in BOOLEAN /\ c \in BOOLEAN
    OBVIOUS
  <2>5. p = [[q EXCEPT !.ok = b, !.metrics = m, !.logged = c] EXCEPT !.span = "ended"]
    BY <1>2, <2>3, Zenon DEF Recorded
  <2>6. b => ~q.aborted /\ q.status = 200 /\ q.response # Nil
    BY <1>2
  <2> HIDE DEF b, c
  <2>7. [q EXCEPT !.ok = b, !.metrics = m, !.logged = c] \in RequestState
    BY <2>2, <2>4 DEF RequestState
  <2>8. p \in RequestState
    <3> DEFINE v == [q EXCEPT !.ok = b, !.metrics = m, !.logged = c]
    <3>1. v \in RequestState /\ p = [v EXCEPT !.span = "ended"]
      BY <2>5, <2>7
    <3> HIDE DEF v
    <3> QED
      BY <3>1 DEF RequestState
  <2>9. /\ p.stack = q.stack /\ p.next = q.next /\ p.route = q.route /\ p.state = q.state
        /\ p.span = "ended" /\ p.panicked = q.panicked /\ p.panicking = q.panicking
        /\ p.notified = q.notified /\ p.user = q.user /\ p.aborted = q.aborted
        /\ p.status = q.status /\ p.sent = q.sent /\ p.bodies = q.bodies /\ p.response = q.response
        /\ p.metrics = m /\ p.ok = b
    <3> DEFINE v == [q EXCEPT !.ok = b, !.metrics = m, !.logged = c]
    <3>1. /\ v.stack = q.stack /\ v.next = q.next /\ v.route = q.route /\ v.state = q.state
          /\ v.panicked = q.panicked /\ v.panicking = q.panicking
          /\ v.notified = q.notified /\ v.user = q.user /\ v.aborted = q.aborted
          /\ v.status = q.status /\ v.sent = q.sent /\ v.bodies = q.bodies /\ v.response = q.response
          /\ v.metrics = m /\ v.ok = b
      BY DEF RequestState
    <3>2. p = [v EXCEPT !.span = "ended"] /\ v \in RequestState
      BY <2>5, <2>7
    <3> HIDE DEF v
    <3>3. /\ p.stack = v.stack /\ p.next = v.next /\ p.route = v.route /\ p.state = v.state
          /\ p.span = "ended" /\ p.panicked = v.panicked /\ p.panicking = v.panicking
          /\ p.notified = v.notified /\ p.user = v.user /\ p.aborted = v.aborted
          /\ p.status = v.status /\ p.sent = v.sent /\ p.bodies = v.bodies /\ p.response = v.response
          /\ p.metrics = v.metrics /\ p.ok = v.ok
      <4>1. \A w : w = [v EXCEPT !.span = "ended"] =>
              /\ w.stack = v.stack /\ w.next = v.next /\ w.route = v.route /\ w.state = v.state
              /\ w.span = "ended" /\ w.panicked = v.panicked /\ w.panicking = v.panicking
              /\ w.notified = v.notified /\ w.user = v.user /\ w.aborted = v.aborted
              /\ w.status = v.status /\ w.sent = v.sent /\ w.bodies = v.bodies
              /\ w.response = v.response /\ w.metrics = v.metrics /\ w.ok = v.ok
        BY <3>2, SpanEnded
      <4> QED
        BY <3>2, <4>1, Zenon
    <3> QED
      BY <3>1, <3>3
  <2> QED
    BY <1>2, <2>6, <2>8, <2>9 DEF m
<1> QED
  BY <1>1, <1>2

LEMMA TelemetryLeaves ==
    ASSUME NEW q, Sound(q), Looping(q), Over(q), q.stack # <<>>, Top(q) = "telemetry",
           NEW p, p = [Recorded(Pop(q)) EXCEPT !.span = "ended"]
    PROVE  Sound(p) /\ ~p.panicked /\ p.stack = Tail(q.stack)
<1> DEFINE w == Pop(q)
<1>1. q \in RequestState /\ q.state = "running" /\ ~q.panicking
  BY DEF Sound, Looping
<1>2. w \in RequestState /\ Alike(w, q) /\ w.next = q.next
  BY <1>1, Popped
<1>3. w.stack = Tail(q.stack)
  BY <1>1 DEF Pop, RequestState
<1>4. q.span = "open" /\ ~q.panicked
  BY <1>1, TopIs DEF Sound, Spanned
<1>5. q.metrics = <<>> /\ ~q.ok
  BY <1>4 DEF Sound, Written
<1> HIDE DEF w
<1>6. /\ p \in RequestState
      /\ p.stack = w.stack /\ p.next = q.next /\ p.route = q.route /\ p.state = q.state
      /\ p.span = "ended" /\ p.panicked = q.panicked /\ p.panicking = q.panicking
      /\ p.notified = q.notified /\ p.user = q.user /\ p.aborted = q.aborted
      /\ p.status = q.status /\ p.sent = q.sent /\ p.bodies = q.bodies /\ p.response = q.response
      /\ p.metrics = IF q.status = 404 \/ q.response = Nil THEN <<>>
                     ELSE <<[http |-> q.status, code |-> q.response]>>
      /\ p.ok => ~q.aborted /\ q.status = 200 /\ q.response # Nil
  <2>1. p = [Recorded(w) EXCEPT !.span = "ended"]
    BY DEF w
  <2> QED
    <3>1. w.metrics = <<>> /\ ~w.ok
      BY <1>2, <1>5 DEF Alike
    <3>2. /\ p \in RequestState
          /\ p.stack = w.stack /\ p.next = w.next /\ p.route = w.route /\ p.state = w.state
          /\ p.span = "ended" /\ p.panicked = w.panicked /\ p.panicking = w.panicking
          /\ p.notified = w.notified /\ p.user = w.user /\ p.aborted = w.aborted
          /\ p.status = w.status /\ p.sent = w.sent /\ p.bodies = w.bodies /\ p.response = w.response
          /\ p.metrics = IF w.status = 404 \/ w.response = Nil THEN <<>>
                         ELSE <<[http |-> w.status, code |-> w.response]>>
          /\ p.ok => ~w.aborted /\ w.status = 200 /\ w.response # Nil
      BY <1>2, <2>1, <3>1, RecordedIs, Zenon
    <3> QED
      BY <1>2, <3>2 DEF Alike
<1>7. Shape(p) /\ Spanned(p) /\ \A j \in 1..Len(p.stack) : p.stack[j].kind \in Waiting
  <2>1. /\ p.stack = Tail(q.stack) /\ p.next = q.next /\ p.route = q.route
        /\ p.state = "running" /\ p.span = "ended" /\ p.panicked = q.panicked
    BY <1>1, <1>3, <1>6
  <2> QED
    BY <1>1, <2>1, EndsSpanned, Zenon
<1>8. Panics(p) /\ Answered(p)
  BY <1>6 DEF Sound, Panics, Answered
<1>9. Written(p)
  BY <1>4, <1>6, <1>7 DEF Written, Over
<1>10. Known(p)
  <2>3. Len(p.stack) \in Nat /\ Top(p) = IF Len(p.stack) = 0 THEN "none" ELSE p.stack[1].kind
    <3>1. p \in RequestState
      BY <1>6
    <3> QED
      BY <3>1, TopIs
  <2>1. Len(p.stack) > 0 => Top(p) = p.stack[1].kind /\ 1 \in 1..Len(p.stack)
    BY <2>3
  <2>2. Len(p.stack) = 0 => Top(p) = "none"
    BY <2>3
  <2>4. Top(p) # "handler"
    BY <1>7, <2>1, <2>2, <2>3 DEF Waiting
  <2>5. Top(q) # "auth"
    OBVIOUS
  <2> QED
    BY <1>6, <2>4, <2>5 DEF Sound, Known
<1> QED
  BY <1>3, <1>4, <1>6, <1>7, <1>8, <1>9, <1>10 DEF Sound

LEMMA TelemetrySound ==
    ASSUME NEW q, Sound(q), Calls(q, "telemetry"), Taken \in Object, NEW p,
           p = [Push(q, "telemetry") EXCEPT !.span = "open"]
    PROVE  Sound(p) /\ p.panicked = q.panicked /\ p.stack = Push(q, "telemetry").stack
           /\ p.notified = q.notified
<1> DEFINE w == Push(q, "telemetry")
<1>1. /\ q \in RequestState
      /\ q.state = "running" /\ ~q.panicking /\ ~q.aborted
      /\ q.next + 1 \in 1..Len(Chain[q.route]) /\ Chain[q.route][q.next + 1] = "telemetry"
      /\ \A j \in 1..Len(q.stack) : q.stack[j].kind \in Waiting
      /\ q.span = "ended" => q.panicked
  BY Calling DEF Kinds
<1>2. /\ w \in RequestState /\ Alike(w, q) /\ w.next = q.next + 1
      /\ Len(w.stack) = Len(q.stack) + 1
      /\ w.stack[1] = [kind |-> "telemetry", object |-> Taken, calls |-> 0]
      /\ \A j \in 2..Len(w.stack) : w.stack[j] = q.stack[j - 1]
  <2>1. "telemetry" \in Kinds
    BY DEF Kinds
  <2> QED
    BY <1>1, <2>1, Pushed
<1> HIDE DEF w
<1>3. p = [w EXCEPT !.span = "open"]
  BY DEF w
<1>4. /\ p \in RequestState /\ p.stack = w.stack /\ p.next = w.next /\ p.span = "open"
      /\ p.state = q.state /\ p.route = q.route /\ p.panicking = q.panicking
      /\ p.panicked = q.panicked /\ p.notified = q.notified /\ p.aborted = q.aborted
      /\ p.user = q.user /\ p.status = q.status /\ p.sent = q.sent /\ p.bodies = q.bodies
      /\ p.response = q.response /\ p.ok = q.ok /\ p.metrics = q.metrics
  BY <1>2, <1>3 DEF RequestState, Alike
<1>5. q.next = 2 /\ q.route \in DOMAIN Chain /\ Len(q.stack) \in Nat
  <2>1. q.next \in Nat /\ q.route \in DOMAIN Chain
    BY <1>1 DEF RequestState
  <2> QED
    BY <1>1, <2>1, ChainFacts, TopIs
<1>6. q.span = "none" /\ ~q.panicked
  BY <1>1, <1>5 DEF Sound, Spanned, Panics, RequestState
<1>7. \A j \in 1..Len(q.stack) : q.stack[j].kind # "telemetry"
  BY <1>6 DEF Sound, Spanned
<1>8. /\ Len(p.stack) = Len(q.stack) + 1 /\ p.stack[1].kind = "telemetry"
      /\ \A j \in 2..Len(p.stack) : j - 1 \in 1..Len(q.stack) /\ p.stack[j].kind = q.stack[j - 1].kind
  <2>1. \A j \in 2..Len(p.stack) : p.stack[j] = q.stack[j - 1]
    BY <1>2, <1>4
  <2>2. Len(p.stack) = Len(q.stack) + 1 /\ p.stack[1].kind = "telemetry"
    BY <1>2, <1>4
  <2> QED
    BY <1>5, <2>1, <2>2, SMTT(60)
<1>9. Shape(p)
  <2>1. Shape(q)
    BY DEF Sound
  <2>2. p.next <= Len(Chain[p.route]) /\ Len(p.stack) <= p.next
    BY <1>1, <1>2, <1>4, <1>5, <1>8, <2>1 DEF Shape
  <2>3. \A j \in 2..Len(p.stack) : p.stack[j].kind \in Waiting
    BY <1>1, <1>8
  <2>4. \A j \in 1..Len(p.stack) : p.stack[j].kind = "recover" => j = Len(p.stack)
    <3> SUFFICES ASSUME NEW j \in 1..Len(p.stack), p.stack[j].kind = "recover"
                 PROVE  j = Len(p.stack)
      OBVIOUS
    <3>1. j \in 2..Len(p.stack)
      BY <1>5, <1>8
    <3>2. j - 1 \in 1..Len(q.stack) /\ q.stack[j - 1].kind = "recover"
      BY <1>8, <3>1
    <3> QED
      BY <1>5, <1>8, <2>1, <3>2 DEF Shape
  <2>5. \A j \in 1..Len(p.stack) : p.stack[j].kind \notin {"auth", "handler"}
    <3>1. \A j \in 2..Len(p.stack) : p.stack[j].kind \notin {"auth", "handler"}
      BY <2>3 DEF Waiting
    <3>2. p.stack[1].kind \notin {"auth", "handler"}
      BY <1>8
    <3> QED
      BY <1>5, <1>8, <3>1, <3>2
  <2> QED
    BY <1>1, <1>4, <2>2, <2>3, <2>4, <2>5 DEF Shape
<1>10. Panics(p) /\ Answered(p)
  BY <1>1, <1>4, <1>6 DEF Sound, Panics, Answered
<1>11. Spanned(p)
  <2>1. \A j \in 1..Len(p.stack) : p.stack[j].kind = "telemetry" => j = 1
    <3> SUFFICES ASSUME NEW j \in 2..Len(p.stack) PROVE p.stack[j].kind # "telemetry"
      BY <1>5, <1>8
    <3> QED
      BY <1>7, <1>8
  <2>2. 1 \in 1..Len(p.stack)
    BY <1>5, <1>8
  <2>3. p.next >= 3
    BY <1>2, <1>4, <1>5
  <2> QED
    BY <1>4, <1>6, <1>8, <2>1, <2>2, <2>3 DEF Spanned
<1>12. Written(p)
  BY <1>4, <1>6 DEF Sound, Written
<1>13. Known(p)
  <2>1. p.next = 3
    BY <1>2, <1>4, <1>5
  <2>2. Top(p) = "telemetry"
    <3>1. p \in RequestState /\ Len(p.stack) # 0
      BY <1>4, <1>5, <1>8
    <3> QED
      BY <1>8, <3>1, TopIs
  <2> QED
    BY <2>1, <2>2 DEF Known
<1> QED
  BY <1>4, <1>9, <1>10, <1>11, <1>12, <1>13 DEF Sound, w

\* An answer of a handler is counted.
LEMMA CountSound ==
    ASSUME NEW q, Sound(q), In(q, "handler"), NEW p, p = [q EXCEPT !.stack[1].calls = @ + 1]
    PROVE  /\ Sound(p) /\ Answering(p) /\ Len(p.stack) = Len(q.stack)
           /\ \A j \in 1..Len(q.stack) : p.stack[j].object = q.stack[j].object
           /\ p.panicked = q.panicked /\ p.panicking = q.panicking /\ p.notified = q.notified
           /\ p.state = q.state
<1> DEFINE f == [q.stack[1] EXCEPT !.calls = @ + 1]
           t == [q.stack EXCEPT ![1] = f]
<1>1. q \in RequestState /\ q.state = "running" /\ Top(q) = "handler" /\ ~q.panicking
  BY DEF Sound, In
<1>2. Len(q.stack) \in Nat /\ Len(q.stack) > 0 /\ q.stack[1].kind = "handler" /\ q.stack[1] \in Frame
  BY <1>1, TopIs
<1>3. f \in Frame /\ f.object = q.stack[1].object /\ f.kind = "handler" /\ f.calls > 0
  BY <1>2 DEF Frame
<1> HIDE DEF f
<1>4. /\ t \in Seq(Frame) /\ Len(t) = Len(q.stack)
      /\ \A j \in 1..Len(q.stack) : t[j] = IF j = 1 THEN f ELSE q.stack[j]
  <2>1. q.stack \in Seq(Frame) /\ 1 \in 1..Len(q.stack)
    BY <1>1, <1>2 DEF RequestState
  <2> QED
    BY <1>3, <2>1, ExceptSeq
<1>5. p = [q EXCEPT !.stack = t]
  BY Zenon DEF f
<1> HIDE DEF t
<1>6. /\ p \in RequestState /\ p.stack = t /\ p.next = q.next /\ p.span = q.span
      /\ p.state = q.state /\ p.route = q.route /\ p.panicking = q.panicking
      /\ p.panicked = q.panicked /\ p.notified = q.notified /\ p.aborted = q.aborted
      /\ p.user = q.user /\ p.status = q.status /\ p.sent = q.sent /\ p.bodies = q.bodies
      /\ p.response = q.response /\ p.ok = q.ok /\ p.metrics = q.metrics
  BY <1>1, <1>4, <1>5 DEF RequestState
<1>7. /\ Len(p.stack) = Len(q.stack)
      /\ \A j \in 1..Len(q.stack) : /\ p.stack[j].object = q.stack[j].object
                                    /\ p.stack[j].kind = q.stack[j].kind
      /\ p.stack[1].calls > 0 /\ Top(p) = "handler"
  <2>1. Len(p.stack) = Len(q.stack) /\ p.stack[1] = f
    BY <1>2, <1>4, <1>6
  <2>2. \A j \in 1..Len(q.stack) : p.stack[j].object = q.stack[j].object
                                   /\ p.stack[j].kind = q.stack[j].kind
    BY <1>2, <1>3, <1>4, <1>6
  <2>3. p \in RequestState
    BY <1>6
  <2>4. Len(p.stack) # 0
    BY <1>2, <2>1
  <2>5. Top(p) = p.stack[1].kind
    BY <2>3, <2>4, TopIs
  <2> QED
    BY <1>3, <2>1, <2>2, <2>5
<1>8. Shape(p)
  BY <1>1, <1>2, <1>6, <1>7 DEF Sound, Shape
<1>9. Panics(p) /\ Answered(p)
  BY <1>6 DEF Sound, Panics, Answered
<1>10. Spanned(p)
  BY <1>6, <1>7, SMTT(60) DEF Sound, Spanned
<1>11. Written(p)
  BY <1>6, <1>7 DEF Sound, Written, Over
<1>12. Known(p)
  BY <1>1, <1>6, <1>7 DEF Sound, Known
<1>13. Answering(p)
  <2>1. 1 \in 1..Len(q.stack) /\ q.stack[1].kind \notin Waiting
    BY <1>2 DEF Waiting
  <2> QED
    BY <1>1, <1>6, <1>7, <2>1 DEF Sound, Written, Answering
<1> QED
  BY <1>6, <1>7, <1>8, <1>9, <1>10, <1>11, <1>12, <1>13 DEF Sound

LEMMA AlikeSound ==
    ASSUME NEW q, Sound(q), NEW p \in RequestState, Alike(p, q), p.next = q.next, p.stack = q.stack
    PROVE  Sound(p)
<1>1. Shape(p) /\ Panics(p) /\ Answered(p) /\ Spanned(p)
  BY DEF Sound, Shape, Panics, Answered, Spanned, Alike
<1>2. Written(p) /\ Known(p)
  BY DEF Sound, Written, Known, Alike, Over, Top
<1> QED
  BY <1>1, <1>2 DEF Sound

\* Passing the auth handler.
LEMMA UserSound ==
    ASSUME NEW q, Sound(q), NEW p, p = [q EXCEPT !.user = TRUE]
    PROVE  /\ Sound(p) /\ p.user /\ p.stack = q.stack /\ p.state = q.state /\ p.panicked = q.panicked
           /\ p.panicking = q.panicking /\ p.notified = q.notified /\ Top(p) = Top(q)
<1>1. q \in RequestState
  BY DEF Sound
<1>2. /\ p \in RequestState /\ p.stack = q.stack /\ p.next = q.next /\ p.span = q.span
      /\ p.state = q.state /\ p.route = q.route /\ p.panicking = q.panicking
      /\ p.panicked = q.panicked /\ p.notified = q.notified /\ p.aborted = q.aborted
      /\ p.user /\ p.status = q.status /\ p.sent = q.sent /\ p.bodies = q.bodies
      /\ p.response = q.response /\ p.ok = q.ok /\ p.metrics = q.metrics
  BY <1>1 DEF RequestState
<1>3. Shape(p) /\ Panics(p) /\ Answered(p) /\ Spanned(p)
  BY <1>2 DEF Sound, Shape, Panics, Answered, Spanned
<1>4. Top(p) = Top(q)
  BY <1>2 DEF Top
<1>5. Written(p) /\ Known(p)
  BY <1>2, <1>4 DEF Sound, Written, Known, Over
<1> QED
  BY <1>2, <1>3, <1>4, <1>5 DEF Sound

LEMMA PanicSound ==
    ASSUME NEW q, Sound(q), In(q, "handler") \/ In(q, "auth"),
           NEW p, p = [q EXCEPT !.panicking = TRUE, !.panicked = TRUE]
    PROVE  Sound(p) /\ p.panicking /\ p.stack = q.stack
<1>1. q \in RequestState /\ q.state = "running" /\ Top(q) \in {"handler", "auth"}
  BY DEF Sound, In
<1>2. /\ p \in RequestState /\ p.stack = q.stack /\ p.next = q.next /\ p.span = q.span
      /\ p.state = q.state /\ p.route = q.route /\ p.panicking
      /\ p.panicked /\ p.notified = q.notified /\ p.aborted = q.aborted
      /\ p.user = q.user /\ p.status = q.status /\ p.sent = q.sent /\ p.bodies = q.bodies
      /\ p.response = q.response /\ p.ok = q.ok /\ p.metrics = q.metrics
  BY <1>1 DEF RequestState
<1>3. 1 \in 1..Len(q.stack) /\ q.stack[1].kind = Top(q)
  BY <1>1, TopIs
<1>4. q.next >= 4 /\ q.stack[1].kind \notin Waiting
  BY <1>1, <1>3 DEF Sound, Shape, Waiting
<1>5. q.metrics = <<>> /\ ~q.ok
  BY <1>3, <1>4 DEF Sound, Written
<1>6. Shape(p) /\ Panics(p) /\ Answered(p) /\ Spanned(p)
  BY <1>1, <1>2, <1>4 DEF Sound, Shape, Panics, Answered, Spanned
<1>7. Written(p)
  BY <1>2, <1>5 DEF Written
<1>8. Known(p)
  BY <1>2 DEF Sound, Known, Top
<1> QED
  BY <1>2, <1>6, <1>7, <1>8 DEF Sound

WithSpan(w, span) == [w EXCEPT !.span = span]

LEMMA WithSpanIs ==
    ASSUME NEW w \in RequestState, NEW span \in {"none", "open", "ended"},
           NEW p, p = WithSpan(w, span)
    PROVE  /\ p \in RequestState /\ p.stack = w.stack /\ p.next = w.next /\ p.span = span
           /\ p.state = w.state /\ p.route = w.route /\ p.panicking = w.panicking
           /\ p.panicked = w.panicked /\ p.notified = w.notified /\ p.aborted = w.aborted
           /\ p.user = w.user /\ p.status = w.status /\ p.sent = w.sent /\ p.bodies = w.bodies
           /\ p.response = w.response /\ p.ok = w.ok /\ p.metrics = w.metrics
<1>1. \A n \in {"none", "open", "ended"} : [w EXCEPT !.span = n] \in RequestState
  BY DEF RequestState
<1>2. p = [w EXCEPT !.span = span]
  BY DEF WithSpan
<1>3. p \in RequestState
  BY <1>1, <1>2, Zenon
<1>4. /\ p.stack = w.stack /\ p.next = w.next
      /\ p.state = w.state /\ p.route = w.route /\ p.panicking = w.panicking
      /\ p.panicked = w.panicked /\ p.notified = w.notified /\ p.aborted = w.aborted
  BY <1>2 DEF RequestState
<1>5. /\ p.user = w.user /\ p.status = w.status /\ p.sent = w.sent /\ p.bodies = w.bodies
      /\ p.response = w.response /\ p.ok = w.ok /\ p.metrics = w.metrics
  BY <1>2 DEF RequestState
<1>6. p.span = span
  BY <1>2 DEF RequestState
<1> QED
  BY <1>3, <1>4, <1>5, <1>6

LEMMA UnwindSound ==
    ASSUME NEW q, Sound(q), q.panicking, q.stack # <<>>,
           NEW w, w = Pop(q), NEW span, span = IF Top(q) = "telemetry" THEN "ended" ELSE w.span,
           NEW p, p = WithSpan(w, span)
    PROVE  Sound(p) /\ p.panicking /\ p.stack = Tail(q.stack)
<1>1. q \in RequestState /\ q.panicked /\ q.state = "running"
  BY DEF Sound, Panics
<1>2. w \in RequestState /\ Alike(w, q) /\ w.next = q.next
  BY <1>1, Popped
<1>3. w.stack = Tail(q.stack)
  BY <1>1 DEF Pop, RequestState
<1>5. span \in {"none", "open", "ended"}
  BY <1>2 DEF RequestState
<1>6. Top(q) # "telemetry" => Sound(w)
  BY <1>1, PopSound
<1>10. (Top(q) # "telemetry" => span = w.span) /\ (Top(q) = "telemetry" => span = "ended")
  OBVIOUS
<1>7. /\ p \in RequestState /\ p.stack = Tail(q.stack) /\ p.next = q.next /\ p.span = span
      /\ p.state = q.state /\ p.route = q.route /\ p.panicking
      /\ p.panicked /\ p.notified = q.notified /\ p.aborted = q.aborted
      /\ p.user = q.user /\ p.status = q.status /\ p.sent = q.sent /\ p.bodies = q.bodies
      /\ p.response = q.response /\ p.ok = q.ok /\ p.metrics = q.metrics
  <2>1. /\ p \in RequestState /\ p.stack = w.stack /\ p.next = w.next /\ p.span = span
        /\ p.state = w.state /\ p.route = w.route /\ p.panicking = w.panicking
        /\ p.panicked = w.panicked /\ p.notified = w.notified /\ p.aborted = w.aborted
        /\ p.user = w.user /\ p.status = w.status /\ p.sent = w.sent /\ p.bodies = w.bodies
        /\ p.response = w.response /\ p.ok = w.ok /\ p.metrics = w.metrics
    BY <1>2, <1>5, WithSpanIs
  <2> QED
    BY <1>1, <1>2, <1>3, <2>1, ZenonT(60) DEF Alike
<1>8. CASE Top(q) # "telemetry"
  <2>1. Alike(p, w)
    BY <1>1, <1>2, <1>7, <1>8, <1>10 DEF Alike
  <2> QED
    BY <1>2, <1>3, <1>6, <1>7, <1>8, <2>1, AlikeSound
<1>9. CASE Top(q) = "telemetry"
  <2>1. /\ p.stack = Tail(q.stack) /\ p.next = q.next /\ p.route = q.route
        /\ p.state = "running" /\ p.span = "ended" /\ p.panicked = q.panicked
    BY <1>1, <1>7, <1>9, <1>10
  <2>2. \A v : v.stack = Tail(q.stack) /\ v.next = q.next /\ v.route = q.route
               /\ v.state = "running" /\ v.span = "ended" /\ v.panicked = q.panicked =>
           Shape(v) /\ Spanned(v) /\ \A j \in 1..Len(v.stack) : v.stack[j].kind \in Waiting
    BY <1>1, <1>9, EndsSpanned
  <2>3. Shape(p) /\ Spanned(p) /\ \A j \in 1..Len(p.stack) : p.stack[j].kind \in Waiting
    BY <2>1, <2>2, Zenon
  <2>4. Panics(p) /\ Answered(p)
    BY <1>1, <1>7 DEF Sound, Panics, Answered
  <2>5. Written(p)
    BY <1>1, <1>7 DEF Sound, Written
  <2>6. Known(p)
    <3>1. p \in RequestState
      BY <1>7
    <3>2. Top(p) # "handler"
      BY <2>3, <3>1, WaitingTop
    <3> QED
      BY <1>7, <3>2 DEF Known
  <2> QED
    BY <1>7, <2>3, <2>4, <2>5, <2>6 DEF Sound
<1> QED
  BY <1>8, <1>9

Calmed(w, n) == [w EXCEPT !.panicking = FALSE, !.notified = n]

LEMMA RecoverSound ==
    ASSUME NEW q, Sound(q), q.panicking, Top(q) = "recover", NEW n \in Requests \cup {Nil},
           NEW w, w = Pop(q), NEW p, p = Calmed(w, n)
    PROVE  Sound(p) /\ p.notified = n /\ p.stack = Tail(q.stack)
<1>1. q \in RequestState /\ q.panicked /\ q.state = "running" /\ q.stack # <<>>
  BY TopIs DEF Sound, Panics
<1>2. w \in RequestState /\ Alike(w, q) /\ w.next = q.next /\ Len(w.stack) = Len(q.stack) - 1
  BY <1>1, Popped
<1>3. w.stack = Tail(q.stack) /\ Sound(w)
  <2> QED
    BY <1>1, PopSound
<1>4. Len(w.stack) = 0
  <2>1. 1 \in 1..Len(q.stack) /\ q.stack[1].kind = "recover"
    BY <1>1, TopIs
  <2>2. 1 = Len(q.stack)
    BY <2>1 DEF Sound, Shape
  <2> QED
    BY <1>2, <2>2
<1>5. w.span # "open"
  BY <1>3, <1>4 DEF Sound, Spanned
<1>6. /\ p \in RequestState /\ p.stack = w.stack /\ p.next = w.next /\ p.span = w.span
      /\ p.state = w.state /\ p.route = w.route /\ ~p.panicking
      /\ p.panicked = w.panicked /\ p.notified = n /\ p.aborted = w.aborted
      /\ p.user = w.user /\ p.status = w.status /\ p.sent = w.sent /\ p.bodies = w.bodies
      /\ p.response = w.response /\ p.ok = w.ok /\ p.metrics = w.metrics
  BY <1>2 DEF RequestState, Calmed
<1>7. Shape(p) /\ Panics(p) /\ Answered(p)
  <2>1. w.panicked /\ w.state = "running"
    BY <1>1, <1>2 DEF Alike
  <2>2. Shape(w) /\ Panics(w) /\ Answered(w)
    BY <1>3 DEF Sound
  <2>3. Shape(p)
    BY <1>6, <2>2 DEF Shape
  <2>4. Panics(p)
    BY <1>6, <2>1, <2>2 DEF Panics
  <2>5. Answered(p)
    BY <1>6, <2>1, <2>2 DEF Answered
  <2> QED
    BY <2>3, <2>4, <2>5
<1>8. Spanned(p) /\ Written(p)
  <2>1. w.panicked
    BY <1>1, <1>2 DEF Alike
  <2>4. Spanned(w)
    BY <1>3 DEF Sound
  <2>2. Spanned(p)
    BY <1>5, <1>6, <2>4 DEF Spanned
  <2>3. Written(p)
    BY <1>3, <1>6, <2>1 DEF Sound, Written
  <2> QED
    BY <2>2, <2>3
<1>9. Known(p)
  BY <1>3, <1>6 DEF Sound, Known, Top
<1> QED
  BY <1>3, <1>6, <1>7, <1>8, <1>9 DEF Sound

LEMMA BreakSound ==
    ASSUME NEW q, Sound(q), q.panicking, q.stack = <<>>,
           NEW p, p = [q EXCEPT !.panicking = FALSE, !.state = "broken"]
    PROVE  Sound(p) /\ p.state = "broken" /\ p.stack = <<>>
<1>1. q \in RequestState /\ q.panicked /\ Len(q.stack) = 0
  BY DEF Sound, Panics
<1>2. /\ p \in RequestState /\ p.stack = q.stack /\ p.next = q.next /\ p.span = q.span
      /\ p.state = "broken" /\ p.route = q.route /\ ~p.panicking
      /\ p.panicked = q.panicked /\ p.aborted = q.aborted
      /\ p.user = q.user /\ p.status = q.status /\ p.sent = q.sent /\ p.bodies = q.bodies
      /\ p.response = q.response /\ p.ok = q.ok /\ p.metrics = q.metrics
  BY <1>1 DEF RequestState
<1>3. q.span # "open" /\ q.state = "running"
  BY <1>1 DEF Sound, Spanned, Panics
<1>4. Shape(p) /\ Panics(p) /\ Answered(p)
  BY <1>1, <1>2, <1>3 DEF Sound, Shape, Panics, Answered
<1>5. Spanned(p) /\ Written(p)
  BY <1>2, <1>3 DEF Sound, Spanned, Written, Over
<1>6. Known(p)
  BY <1>2 DEF Sound, Known, Top
<1> QED
  BY <1>2, <1>4, <1>5, <1>6 DEF Sound

\* What Finish leaves as it is, and what it does not.
Finished(p, q) ==
    /\ p.stack = q.stack /\ p.next = q.next /\ p.span = q.span
    /\ p.state = "done" /\ p.route = q.route /\ ~p.panicking
    /\ p.panicked = q.panicked /\ p.aborted = q.aborted /\ p.notified = q.notified
    /\ p.user = q.user /\ p.status = q.status /\ p.bodies = q.bodies
    /\ p.response = q.response /\ p.ok = q.ok /\ p.metrics = q.metrics
    /\ p.sent = IF q.sent = 0 THEN q.status ELSE q.sent

LEMMA FinishSound ==
    ASSUME NEW q, Sound(q), q.state = "running", q.stack = <<>>,
           NEW p \in RequestState, Finished(p, q)
    PROVE  Sound(p)
<1>1. q \in RequestState /\ q.state = "running"
  BY DEF Sound
<1>2. /\ p \in RequestState /\ p.stack = q.stack /\ p.next = q.next /\ p.span = q.span
      /\ p.state = "done" /\ p.route = q.route /\ ~p.panicking
      /\ p.panicked = q.panicked /\ p.aborted = q.aborted /\ p.notified = q.notified
      /\ p.user = q.user /\ p.status = q.status /\ p.bodies = q.bodies
      /\ p.response = q.response /\ p.ok = q.ok /\ p.metrics = q.metrics
      /\ p.sent = IF q.sent = 0 THEN q.status ELSE q.sent
  BY DEF Finished
<1>3. Shape(p) /\ Panics(p)
  BY <1>1, <1>2 DEF Sound, Shape, Panics
<1>4. Answered(p)
  BY <1>1, <1>2 DEF Sound, Answered
<1>5. Spanned(p) /\ Written(p)
  BY <1>1, <1>2 DEF Sound, Spanned, Written, Over
<1>6. Known(p)
  BY <1>2 DEF Sound, Known, Top
<1> QED
  BY <1>1, <1>2, <1>3, <1>4, <1>5, <1>6 DEF Sound

LEMMA ServeSound ==
    ASSUME NEW q, Sound(q), q.state = "new", NEW p, p = [q EXCEPT !.state = "running"]
    PROVE  Sound(p) /\ p.stack = q.stack /\ p.notified = q.notified /\ p.panicked = q.panicked
           /\ ~q.panicking
<1>1. q \in RequestState /\ ~q.panicking /\ q.stack = <<>> /\ Len(q.stack) = 0
  BY DEF Sound, Panics, Shape
<1>2. /\ p \in RequestState /\ p.stack = q.stack /\ p.next = q.next /\ p.span = q.span
      /\ p.state = "running" /\ p.route = q.route /\ ~p.panicking
      /\ p.panicked = q.panicked /\ p.aborted = q.aborted /\ p.notified = q.notified
      /\ p.user = q.user /\ p.status = q.status /\ p.sent = q.sent /\ p.bodies = q.bodies
      /\ p.response = q.response /\ p.ok = q.ok /\ p.metrics = q.metrics
  BY <1>1 DEF RequestState
<1>3. Shape(p) /\ Panics(p) /\ Answered(p)
  BY <1>1, <1>2 DEF Sound, Shape, Panics, Answered
<1>4. Spanned(p) /\ Written(p) /\ Known(p)
  BY <1>1, <1>2 DEF Sound, Spanned, Written, Known, Over, Top
<1> QED
  BY <1>1, <1>2, <1>3, <1>4 DEF Sound

\* A request that nobody has served yet.
New(route) ==
    [state |-> "new", route |-> route, next |-> 0, stack |-> <<>>,
     panicking |-> FALSE, panicked |-> FALSE, notified |-> Nil,
     aborted |-> FALSE, user |-> FALSE, nolog |-> FALSE,
     status |-> 200, sent |-> 0, bodies |-> 0, response |-> Nil,
     span |-> "none", ok |-> FALSE, metrics |-> <<>>, logged |-> FALSE]

LEMMA NewSound ==
    ASSUME NEW route \in DOMAIN Chain PROVE Sound(New(route))
<1> DEFINE q == New(route)
<1>1. q \in RequestState
  BY DEF New, RequestState
<1>2. Len(q.stack) = 0 /\ q.stack = <<>> /\ Top(q) = "none"
  BY DEF New, Top
<1>3. Shape(q)
  BY <1>2, ChainFacts DEF New, Shape
<1>4. Panics(q) /\ Answered(q) /\ Spanned(q) /\ Written(q)
  BY <1>2 DEF New, Panics, Answered, Spanned, Written
<1>5. Known(q)
  BY <1>2 DEF New, Known
<1> QED
  BY <1>1, <1>3, <1>4, <1>5 DEF Sound
-----------------------------------------------------------------------------
(* The Context that is taken.                                              *)

LEMMA MinIs ==
    ASSUME NEW S \in SUBSET Nat, S # {}
    PROVE  Min(S) \in S
<1> DEFINE R == OpToRel(<, Nat)
<1>1. IsWellFoundedOn(R, Nat)
  BY NatLessThanWellFounded
<1>2. \A x, y \in Nat : x < y => <<x, y>> \in R
  BY DEF OpToRel
<1> HIDE DEF R
<1>3. PICK x \in S : \A y \in S : ~ (<<y, x>> \in R)
  BY <1>1, WFMin
<1>4. \A y \in S : x <= y
  <2> SUFFICES ASSUME NEW y \in S PROVE x <= y
    OBVIOUS
  <2>1. x \in Nat /\ y \in Nat
    OBVIOUS
  <2>2. ~(y < x)
    BY <1>2, <1>3, <2>1
  <2> QED
    BY <2>1, <2>2
<1> QED
  BY <1>4 DEF Min

\* The objects of all frames are fewer than those there are.
LEMMA SomeLeft ==
    ASSUME IInv
    PROVE  Object \ {f.object : f \in Frames} # {}
<1> DEFINE D == Requests \X (1..7)
           InFrame(d) == d[2] <= Len(req[d[1]].stack)
           E == {d \in D : InFrame(d)}
           F == [d \in E |-> req[d[1]].stack[d[2]].object]
           S == {F[d] : d \in E}
<1>1. IsFiniteSet(D) /\ Cardinality(D) = Cardinality(Requests) * 7
  <2>1. IsFiniteSet(1..7) /\ Cardinality(1..7) = IF 1 > 7 THEN 0 ELSE 7 - 1 + 1
    <3>1. 1 \in Int /\ 7 \in Int
      OBVIOUS
    <3> QED
      BY <3>1, FS_Interval, Zenon
  <2> QED
    BY <2>1, FS_Product, MemoryAssumption
<1>2. IsFiniteSet(E) /\ Cardinality(E) <= Cardinality(D)
  BY <1>1, FS_Subset
<1>3. IsFiniteSet(S) /\ Cardinality(S) <= Cardinality(E)
  <2>1. F \in Surjection(E, S)
    BY DEF Surjection
  <2> HIDE DEF D, E, F, S
  <2> QED
    BY <1>2, <2>1, FS_Surjection
<1>4. {f.object : f \in Frames} \subseteq S
  <2> SUFFICES ASSUME NEW f \in Frames PROVE f.object \in S
    OBVIOUS
  <2>6. PICK r \in Requests : f \in ToSet(req[r].stack)
    BY DEF Frames
  <2>7. PICK j \in DOMAIN req[r].stack : f = req[r].stack[j]
    BY <2>6 DEF ToSet
  <2>1. req[r].stack \in Seq(Frame) /\ Len(req[r].stack) <= req[r].next
        /\ req[r].next <= Len(Chain[req[r].route]) /\ req[r].next \in Nat /\ req[r].route \in DOMAIN Chain
    BY DEF IInv, Sound, Shape, RequestState
  <2>2. Len(Chain[req[r].route]) \in 1..7
    BY <2>1, ChainFacts
  <2>3. j \in 1..7 /\ j <= Len(req[r].stack)
    <3>1. j \in 1..Len(req[r].stack) /\ Len(req[r].stack) \in Nat
      BY <2>1
    <3> HIDE DEF D, InFrame, E, F, S
    <3>2. Len(req[r].stack) <= req[r].next /\ req[r].next \in Nat
          /\ req[r].next <= Len(Chain[req[r].route])
      BY <2>1
    <3>4. \A l, n, c : l \in Nat /\ n \in Nat /\ c \in 1..7 /\ l <= n /\ n <= c => l <= 7
      OBVIOUS
    <3>3. Len(req[r].stack) <= 7
      BY <2>2, <3>1, <3>2, <3>4, Zenon
    <3> QED
      BY <3>1, <3>3
  <2>4. <<r, j>> \in E
    BY <2>3
  <2>5. F[<<r, j>>] = req[r].stack[j].object
    BY <2>4
  <2> QED
    BY <2>4, <2>5, <2>7
<1>5. ASSUME Object \subseteq {f.object : f \in Frames} PROVE FALSE
  <2>1. Object \in SUBSET S
    BY <1>4, <1>5
  <2>2. Cardinality(Object) <= Cardinality(S)
    BY <1>3, <2>1, FS_Subset
  <2>3. Cardinality(Object) \in Nat /\ Cardinality(S) \in Nat /\ Cardinality(E) \in Nat
        /\ Cardinality(Requests) \in Nat
    BY <1>2, <1>3, FS_CardinalityType, MemoryAssumption
  <2> HIDE DEF S, E, D
  <2> QED
    BY <1>1, <1>2, <1>3, <2>2, <2>3, MemoryAssumption
<1> QED
  BY <1>5

LEMMA TakenIsFree ==
    ASSUME IInv
    PROVE  Taken \in Object /\ holds[Taken] = Nil
<1>1. CASE pool # {}
  <2>1. pool \in SUBSET Nat /\ pool \subseteq Object
    BY RequestAssumption DEF IInv
  <2>2. Taken \in pool
    BY <1>1, <2>1, MinIs DEF Taken
  <2> QED
    BY <2>1, <2>2 DEF IInv, Owned
<1>2. CASE pool = {}
  <2> DEFINE S == Object \ {f.object : f \in Frames}
  <2>1. S \in SUBSET Nat /\ S # {}
    BY SomeLeft, RequestAssumption
  <2>2. Taken = Min(S)
    BY <1>2 DEF Taken
  <2>3. Taken \in S
    BY <2>1, <2>2, MinIs
  <2>4. holds[Taken] = Nil
    <3> SUFFICES ASSUME holds[Taken] # Nil PROVE FALSE
      OBVIOUS
    <3>1. PICK r \in Requests : \E j \in 1..Len(req[r].stack) : req[r].stack[j].object = Taken
      BY <2>3 DEF IInv, Owned
    <3>2. PICK j \in 1..Len(req[r].stack) : req[r].stack[j].object = Taken
      BY <3>1
    <3>3. req[r].stack \in Seq(Frame)
      BY DEF IInv, Sound, RequestState
    <3>4. req[r].stack[j] \in Frames
      BY <3>3 DEF Frames, ToSet
    <3> QED
      BY <2>3, <3>2, <3>4
  <2> QED
    BY <2>3, <2>4
<1> QED
  BY <1>1, <1>2

-----------------------------------------------------------------------------
(* The three ways a step can treat the Context objects.                    *)

\* A step of one request leaves what is true of the others alone.
LEMMA Steps ==
    ASSUME IInv, NEW r \in Requests, NEW p, Sound(p), Notified(r, p), Set(r, p),
           holds' \in [Object -> Requests \cup {Nil}], pool' \subseteq Object,
           tokens' \in 0..Burst, Owned'
    PROVE  IInv'
<1>1. DOMAIN req = Requests /\ req' = [req EXCEPT ![r] = p]
  BY DEF IInv, Set
<1>2. DOMAIN req' = Requests /\ req' = [s \in Requests |-> req'[s]]
      /\ \A s \in Requests : req'[s] = IF s = r THEN p ELSE req[s]
  BY <1>1
<1>3. ASSUME NEW s \in Requests PROVE Sound(req'[s]) /\ Notified(s, req'[s])
  <2>1. CASE s = r
    <3>1. req'[s] = p
      BY <1>2, <2>1
    <3> QED
      BY <2>1, <3>1, Zenon
  <2>2. CASE s # r
    <3>1. req'[s] = req[s]
      BY <1>2, <2>2
    <3>2. Sound(req[s]) /\ Notified(s, req[s])
      BY DEF IInv
    <3> QED
      BY <3>1, <3>2, Zenon
  <2> QED
    BY <2>1, <2>2
<1> QED
  BY <1>2, <1>3 DEF IInv

LEMMA Lengths ==
    ASSUME IInv, NEW r \in Requests
    PROVE  /\ Len(req[r].stack) \in Nat
           /\ \A j \in 1..Len(req[r].stack) : req[r].stack[j].object \in Object
<1>1. req[r] \in RequestState
  BY DEF IInv, Sound
<1> QED
  BY <1>1, TopIs DEF Frame

LEMMA Stays ==
    ASSUME IInv, NEW r \in Requests, NEW p, Sound(p), Notified(r, p), Set(r, p),
           Len(p.stack) = Len(req[r].stack),
           \A j \in 1..Len(req[r].stack) : p.stack[j].object = req[r].stack[j].object,
           UNCHANGED <<holds, pool>>, tokens' \in 0..Burst
    PROVE  IInv'
<1>1. \A s \in Requests : /\ Len(req'[s].stack) = Len(req[s].stack)
                         /\ \A j \in 1..Len(req[s].stack) :
                                req'[s].stack[j].object = req[s].stack[j].object
  BY DEF IInv, Set
<1>2. Owned
  BY DEF IInv
<1>3. \A s \in Requests : \A j \in 1..Len(req'[s].stack) :
          /\ holds'[req'[s].stack[j].object] = s
          /\ \A k \in 1..Len(req'[s].stack) :
                req'[s].stack[j].object = req'[s].stack[k].object => j = k
  BY <1>1, <1>2, SMTT(60) DEF Owned
<1>4. \A o \in Object : holds'[o] # Nil =>
          \E s \in Requests : \E j \in 1..Len(req'[s].stack) : req'[s].stack[j].object = o
  <2> SUFFICES ASSUME NEW o \in Object, holds'[o] # Nil
               PROVE  \E s \in Requests : \E j \in 1..Len(req'[s].stack) : req'[s].stack[j].object = o
    OBVIOUS
  <2>1. PICK s \in Requests : \E j \in 1..Len(req[s].stack) : req[s].stack[j].object = o
    BY <1>2 DEF Owned
  <2>2. PICK j \in 1..Len(req[s].stack) : req[s].stack[j].object = o
    BY <2>1
  <2>3. j \in 1..Len(req'[s].stack) /\ req'[s].stack[j].object = o
    BY <1>1, <2>2
  <2> QED
    BY <2>3
<1>5. \A o \in pool' : holds'[o] = Nil
  BY <1>2 DEF Owned
<1>6. Owned'
  BY <1>3, <1>4, <1>5 DEF Owned
<1>7. holds' \in [Object -> Requests \cup {Nil}] /\ pool' \subseteq Object
  BY DEF IInv
<1> QED
  BY <1>6, <1>7, Steps

LEMMA Grows ==
    ASSUME IInv, NEW r \in Requests, NEW p, Sound(p), Notified(r, p), Set(r, p),
           Len(p.stack) = Len(req[r].stack) + 1, p.stack[1].object = Taken,
           \A j \in 2..Len(p.stack) : p.stack[j] = req[r].stack[j - 1],
           NewContext(r), tokens' \in 0..Burst
    PROVE  IInv'
<1> DEFINE t == Taken
<1>1. t \in Object /\ holds[t] = Nil
  BY TakenIsFree
<1>2. /\ holds' = [holds EXCEPT ![t] = r] /\ pool' = pool \ {t}
      /\ p.stack[1].object = t
  BY DEF NewContext
<1> HIDE DEF t
<1>3. \A s \in Requests : req'[s] = IF s = r THEN p ELSE req[s]
  BY DEF IInv, Set
<1>4. \A o \in Object : holds'[o] = IF o = t THEN r ELSE holds[o]
  BY <1>2 DEF IInv
<1>5. Owned /\ Nil # r /\ pool \subseteq Object
  BY DEF IInv
<1>6. \A s \in Requests : /\ Len(req[s].stack) \in Nat
                         /\ \A j \in 1..Len(req[s].stack) : req[s].stack[j].object \in Object
  BY Lengths
<1>7. \A s \in Requests : \A j \in 1..Len(req[s].stack) : req[s].stack[j].object # t
  BY <1>1, <1>5 DEF Owned
<1>8. ASSUME NEW s \in Requests, NEW j \in 1..Len(req'[s].stack)
      PROVE  /\ holds'[req'[s].stack[j].object] = s
             /\ \A k \in 1..Len(req'[s].stack) :
                   req'[s].stack[j].object = req'[s].stack[k].object => j = k
  <2>1. CASE s # r
    <3>1. req'[s] = req[s] /\ j \in 1..Len(req[s].stack)
      BY <1>3, <2>1
    <3>2. /\ req[s].stack[j].object # t /\ req[s].stack[j].object \in Object
          /\ holds[req[s].stack[j].object] = s
      BY <1>5, <1>6, <1>7, <3>1 DEF Owned
    <3>3. holds'[req[s].stack[j].object] = s
      BY <1>4, <3>2
    <3>4. \A k \in 1..Len(req[s].stack) : req[s].stack[j].object = req[s].stack[k].object => j = k
      BY <1>5, <3>1 DEF Owned
    <3> QED
      BY <3>1, <3>3, <3>4
  <2>2. CASE s = r
    <3>1. req'[s] = p /\ Len(p.stack) \in Nat /\ j \in 1..Len(p.stack)
      BY <1>3, <1>6, <2>2
    <3>2. \A k \in 2..Len(p.stack) : /\ k - 1 \in 1..Len(req[r].stack)
                                     /\ p.stack[k].object = req[r].stack[k - 1].object
                                     /\ p.stack[k].object # t /\ p.stack[k].object \in Object
                                     /\ holds[p.stack[k].object] = r
      <4> SUFFICES ASSUME NEW k \in 2..Len(p.stack)
                   PROVE  /\ k - 1 \in 1..Len(req[r].stack)
                          /\ p.stack[k].object = req[r].stack[k - 1].object
                          /\ p.stack[k].object # t /\ p.stack[k].object \in Object
                          /\ holds[p.stack[k].object] = r
        OBVIOUS
      <4>1. k - 1 \in 1..Len(req[r].stack) /\ p.stack[k] = req[r].stack[k - 1]
        BY <1>6
      <4> QED
        BY <1>5, <1>6, <1>7, <4>1 DEF Owned
    <3>3. holds'[p.stack[j].object] = r
      <4>1. CASE j = 1
        BY <1>1, <1>2, <1>4, <4>1
      <4>2. CASE j \in 2..Len(p.stack)
        BY <1>4, <3>2, <4>2
      <4> QED
        BY <3>1, <4>1, <4>2
    <3>4. ASSUME NEW k \in 1..Len(p.stack), p.stack[j].object = p.stack[k].object
          PROVE  j = k
      <4>1. CASE j = 1 \/ k = 1
        BY <1>2, <3>1, <3>2, <3>4, <4>1
      <4>2. CASE j \in 2..Len(p.stack) /\ k \in 2..Len(p.stack)
        <5>2. j - 1 \in 1..Len(req[r].stack) /\ k - 1 \in 1..Len(req[r].stack)
              /\ req[r].stack[j - 1].object = req[r].stack[k - 1].object
          BY <3>2, <3>4, <4>2
        <5>3. \A m, n \in 1..Len(req[r].stack) :
                req[r].stack[m].object = req[r].stack[n].object => m = n
          BY <1>5 DEF Owned
        <5>1. j - 1 = k - 1
          BY <5>2, <5>3, Zenon
        <5> QED
          BY <4>2, <5>1
      <4> QED
        BY <3>1, <4>1, <4>2
    <3> QED
      BY <2>2, <3>1, <3>3, <3>4
  <2> QED
    BY <2>1, <2>2
<1>9. ASSUME NEW o \in Object, holds'[o] # Nil
      PROVE  \E s \in Requests : \E j \in 1..Len(req'[s].stack) : req'[s].stack[j].object = o
  <2>1. CASE o = t
    <3>1. 1 \in 1..Len(p.stack)
      BY <1>6
    <3> QED
      BY <1>2, <1>3, <2>1, <3>1
  <2>2. CASE o # t
    <3>1. PICK s \in Requests : \E j \in 1..Len(req[s].stack) : req[s].stack[j].object = o
      BY <1>4, <1>5, <1>9, <2>2 DEF Owned
    <3>2. PICK j \in 1..Len(req[s].stack) : req[s].stack[j].object = o
      BY <3>1
    <3>3. CASE s # r
      BY <1>3, <3>2, <3>3
    <3>4. CASE s = r
      <4>1. j + 1 \in 2..Len(p.stack) /\ j + 1 \in 1..Len(p.stack)
        BY <1>6, <3>2, <3>4
      <4>2. p.stack[j + 1] = req[r].stack[j + 1 - 1] /\ j + 1 - 1 = j
        BY <4>1, SMTT(60)
      <4> QED
        BY <1>3, <3>2, <3>4, <4>1, <4>2
    <3> QED
      BY <3>3, <3>4
  <2> QED
    BY <2>1, <2>2
<1>10. \A o \in pool' : holds'[o] = Nil
  BY <1>2, <1>4, <1>5 DEF Owned
<1>11. Owned'
  BY <1>8, <1>9, <1>10 DEF Owned
<1>12. holds' \in [Object -> Requests \cup {Nil}] /\ pool' \subseteq Object
  BY <1>1, <1>2 DEF IInv
<1> QED
  BY <1>11, <1>12, Steps

LEMMA Shrinks ==
    ASSUME IInv, NEW r \in Requests, NEW p, Sound(p), Notified(r, p), Set(r, p),
           req[r].stack # <<>>, p.stack = Tail(req[r].stack),
           ReleaseContext(req[r]), tokens' \in 0..Burst
    PROVE  IInv'
<1> DEFINE t == Head(req[r].stack).object
<1>1. req[r] \in RequestState /\ req[r].stack \in Seq(Frame)
  BY DEF IInv, Sound, RequestState
<1>2. /\ Len(req[r].stack) >= 1 /\ Len(p.stack) = Len(req[r].stack) - 1
      /\ t = req[r].stack[1].object
      /\ \A j \in 1..Len(p.stack) : p.stack[j] = req[r].stack[j + 1]
  <2>1. /\ Len(Tail(req[r].stack)) = Len(req[r].stack) - 1
        /\ \A j \in 1..Len(Tail(req[r].stack)) : Tail(req[r].stack)[j] = req[r].stack[j + 1]
    BY <1>1, HeadTailProperties
  <2>2. Len(req[r].stack) \in Nat \ {0} /\ Head(req[r].stack) = req[r].stack[1]
    BY <1>1, EmptySeq
  <2> QED
    BY <2>1, <2>2
<1>3. \A s \in Requests : req'[s] = IF s = r THEN p ELSE req[s]
  BY DEF IInv, Set
<1>4. \A s \in Requests : /\ Len(req[s].stack) \in Nat
                         /\ \A j \in 1..Len(req[s].stack) : req[s].stack[j].object \in Object
  BY Lengths
<1>5. t \in Object
  BY <1>2, <1>4
<1>6. holds' = [holds EXCEPT ![t] = Nil] /\ pool' = pool \cup {t}
  BY DEF ReleaseContext
<1> HIDE DEF t
<1>7. \A o \in Object : holds'[o] = IF o = t THEN Nil ELSE holds[o]
  BY <1>6 DEF IInv
<1>8. Owned /\ pool \subseteq Object
  BY DEF IInv
<1>9. holds[t] = r /\ 1 \in 1..Len(req[r].stack)
  BY <1>2, <1>4, <1>8 DEF Owned
<1>10. \A j \in 1..Len(p.stack) : /\ j + 1 \in 1..Len(req[r].stack)
                                  /\ p.stack[j].object = req[r].stack[j + 1].object
                                  /\ p.stack[j].object # t
  <2> SUFFICES ASSUME NEW j \in 1..Len(p.stack)
               PROVE  /\ j + 1 \in 1..Len(req[r].stack)
                      /\ p.stack[j].object = req[r].stack[j + 1].object
                      /\ p.stack[j].object # t
    OBVIOUS
  <2>1. j + 1 \in 1..Len(req[r].stack) /\ j + 1 # 1 /\ p.stack[j] = req[r].stack[j + 1]
    BY <1>2, <1>4
  <2> QED
    BY <1>2, <1>8, <1>9, <2>1 DEF Owned
<1>11. ASSUME NEW s \in Requests, NEW j \in 1..Len(req'[s].stack)
       PROVE  /\ holds'[req'[s].stack[j].object] = s
              /\ \A k \in 1..Len(req'[s].stack) :
                    req'[s].stack[j].object = req'[s].stack[k].object => j = k
  <2>1. CASE s # r
    <3>2. req'[s] = req[s] /\ j \in 1..Len(req[s].stack)
      BY <1>3, <2>1
    <3>1. holds[req[s].stack[j].object] = s /\ req[s].stack[j].object \in Object
      BY <1>4, <1>8, <3>2 DEF Owned
    <3>3. holds'[req[s].stack[j].object] = s
      BY <1>7, <1>9, <2>1, <3>1
    <3>4. \A k \in 1..Len(req[s].stack) : req[s].stack[j].object = req[s].stack[k].object => j = k
      BY <1>8, <3>2 DEF Owned
    <3> QED
      BY <3>2, <3>3, <3>4
  <2>2. CASE s = r
    <3>4. req'[s] = p
      BY <1>3, <2>2
    <3>1. req'[s] = p /\ j \in 1..Len(p.stack) /\ Len(p.stack) \in Nat
      <4>1. Len(req[r].stack) \in Nat
        BY <1>4
      <4>2. j \in 1..Len(p.stack)
        BY <3>4, Zenon
      <4>3. Len(p.stack) \in Nat
        BY <1>2, <4>1
      <4> QED
        BY <3>4, <4>2, <4>3
    <3>2. holds'[p.stack[j].object] = r
      <4>1. j + 1 \in 1..Len(req[r].stack) /\ p.stack[j].object = req[r].stack[j + 1].object
            /\ p.stack[j].object # t
        BY <1>10, <3>1
      <4>2. req[r].stack[j + 1].object \in Object /\ holds[req[r].stack[j + 1].object] = r
        BY <1>4, <1>8, <4>1 DEF Owned
      <4> QED
        BY <1>7, <4>1, <4>2
    <3>3. ASSUME NEW k \in 1..Len(p.stack), p.stack[j].object = p.stack[k].object
          PROVE  j = k
      <4>1. j + 1 = k + 1
        BY <1>8, <1>10, <3>1, <3>3 DEF Owned
      <4> QED
        BY <3>1, <4>1
    <3> QED
      BY <2>2, <3>1, <3>2, <3>3
  <2> QED
    BY <2>1, <2>2
<1>12. ASSUME NEW o \in Object, holds'[o] # Nil
       PROVE  \E s \in Requests : \E j \in 1..Len(req'[s].stack) : req'[s].stack[j].object = o
  <2>1. o # t /\ holds[o] # Nil
    BY <1>7, <1>12
  <2>2. PICK s \in Requests : \E j \in 1..Len(req[s].stack) : req[s].stack[j].object = o
    BY <1>8, <2>1 DEF Owned
  <2>3. PICK j \in 1..Len(req[s].stack) : req[s].stack[j].object = o
    BY <2>2
  <2>4. CASE s # r
    BY <1>3, <2>3, <2>4
  <2>5. CASE s = r
    <3>1. j # 1 /\ j \in Nat /\ j <= Len(req[r].stack) /\ j >= 1
      BY <1>2, <1>4, <2>1, <2>3, <2>5
    <3>2. j - 1 \in 1..Len(p.stack)
      BY <1>2, <1>4, <3>1
    <3>3. p.stack[j - 1] = req[r].stack[j - 1 + 1] /\ j - 1 + 1 = j
      BY <1>2, <3>1, <3>2
    <3> QED
      BY <1>3, <2>3, <2>5, <3>2, <3>3
  <2> QED
    BY <2>4, <2>5
<1>13. \A o \in pool' : holds'[o] = Nil
  BY <1>5, <1>6, <1>7, <1>8 DEF Owned
<1>14. Owned'
  BY <1>11, <1>12, <1>13 DEF Owned
<1>15. holds' \in [Object -> Requests \cup {Nil}] /\ pool' \subseteq Object
  BY <1>5, <1>6 DEF IInv
<1> QED
  BY <1>14, <1>15, Steps

-----------------------------------------------------------------------------
(* Every step keeps the invariant.                                         *)

\* A handler is called.
LEMMA CallGrows ==
    ASSUME IInv, NEW r \in Requests, NEW kind \in Kinds, Calls(req[r], kind),
           NEW p, Sound(p), p.panicked = req[r].panicked, p.notified = req[r].notified,
           p.stack = Push(req[r], kind).stack, Set(r, p), NewContext(r), tokens' \in 0..Burst
    PROVE  IInv'
<1>1. Sound(req[r]) /\ Notified(r, req[r])
  BY DEF IInv
<1>2. req[r] \in RequestState /\ req[r].state = "running" /\ ~req[r].panicking
  BY <1>1, Calling
<1>3. Notified(r, p)
  BY <1>1, <1>2 DEF Notified
<1> DEFINE w == Push(req[r], kind)
<1>5. p.stack = w.stack /\ w = Push(req[r], kind) /\ Taken \in Object
  BY TakenIsFree
<1> HIDE DEF w
<1>4. /\ Len(w.stack) = Len(req[r].stack) + 1
      /\ w.stack[1].object = Taken
      /\ \A j \in 2..Len(w.stack) : w.stack[j] = req[r].stack[j - 1]
  <2>1. /\ Len(w.stack) = Len(req[r].stack) + 1
        /\ w.stack[1] = [kind |-> kind, object |-> Taken, calls |-> 0]
        /\ \A j \in 2..Len(w.stack) : w.stack[j] = req[r].stack[j - 1]
    BY <1>2, <1>5, Pushed
  <2> QED
    BY <2>1, SMTT(60)
<1>6. /\ Len(p.stack) = Len(req[r].stack) + 1 /\ p.stack[1].object = Taken
      /\ \A j \in 2..Len(p.stack) : p.stack[j] = req[r].stack[j - 1]
  <2>1. p.stack = w.stack
    BY <1>5, Zenon
  <2> QED
    BY <1>4, <2>1, Zenon
<1> QED
  BY <1>3, <1>6, Grows

LEMMA CallPushes ==
    ASSUME IInv, NEW r \in Requests,
           NEW kind \in {"recover", "rate", "auth", "handler", "health"}, Calls(req[r], kind),
           Set(r, Push(req[r], kind)), NewContext(r), tokens' \in 0..Burst
    PROVE  IInv'
<1> DEFINE p == Push(req[r], kind)
<1>1. Sound(req[r]) /\ Taken \in Object /\ p = Push(req[r], kind) /\ kind \in Kinds
  BY TakenIsFree DEF IInv, Kinds
<1>2. Sound(p)
  BY <1>1, PushSound
<1>4. Set(r, p) /\ p.stack = Push(req[r], kind).stack
  OBVIOUS
<1> HIDE DEF p
<1>3. p.panicked = req[r].panicked /\ p.notified = req[r].notified
  <2>1. req[r] \in RequestState
    BY <1>1 DEF Sound
  <2>2. Alike(p, req[r])
    BY <1>1, <2>1, Pushed
  <2> QED
    BY <2>2 DEF Alike
<1> QED
  BY <1>1, <1>2, <1>3, <1>4, CallGrows

\* A handler returns.
LEMMA Returns ==
    ASSUME IInv, NEW r \in Requests, req[r].state = "running", req[r].stack # <<>>,
           NEW q, Sound(q), q.stack = req[r].stack, q.state = "running",
           Notified(r, q), Top(q) # "telemetry",
           Top(q) = "auth" => q.user \/ q.panicked \/ q.aborted,
           Set(r, Pop(q)), ReleaseContext(req[r]), tokens' = tokens
    PROVE  IInv'
<1> DEFINE p == Pop(q)
<1>1. p = Pop(q) /\ Set(r, p)
  OBVIOUS
<1>2. Sound(p) /\ Alike(p, q) /\ p.stack = Tail(req[r].stack)
  BY <1>1, PopSound
<1> HIDE DEF p
<1>3. Notified(r, p)
  BY <1>2 DEF Alike, Notified
<1>4. tokens' \in 0..Burst
  BY DEF IInv
<1> QED
  BY <1>1, <1>2, <1>3, <1>4, Shrinks

LEMMA ServeHTTPKeeps ==
    ASSUME IInv, NEW r \in Requests, ServeHTTP(r) PROVE IInv'
<1> DEFINE p == [req[r] EXCEPT !.state = "running"]
<1>1. Sound(req[r]) /\ Notified(r, req[r]) /\ req[r].state = "new"
  BY DEF IInv, ServeHTTP
<1>2. p = [req[r] EXCEPT !.state = "running"]
  OBVIOUS
<1>3. Sound(p) /\ p.stack = req[r].stack /\ p.notified = req[r].notified
      /\ p.panicked = req[r].panicked /\ ~req[r].panicking
  BY <1>1, <1>2, ServeSound
<1>4. Set(r, p) /\ UNCHANGED <<holds, pool>> /\ tokens' \in 0..Burst
  BY DEF ServeHTTP, Set, IInv
<1> HIDE DEF p
<1>5. Notified(r, p)
  BY <1>1, <1>3 DEF Notified
<1> QED
  BY <1>3, <1>4, <1>5, Stays

LEMMA FinishKeeps ==
    ASSUME IInv, NEW r \in Requests, Finish(r) PROVE IInv'
<1> DEFINE q == req[r]
           p == [q EXCEPT !.state = "done", !.sent = IF @ = 0 THEN q.status ELSE @]
<1>1. Sound(q) /\ Notified(r, q) /\ Looping(q) /\ q.stack = <<>>
  BY DEF IInv, Finish
<1>2. Set(r, p) /\ UNCHANGED <<holds, pool>> /\ tokens' \in 0..Burst
  BY DEF Finish, IInv
<1>3. q \in RequestState /\ q.state = "running" /\ ~q.panicking
  BY <1>1 DEF Sound, Looping
<1>4. p \in RequestState /\ Finished(p, q)
  BY <1>3 DEF RequestState, Finished
<1> HIDE DEF p
<1>5. Sound(p)
  BY <1>1, <1>3, <1>4, FinishSound
<1>6. Notified(r, p) /\ p.stack = req[r].stack
  BY <1>1, <1>3, <1>4 DEF Notified, Finished
<1> QED
  BY <1>2, <1>5, <1>6, Stays

LEMMA CallRecoverKeeps ==
    ASSUME IInv, NEW r \in Requests, CallRecover(r) PROVE IInv'
<1>1. tokens' \in 0..Burst
  BY DEF IInv, CallRecover
<1> QED
  BY <1>1, CallPushes DEF CallRecover

LEMMA CallUserKeeps ==
    ASSUME IInv, NEW r \in Requests, NEW kind \in {"auth", "handler", "health"}, CallUser(r, kind)
    PROVE  IInv'
<1>1. tokens' \in 0..Burst /\ kind \in {"recover", "rate", "auth", "handler", "health"}
  BY DEF IInv, CallUser
<1> QED
  BY <1>1, CallPushes DEF CallUser

LEMMA CallTelemetryKeeps ==
    ASSUME IInv, NEW r \in Requests, CallTelemetry(r) PROVE IInv'
<1> DEFINE p == [Push(req[r], "telemetry") EXCEPT !.span = "open"]
<1>1. Sound(req[r]) /\ Calls(req[r], "telemetry") /\ Taken \in Object
      /\ p = [Push(req[r], "telemetry") EXCEPT !.span = "open"]
  BY TakenIsFree DEF IInv, CallTelemetry
<1>2. Sound(p) /\ p.panicked = req[r].panicked /\ p.stack = Push(req[r], "telemetry").stack
      /\ p.notified = req[r].notified
  BY <1>1, TelemetrySound
<1>3. Set(r, p) /\ NewContext(r) /\ tokens' \in 0..Burst /\ "telemetry" \in Kinds
  BY DEF CallTelemetry, IInv, Kinds
<1> HIDE DEF p
<1> QED
  BY <1>1, <1>2, <1>3, CallGrows

\* A middleware answers in its caller's place.
LEMMA Refuses ==
    ASSUME IInv, NEW r \in Requests, NEW kind \in {"rate", "limit"}, Calls(req[r], kind),
           NEW e, e.http \in Nat, e.code \in Nat \ {0},
           Set(r, AbortWithError([req[r] EXCEPT !.next = @ + 1], e)),
           UNCHANGED <<holds, pool, tokens>>
    PROVE  IInv'
<1> DEFINE q == [req[r] EXCEPT !.next = @ + 1]
           p == AbortWithError(q, e)
<1>1. Sound(req[r]) /\ Notified(r, req[r]) /\ q = [req[r] EXCEPT !.next = @ + 1]
  BY DEF IInv
<1>2. Sound(q) /\ Alike(q, req[r]) /\ q.stack = req[r].stack
  BY <1>1, PassSound
<1>3. p = AbortWithError(q, e) /\ Set(r, p)
  OBVIOUS
<1> HIDE DEF q
<1>4. Answering(q)
  <2>1. /\ req[r] \in RequestState /\ req[r].state = "running" /\ ~req[r].panicking
        /\ \A j \in 1..Len(req[r].stack) : req[r].stack[j].kind \in Waiting
        /\ req[r].span = "ended" => req[r].panicked
    BY <1>1, Calling DEF Kinds
  <2>2. Top(req[r]) # "handler"
    BY <2>1, WaitingTop
  <2>3. Top(q) = Top(req[r])
    BY <1>2 DEF Top
  <2> QED
    BY <1>2, <2>1, <2>2, <2>3 DEF Answering, Alike
<1>5. Sound(p) /\ Kept(p, q)
  BY <1>2, <1>3, <1>4, AbortSound
<1> HIDE DEF p
<1>6. p.stack = req[r].stack /\ Notified(r, p)
  BY <1>1, <1>2, <1>5 DEF Kept, Alike, Notified
<1>7. tokens' \in 0..Burst
  BY DEF IInv
<1> QED
  BY <1>3, <1>5, <1>6, <1>7, Stays

\* A wrapped handler does one thing and returns.
LEMMA Passes ==
    ASSUME IInv, NEW r \in Requests, NEW kind \in {"limit", "disablelog"}, Calls(req[r], kind),
           NEW p, p = [req[r] EXCEPT !.next = @ + 1], NEW w \in RequestState, Alike(w, p),
           w.next = p.next, w.stack = p.stack, Set(r, w), UNCHANGED <<holds, pool, tokens>>
    PROVE  IInv'
<1>1. Sound(req[r]) /\ Notified(r, req[r]) /\ tokens' \in 0..Burst
  BY DEF IInv
<1>2. Sound(p) /\ Alike(p, req[r]) /\ p.stack = req[r].stack
  BY <1>1, PassSound
<1>3. Sound(w)
  BY <1>2, AlikeSound
<1>4. Notified(r, w) /\ w.stack = req[r].stack
  BY <1>1, <1>2 DEF Alike, Notified
<1> QED
  BY <1>1, <1>3, <1>4, Stays

LEMMA CallRateKeeps ==
    ASSUME IInv, NEW r \in Requests, CallRate(r) PROVE IInv'
<1>1. CASE tokens > 0
  <2>1. tokens' \in 0..Burst
    BY <1>1 DEF IInv, CallRate
  <2> QED
    BY <1>1, <2>1, CallPushes DEF CallRate
<1>2. CASE ~(tokens > 0)
  <2> DEFINE e == [http |-> 429, code |-> TooManyRequests]
  <2>1. e.http \in Nat /\ e.code \in Nat \ {0}
    BY DEF TooManyRequests
  <2>2. Calls(req[r], "rate") /\ UNCHANGED <<holds, pool, tokens>>
        /\ Set(r, AbortWithError([req[r] EXCEPT !.next = @ + 1], e))
    BY <1>2 DEF CallRate
  <2> HIDE DEF e
  <2> QED
    BY <2>1, <2>2, Refuses
<1> QED
  BY <1>1, <1>2

LEMMA CallLimitKeeps ==
    ASSUME IInv, NEW r \in Requests, CallLimit(r) PROVE IInv'
<1> DEFINE p == [req[r] EXCEPT !.next = @ + 1]
           e == [http |-> 403, code |-> TooManyRequests]
<1>1. /\ Calls(req[r], "limit") /\ UNCHANGED <<holds, pool, tokens>>
      /\ "limit" \in {"rate", "limit"} /\ "limit" \in {"limit", "disablelog"}
      /\ "limit" \in {"rate", "limit", "disablelog"}
      /\ Set(r, p) \/ Set(r, AbortWithError([req[r] EXCEPT !.next = @ + 1], e))
  BY DEF CallLimit
<1>2. CASE Set(r, p)
  <2>1. p = [req[r] EXCEPT !.next = @ + 1] /\ Sound(req[r])
    BY DEF IInv
  <2>2. Sound(p)
    BY <1>1, <2>1, PassSound
  <2> HIDE DEF p
  <2>3. p \in RequestState /\ Alike(p, p)
    BY <2>2 DEF Sound, Alike
  <2> QED
    BY <1>1, <1>2, <2>1, <2>3, Passes
<1>3. CASE Set(r, AbortWithError([req[r] EXCEPT !.next = @ + 1], e))
  <2>1. e.http \in Nat /\ e.code \in Nat \ {0}
    BY DEF TooManyRequests
  <2> HIDE DEF e
  <2> QED
    BY <1>1, <1>3, <2>1, Refuses
<1> QED
  BY <1>1, <1>2, <1>3

LEMMA CallDisableLogKeeps ==
    ASSUME IInv, NEW r \in Requests, CallDisableLog(r) PROVE IInv'
<1> DEFINE p == [req[r] EXCEPT !.next = @ + 1]
           w == [req[r] EXCEPT !.next = @ + 1, !.nolog = TRUE]
<1>1. Calls(req[r], "disablelog") /\ UNCHANGED <<holds, pool, tokens>> /\ Set(r, w)
      /\ "disablelog" \in {"limit", "disablelog"} /\ "disablelog" \in {"rate", "limit", "disablelog"}
  BY DEF CallDisableLog
<1>2. p = [req[r] EXCEPT !.next = @ + 1] /\ w = [p EXCEPT !.nolog = TRUE] /\ Sound(req[r])
  BY DEF IInv
<1>3. Sound(p)
  BY <1>1, <1>2, PassSound
<1> HIDE DEF p, w
<1>4. w \in RequestState /\ Alike(w, p) /\ w.next = p.next /\ w.stack = p.stack
  BY <1>2, <1>3 DEF Sound, RequestState, Alike
<1> QED
  BY <1>1, <1>2, <1>4, Passes

LEMMA LeaveKeeps ==
    ASSUME IInv, NEW r \in Requests, Leave(r) PROVE IInv'
<1> DEFINE q == req[r]
<1>1. Sound(q) /\ Notified(r, q) /\ q \in RequestState
  BY DEF IInv, Sound
<1>2. /\ Looping(q) /\ Over(q) /\ q.stack # <<>> /\ ReleaseContext(req[r])
      /\ q.state = "running" /\ tokens' = tokens /\ tokens' \in 0..Burst
  BY DEF Leave, Looping, IInv
<1>3. CASE Top(q) = "telemetry"
  <2> DEFINE p == [Recorded(Pop(q)) EXCEPT !.span = "ended"]
  <2>1. p = [Recorded(Pop(q)) EXCEPT !.span = "ended"] /\ Set(r, p)
    BY <1>3 DEF Leave
  <2>2. Sound(p) /\ ~p.panicked /\ p.stack = Tail(req[r].stack)
    BY <1>1, <1>2, <1>3, <2>1, TelemetryLeaves
  <2> HIDE DEF p
  <2>3. Notified(r, p)
    BY <2>2 DEF Notified
  <2> QED
    BY <1>2, <2>1, <2>2, <2>3, Shrinks
<1>4. CASE Top(q) # "telemetry"
  <2>1. Set(r, Pop(q))
    BY <1>4 DEF Leave
  <2>2. Top(q) # "auth"
    BY <1>2 DEF Looping, Waiting
  <2> QED
    BY <1>1, <1>2, <1>4, <2>1, <2>2, Returns
<1> QED
  BY <1>3, <1>4

\* The frame of a handler is there as long as it runs.
LEMMA Inside ==
    ASSUME IInv, NEW r \in Requests, NEW kind \in {"auth", "handler", "health"}, In(req[r], kind)
    PROVE  /\ Sound(req[r]) /\ Notified(r, req[r]) /\ req[r] \in RequestState
           /\ req[r].state = "running" /\ ~req[r].panicking /\ Top(req[r]) = kind
           /\ req[r].stack # <<>>
           /\ (req[r].span = "ended" => req[r].panicked)
<1>1. Sound(req[r]) /\ Notified(r, req[r]) /\ req[r] \in RequestState
  BY DEF IInv, Sound
<1>2. req[r].state = "running" /\ ~req[r].panicking /\ Top(req[r]) = kind
  BY DEF In
<1>3. 1 \in 1..Len(req[r].stack) /\ req[r].stack[1].kind = kind /\ req[r].stack # <<>>
  BY <1>1, <1>2, TopIs
<1>4. req[r].span = "ended" => req[r].panicked
  BY <1>1, <1>3 DEF Sound, Written, Waiting
<1> QED
  BY <1>1, <1>2, <1>3, <1>4 DEF Notified

LEMMA AuthKeeps ==
    ASSUME IInv, NEW r \in Requests, Auth(r) PROVE IInv'
<1>1. In(req[r], "auth") /\ "auth" \in {"auth", "handler", "health"}
  BY DEF Auth
<1>2. /\ Sound(req[r]) /\ Notified(r, req[r]) /\ req[r].state = "running" /\ ~req[r].panicking
      /\ Top(req[r]) = "auth" /\ req[r].stack # <<>>
      /\ (req[r].span = "ended" => req[r].panicked)
  BY <1>1, Inside
<1>3. CASE Return(r, [req[r] EXCEPT !.user = TRUE])
  <2> DEFINE q == [req[r] EXCEPT !.user = TRUE]
  <2>1. q = [req[r] EXCEPT !.user = TRUE]
    OBVIOUS
  <2>2. /\ Sound(q) /\ q.user /\ q.stack = req[r].stack /\ q.state = req[r].state
        /\ q.panicked = req[r].panicked /\ q.panicking = req[r].panicking
        /\ q.notified = req[r].notified /\ Top(q) = Top(req[r])
    BY <1>2, <2>1, UserSound
  <2>3. Set(r, Pop(q)) /\ ReleaseContext(req[r]) /\ tokens' = tokens
    BY <1>3 DEF Return
  <2> HIDE DEF q
  <2>4. Notified(r, q)
    BY <1>2, <2>2 DEF Notified
  <2> QED
    BY <1>2, <2>2, <2>3, <2>4, Returns
<1>4. ASSUME NEW e \in Refusals, Return(r, AbortWithError(req[r], e)) PROVE IInv'
  <2> DEFINE q == AbortWithError(req[r], e)
  <2>1. q = AbortWithError(req[r], e) /\ e.http \in Nat /\ e.code \in Nat \ {0}
    BY RequestAssumption
  <2>2. Answering(req[r])
    BY <1>2 DEF Answering
  <2>3. Sound(q) /\ Kept(q, req[r]) /\ q.aborted
    BY <1>2, <2>1, <2>2, AbortSound
  <2>4. Set(r, Pop(q)) /\ ReleaseContext(req[r]) /\ tokens' = tokens
    BY <1>4 DEF Return
  <2> HIDE DEF q
  <2>5. /\ Notified(r, q) /\ q.stack = req[r].stack /\ q.state = "running"
        /\ Top(q) = "auth"
    BY <1>2, <2>3 DEF Notified, Kept, Top
  <2> QED
    BY <1>2, <2>3, <2>4, <2>5, Returns
<1> QED
  BY <1>3, <1>4 DEF Auth

LEMMA HealthKeeps ==
    ASSUME IInv, NEW r \in Requests, Health(r) PROVE IInv'
<1>1. In(req[r], "health") /\ "health" \in {"auth", "handler", "health"}
  BY DEF Health
<1>2. /\ Sound(req[r]) /\ Notified(r, req[r]) /\ req[r].state = "running" /\ ~req[r].panicking
      /\ Top(req[r]) = "health" /\ req[r].stack # <<>>
      /\ (req[r].span = "ended" => req[r].panicked)
  BY <1>1, Inside
<1> DEFINE q == Payload(req[r])
<1>3. q = Payload(req[r]) /\ Set(r, Pop(q)) /\ ReleaseContext(req[r]) /\ tokens' = tokens
  BY DEF Health, Return
<1>4. Sound(q) /\ Kept(q, req[r])
  <2>1. Answering(req[r])
    BY <1>2 DEF Answering
  <2> QED
    BY <1>2, <1>3, <2>1, PayloadSound
<1> HIDE DEF q
<1>5. Notified(r, q) /\ q.stack = req[r].stack /\ q.state = "running" /\ Top(q) = "health"
  BY <1>2, <1>4 DEF Notified, Kept, Top
<1> QED
  BY <1>2, <1>3, <1>4, <1>5, Returns

LEMMA HandlerReturnsKeeps ==
    ASSUME IInv, NEW r \in Requests, HandlerReturns(r) PROVE IInv'
<1>1. In(req[r], "handler") /\ "handler" \in {"auth", "handler", "health"}
  BY DEF HandlerReturns
<1>2. /\ Sound(req[r]) /\ Notified(r, req[r]) /\ req[r].state = "running"
      /\ Top(req[r]) = "handler" /\ req[r].stack # <<>>
  BY <1>1, Inside
<1> QED
  BY <1>2, Returns DEF HandlerReturns, Return

\* The answer and the count are written into the same record.
Bumped(s) == [s EXCEPT ![1].calls = @ + 1]
WithStack(x, t) == [x EXCEPT !.stack = t]

LEMMA Counted ==
    ASSUME NEW x \in RequestState, NEW t \in Seq(Frame), NEW p, p = WithStack(x, t)
    PROVE  /\ p \in RequestState /\ p.stack = t /\ p.next = x.next /\ p.span = x.span
           /\ p.state = x.state /\ p.route = x.route /\ p.panicking = x.panicking
           /\ p.panicked = x.panicked /\ p.notified = x.notified /\ p.aborted = x.aborted
           /\ p.user = x.user /\ p.status = x.status /\ p.sent = x.sent /\ p.bodies = x.bodies
           /\ p.response = x.response /\ p.ok = x.ok /\ p.metrics = x.metrics
  BY DEF RequestState, WithStack

LEMMA AnswerSound ==
    ASSUME NEW q, Sound(q), In(q, "handler"), NEW x \in RequestState, Kept(x, q), Answered(x),
           q.aborted => x.aborted, NEW t, t = Bumped(x.stack),
           NEW p, p = WithStack(x, t)
    PROVE  /\ Sound(p) /\ Len(p.stack) = Len(q.stack)
           /\ \A j \in 1..Len(q.stack) : p.stack[j].object = q.stack[j].object
           /\ p.panicked = q.panicked /\ p.panicking = q.panicking /\ p.notified = q.notified
<1> DEFINE v == [q EXCEPT !.stack[1].calls = @ + 1]
<1>6. x.stack = q.stack
  BY DEF Kept
<1>7. t = Bumped(q.stack)
  BY <1>6
<1>1. v = [q EXCEPT !.stack[1].calls = @ + 1]
  OBVIOUS
<1>2. v = [q EXCEPT !.stack = t]
  BY <1>7, Zenon DEF Bumped
<1> HIDE DEF v
<1>3. /\ Sound(v) /\ Answering(v) /\ Len(v.stack) = Len(q.stack)
      /\ \A j \in 1..Len(q.stack) : v.stack[j].object = q.stack[j].object
  BY <1>1, CountSound
<1>4. q \in RequestState /\ v.stack = t /\ t \in Seq(Frame)
  <2>1. q \in RequestState /\ v \in RequestState
    BY <1>3 DEF Sound
  <2>2. v.stack = t
    BY <1>2, <2>1 DEF RequestState
  <2> QED
    BY <2>1, <2>2 DEF RequestState
<1>5. /\ v.next = q.next /\ v.span = q.span
      /\ v.state = q.state /\ v.route = q.route /\ v.panicking = q.panicking
      /\ v.panicked = q.panicked /\ v.notified = q.notified /\ v.aborted = q.aborted
      /\ v.user = q.user /\ v.ok = q.ok /\ v.metrics = q.metrics
  BY <1>2, <1>4 DEF RequestState
<1>8. /\ p \in RequestState /\ p.stack = t /\ p.next = x.next /\ p.span = x.span
      /\ p.state = x.state /\ p.route = x.route /\ p.panicking = x.panicking
      /\ p.panicked = x.panicked /\ p.notified = x.notified /\ p.aborted = x.aborted
      /\ p.user = x.user /\ p.status = x.status /\ p.sent = x.sent /\ p.bodies = x.bodies
      /\ p.response = x.response /\ p.ok = x.ok /\ p.metrics = x.metrics
  BY <1>4, Counted
<1>9. Kept(p, v) /\ (v.aborted => p.aborted)
  BY <1>4, <1>5, <1>8 DEF Kept
<1>10. Answered(p)
  BY <1>8 DEF Answered
<1>11. Sound(p)
  BY <1>3, <1>8, <1>9, <1>10, KeptSound
<1> QED
  BY <1>3, <1>4, <1>8, <1>11 DEF Kept

LEMMA AnswerKeeps ==
    ASSUME IInv, NEW r \in Requests, Answer(r) PROVE IInv'
<1>1. In(req[r], "handler") /\ "handler" \in {"auth", "handler", "health"}
      /\ UNCHANGED <<holds, pool>> /\ tokens' \in 0..Burst
  BY DEF Answer, IInv
<1>2. /\ Sound(req[r]) /\ Notified(r, req[r]) /\ req[r] \in RequestState
      /\ req[r].state = "running" /\ ~req[r].panicking
  BY <1>1, Inside
<1>3. PICK x \in {Payload(req[r])} \cup {AbortWithError(req[r], e) : e \in Errors \cup {PlainError}} :
         Set(r, [x EXCEPT !.stack[1].calls = @ + 1])
  BY DEF Answer
<1>4. x \in RequestState /\ Kept(x, req[r]) /\ Answered(x) /\ (req[r].aborted => x.aborted)
  <2>1. CASE x = Payload(req[r])
    <3>1. CASE req[r].response # Nil
      BY <1>2, <2>1, <3>1 DEF Payload, Kept, Sound
    <3>2. CASE req[r].response = Nil
      <4>1. /\ x \in RequestState /\ Kept(x, req[r]) /\ ~x.aborted /\ ~req[r].aborted
            /\ x.status = 200 /\ x.sent = 200 /\ x.bodies = 1 /\ x.response = 0
        BY <1>2, <2>1, <3>2, PayloadIs
      <4> QED
        BY <4>1 DEF Answered
    <3> QED
      BY <3>1, <3>2
  <2>2. CASE x # Payload(req[r])
    <3>1. PICK e \in Errors \cup {PlainError} : x = AbortWithError(req[r], e)
      BY <1>3, <2>2
    <3>2. e.http \in Nat /\ e.code \in Nat \ {0}
      BY RequestAssumption DEF PlainError, ServerError
    <3>3. /\ x \in RequestState /\ Kept(x, req[r]) /\ x.aborted
          /\ x.status # 0 /\ x.sent = (IF req[r].sent = 0 THEN x.status ELSE req[r].sent)
          /\ x.bodies = req[r].bodies + 1 /\ x.response \in Nat \ {0}
      BY <1>2, <3>1, <3>2, AbortIs
    <3>4. req[r].bodies \in Nat /\ req[r].sent \in Nat
      BY <1>2 DEF RequestState
    <3>5. Answered(x)
      BY <1>2, <3>3, <3>4 DEF Sound, Answered, Kept
    <3> QED
      BY <3>3, <3>5
  <2> QED
    BY <2>1, <2>2
<1> DEFINE t == Bumped(x.stack)
           p == WithStack(x, t)
<1>5. Set(r, p)
  BY <1>3, Zenon DEF WithStack, Bumped
<1>8. t = Bumped(x.stack) /\ p = WithStack(x, t)
  OBVIOUS
<1> HIDE DEF p, t
<1>6. /\ Sound(p) /\ Len(p.stack) = Len(req[r].stack)
      /\ \A j \in 1..Len(req[r].stack) : p.stack[j].object = req[r].stack[j].object
      /\ p.panicked = req[r].panicked /\ p.panicking = req[r].panicking
      /\ p.notified = req[r].notified
  BY <1>1, <1>2, <1>4, <1>8, AnswerSound
<1>7. Notified(r, p)
  BY <1>2, <1>6 DEF Notified
<1> QED
  BY <1>1, <1>5, <1>6, <1>7, Stays

LEMMA PanicKeeps ==
    ASSUME IInv, NEW r \in Requests, Panic(r) PROVE IInv'
<1> DEFINE p == [req[r] EXCEPT !.panicking = TRUE, !.panicked = TRUE]
<1>1. /\ Sound(req[r]) /\ (In(req[r], "handler") \/ In(req[r], "auth"))
      /\ p = [req[r] EXCEPT !.panicking = TRUE, !.panicked = TRUE]
      /\ Set(r, p) /\ UNCHANGED <<holds, pool>> /\ tokens' \in 0..Burst
  BY DEF Panic, IInv
<1>2. Sound(p) /\ p.panicking /\ p.stack = req[r].stack
  BY <1>1, PanicSound
<1> HIDE DEF p
<1>3. Notified(r, p)
  BY <1>2 DEF Notified
<1> QED
  BY <1>1, <1>2, <1>3, Stays

LEMMA UnwindKeeps ==
    ASSUME IInv, NEW r \in Requests, Unwind(r) PROVE IInv'
<1> DEFINE w == Pop(req[r])
           span == IF Top(req[r]) = "telemetry" THEN "ended" ELSE w.span
           p == WithSpan(w, span)
<1>1. Sound(req[r]) /\ req[r].panicking /\ req[r].stack # <<>>
      /\ ReleaseContext(req[r]) /\ tokens' \in 0..Burst
  BY DEF Unwind, IInv
<1>2. Set(r, p)
  BY Zenon DEF Unwind, WithSpan
<1>3. /\ w = Pop(req[r]) /\ span = (IF Top(req[r]) = "telemetry" THEN "ended" ELSE w.span)
      /\ p = WithSpan(w, span)
  OBVIOUS
<1> HIDE DEF w, span, p
<1>4. Sound(p) /\ p.panicking /\ p.stack = Tail(req[r].stack)
  BY <1>1, <1>3, UnwindSound
<1>5. Notified(r, p)
  BY <1>4 DEF Notified
<1> QED
  BY <1>1, <1>2, <1>4, <1>5, Shrinks

LEMMA RecoverKeeps ==
    ASSUME IInv, NEW r \in Requests, Recover(r) PROVE IInv'
<1> DEFINE n == holds[Head(req[r].stack).object]
           w == Pop(req[r])
           p == Calmed(w, n)
<1>1. Sound(req[r]) /\ req[r].panicking /\ Top(req[r]) = "recover"
      /\ w = Pop(req[r]) /\ p = Calmed(w, n)
      /\ Set(r, p) /\ ReleaseContext(req[r]) /\ tokens' \in 0..Burst
  BY DEF Recover, IInv, Calmed
<1>2. n = r /\ req[r].stack # <<>>
  <2>1. req[r] \in RequestState
    BY <1>1 DEF Sound
  <2>2. 1 \in 1..Len(req[r].stack) /\ req[r].stack # <<>>
    BY <1>1, <2>1, TopIs
  <2>3. Head(req[r].stack) = req[r].stack[1]
    BY <2>1, <2>2 DEF RequestState
  <2> QED
    BY <2>2, <2>3 DEF IInv, Owned
<1> HIDE DEF n, w, p
<1>3. Sound(p) /\ p.notified = n /\ p.stack = Tail(req[r].stack)
  <2>1. n \in Requests \cup {Nil}
    BY <1>2
  <2> QED
    BY <1>1, <2>1, RecoverSound
<1>4. Notified(r, p)
  BY <1>2, <1>3 DEF Notified
<1> QED
  BY <1>1, <1>2, <1>3, <1>4, Shrinks

LEMMA BreakKeeps ==
    ASSUME IInv, NEW r \in Requests, Break(r) PROVE IInv'
<1> DEFINE p == [req[r] EXCEPT !.panicking = FALSE, !.state = "broken"]
<1>1. Sound(req[r]) /\ req[r].panicking /\ req[r].stack = <<>>
      /\ p = [req[r] EXCEPT !.panicking = FALSE, !.state = "broken"]
      /\ Set(r, p) /\ UNCHANGED <<holds, pool>> /\ tokens' \in 0..Burst
  BY DEF Break, IInv, Set
<1>2. Sound(p) /\ p.state = "broken" /\ p.stack = req[r].stack
  BY <1>1, BreakSound
<1> HIDE DEF p
<1>3. Notified(r, p)
  BY <1>2 DEF Notified
<1> QED
  BY <1>1, <1>2, <1>3, Stays

\* A token comes, or nothing happens.
LEMMA RefillKeeps ==
    ASSUME IInv, UNCHANGED <<req, holds, pool>>, tokens' \in 0..Burst PROVE IInv'
  BY DEF IInv, Owned

LEMMA InitIInv == Init => IInv
<1> SUFFICES ASSUME Init PROVE IInv
  OBVIOUS
<1>1. req \in [Requests -> {New(route) : route \in DOMAIN Chain}]
  BY DEF Init, New
<1>2. ASSUME NEW r \in Requests PROVE Sound(req[r]) /\ ~req[r].panicked /\ Len(req[r].stack) = 0
  <2>1. PICK route \in DOMAIN Chain : req[r] = New(route)
    BY <1>1
  <2>2. Sound(New(route))
    BY NewSound
  <2>3. ~New(route).panicked /\ Len(New(route).stack) = 0
    BY DEF New
  <2> QED
    BY <2>1, <2>2, <2>3, Zenon
<1>3. \A r \in Requests : Notified(r, req[r])
  BY <1>2 DEF Notified
<1>4. holds = [o \in Object |-> Nil] /\ pool = {} /\ tokens \in 0..Burst
  BY DEF Init
<1>5. Owned
  BY <1>2, <1>4 DEF Owned
<1> QED
  BY <1>1, <1>2, <1>3, <1>4, <1>5 DEF IInv

LEMMA NextIInv == IInv /\ [Next]_vars => IInv'
<1> SUFFICES ASSUME IInv, [Next]_vars PROVE IInv'
  OBVIOUS
<1>1. ASSUME NEW r \in Requests, ServeHTTP(r) PROVE IInv'
  BY <1>1, ServeHTTPKeeps
<1>2. ASSUME NEW r \in Requests, Step(r) PROVE IInv'
  <2>1. CASE CallRecover(r)
    BY <2>1, CallRecoverKeeps
  <2>2. CASE CallRate(r)
    BY <2>2, CallRateKeeps
  <2>3. CASE CallTelemetry(r)
    BY <2>3, CallTelemetryKeeps
  <2>4. CASE Leave(r)
    BY <2>4, LeaveKeeps
  <2>5. CASE Finish(r)
    BY <2>5, FinishKeeps
  <2>6. CASE CallLimit(r)
    BY <2>6, CallLimitKeeps
  <2>7. CASE CallDisableLog(r)
    BY <2>7, CallDisableLogKeeps
  <2>8. CASE \E kind \in {"auth", "handler", "health"} : CallUser(r, kind)
    BY <2>8, CallUserKeeps
  <2>9. CASE Auth(r)
    BY <2>9, AuthKeeps
  <2>10. CASE Health(r)
    BY <2>10, HealthKeeps
  <2>11. CASE Answer(r)
    BY <2>11, AnswerKeeps
  <2>12. CASE HandlerReturns(r)
    BY <2>12, HandlerReturnsKeeps
  <2>13. CASE Panic(r)
    BY <2>13, PanicKeeps
  <2>14. CASE Unwind(r)
    BY <2>14, UnwindKeeps
  <2>15. CASE Recover(r)
    BY <2>15, RecoverKeeps
  <2>16. CASE Break(r)
    BY <2>16, BreakKeeps
  <2> QED
    BY <1>2, <2>1, <2>2, <2>3, <2>4, <2>5, <2>6, <2>7, <2>8, <2>9, <2>10, <2>11, <2>12, <2>13,
       <2>14, <2>15, <2>16 DEF Step
<1>3. CASE Refill
  <2>1. tokens' \in 0..Burst /\ UNCHANGED <<req, holds, pool>>
    BY <1>3 DEF Refill, IInv
  <2> QED
    BY <2>1, RefillKeeps
<1>4. CASE UNCHANGED vars
  <2>1. tokens' \in 0..Burst /\ UNCHANGED <<req, holds, pool>>
    BY <1>4 DEF vars, IInv
  <2> QED
    BY <2>1, RefillKeeps
<1> QED
  BY <1>1, <1>2, <1>3, <1>4 DEF Next

\* The invariant of core/: every request is sound, and every Context object is
\* in one hand.
THEOREM Invariant == Spec => []IInv
  BY InitIInv, NextIInv, PTL DEF Spec

-----------------------------------------------------------------------------
(* The properties.                                                         *)

\* The records stay of their types; in particular newContext always finds an
\* object, and the limiter's tokens stay within the burst.
THEOREM TypesKept == Spec => []TypeOK
<1>1. IInv => TypeOK
  <2> SUFFICES ASSUME IInv PROVE TypeOK
    OBVIOUS
  <2>2. req \in [Requests -> RequestState]
    BY DEF IInv, Sound
  <2> QED
    BY <2>2 DEF IInv, TypeOK, RequestState, Frame
<1> QED
  BY <1>1, Invariant, PTL

\* No Context object is in two hands, and panicNotify is given the request that
\* panicked, for any number of requests and whatever their handlers do.
THEOREM EachItsOwnContext == Spec => []OwnContext
<1>1. IInv => OwnContext
  <2> SUFFICES ASSUME IInv PROVE OwnContext
    OBVIOUS
  <2>1. \A r \in Requests : DOMAIN req[r].stack = 1..Len(req[r].stack)
    BY DEF IInv, Sound, RequestState
  <2>2. \A r \in Requests : \A j \in DOMAIN req[r].stack :
          /\ holds[req[r].stack[j].object] = r
          /\ \A k \in DOMAIN req[r].stack :
                req[r].stack[j].object = req[r].stack[k].object => j = k
    <3>1. Owned
      BY DEF IInv
    <3> QED
      BY <2>1, <3>1 DEF Owned
  <2>3. ASSUME NEW o \in Object, holds[o] # Nil
        PROVE  o \in {f.object : f \in Frames} \ pool
    <3>1. PICK r \in Requests : \E j \in 1..Len(req[r].stack) : req[r].stack[j].object = o
      BY <2>3 DEF IInv, Owned
    <3>2. PICK j \in 1..Len(req[r].stack) : req[r].stack[j].object = o
      BY <3>1
    <3>3. req[r].stack[j] \in Frames
      BY <2>1 DEF Frames, ToSet
    <3>4. o \notin pool
      BY <2>3 DEF IInv, Owned
    <3> QED
      BY <3>2, <3>3, <3>4
  <2>4. \A r \in Requests : req[r].panicked /\ ~req[r].panicking /\ req[r].state # "broken"
                              => req[r].notified = r
    BY DEF IInv, Notified
  <2> QED
    BY <2>2, <2>3, <2>4 DEF OwnContext
<1> QED
  BY <1>1, Invariant, PTL

\* Behind an auth handler a handler runs for a known user, unless the auth
\* handler panicked.
THEOREM UserIsKnown == Spec => []UserKnown
<1>1. IInv => UserKnown
  <2> SUFFICES ASSUME IInv, NEW r \in Requests, req[r].route = "api", Top(req[r]) = "handler"
               PROVE  /\ ~req[r].user => req[r].panicked
                      /\ req[r].aborted => Head(req[r].stack).calls > 0
    BY DEF UserKnown
  <2>1. Sound(req[r]) /\ req[r] \in RequestState
    BY DEF IInv, Sound
  <2>2. req[r].user \/ req[r].panicked
    BY <2>1 DEF Sound, Known
  <2>3. req[r].aborted => req[r].stack[1].calls > 0
    BY <2>1 DEF Sound, Known
  <2>4. req[r].stack \in Seq(Frame) /\ req[r].stack # <<>>
    BY <2>1, TopIs DEF RequestState
  <2>5. Head(req[r].stack) = req[r].stack[1]
    BY <2>4
  <2> QED
    BY <2>2, <2>3, <2>5
<1> QED
  BY <1>1, Invariant, PTL

\* Telemetry accounts for every request of the API, once, and as it was answered.
THEOREM EveryRequestAccounted == Spec => []Accounted
<1>1. IInv => Accounted
  <2> SUFFICES ASSUME IInv, NEW r \in Requests, Ended(req[r])
               PROVE  LET q == req[r] IN
                      /\ q.span # "open" /\ q.stack = <<>>
                      /\ (q.span = "ended" /\ q.response # Nil /\ q.status # 404 /\ ~q.panicked)
                            <=> Len(q.metrics) = 1
                      /\ Len(q.metrics) <= 1
                      /\ \A m \in ToSet(q.metrics) : /\ m.code = q.response
                                                     /\ m.http = q.sent \/ q.bodies > 1
                      /\ q.ok => q.response = 0 /\ q.sent = 200
    BY DEF Accounted
  <2> DEFINE q == req[r]
  <2>1. Sound(q) /\ q \in RequestState
    BY DEF IInv, Sound
  <2> HIDE DEF q
  <2>2. q.state # "running" /\ q.stack = <<>> /\ Len(q.stack) = 0
    BY <2>1 DEF Ended, Sound, Shape, q
  <2>3. q.span # "open"
    BY <2>1, <2>2 DEF Sound, Spanned
  <2>4. q.bodies \in Nat /\ q.response \in Nat \cup {Nil} /\ q.metrics \in Seq([http : Nat, code : Nat])
        /\ q.status \in Nat /\ q.span \in {"none", "open", "ended"} /\ q.sent \in Nat
    BY <2>1 DEF RequestState
  <2>5. CASE q.span = "ended" /\ ~q.panicked /\ q.response # Nil /\ q.status # 404
    <3>1. q.metrics = <<[http |-> q.status, code |-> q.response]>>
          /\ (q.ok => ~q.aborted /\ q.status = 200 /\ q.response # Nil)
      BY <2>1, <2>5 DEF Sound, Written
    <3>2. Len(q.metrics) = 1 /\ ToSet(q.metrics) = {[http |-> q.status, code |-> q.response]}
      BY <3>1 DEF ToSet
    <3>3. q.bodies > 0
      BY <2>1, <2>4, <2>5 DEF Sound, Answered
    <3>4. q.sent = q.status \/ q.bodies > 1
      BY <2>1, <2>4, <3>3 DEF Sound, Answered
    <3>5. q.ok => q.response = 0 /\ q.sent = 200
      BY <2>1, <3>1, <3>3 DEF Sound, Answered
    <3> QED
      BY <2>2, <2>3, <2>5, <3>2, <3>4, <3>5 DEF q
  <2>6. CASE ~(q.span = "ended" /\ ~q.panicked /\ q.response # Nil /\ q.status # 404)
    <3>1. q.metrics = <<>>
      BY <2>1, <2>6 DEF Sound, Written
    <3>2. Len(q.metrics) = 0 /\ ToSet(q.metrics) = {}
      BY <3>1 DEF ToSet
    <3>3. q.ok => q.response = 0 /\ q.sent = 200
      <4> SUFFICES ASSUME q.ok PROVE q.response = 0 /\ q.sent = 200
        OBVIOUS
      <4>1. q.span = "ended" /\ ~q.panicked /\ ~q.aborted /\ q.status = 200 /\ q.response # Nil
        BY <2>1 DEF Sound, Written
      <4> QED
        BY <2>6, <4>1
    <3> QED
      BY <2>2, <2>3, <2>6, <3>2, <3>3 DEF q
  <2> QED
    BY <2>5, <2>6
<1> QED
  BY <1>1, Invariant, PTL
=============================================================================
