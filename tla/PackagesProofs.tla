--------------------------- MODULE PackagesProofs ---------------------------
(***************************************************************************)
(* Proofs about the packages beside the scheduler and the request core,    *)
(* for any bounds: the spans of the gorm plugin, the global job and the    *)
(* hook, the AES wrapper, paging and sorting, the writers of the log and   *)
(* the chunks of RSA; and the theorems of LoginProofs, carried over to the *)
(* composed model.  The decision tree's are in DecisionTreeProofs.         *)
(***************************************************************************)
EXTENDS DecisionTreeProofs

LP == INSTANCE LoginProofs WITH pc <- loginPc

-----------------------------------------------------------------------------
(* OtelPlugin.                                                             *)

\* Only the innermost operation is past its statement; the others wait for a hook
\* of the user's or for gorm.
OuterWaits == \A j \in 2..Len(stack) : stack[j].phase \in {"before", "within"}

\* The span an operation has begun is its own: nobody else's, under way or lost.
Begun(j) == stack[j].phase # "before"
OwnSpan ==
    /\ \A j \in 1..Len(stack) : stack[j].ctx \in 0..Len(spans)
    /\ \A j \in 1..Len(stack) : Begun(j) =>
          /\ stack[j].ctx \in 1..Len(spans) /\ stack[j].ctx \notin lost
          /\ spans[stack[j].ctx].state = "open"
    /\ \A j, k \in 1..Len(stack) : Begun(j) /\ Begun(k) /\ stack[j].ctx = stack[k].ctx => j = k

\* What is open and belongs to nobody under way was lost.
OpenKnown ==
    /\ lost \subseteq 1..Len(spans) /\ \A s \in lost : spans[s].state = "open"
    /\ \A s \in 1..Len(spans) : spans[s].state = "open" =>
          s \in lost \/ \E j \in 1..Len(stack) : Begun(j) /\ stack[j].ctx = s

\* A span that was begun below an open one is below an operation further out.
Nested ==
    \A j \in 1..Len(stack) : Begun(j) /\ ~spans[stack[j].ctx].late =>
        \/ spans[stack[j].ctx].parent = 0
        \/ spans[stack[j].ctx].parent \in lost
        \/ \E k \in 1..Len(stack) :
              k > j /\ Begun(k) /\ stack[k].ctx = spans[stack[j].ctx].parent

OtelInv == O!TypeOK /\ OuterWaits /\ OwnSpan /\ OpenKnown /\ Nested

LEMMA InitOtel == O!Init => OtelInv
<1> SUFFICES ASSUME O!Init PROVE OtelInv
  OBVIOUS
<1>1. stack = <<>> /\ spans = <<>> /\ lost = {} /\ Len(stack) = 0 /\ Len(spans) = 0
  BY DEF O!Init
<1>2. O!TypeOK
  BY <1>1, PackagesAssumption DEF O!TypeOK, O!Span, O!ConstantsOK
<1>3. OuterWaits /\ OwnSpan /\ OpenKnown /\ Nested
  BY <1>1 DEF OuterWaits, OwnSpan, OpenKnown, Nested
<1> QED
  BY <1>2, <1>3 DEF OtelInv

Frame == [ctx : 0..MaxSpans, phase : {"before", "within", "after"}, failed : BOOLEAN]
SpanRecord == [parent : 0..MaxSpans, state : {"open", "ended"}, failed : BOOLEAN, late : BOOLEAN]

\* What is used of the types below.
LEMMA OtelFacts ==
    ASSUME OtelInv
    PROVE  /\ stack \in Seq(Frame) /\ Len(stack) \in Nat /\ Len(stack) <= MaxDepth
           /\ spans \in Seq(SpanRecord) /\ Len(spans) \in Nat /\ Len(spans) <= MaxSpans
           /\ MaxSpans \in Nat /\ MaxDepth \in Nat
  BY PackagesAssumption DEF OtelInv, O!TypeOK, O!ConstantsOK, Frame, SpanRecord

\* The type invariant again, from what the variables are after a step.
LEMMA OtelTyped ==
    ASSUME stack' \in Seq(Frame), Len(stack') <= MaxDepth, spans' \in Seq(SpanRecord),
           Len(spans') <= MaxSpans, lost' \subseteq 1..Len(spans')
    PROVE  O!TypeOK'
<1>1. MaxSpans \in Nat /\ Len(spans') \in Nat
  BY PackagesAssumption DEF O!ConstantsOK
<1> QED
  BY <1>1 DEF O!TypeOK, O!Span, Frame, SpanRecord

\* Spans that stay as they are, below operations that keep theirs.
LEMMA OpenAgain ==
    ASSUME OtelInv, UNCHANGED <<spans, lost>>,
           \A j \in 1..Len(stack) : Begun(j) =>
              \E k \in 1..Len(stack') : Begun(k)' /\ stack'[k].ctx = stack[j].ctx
    PROVE  OpenKnown'
<1>1. lost' \subseteq 1..Len(spans') /\ \A s \in lost' : spans'[s].state = "open"
  BY DEF OtelInv, OpenKnown
<1>2. ASSUME NEW s \in 1..Len(spans'), spans'[s].state = "open", s \notin lost'
      PROVE  \E k \in 1..Len(stack') : Begun(k)' /\ stack'[k].ctx = s
  <2>1. PICK j \in 1..Len(stack) : Begun(j) /\ stack[j].ctx = s
    BY <1>2 DEF OtelInv, OpenKnown
  <2> QED
    BY <2>1
<1> QED
  BY <1>1, <1>2 DEF OpenKnown

LEMMA BeginOtel == ASSUME OtelInv, O!Begin PROVE OtelInv'
<1>lens. Len(stack) \in Nat /\ Len(spans) \in Nat
  BY OtelFacts
<1>1. PICK c \in {0} \cup DOMAIN spans :
         stack' = <<[ctx |-> c, phase |-> "before", failed |-> FALSE]>> \o stack
  BY DEF O!Begin, O!Root
<1>2. /\ Len(stack) < MaxDepth /\ (Len(stack) > 0 => stack[1].phase \in {"before", "within"})
      /\ UNCHANGED <<spans, lost>>
  BY OtelFacts DEF O!Begin, O!UserRuns
<1>3. c \in 0..Len(spans)
  BY <1>1, OtelFacts
<1>4. /\ stack' \in Seq(Frame) /\ Len(stack') = Len(stack) + 1
      /\ stack'[1].ctx = c /\ stack'[1].phase = "before"
      /\ \A j \in 2..Len(stack) + 1 : stack'[j] = stack[j - 1]
  <2> DEFINE f == [ctx |-> c, phase |-> "before", failed |-> FALSE]
  <2>1. f \in Frame /\ f.ctx = c /\ f.phase = "before"
    BY <1>3, OtelFacts DEF Frame
  <2> HIDE DEF f
  <2>2. stack' = <<f>> \o stack
    BY <1>1 DEF f
  <2> QED
    BY <2>1, <2>2, OtelFacts
<1>5. O!TypeOK'
  <2>1. Len(stack') <= MaxDepth /\ lost' \subseteq 1..Len(spans')
    BY <1>2, <1>4, OtelFacts DEF OtelInv, OpenKnown
  <2> QED
    BY <1>2, <1>4, <2>1, OtelFacts, OtelTyped
<1>6. OuterWaits'
  <2> SUFFICES ASSUME NEW j \in 2..Len(stack) + 1
               PROVE  stack[j - 1].phase \in {"before", "within"}
    BY <1>4 DEF OuterWaits
  <2>1. j - 1 \in 1..Len(stack) /\ (j - 1 = 1 \/ j - 1 \in 2..Len(stack)) /\ Len(stack) > 0
    BY OtelFacts
  <2> QED
    BY <1>2, <2>1 DEF OtelInv, OuterWaits
<1>moved. \A j \in 1..Len(stack') :
         \/ j = 1 /\ ~Begun(j)'
         \/ /\ j > 1 /\ j - 1 \in 1..Len(stack) /\ stack'[j].ctx = stack[j - 1].ctx
            /\ Begun(j)' <=> Begun(j - 1)
  BY <1>4, <1>lens DEF Begun
<1>kept. \A j \in 1..Len(stack) : Begun(j) =>
         /\ j + 1 \in 1..Len(stack') /\ Begun(j + 1)' /\ stack'[j + 1].ctx = stack[j].ctx
  <2> SUFFICES ASSUME NEW j \in 1..Len(stack), Begun(j)
               PROVE  j + 1 \in 1..Len(stack') /\ Begun(j + 1)' /\ stack'[j + 1].ctx = stack[j].ctx
    OBVIOUS
  <2>1. j + 1 \in 1..Len(stack') /\ j + 1 # 1 /\ (j + 1) - 1 = j
    BY <1>4, <1>lens
  <2> QED
    BY <1>moved, <2>1
<1>7. OwnSpan'
  <2>1. \A j \in 1..Len(stack') : stack'[j].ctx \in 0..Len(spans')
    BY <1>2, <1>3, <1>4, <1>lens, <1>moved DEF OtelInv, OwnSpan
  <2>2. \A j \in 1..Len(stack') : Begun(j)' =>
          /\ stack'[j].ctx \in 1..Len(spans') /\ stack'[j].ctx \notin lost'
          /\ spans'[stack'[j].ctx].state = "open"
    BY <1>2, <1>moved DEF OtelInv, OwnSpan
  <2>3. \A j, k \in 1..Len(stack') :
           Begun(j)' /\ Begun(k)' /\ stack'[j].ctx = stack'[k].ctx => j = k
    <3> SUFFICES ASSUME NEW j \in 1..Len(stack'), NEW k \in 1..Len(stack'),
                        Begun(j)', Begun(k)', stack'[j].ctx = stack'[k].ctx
                 PROVE  j = k
      OBVIOUS
    <3>1. j - 1 = k - 1
      BY <1>moved DEF OtelInv, OwnSpan
    <3> QED
      BY <1>4, <1>lens, <3>1
  <2> QED
    BY <2>1, <2>2, <2>3 DEF OwnSpan
<1>8. OpenKnown'
  BY <1>2, <1>kept, OpenAgain
<1>9. Nested'
  <2> SUFFICES ASSUME NEW j \in 1..Len(stack'), Begun(j)', ~spans'[stack'[j].ctx].late
               PROVE  LET p == spans[stack'[j].ctx].parent
                      IN  \/ p = 0 \/ p \in lost
                          \/ \E k \in 1..Len(stack') : k > j /\ Begun(k)' /\ stack'[k].ctx = p
    BY <1>2, Zenon DEF Nested
  <2> DEFINE p == spans[stack'[j].ctx].parent
  <2>1. j - 1 \in 1..Len(stack) /\ stack'[j].ctx = stack[j - 1].ctx /\ Begun(j - 1)
    BY <1>moved
  <2>2. \/ p = 0 \/ p \in lost
        \/ \E k \in 1..Len(stack) : k > j - 1 /\ Begun(k) /\ stack[k].ctx = p
    BY <1>2, <2>1 DEF OtelInv, Nested
  <2>3. ASSUME NEW k \in 1..Len(stack), k > j - 1, Begun(k), stack[k].ctx = p
        PROVE  \E m \in 1..Len(stack') : m > j /\ Begun(m)' /\ stack'[m].ctx = p
    <3>1. k + 1 > j
      BY <1>4, <1>lens, <2>3
    <3> QED
      BY <1>kept, <2>3, <3>1
  <2> QED
    BY <2>2, <2>3
<1> QED
  BY <1>5, <1>6, <1>7, <1>8, <1>9 DEF OtelInv

LEMMA BeforeOtel == ASSUME OtelInv, O!Before PROVE OtelInv'
<1> DEFINE n == Len(spans) + 1
           c == stack[1].ctx
           new == O!Started(c)
<1>1. /\ Len(stack) > 0 /\ stack[1].phase = "before" /\ Len(spans) < MaxSpans
      /\ spans' = Append(spans, new)
      /\ stack' = [stack EXCEPT ![1].phase = "within", ![1].ctx = n]
      /\ UNCHANGED lost
  <2>1. stack # <<>> /\ Head(stack) = stack[1] /\ Len(stack) > 0
    BY OtelFacts DEF O!Before
  <2> QED
    BY <2>1 DEF O!Before
<1>2. /\ c \in 0..Len(spans) /\ new \in SpanRecord /\ new.state = "open" /\ new.parent = c
      /\ ~new.late => c = 0 \/ spans[c].state = "open"
  <2>1. c \in 0..Len(spans) /\ c \in 0..MaxSpans
    BY <1>1, OtelFacts DEF OtelInv, OwnSpan
  <2>2. new = [parent |-> c, state |-> "open", failed |-> FALSE,
               late |-> c # 0 /\ ~O!Recording(c)]
    BY DEF O!Started, O!Root
  <2>3. (c # 0 /\ ~O!Recording(c)) \in BOOLEAN
    OBVIOUS
  <2> HIDE DEF new, c
  <2>4. new \in SpanRecord /\ new.state = "open" /\ new.parent = c
    BY <2>1, <2>2, <2>3 DEF SpanRecord
  <2>5. new.late <=> c # 0 /\ ~O!Recording(c)
    BY <2>2
  <2> QED
    BY <2>1, <2>4, <2>5 DEF O!Recording, O!Root
<1> HIDE DEF new
<1>3. /\ spans' \in Seq(SpanRecord) /\ Len(spans') = n /\ spans'[n] = new
      /\ \A s \in 1..Len(spans) : spans'[s] = spans[s]
  BY <1>1, <1>2, OtelFacts
<1>4. /\ stack' \in Seq(Frame) /\ Len(stack') = Len(stack)
      /\ stack'[1].ctx = n /\ stack'[1].phase = "within"
      /\ \A j \in 2..Len(stack) : stack'[j] = stack[j]
  <2> DEFINE f == [stack[1] EXCEPT !.phase = "within", !.ctx = n]
  <2>1. stack[1] \in Frame /\ n \in 0..MaxSpans
    BY <1>1, OtelFacts
  <2>2. f \in Frame /\ f.ctx = n /\ f.phase = "within"
    BY <2>1 DEF Frame
  <2>3. stack' = [stack EXCEPT ![1] = f]
    BY <1>1, OtelFacts, Zenon
  <2> HIDE DEF f
  <2>4. stack \in Seq(Frame) /\ 1 \in 1..Len(stack)
    BY <1>1, OtelFacts
  <2> QED
    BY <2>2, <2>3, <2>4, ExceptSeq
<1>5. O!TypeOK'
  BY <1>1, <1>3, <1>4, OtelFacts, OtelTyped DEF OtelInv, OpenKnown
<1>6. OuterWaits'
  BY <1>4, OtelFacts DEF OtelInv, OuterWaits
<1>7. OwnSpan'
  BY <1>1, <1>2, <1>3, <1>4, OtelFacts DEF OtelInv, OwnSpan, OpenKnown, Begun
<1>first. ~Begun(1) /\ Begun(1)' /\ stack'[1].ctx = n /\ 1 \in 1..Len(stack')
  BY <1>1, <1>4, OtelFacts DEF Begun
<1>kept. ASSUME NEW j \in 1..Len(stack), Begun(j)
         PROVE  j \in 1..Len(stack') /\ j > 1 /\ Begun(j)' /\ stack'[j].ctx = stack[j].ctx
  BY <1>1, <1>4, <1>kept, OtelFacts DEF Begun
<1>8. OpenKnown'
  <2>1. \A s \in 1..Len(spans') : s = n \/ (s \in 1..Len(spans) /\ spans'[s] = spans[s])
    <3>1. Len(spans) \in Nat
      BY OtelFacts
    <3> QED
      BY <1>3, <3>1
  <2>2. \A s \in lost : spans'[s] = spans[s] /\ s \in 1..Len(spans')
    BY <1>3, OtelFacts DEF OtelInv, OpenKnown
  <2>3. n \in 1..Len(spans') /\ lost' \subseteq 1..Len(spans') /\ \A s \in lost' : spans'[s].state = "open"
    BY <1>1, <1>3, <2>2, OtelFacts DEF OtelInv, OpenKnown
  <2>4. ASSUME NEW s \in 1..Len(spans'), spans'[s].state = "open", s \notin lost'
        PROVE  \E j \in 1..Len(stack') : Begun(j)' /\ stack'[j].ctx = s
    <3>1. CASE s = n
      BY <1>first, <3>1
    <3>2. CASE s # n
      <4>1. s \in 1..Len(spans) /\ spans[s].state = "open" /\ s \notin lost
        BY <1>1, <2>1, <2>4, <3>2
      <4>2. PICK j \in 1..Len(stack) : Begun(j) /\ stack[j].ctx = s
        BY <4>1 DEF OtelInv, OpenKnown
      <4> QED
        BY <1>kept, <4>2
    <3> QED
      BY <3>1, <3>2
  <2> QED
    BY <2>3, <2>4 DEF OpenKnown
<1>9. Nested'
  <2> SUFFICES ASSUME NEW j \in 1..Len(stack'), Begun(j)', ~spans'[stack'[j].ctx].late
               PROVE  LET p == spans'[stack'[j].ctx].parent
                      IN  \/ p = 0 \/ p \in lost
                          \/ \E k \in 1..Len(stack') : k > j /\ Begun(k)' /\ stack'[k].ctx = p
    BY <1>1, Zenon DEF Nested
  <2> DEFINE p == spans'[stack'[j].ctx].parent
  <2>1. CASE j = 1
    <3>1. p = c /\ ~new.late
      BY <1>2, <1>3, <1>4, <2>1
    <3>2. c = 0 \/ (c \in 1..Len(spans) /\ spans[c].state = "open")
      BY <1>2, <3>1, OtelFacts
    <3>3. \/ c = 0 \/ c \in lost
          \/ \E k \in 1..Len(stack) : Begun(k) /\ stack[k].ctx = c
      BY <3>2 DEF OtelInv, OpenKnown
    <3> HIDE DEF c
    <3> QED
      BY <1>kept, <2>1, <3>1, <3>3
  <2>2. CASE j # 1
    <3>1. j \in 1..Len(stack) /\ stack'[j] = stack[j] /\ Begun(j)
      BY <1>4, <2>2, OtelFacts DEF Begun
    <3>2. stack[j].ctx \in 1..Len(spans)
      BY <3>1 DEF OtelInv, OwnSpan
    <3>3. p = spans[stack[j].ctx].parent /\ ~spans[stack[j].ctx].late
      BY <1>3, <3>1, <3>2
    <3> HIDE DEF p
    <3>4. \/ p = 0 \/ p \in lost
          \/ \E k \in 1..Len(stack) : k > j /\ Begun(k) /\ stack[k].ctx = p
      BY <3>1, <3>3 DEF OtelInv, Nested
    <3> QED
      BY <1>kept, <3>4 DEF p
  <2> QED
    BY <2>1, <2>2
<1> QED
  BY <1>5, <1>6, <1>7, <1>8, <1>9 DEF OtelInv

LEMMA StatementOtel ==
    ASSUME OtelInv, NEW fails \in BOOLEAN, O!Statement(fails) PROVE OtelInv'
<1>1. /\ Len(stack) > 0 /\ stack[1].phase = "within"
      /\ stack' = [stack EXCEPT ![1].phase = "after", ![1].failed = fails]
      /\ UNCHANGED <<spans, lost>>
  BY OtelFacts DEF O!Statement
<1>2. stack' \in Seq(Frame)
      /\ Len(stack') = Len(stack) /\ stack'[1].ctx = stack[1].ctx /\ stack'[1].phase = "after"
      /\ \A j \in 2..Len(stack) : stack'[j] = stack[j]
  <2> DEFINE f == [stack[1] EXCEPT !.phase = "after", !.failed = fails]
  <2>1. stack[1] \in Frame
    BY <1>1, OtelFacts
  <2>2. f \in Frame /\ f.ctx = stack[1].ctx /\ f.phase = "after"
    BY <2>1 DEF Frame
  <2>3. stack' = [stack EXCEPT ![1] = f]
    BY <1>1, OtelFacts, Zenon
  <2> HIDE DEF f
  <2>4. stack \in Seq(Frame) /\ 1 \in 1..Len(stack)
    BY <1>1, OtelFacts
  <2> QED
    BY <2>2, <2>3, <2>4, ExceptSeq
<1>4. \A j \in 1..Len(stack) : (Begun(j)' <=> Begun(j)) /\ stack'[j].ctx = stack[j].ctx
  BY <1>1, <1>2, OtelFacts DEF Begun
<1>5. O!TypeOK'
  BY <1>1, <1>2, OtelFacts, OtelTyped DEF OtelInv, OpenKnown
<1>6. OuterWaits' /\ OwnSpan'
  BY <1>1, <1>2, <1>4, OtelFacts DEF OtelInv, OuterWaits, OwnSpan
<1>8. OpenKnown'
  BY <1>1, <1>2, <1>4, OpenAgain
<1>7. Nested'
  BY <1>1, <1>2, <1>4 DEF OtelInv, Nested
<1> QED
  BY <1>5, <1>6, <1>7, <1>8 DEF OtelInv

\* The innermost k operations leave, their spans ended or lost.
LEMMA Leave ==
    ASSUME OtelInv, NEW k \in 1..Len(stack),
           NEW theirs, theirs = {stack[j].ctx : j \in {j \in 1..k : Begun(j)}},
           stack' = SubSeq(stack, k + 1, Len(stack)),
           lost \subseteq lost', lost' \subseteq lost \cup theirs,
           spans' \in Seq(SpanRecord), Len(spans') = Len(spans),
           \A s \in 1..Len(spans) :
              /\ spans'[s].parent = spans[s].parent /\ spans'[s].late = spans[s].late
              /\ spans'[s].state = "open" <=>
                    spans[s].state = "open" /\ (s \in theirs => s \in lost')
    PROVE  OtelInv'
<1>lens. /\ Len(stack) \in Nat /\ Len(spans) \in Nat /\ k \in Nat /\ k >= 1 /\ k <= Len(stack)
         /\ Len(stack) <= MaxDepth /\ MaxDepth \in Nat
  BY OtelFacts
<1>1. /\ stack' \in Seq(Frame) /\ Len(stack') = Len(stack) - k
      /\ \A j \in 1..Len(stack') : stack'[j] = stack[j + k] /\ j + k \in 1..Len(stack)
  BY <1>lens, OtelFacts
<1>2. \A j \in 1..Len(stack') : j + k > k /\ (Begun(j)' <=> Begun(j + k))
  BY <1>1, <1>lens DEF Begun
<1>3. \A s \in theirs : s \in 1..Len(spans) /\ spans[s].state = "open" /\ s \notin lost
  BY DEF OtelInv, OwnSpan
<1>4. \A j \in 1..Len(stack) : j > k /\ Begun(j) => stack[j].ctx \notin theirs
  <2> SUFFICES ASSUME NEW j \in 1..Len(stack), j > k, Begun(j), stack[j].ctx \in theirs
               PROVE  FALSE
    OBVIOUS
  <2>1. PICK i \in 1..k : Begun(i) /\ stack[i].ctx = stack[j].ctx
    OBVIOUS
  <2>2. i \in 1..Len(stack) /\ i # j
    BY <1>lens, <2>1
  <2> QED
    BY <2>1, <2>2 DEF OtelInv, OwnSpan
<1>5. O!TypeOK'
  <2>1. lost' \subseteq 1..Len(spans)
    BY <1>3 DEF OtelInv, OpenKnown
  <2> QED
    BY <1>1, <1>lens, <2>1, OtelFacts, OtelTyped
<1>6. OuterWaits'
  <2> SUFFICES ASSUME NEW j \in 2..Len(stack')
               PROVE  stack'[j].phase \in {"before", "within"}
    BY DEF OuterWaits
  <2>1. j \in 1..Len(stack') /\ j + k \in 2..Len(stack)
    BY <1>1, <1>lens
  <2> QED
    BY <1>1, <2>1 DEF OtelInv, OuterWaits
<1>7. OwnSpan'
  <2>1. ASSUME NEW j \in 1..Len(stack')
        PROVE  /\ stack'[j].ctx \in 0..Len(spans')
               /\ Begun(j)' => /\ stack'[j].ctx \in 1..Len(spans') /\ stack'[j].ctx \notin lost'
                               /\ spans'[stack'[j].ctx].state = "open"
    <3>1. /\ j + k \in 1..Len(stack) /\ stack'[j] = stack[j + k] /\ j + k > k
          /\ Begun(j)' <=> Begun(j + k)
      BY <1>1, <1>2
    <3>2. /\ stack[j + k].ctx \in 0..Len(spans)
          /\ Begun(j + k) => /\ stack[j + k].ctx \in 1..Len(spans) /\ stack[j + k].ctx \notin lost
                             /\ spans[stack[j + k].ctx].state = "open"
      BY <3>1 DEF OtelInv, OwnSpan
    <3>3. Begun(j + k) => stack[j + k].ctx \notin theirs
      BY <1>4, <3>1
    <3> QED
      BY <3>1, <3>2, <3>3
  <2>2. ASSUME NEW j \in 1..Len(stack'), NEW m \in 1..Len(stack'),
               Begun(j)', Begun(m)', stack'[j].ctx = stack'[m].ctx
        PROVE  j = m
    <3>1. /\ j + k \in 1..Len(stack) /\ m + k \in 1..Len(stack) /\ Begun(j + k) /\ Begun(m + k)
          /\ stack[j + k].ctx = stack[m + k].ctx
      BY <1>1, <1>2, <2>2
    <3>2. j + k = m + k
      BY <3>1 DEF OtelInv, OwnSpan
    <3> QED
      BY <1>1, <1>lens, <3>2
  <2> QED
    BY <2>1, <2>2 DEF OwnSpan
<1>kept. ASSUME NEW m \in 1..Len(stack), m > k
         PROVE  m - k \in 1..Len(stack') /\ stack'[m - k] = stack[m]
  <2>1. m - k \in 1..Len(stack') /\ (m - k) + k = m
    BY <1>1, <1>lens, <1>kept
  <2> QED
    BY <1>1, <2>1
<1>8. OpenKnown'
  <2>1. lost' \subseteq 1..Len(spans') /\ \A s \in lost' : spans'[s].state = "open"
    BY <1>3 DEF OtelInv, OpenKnown
  <2>2. ASSUME NEW s \in 1..Len(spans'), spans'[s].state = "open", s \notin lost'
        PROVE  \E j \in 1..Len(stack') : Begun(j)' /\ stack'[j].ctx = s
    <3>1. spans[s].state = "open" /\ s \notin theirs /\ s \notin lost
      BY <2>2
    <3>2. PICK m \in 1..Len(stack) : Begun(m) /\ stack[m].ctx = s
      BY <2>2, <3>1 DEF OtelInv, OpenKnown
    <3>3. m > k
      <4>1. m \notin 1..k
        BY <3>1, <3>2
      <4> QED
        BY <1>lens, <4>1
    <3> QED
      BY <1>kept, <3>2, <3>3 DEF Begun
  <2> QED
    BY <2>1, <2>2 DEF OpenKnown
<1>9. Nested'
  <2> SUFFICES ASSUME NEW j \in 1..Len(stack'), Begun(j)', ~spans'[stack'[j].ctx].late
               PROVE  \/ spans'[stack'[j].ctx].parent = 0
                      \/ spans'[stack'[j].ctx].parent \in lost'
                      \/ \E m \in 1..Len(stack') :
                            m > j /\ Begun(m)' /\ stack'[m].ctx = spans'[stack'[j].ctx].parent
    BY Zenon DEF Nested
  <2> DEFINE p == spans[stack[j + k].ctx].parent
  <2>1. j + k \in 1..Len(stack) /\ Begun(j + k) /\ stack'[j] = stack[j + k]
    BY <1>1, <1>2
  <2>2. stack[j + k].ctx \in 1..Len(spans)
    BY <2>1 DEF OtelInv, OwnSpan
  <2>3. spans'[stack'[j].ctx].parent = p /\ ~spans[stack[j + k].ctx].late
    BY <2>1, <2>2
  <2>4. \/ p = 0 \/ p \in lost
        \/ \E m \in 1..Len(stack) : m > j + k /\ Begun(m) /\ stack[m].ctx = p
    BY <2>1, <2>3 DEF OtelInv, Nested
  <2> HIDE DEF p
  <2>5. ASSUME NEW m \in 1..Len(stack), m > j + k, Begun(m), stack[m].ctx = p
        PROVE  \E i \in 1..Len(stack') : i > j /\ Begun(i)' /\ stack'[i].ctx = p
    <3>1. m > k /\ m - k > j
      BY <1>1, <1>lens, <2>5
    <3> QED
      BY <1>kept, <2>5, <3>1 DEF Begun
  <2> QED
    BY <2>3, <2>4, <2>5
<1> QED
  BY <1>5, <1>6, <1>7, <1>8, <1>9 DEF OtelInv

LEMMA AfterOtel == ASSUME OtelInv, O!After PROVE OtelInv'
<1> DEFINE c == stack[1].ctx
<1>1. /\ Len(stack) > 0 /\ stack[1].phase = "after" /\ lost' = lost /\ stack' = Tail(stack)
      /\ spans' = IF ~O!Recording(c) THEN spans
                   ELSE [spans EXCEPT ![c].state = "ended", ![c].failed = stack[1].failed]
  <2>1. stack # <<>> /\ Head(stack) = stack[1] /\ Len(stack) > 0
    BY OtelFacts DEF O!After
  <2> QED
    BY <2>1 DEF O!After
<1>2. /\ c \in 1..Len(spans) /\ c \notin lost /\ spans[c].state = "open" /\ Begun(1)
      /\ stack[1] \in Frame /\ spans[c] \in SpanRecord /\ 1 \in 1..Len(stack)
  <2>1. 1 \in 1..Len(stack) /\ Begun(1)
    BY <1>1, OtelFacts DEF Begun
  <2>2. c \in 1..Len(spans) /\ c \notin lost /\ spans[c].state = "open"
    BY <2>1 DEF OtelInv, OwnSpan
  <2>3. stack[1] \in Frame /\ spans[c] \in SpanRecord
    BY <2>1, <2>2, OtelFacts
  <2> QED
    BY <2>1, <2>2, <2>3
<1>3. O!Recording(c)
  BY <1>2 DEF O!Recording, O!Root
<1>4. /\ spans' \in Seq(SpanRecord) /\ Len(spans') = Len(spans) /\ spans'[c].state = "ended"
      /\ \A s \in 1..Len(spans) : s # c => spans'[s] = spans[s]
      /\ \A s \in 1..Len(spans) : spans'[s].parent = spans[s].parent /\ spans'[s].late = spans[s].late
  <2> DEFINE f == [spans[c] EXCEPT !.state = "ended", !.failed = stack[1].failed]
  <2>1. f \in SpanRecord /\ f.state = "ended" /\ f.parent = spans[c].parent /\ f.late = spans[c].late
    BY <1>2 DEF SpanRecord, Frame
  <2>2. spans' = [spans EXCEPT ![c] = f]
    BY <1>1, <1>3, Zenon
  <2>3. spans \in Seq(SpanRecord)
    BY OtelFacts
  <2> HIDE DEF f, c
  <2> QED
    BY <1>2, <2>1, <2>2, <2>3, ExceptSeq
<1>5. {stack[j].ctx : j \in {j \in 1..1 : Begun(j)}} = {c}
  BY <1>2
<1>6. stack' = SubSeq(stack, 1 + 1, Len(stack))
  BY <1>1, OtelFacts
<1> HIDE DEF c
<1>7. \A s \in 1..Len(spans) :
         spans'[s].state = "open" <=> spans[s].state = "open" /\ (s \in {c} => s \in lost')
  BY <1>1, <1>2, <1>4
<1>8. lost \subseteq lost' /\ lost' \subseteq lost \cup {c}
  BY <1>1
<1>9. 1 \in 1..Len(stack) /\ {c} = {stack[j].ctx : j \in {j \in 1..1 : Begun(j)}}
  BY <1>2, <1>5
<1>10. \A s \in 1..Len(spans) :
          /\ spans'[s].parent = spans[s].parent /\ spans'[s].late = spans[s].late
          /\ spans'[s].state = "open" <=>
                spans[s].state = "open" /\ (s \in {c} => s \in lost')
  BY <1>4, <1>7
<1> QED
  BY <1>4, <1>6, <1>8, <1>9, <1>10, Leave

LEMMA PanicOtel == ASSUME OtelInv, O!Panic PROVE OtelInv'
<1>1. PICK k \in DOMAIN stack :
         /\ lost' = lost \cup {stack[j].ctx : j \in {j \in 1..k : stack[j].phase # "before"}}
         /\ stack' = SubSeq(stack, k + 1, Len(stack))
  BY DEF O!Panic
<1>2. k \in 1..Len(stack) /\ UNCHANGED spans
  BY OtelFacts DEF O!Panic
<1> DEFINE theirs == {stack[j].ctx : j \in {j \in 1..k : Begun(j)}}
<1>3. lost' = lost \cup theirs
  BY <1>1 DEF Begun
<1> HIDE DEF theirs
<1>4. /\ spans' \in Seq(SpanRecord) /\ Len(spans') = Len(spans)
      /\ \A s \in 1..Len(spans) :
            /\ spans'[s].parent = spans[s].parent /\ spans'[s].late = spans[s].late
            /\ spans'[s].state = "open" <=>
                  spans[s].state = "open" /\ (s \in theirs => s \in lost')
  BY <1>2, <1>3, OtelFacts
<1>5. lost \subseteq lost' /\ lost' \subseteq lost \cup theirs
  BY <1>3
<1> QED
  BY <1>1, <1>2, <1>4, <1>5, Leave DEF theirs

LEMMA NextOtel == OtelInv /\ [O!Next]_otelVars => OtelInv'
<1> SUFFICES ASSUME OtelInv, [O!Next]_otelVars PROVE OtelInv'
  OBVIOUS
<1>1. CASE UNCHANGED otelVars
  BY <1>1 DEF otelVars, OtelInv, O!TypeOK, OuterWaits, OwnSpan, OpenKnown, Nested, Begun
<1>2. CASE O!Next
  BY <1>2, BeginOtel, BeforeOtel, StatementOtel, AfterOtel, PanicOtel DEF O!Next
<1> QED
  BY <1>1, <1>2

LEMMA OtelKept == FairSpec => []OtelInv
<1>1. Init => OtelInv
  BY InitParts, InitOtel
<1>2. OtelInv /\ [Next]_vars => OtelInv'
  BY StepParts, NextOtel
<1> QED
  BY <1>1, <1>2, PTL DEF FairSpec

\* However operations nest, fail, are repeated on one Statement, are begun by a hook
\* ahead of the plugin's or end in a panic that some hook recovers: every operation
\* that runs through ends the span it began and no other, and not before a span that
\* was begun below it and is ended at all.
THEOREM EverySpanNests == FairSpec => []SpansNest
<1>1. OtelInv => SpansNest
  <2> SUFFICES ASSUME OtelInv PROVE O!SpansNest
    BY DEF SpansNest
  <2>1. DOMAIN stack = 1..Len(stack) /\ DOMAIN spans = 1..Len(spans)
    BY OtelFacts
  <2> DEFINE inside == {stack[j].ctx : j \in {k \in DOMAIN stack : stack[k].phase # "before"}}
             open == {s \in DOMAIN spans : O!IsOpen(s)}
  <2>2. \A s \in open : s \in lost \cup inside
    BY <2>1 DEF OtelInv, OpenKnown, Begun, O!IsOpen
  <2>3. \A s \in lost : s \in open
    BY <2>1 DEF OtelInv, OpenKnown, O!IsOpen
  <2>4. \A s \in inside : s \in open
    BY <2>1 DEF OtelInv, OwnSpan, Begun, O!IsOpen
  <2>5. ASSUME NEW s \in DOMAIN spans, O!IsOpen(s), s \notin lost, ~spans[s].late
        PROVE  spans[s].parent = O!Root \/ O!IsOpen(spans[s].parent)
    <3>1. PICK j \in 1..Len(stack) : Begun(j) /\ stack[j].ctx = s
      BY <2>1, <2>5 DEF OtelInv, OpenKnown, O!IsOpen
    <3>2. \/ spans[s].parent = 0 \/ spans[s].parent \in lost
          \/ \E k \in 1..Len(stack) : Begun(k) /\ stack[k].ctx = spans[s].parent
      BY <2>5, <3>1 DEF OtelInv, Nested
    <3> QED
      BY <3>2 DEF OtelInv, OpenKnown, OwnSpan, O!IsOpen, O!Root
  <2> QED
    BY <2>2, <2>3, <2>4, <2>5 DEF O!SpansNest
<1> QED
  BY OtelKept, <1>1, PTL

-----------------------------------------------------------------------------
(* Lifecycle: however the calls of InitGlobalJob and Get fall, one instance *)
(* is made; the hook and its channel keep their ranges.                     *)

Where == {"start", "blocked", "in", "inited", "got", "panic"}

\* Types of the variables the global job consists of.
JobType ==
    /\ once \in {"new", "running", "done"} /\ made \in Nat /\ ej \in BOOLEAN
    /\ at \in [Callers -> Where]
    /\ result \in [Callers -> {"none", "nil", "error"}]

\* Before the Once is spent nothing is made and nobody has an answer.
Unspent == once # "done" => made = 0 /\ \A c \in Callers : result[c] = "none"

\* Somebody is inside only while it runs, and then one caller.
Inside ==
    /\ \A c \in Callers : at[c] = "in" => once = "running"
    /\ \A c, d \in Callers : at[c] = "in" /\ at[d] = "in" => c = d

\* Once it is spent there is an instance, or one caller has the error.
Spent == once = "done" => made = 1 /\ (ej \/ \E d \in Callers : result[d] = "error")

Told ==
    /\ \A c, d \in Callers : result[c] = "error" /\ result[d] = "error" => c = d
    /\ \A c \in Callers : result[c] = "error" => at[c] = "inited"
    /\ \A c \in Callers : at[c] = "panic" => result[c] = "nil" /\ ~ej /\ once = "done"

JobInv == JobType /\ Unspent /\ Inside /\ Spent /\ Told

LEMMA InitJob == L!Init => JobInv
<1> SUFFICES ASSUME L!Init PROVE JobInv
  OBVIOUS
<1>1. JobType
  BY DEF L!Init, JobType, Where
<1>2. Unspent /\ Inside /\ Spent /\ Told
  BY DEF L!Init, Unspent, Inside, Spent, Told
<1> QED
  BY <1>1, <1>2 DEF JobInv

LEMMA InitGlobalJobInv ==
    ASSUME JobInv, NEW c \in Callers, L!InitGlobalJob(c) PROVE JobInv'
<1>1. made' = made /\ ej' = ej /\ at[c] \in {"start", "blocked"}
  BY DEF L!InitGlobalJob
<1>2. CASE once = "new"
  <2>1. at' = [at EXCEPT ![c] = "in"] /\ once' = "running" /\ result' = result
    BY <1>2 DEF L!InitGlobalJob
  <2> QED
    BY <1>1, <1>2, <2>1 DEF JobInv, JobType, Where, Unspent, Inside, Spent, Told
<1>3. CASE once = "running"
  <2>1. at' = [at EXCEPT ![c] = "blocked"] /\ once' = once /\ result' = result
    BY <1>3 DEF L!InitGlobalJob
  <2> QED
    BY <1>1, <1>3, <2>1 DEF JobInv, JobType, Where, Unspent, Inside, Spent, Told
<1>4. CASE once = "done"
  <2>1. /\ at' = [at EXCEPT ![c] = "inited"] /\ once' = once
        /\ result' = [result EXCEPT ![c] = "nil"]
    BY <1>4 DEF L!InitGlobalJob
  <2>2. result[c] # "error"
    BY <1>1 DEF JobInv, Told
  <2>3. JobType' /\ Unspent' /\ Inside'
    BY <1>1, <1>4, <2>1 DEF JobInv, JobType, Where, Unspent, Inside
  <2>4. Spent' /\ Told'
    BY <1>1, <1>4, <2>1, <2>2 DEF JobInv, JobType, Where, Spent, Told
  <2> QED
    BY <2>3, <2>4 DEF JobInv
<1> QED
  BY <1>2, <1>3, <1>4 DEF JobInv, JobType

\* The one call of New, by the one caller inside.
LEMMA NewInv == ASSUME JobInv, NEW c \in Callers, L!New(c) PROVE JobInv'
<1>1. PICK fails \in BOOLEAN :
        /\ ej' = ~fails
        /\ result' = [result EXCEPT ![c] = IF fails THEN "error" ELSE "nil"]
  BY DEF L!New
<1>2. /\ made' = 1 /\ once' = "done" /\ at' = [at EXCEPT ![c] = "inited"]
      /\ at[c] = "in" /\ once = "running"
      /\ \A d \in Callers : result[d] = "none"
  BY DEF L!New, JobInv, JobType, Unspent, Inside
<1>3. JobType'
  <2>1. ej' \in BOOLEAN
    BY <1>1, Zenon
  <2> QED
    BY <1>1, <1>2, <2>1 DEF JobInv, JobType, Where
<1>4. Unspent' /\ Inside'
  BY <1>2 DEF JobInv, JobType, Where, Unspent, Inside
<1>5. Spent'
  BY <1>1, <1>2 DEF JobInv, JobType, Spent
<1>6. Told'
  BY <1>1, <1>2 DEF JobInv, JobType, Where, Told
<1> QED
  BY <1>3, <1>4, <1>5, <1>6 DEF JobInv

LEMMA GetInv == ASSUME JobInv, NEW c \in Callers, L!Get(c) PROVE JobInv'
<1>1. /\ at' = [at EXCEPT ![c] = IF ej THEN "got" ELSE "panic"]
      /\ at[c] = "inited" /\ result[c] = "nil" /\ once = "done"
      /\ UNCHANGED <<once, made, ej, result>>
  BY DEF L!Get, JobInv, JobType, Unspent
<1>2. JobType' /\ Unspent' /\ Inside' /\ Spent'
  BY <1>1 DEF JobInv, JobType, Where, Unspent, Inside, Spent
<1>3. Told'
  BY <1>1 DEF JobInv, JobType, Where, Told
<1> QED
  BY <1>2, <1>3 DEF JobInv

LEMMA NextJob == JobInv /\ [L!Next]_lifeVars => JobInv'
<1> SUFFICES ASSUME JobInv, [L!Next]_lifeVars PROVE JobInv'
  OBVIOUS
<1>1. ASSUME UNCHANGED L!job PROVE JobInv'
  BY <1>1 DEF L!job, JobInv, JobType, Unspent, Inside, Spent, Told
<1>2. CASE L!NewHook \/ L!Close \/ L!Signal \/ L!Awake \/ L!CloseNext
  BY <1>1, <1>2 DEF L!NewHook, L!Close, L!Signal, L!Awake, L!CloseNext
<1>3. CASE UNCHANGED lifeVars
  BY <1>1, <1>3 DEF L!job, lifeVars
<1> QED
  BY <1>2, <1>3, InitGlobalJobInv, NewInv, GetInv DEF L!Next

LEMMA JobKept == FairSpec => []JobInv
<1>1. Init => JobInv
  BY InitParts, InitJob
<1>2. JobInv /\ [Next]_vars => JobInv'
  BY StepParts, NextJob
<1> QED
  BY <1>1, <1>2, PTL DEF FairSpec

\* For any number of goroutines that initialise the global job and then ask for
\* it: New is called once at most, one caller at most is told of its failure, and
\* Get panics only where another caller was told of it.
THEOREM OneGlobalJob == FairSpec => []OneInstance
<1>1. JobInv => OneInstance
  <2> SUFFICES ASSUME JobInv PROVE L!OneInstance
    BY DEF OneInstance
  <2>1. made <= 1
    BY DEF JobInv, JobType, Unspent, Spent
  <2>2. \A c \in Callers : at[c] = "panic" => \E d \in Callers \ {c} : result[d] = "error"
    BY DEF JobInv, JobType, Spent, Told
  <2>3. Cardinality({c \in Callers : result[c] = "error"}) <= 1
    <3> DEFINE E == {c \in Callers : result[c] = "error"}
    <3>1. CASE E = {}
      BY <3>1, FS_EmptySet
    <3>2. CASE E # {}
      <4>1. PICK d \in Callers : E = {d}
        BY <3>2 DEF JobInv, Told
      <4>2. Cardinality({d}) = 1
        BY FS_Singleton
      <4> HIDE DEF E
      <4>3. Cardinality(E) <= 1
        BY <4>1, <4>2
      <4> QED
        BY <4>3 DEF E
    <3> QED
      BY <3>1, <3>2
  <2>4. L!Cardinality({c \in Callers : result[c] = "error"}) <= 1
    BY <2>3 DEF L!Cardinality, Cardinality
  <2> QED
    BY <2>1, <2>2, <2>4 DEF L!OneInstance
<1> QED
  BY JobKept, <1>1, PTL

\* The channel of the hook never holds more than the one signal it was made for,
\* and Close calls only what it was given.
StopType ==
    /\ hook \in {"none", "made", "waiting", "closing", "closed"}
    /\ signals \in 0..1 /\ sent \in 0..MaxSignals
    /\ called \in Seq(1..Closers) /\ killed \in BOOLEAN

LEMMA NextStop == ASSUME L!ConstantsOK PROVE StopType /\ [L!Next]_lifeVars => StopType'
<1> SUFFICES ASSUME StopType, [L!Next]_lifeVars PROVE StopType'
  OBVIOUS
<1>1. ASSUME UNCHANGED L!stop PROVE StopType'
  BY <1>1 DEF L!stop, StopType
<1>2. ASSUME NEW c \in Callers, L!InitGlobalJob(c) \/ L!New(c) \/ L!Get(c) PROVE StopType'
  BY <1>1, <1>2 DEF L!InitGlobalJob, L!New, L!Get
<1>3. CASE L!NewHook \/ L!Close \/ L!Awake
  BY <1>3 DEF L!NewHook, L!Close, L!Awake, StopType
<1>4. CASE L!Signal
  <2>1. killed' \in BOOLEAN
    BY <1>4, Zenon DEF L!Signal, StopType
  <2> QED
    BY <1>4, <2>1 DEF L!Signal, StopType, L!ConstantsOK
<1>5. CASE L!CloseNext
  <2>1. CASE Len(called) < Closers
    <3>1. Len(called) + 1 \in 1..Closers /\ called \in Seq(1..Closers)
      BY <2>1 DEF StopType, L!ConstantsOK
    <3>2. Append(called, Len(called) + 1) \in Seq(1..Closers)
      BY <3>1
    <3> QED
      BY <1>5, <2>1, <3>2 DEF L!CloseNext, StopType
  <2> QED
    BY <1>5, <2>1 DEF L!CloseNext, StopType
<1>6. CASE UNCHANGED lifeVars
  BY <1>1, <1>6 DEF L!stop, lifeVars
<1> QED
  BY <1>2, <1>3, <1>4, <1>5, <1>6 DEF L!Next

LEMMA LifeTyped == FairSpec => []L!TypeOK
<1>1. Init => StopType
  <2> SUFFICES ASSUME L!Init PROVE StopType
    BY InitParts
  <2>1. <<>> \in Seq(1..Closers) /\ 0 \in 0..MaxSignals
    BY PackagesAssumption DEF L!ConstantsOK
  <2>2. killed \in BOOLEAN
    BY Zenon DEF L!Init
  <2> QED
    BY <2>1, <2>2 DEF L!Init, StopType
<1>2. JobInv /\ StopType => L!TypeOK
  BY DEF JobInv, JobType, Where, StopType, L!TypeOK
<1>3. StopType /\ [Next]_vars => StopType'
  BY PackagesAssumption, StepParts, NextStop
<1> QED
  BY JobKept, <1>1, <1>2, <1>3, PTL DEF FairSpec

-----------------------------------------------------------------------------
(* Login: the theorems of LoginProofs, read through another instance.      *)

\* The two readings of Token and of the helpers are one.
LEMMA SameToken ==
    /\ C!Call = LP!Call /\ C!Never = LP!Never /\ C!Garbled = LP!Garbled
    /\ C!TheUser = LP!TheUser /\ C!Secret = LP!Secret
    /\ \A u, secret, t, d : C!JwtSign(u, secret, t, d) = LP!JwtSign(u, secret, t, d)
    /\ \A tok, secret, t : C!JwtParse(tok, secret, t) = LP!JwtParse(tok, secret, t)
    /\ \A tok : C!JwtParseUnsafe(tok) = LP!JwtParseUnsafe(tok)
<1>1. /\ C!Call = LP!Call /\ C!Never = LP!Never /\ C!Garbled = LP!Garbled
      /\ C!TheUser = LP!TheUser /\ C!Secret = LP!Secret
  BY DEF C!Call, LP!Call, C!Never, LP!Never, C!Garbled, LP!Garbled, C!TheUser, LP!TheUser,
         C!Secret, LP!Secret
<1>2. \A t : C!Unix(t) = LP!Unix(t)
  BY DEF C!Unix, LP!Unix
<1>3. \A u, secret, t, d : C!JwtSign(u, secret, t, d) = LP!JwtSign(u, secret, t, d)
  BY <1>2 DEF C!JwtSign, LP!JwtSign
<1>4. \A tok, secret, t : C!ParseErrors(tok, secret, t) = LP!ParseErrors(tok, secret, t)
  BY <1>1, <1>2, Zenon DEF C!ParseErrors, LP!ParseErrors
<1>5. \A tok, secret, t : C!JwtParse(tok, secret, t) = LP!JwtParse(tok, secret, t)
  BY <1>4, Zenon DEF C!JwtParse, LP!JwtParse
<1>6. \A tok : C!JwtParseUnsafe(tok) = LP!JwtParseUnsafe(tok)
  BY <1>1 DEF C!JwtParseUnsafe, LP!JwtParseUnsafe
<1> QED
  BY <1>1, <1>3, <1>5, <1>6

LEMMA SameHelpers ==
    /\ \A c, from, to : C!Goto(c, from, to) <=> LP!Goto(c, from, to)
    /\ \A c : C!Sign(c) <=> LP!Sign(c)
    /\ \A c : C!SetEntry(c) <=> LP!SetEntry(c)
    /\ (C!Del <=> LP!Del) /\ (C!Enter <=> LP!Enter)
<1>1. \A c, from, to : C!Goto(c, from, to) <=> LP!Goto(c, from, to)
  BY Zenon DEF C!Goto, LP!Goto
<1>2. \A c : C!Sign(c) <=> LP!Sign(c)
  BY SameToken, Zenon DEF C!Sign, LP!Sign
<1>3. \A c : C!SetEntry(c) <=> LP!SetEntry(c)
  BY <1>2, Zenon DEF C!SetEntry, LP!SetEntry
<1>4. (C!Del <=> LP!Del) /\ (C!Enter <=> LP!Enter)
  BY SameToken, Zenon DEF C!Del, LP!Del, C!Enter, LP!Enter, C!None, LP!None
<1> QED
  BY <1>1, <1>2, <1>3, <1>4

LEMMA LoginFollows == FairSpec => LP!Spec
<1>1. Init => LP!Init
  <2> SUFFICES ASSUME C!Init PROVE LP!Init
    BY InitParts
  <2> QED
    BY SameToken DEF C!Init, LP!Init, C!None, LP!None
<1>2. [Next]_vars => [LP!Next]_(LP!vars)
  <2> SUFFICES ASSUME [C!Next]_loginVars PROVE [LP!Next]_(LP!vars)
    BY StepParts
  <2>1. CASE UNCHANGED loginVars
    BY <2>1 DEF loginVars, LP!vars
  <2>2. C!Tick => LP!Tick
    BY DEF C!Tick, LP!Tick, C!Less, LP!Less
  <2>3. ASSUME NEW c \in C!Call, C!GenerateToken(c) PROVE LP!GenerateToken(c)
    BY <2>3, SameHelpers, Zenon DEF C!GenerateToken, LP!GenerateToken
  <2>4. ASSUME NEW c \in C!Call, C!TokenCancel(c) PROVE LP!TokenCancel(c)
    BY <2>4, SameHelpers, SameToken, Zenon DEF C!TokenCancel, LP!TokenCancel
  <2>5. ASSUME NEW c \in C!Call, C!RefreshGet(c) PROVE LP!RefreshGet(c)
    BY <2>5, SameHelpers
       DEF C!RefreshGet, LP!RefreshGet, C!blackVars, LP!blackVars, C!refreshVars, LP!refreshVars
  <2>6. ASSUME NEW c \in C!Call, C!RefreshDel(c) PROVE LP!RefreshDel(c)
    BY <2>6, SameHelpers
       DEF C!RefreshDel, LP!RefreshDel, C!blackVars, LP!blackVars, C!refreshVars, LP!refreshVars
  <2>7. ASSUME NEW c \in C!Call, C!RefreshSet(c) PROVE LP!RefreshSet(c)
    BY <2>7, SameHelpers, Zenon DEF C!RefreshSet, LP!RefreshSet
  <2>8. ASSUME NEW c \in C!Call, C!BlackCall(c) PROVE LP!BlackCall(c)
    BY <2>8, SameHelpers
       DEF C!BlackCall, LP!BlackCall, C!blackVars, LP!blackVars, C!refreshVars, LP!refreshVars
  <2>9. ASSUME NEW c \in C!Call, C!BlackGenerate(c) PROVE LP!BlackGenerate(c)
    BY <2>8, <2>9, SameHelpers, Zenon DEF C!BlackGenerate, LP!BlackGenerate
  <2>10. ASSUME NEW c \in C!Call, C!BlackRefresh(c) PROVE LP!BlackRefresh(c)
    BY <2>9, <2>10, SameToken, Zenon DEF C!BlackRefresh, LP!BlackRefresh, C!None, LP!None
  <2>11. ASSUME NEW c \in C!Call, C!BlackCancelById(c) PROVE LP!BlackCancelById(c)
    BY <2>8, <2>11, SameHelpers, Zenon DEF C!BlackCancelById, LP!BlackCancelById
  <2>12. ASSUME NEW c \in C!Call, C!BlackCancel(c) PROVE LP!BlackCancel(c)
    BY <2>8, <2>12, SameHelpers, SameToken, Zenon
       DEF C!BlackCancel, LP!BlackCancel, C!None, LP!None
  <2>13. CASE C!Next
    BY <2>2, <2>3, <2>4, <2>5, <2>6, <2>7, <2>9, <2>10, <2>11, <2>12, <2>13, SameToken, Zenon
       DEF C!Next, LP!Next
  <2> QED
    BY <2>1, <2>13
<1> QED
  BY <1>1, <1>2, PTL DEF FairSpec, LP!Spec

\* Whatever calls of one user run at once and fail: a cancelled refresh token works
\* again only through a login or a refresh that had begun.
THEOREM CancellationIsKept == FairSpec => []CancelSticks
<1>1. LP!ConstantsOK
  BY PackagesAssumption DEF C!ConstantsOK, LP!ConstantsOK
<1>2. LP!Spec => []LP!CancelSticks
  BY <1>1, LP!CancellationSticks
<1>3. LP!CancelSticks => CancelSticks
  BY DEF LP!CancelSticks, CancelSticks, C!CancelSticks
<1> QED
  BY LoginFollows, <1>2, <1>3, PTL

\* Whoever was told of a login or refresh can refresh for RefreshDuration, but for
\* the moment between the two requests of another refresh.
THEOREM LoginIsWorthIt == FairSpec => []LoginLasts
<1>1. LP!ConstantsOK
  BY PackagesAssumption DEF C!ConstantsOK, LP!ConstantsOK
<1>2. LP!Spec => []LP!LoginLasts
  BY <1>1, LP!LoginIsKept
<1>3. LP!LoginLasts => LoginLasts
  BY SameToken DEF LP!LoginLasts, LoginLasts, C!LoginLasts
<1> QED
  BY LoginFollows, <1>2, <1>3, PTL

\* A cancelled access token is refused until its expiry, whatever is cancelled,
\* issued or refreshed meanwhile, but for less than a second at the end.
THEOREM CancelledStaysRefused == FairSpec => []RefusedToTheEnd
<1>1. LP!ConstantsOK
  BY PackagesAssumption DEF C!ConstantsOK, LP!ConstantsOK
<1>2. LP!Spec => []LP!RefusedToTheEnd
  BY <1>1, LP!CancelledIsRefused
<1>3. LP!RefusedToTheEnd => RefusedToTheEnd
  <2>1. \A c \in C!Call : C!Accepted(c) => LP!Accepted(c)
    <3>1. \A h, secret, t : C!FromHeader(h, secret, t) = LP!FromHeader(h, secret, t)
      BY SameToken DEF C!FromHeader, LP!FromHeader
    <3>2. \A h, secret, t : C!Jwt(h, secret, t) = LP!Jwt(h, secret, t)
      BY <3>1 DEF C!Jwt, LP!Jwt
    <3> QED
      BY <3>2, SameToken, Zenon DEF C!Accepted, LP!Accepted, C!None, LP!None,
         C!CheckBlackList, LP!CheckBlackList
  <2> QED
    BY <2>1, SameToken DEF LP!RefusedToTheEnd, RefusedToTheEnd, C!RefusedToTheEnd
<1> QED
  BY LoginFollows, <1>2, <1>3, PTL

\* The types of the two, carried over.
LEMMA LoginTyped == FairSpec => []C!TypeOK
<1>1. LP!ConstantsOK
  BY PackagesAssumption DEF C!ConstantsOK, LP!ConstantsOK
<1>2. LP!Spec => []LP!TypeOK
  BY <1>1, LP!TypesKept
<1>3. LP!TypeOK => C!TypeOK
  BY SameToken DEF LP!TypeOK, C!TypeOK, LP!None, C!None
<1> QED
  BY LoginFollows, <1>2, <1>3, PTL

-----------------------------------------------------------------------------
(* Aes.                                                                    *)

AnIv == Ivs \cup A!Drawn \cup {Unset, Garble}
AText == [plain : Plain, model : A!Model, iv : AnIv, head : BOOLEAN, given : BOOLEAN,
          encoder : Encodings]

\* The bound on the ciphertexts keeps the drawn ivs apart.
AesType == A!TypeOK /\ IsFiniteSet(texts)

\* A ciphertext has its iv at the head exactly when its maker had drawn it.
Described == \A t \in texts : t.head <=> (t.model \in Chained /\ ~t.given)

\* An object that was never given an iv has one only if it has made or read a
\* chained text.
Unused == \A o \in Objects : o \notin chained /\ ~obj[o].setIv => obj[o].iv = Unset

AesInv == AesType /\ Described /\ Unused /\ A!ReadsBack

\* Cardinality as the instance reads it.
LEMMA AesCardinality == \A S : A!Cardinality(S) = Cardinality(S)
  BY DEF A!Cardinality, Cardinality

LEMMA AesFacts ==
    ASSUME AesInv
    PROVE  /\ obj \in [Objects -> A!Object] /\ chained \subseteq Objects
           /\ texts \subseteq AText /\ IsFiniteSet(texts)
           /\ (got = Unset \/ got.text \in texts)
  BY DEF AesInv, AesType, A!TypeOK, AText, AnIv

LEMMA InitAes == A!Init => AesInv
<1> SUFFICES ASSUME A!Init PROVE AesInv
  OBVIOUS
<1>1. /\ chained = {} /\ texts = {} /\ got = Unset
      /\ obj = [o \in Objects |-> [model |-> Unset, iv |-> Unset, setIv |-> FALSE,
                                    encoder |-> Unset]]
  BY DEF A!Init
<1>2. obj \in [Objects -> A!Object]
  BY <1>1 DEF A!Object
<1>3. AesType
  BY <1>1, <1>2, FS_EmptySet DEF AesType, A!TypeOK
<1>4. Described /\ Unused /\ A!ReadsBack
  BY <1>1 DEF Described, Unused, A!ReadsBack
<1> QED
  BY <1>3, <1>4 DEF AesInv

\* A setting: what is kept of an object, and of the rest.
LEMMA SettingAes ==
    ASSUME AesInv, NEW o \in Objects, NEW a \in A!Object, obj' = [obj EXCEPT ![o] = a],
           ~a.setIv => ~obj[o].setIv /\ a.iv = obj[o].iv,
           got' = Unset, UNCHANGED <<chained, texts>>
    PROVE  AesInv'
<1>1. obj' \in [Objects -> A!Object] /\ obj'[o] = a /\ \A k \in Objects \ {o} : obj'[k] = obj[k]
  BY AesFacts
<1>2. AesType'
  BY <1>1 DEF AesInv, AesType, A!TypeOK
<1>3. Described' /\ A!ReadsBack'
  BY DEF AesInv, Described, A!ReadsBack
<1>4. Unused'
  BY <1>1 DEF AesInv, Unused
<1> QED
  BY <1>2, <1>3, <1>4 DEF AesInv

LEMMA WithAes ==
    ASSUME AesInv, NEW o \in Objects,
           \/ \E m \in A!Model : A!WithModel(o, m)
           \/ \E e \in Encodings : A!WithEncoding(o, e)
           \/ \E iv \in Ivs : A!WithIv(o, iv)
    PROVE  AesInv'
<1>1. obj[o] \in A!Object
  BY AesFacts
<1>2. ASSUME NEW m \in A!Model, A!WithModel(o, m) PROVE AesInv'
  <2> DEFINE a == [obj[o] EXCEPT !.model = m]
  <2>1. a \in A!Object /\ a.setIv = obj[o].setIv /\ a.iv = obj[o].iv
    BY <1>1 DEF A!Object
  <2>2. obj' = [obj EXCEPT ![o] = a] /\ got' = Unset /\ UNCHANGED <<chained, texts>>
    BY <1>2, Zenon DEF A!WithModel
  <2> HIDE DEF a
  <2> QED
    BY <2>1, <2>2, SettingAes
<1>3. ASSUME NEW e \in Encodings, A!WithEncoding(o, e) PROVE AesInv'
  <2> DEFINE a == [obj[o] EXCEPT !.encoder = e]
  <2>1. a \in A!Object /\ a.setIv = obj[o].setIv /\ a.iv = obj[o].iv
    BY <1>1 DEF A!Object
  <2>2. obj' = [obj EXCEPT ![o] = a] /\ got' = Unset /\ UNCHANGED <<chained, texts>>
    BY <1>3, Zenon DEF A!WithEncoding
  <2> HIDE DEF a
  <2> QED
    BY <2>1, <2>2, SettingAes
<1>4. ASSUME NEW iv \in Ivs, A!WithIv(o, iv) PROVE AesInv'
  <2> DEFINE a == [obj[o] EXCEPT !.iv = iv, !.setIv = TRUE]
  <2>1. a \in A!Object /\ a.setIv
    BY <1>1 DEF A!Object
  <2>2. obj' = [obj EXCEPT ![o] = a] /\ got' = Unset /\ UNCHANGED <<chained, texts>>
    BY <1>4, Zenon DEF A!WithIv
  <2> HIDE DEF a
  <2> QED
    BY <2>1, <2>2, SettingAes
<1> QED
  BY <1>2, <1>3, <1>4

\* initConfig fills in what is unset and touches no iv.
LEMMA ConfiguredIs ==
    ASSUME NEW a \in A!Object
    PROVE  /\ A!Configured(a) \in A!Object
           /\ A!Configured(a).model \in A!Model /\ A!Configured(a).encoder \in Encodings
           /\ A!Configured(a).setIv = a.setIv /\ A!Configured(a).iv = a.iv
<1> DEFINE m == IF a.model = Unset THEN "ECB" ELSE a.model
           e == IF a.encoder = Unset THEN Base64 ELSE a.encoder
           c == [a EXCEPT !.model = m, !.encoder = e]
<1>1. m \in A!Model /\ e \in Encodings
  BY PackagesAssumption DEF A!ConstantsOK, A!Object, A!Model
<1> HIDE DEF m, e
<1>2. c \in A!Object /\ c.model = m /\ c.encoder = e /\ c.setIv = a.setIv /\ c.iv = a.iv
  BY <1>1 DEF A!Object
<1>3. A!Configured(a) = c
  BY Zenon DEF A!Configured, m, e
<1> QED
  BY <1>1, <1>2, <1>3

\* An object takes part in a call: it keeps its settings, gets an iv at most when
\* it has none, and is marked by the call if that may have happened.
LEMMA CalledAes ==
    ASSUME AesInv, NEW o \in Objects, NEW a \in A!Object, NEW b \in A!Object,
           a.setIv = obj[o].setIv, a.iv = obj[o].iv, b.setIv = a.setIv, b.model = a.model,
           b.iv # a.iv => a.model \in Chained,
           obj' = [obj EXCEPT ![o] = b], A!Touched(o, a) \/ (b = a /\ UNCHANGED chained)
    PROVE  Unused' /\ obj' \in [Objects -> A!Object] /\ chained' \subseteq Objects
<1>1. obj' \in [Objects -> A!Object] /\ obj'[o] = b /\ \A k \in Objects \ {o} : obj'[k] = obj[k]
  BY AesFacts
<1>2. chained \subseteq chained' /\ chained' \subseteq Objects
      /\ (b.iv # a.iv /\ ~a.setIv => o \in chained')
  BY AesFacts DEF A!Touched
<1>3. Unused'
  BY <1>1, <1>2 DEF AesInv, Unused
<1> QED
  BY <1>1, <1>2, <1>3

LEMMA EncryptAes ==
    ASSUME AesInv, NEW o \in Objects, NEW p \in Plain, A!Encrypt(o, p) PROVE AesInv'
<1> DEFINE c == A!Configured(obj[o])
           a == A!BlockIvEncrypt(c)
           t == A!Text(a, p)
<1>1. /\ Cardinality(texts) < MaxTexts /\ obj' = [obj EXCEPT ![o] = a]
      /\ texts' = texts \cup {t} /\ A!Touched(o, a) /\ got' = Unset
  BY AesCardinality DEF A!Encrypt
<1>2. c \in A!Object /\ c.model \in A!Model /\ c.encoder \in Encodings
      /\ c.setIv = obj[o].setIv /\ c.iv = obj[o].iv
  BY AesFacts, ConfiguredIs
<1> HIDE DEF c
<1>3. /\ a \in A!Object /\ a.model = c.model /\ a.encoder = c.encoder /\ a.setIv = c.setIv
      /\ (a.iv # c.iv => c.model \in Chained) /\ a.iv \in AnIv
  <2> DEFINE d == <<"drawn", Cardinality(texts) + 1>>
  <2>1. d \in A!Drawn
    <3>1. MaxTexts \in Nat /\ Cardinality(texts) \in Nat
      BY PackagesAssumption, AesFacts, FS_CardinalityType DEF A!ConstantsOK
    <3>2. Cardinality(texts) + 1 \in 1..MaxTexts
      BY <1>1, <3>1
    <3> QED
      BY <3>2 DEF A!Drawn
  <2> HIDE DEF d
  <2>2. /\ [c EXCEPT !.iv = d] \in A!Object /\ [c EXCEPT !.iv = d].model = c.model
        /\ [c EXCEPT !.iv = d].encoder = c.encoder /\ [c EXCEPT !.iv = d].setIv = c.setIv
        /\ [c EXCEPT !.iv = d].iv = d
    BY <1>2, <2>1 DEF A!Object
  <2>3. (a = [c EXCEPT !.iv = d] /\ c.model \in Chained) \/ a = c
    BY AesCardinality DEF A!BlockIvEncrypt, d
  <2>4. c.iv \in AnIv /\ d \in AnIv
    BY <1>2, <2>1 DEF A!Object, AnIv
  <2> HIDE DEF a
  <2> QED
    BY <1>2, <2>2, <2>3, <2>4
<1> HIDE DEF a
<1>4. t \in AText /\ (t.head <=> (t.model \in Chained /\ ~t.given))
  <2>1. a.setIv \in BOOLEAN
    BY <1>3 DEF A!Object
  <2>2. (IF a.model = "ECB" THEN Unset ELSE a.iv) \in AnIv
    BY <1>3 DEF AnIv
  <2>3. t \in AText
    BY <1>2, <1>3, <2>1, <2>2 DEF A!Text, AText
  <2>4. t.head = (t.model \in Chained /\ ~t.given)
    BY DEF A!Text
  <2> QED
    BY <2>3, <2>4
<1> HIDE DEF t
<1>5. Unused' /\ obj' \in [Objects -> A!Object] /\ chained' \subseteq Objects
  <2>1. A!Touched(o, c)
    BY <1>1, <1>3 DEF A!Touched
  <2> QED
    BY <1>1, <1>2, <1>3, <2>1, CalledAes
<1>6. AesType'
  <2>1. texts' \subseteq AText /\ IsFiniteSet(texts')
    BY <1>1, <1>4, AesFacts, FS_AddElement
  <2> QED
    BY <1>1, <1>5, <2>1 DEF AesType, A!TypeOK, AText, AnIv
<1>7. Described'
  BY <1>1, <1>4 DEF AesInv, Described
<1>8. A!ReadsBack'
  BY <1>1 DEF A!ReadsBack
<1> QED
  BY <1>5, <1>6, <1>7, <1>8 DEF AesInv

\* A call reads text t with the settings a of the object before the call.
LEMMA ReadAes ==
    ASSUME AesInv, NEW o \in Objects, NEW t \in texts, NEW a \in A!Object,
           a.setIv = obj[o].setIv, a.iv = obj[o].iv,
           NEW decoded \in BOOLEAN, A!Read(o, a, t, decoded), a.encoder = t.encoder => decoded
    PROVE  AesInv'
<1> DEFINE b == IF decoded THEN A!BlockIvDecrypt(a, t) ELSE a
<1>1. /\ obj' = [obj EXCEPT ![o] = b]
      /\ got' = [by |-> a, used |-> o \in chained, text |-> t,
                 answer |-> IF decoded /\ A!Opens(a, t) THEN t.plain ELSE Garble]
      /\ IF decoded THEN A!Touched(o, a) ELSE UNCHANGED chained
      /\ texts' = texts
  BY Zenon DEF A!Read
<1>2. t \in AText
  BY AesFacts
<1>3. /\ b \in A!Object /\ b.model = a.model /\ b.setIv = a.setIv
      /\ (b.iv # a.iv => a.model \in Chained) /\ (~decoded => b = a)
  <2> DEFINE v == IF t.head THEN t.iv ELSE Garble
  <2>1. v \in AnIv
    BY <1>2 DEF AText, AnIv
  <2> HIDE DEF v
  <2>2. /\ [a EXCEPT !.iv = v] \in A!Object /\ [a EXCEPT !.iv = v].model = a.model
        /\ [a EXCEPT !.iv = v].setIv = a.setIv
    BY <2>1 DEF A!Object, AnIv
  <2>3. b = a \/ (decoded /\ b = [a EXCEPT !.iv = v] /\ a.model \in Chained)
    BY Zenon DEF A!BlockIvDecrypt, v
  <2> HIDE DEF b
  <2> QED
    BY <2>2, <2>3
<1> HIDE DEF b
<1>4. Unused' /\ obj' \in [Objects -> A!Object] /\ chained' \subseteq Objects
  <2>1. A!Touched(o, a) \/ (b = a /\ UNCHANGED chained)
    BY <1>1, <1>3
  <2> QED
    BY <1>1, <1>3, <2>1, CalledAes
<1>5. AesType'
  <2>1. got'.text = t
    BY <1>1
  <2>2. texts' \subseteq AText /\ IsFiniteSet(texts') /\ got'.text \in texts'
    BY <1>1, <2>1, AesFacts
  <2> QED
    BY <1>4, <2>2 DEF AesType, A!TypeOK, AText, AnIv
<1>6. Described'
  BY <1>1 DEF AesInv, Described
<1>7. A!ReadsBack'
  <2>1. /\ got'.by = a /\ got'.text = t /\ got'.used = (o \in chained)
        /\ (decoded /\ A!Opens(a, t) => got'.answer = t.plain)
    BY <1>1
  <2> SUFFICES ASSUME a.model = t.model, a.encoder = t.encoder,
                      \/ a.model = "ECB"
                      \/ a.setIv /\ t.given /\ a.iv = t.iv
                      \/ ~a.setIv /\ ~t.given /\ o \notin chained
               PROVE  A!Opens(a, t)
    BY <2>1 DEF A!ReadsBack
  <2>2. t.head <=> (t.model \in Chained /\ ~t.given)
    BY DEF AesInv, Described
  <2>3. CASE a.model = "ECB"
    BY <2>3 DEF A!Opens
  <2>4. CASE a.setIv /\ t.given /\ a.iv = t.iv
    BY <2>2, <2>4 DEF A!Opens
  <2>5. CASE a.model # "ECB" /\ ~a.setIv /\ ~t.given /\ o \notin chained
    <3>1. t.model \in Chained
      BY <1>2, <2>5 DEF AText, A!Model
    <3>2. a.iv = Unset
      BY <2>5 DEF AesInv, Unused
    <3> QED
      BY <2>2, <2>5, <3>1, <3>2 DEF A!Opens
  <2> QED
    BY <2>3, <2>4, <2>5
<1> QED
  BY <1>4, <1>5, <1>6, <1>7 DEF AesInv

LEMMA DecryptAes ==
    ASSUME AesInv, NEW o \in Objects, NEW t \in texts, A!Decrypt(o, t) \/ A!DecryptBytes(o, t)
    PROVE  AesInv'
<1> DEFINE c == A!Configured(obj[o])
<1>1. c \in A!Object /\ c.setIv = obj[o].setIv /\ c.iv = obj[o].iv /\ obj[o] \in A!Object
  BY AesFacts, ConfiguredIs
<1>2. CASE A!Decrypt(o, t)
  <2>1. A!Read(o, c, t, c.encoder = t.encoder)
    BY <1>2 DEF A!Decrypt
  <2> HIDE DEF c
  <2>2. (c.encoder = t.encoder) \in BOOLEAN
    OBVIOUS
  <2> QED
    BY <1>1, <2>1, <2>2, ReadAes
<1>3. CASE A!DecryptBytes(o, t)
  <2>1. A!Read(o, obj[o], t, TRUE)
    BY <1>3 DEF A!DecryptBytes
  <2> QED
    BY <1>1, <2>1, ReadAes
<1> QED
  BY <1>2, <1>3

LEMMA NextAes == AesInv /\ [A!Next]_aesVars => AesInv'
<1> SUFFICES ASSUME AesInv, [A!Next]_aesVars PROVE AesInv'
  OBVIOUS
<1>1. CASE UNCHANGED aesVars
  BY <1>1 DEF aesVars, AesInv, AesType, A!TypeOK, Described, Unused, A!ReadsBack
<1>2. CASE A!Next
  BY <1>2, WithAes, EncryptAes, DecryptAes DEF A!Next
<1> QED
  BY <1>1, <1>2

LEMMA AesKept == FairSpec => []AesInv
<1>1. Init => AesInv
  BY InitParts, InitAes
<1>2. AesInv /\ [Next]_vars => AesInv'
  BY StepParts, NextAes
<1> QED
  BY <1>1, <1>2, PTL DEF FairSpec

\* Whatever was set, encrypted and read before on whichever objects of a key: a
\* text is read back in ECB, between sides that were given the iv, and by an object
\* that was given none and has neither made nor read a chained text.
THEOREM TextsAreReadBack == FairSpec => []ReadsBack
<1>1. AesInv => ReadsBack
  BY DEF AesInv, ReadsBack
<1> QED
  BY AesKept, <1>1, PTL

-----------------------------------------------------------------------------
(* The pure functions: the inputs are what Init made them, of whatever       *)
(* range.                                                                  *)

SortInput ==
    (part = "pure" /\ input.part = "sort") =>
        input.by \in Seq(Seq(Chars)) /\ input.allowed \in SUBSET Seq(Chars)

PageInput ==
    (part = "pure" /\ input.part = "page") => input.index \in Int /\ input.size \in Int

ChunkInput ==
    (part = "pure" /\ input.part = "rsa") => input.bits \in Nat /\ input.data \in Seq(Bytes)

LogInput ==
    (part = "pure" /\ input.part = "log") =>
        input.opts \in Seq(G!Options) /\ input.lvl \in DOMAIN G!Levels

LEMMA InputsKept == FairSpec => [](SortInput /\ PageInput /\ ChunkInput /\ LogInput)
<1> DEFINE Inputs == SortInput /\ PageInput /\ ChunkInput /\ LogInput
<1>1. Init => Inputs
  <2> SUFFICES ASSUME part = "pure", Input PROVE Inputs
    BY DEF Init, SortInput, PageInput, ChunkInput, LogInput
  <2>1. ASSUME NEW s \in Sorts, NEW a \in Allowed, input = [part |-> "sort", by |-> s, allowed |-> a]
        PROVE  /\ input.part = "sort" /\ input.by \in Seq(Seq(Chars))
               /\ input.allowed \in SUBSET Seq(Chars)
    <3>1. s \in Seq(Seq(Chars)) /\ a \in SUBSET Seq(Chars)
      BY PackagesAssumption
    <3>2. input.part = "sort" /\ input.by = s /\ input.allowed = a
      BY <2>1
    <3> QED
      BY <3>1, <3>2, Zenon
  <2>2. ASSUME NEW k \in PageNumbers, NEW n \in PageNumbers,
               input = [part |-> "page", index |-> k, size |-> n]
        PROVE  input.part = "page" /\ input.index \in Int /\ input.size \in Int
    BY <2>2, PackagesAssumption
  <2>3. ASSUME NEW b \in KeyBits, NEW d \in Data, input = [part |-> "rsa", bits |-> b, data |-> d]
        PROVE  input.part = "rsa" /\ input.bits \in Nat /\ input.data \in Seq(Bytes)
    <3>1. b \in Nat /\ d \in Seq(Bytes)
      BY PackagesAssumption DEF Data, SeqOf
    <3> QED
      BY <2>3, <3>1
  <2>4. ASSUME NEW os \in SeqOf(G!Options, MaxOptions), NEW lvl \in DOMAIN G!Levels,
               input = [part |-> "log", opts |-> os, lvl |-> lvl]
        PROVE  input.part = "log" /\ input.opts \in Seq(G!Options) /\ input.lvl \in DOMAIN G!Levels
    <3>1. os \in Seq(G!Options)
      BY PackagesAssumption DEF SeqOf
    <3> QED
      BY <2>4, <3>1
  <2>5. \/ \E s \in Sorts, a \in Allowed : input = [part |-> "sort", by |-> s, allowed |-> a]
        \/ \E k \in PageNumbers, n \in PageNumbers :
              input = [part |-> "page", index |-> k, size |-> n]
        \/ \E b \in KeyBits, d \in Data : input = [part |-> "rsa", bits |-> b, data |-> d]
        \/ \E os \in SeqOf(G!Options, MaxOptions), lvl \in DOMAIN G!Levels :
              input = [part |-> "log", opts |-> os, lvl |-> lvl]
    BY Zenon DEF Input
  <2>6. \/ input.part = "sort" /\ input.by \in Seq(Seq(Chars)) /\ input.allowed \in SUBSET Seq(Chars)
        \/ input.part = "page" /\ input.index \in Int /\ input.size \in Int
        \/ input.part = "rsa" /\ input.bits \in Nat /\ input.data \in Seq(Bytes)
        \/ input.part = "log" /\ input.opts \in Seq(G!Options) /\ input.lvl \in DOMAIN G!Levels
    BY <2>1, <2>2, <2>3, <2>4, <2>5, Zenon
  <2> QED
    BY <2>6 DEF SortInput, PageInput, ChunkInput, LogInput
<1>2. Inputs /\ [Next]_vars => Inputs'
  <2> SUFFICES ASSUME Inputs, [Next]_vars PROVE Inputs'
    OBVIOUS
  <2>1. UNCHANGED <<part, input>>
    BY DEF Next, vars
  <2> QED
    BY <2>1 DEF SortInput, PageInput, ChunkInput, LogInput
<1> QED
  BY <1>1, <1>2, PTL DEF FairSpec

\* A page begins before the list only for a number below the first page; the next
\* one begins where it ends.
LEMMA OffsetIs ==
    ASSUME NEW k \in Int, NEW n \in Int, n # 0, k # 0
    PROVE  /\ P!Offset(k, n) \in Int
           /\ P!Offset(k + 1, n) = P!Offset(k, n) + n
           /\ (P!Offset(k, n) < 0 \/ n < 0) <=> (n < 0 \/ k < 0)
<1> DEFINE m == k - 1
           o == m * n
<1>1. P!Offset(k, n) = o /\ P!Offset(k + 1, n) = (m + 1) * n
  BY DEF P!Offset
<1>2. m \in Int /\ o \in Int /\ (m + 1) * n = o + n
  OBVIOUS
<1>3. n > 0 => (o < 0 <=> k < 0)
  <2>1. n > 0 /\ m >= 0 => o >= 0
    OBVIOUS
  <2>2. n > 0 /\ m < 0 => o < 0
    OBVIOUS
  <2>3. m >= 0 \/ m < 0
    BY <1>2
  <2>4. (m < 0 <=> k < 0)
    OBVIOUS
  <2> HIDE DEF m, o
  <2> QED
    BY <1>2, <2>1, <2>2, <2>3, <2>4
<1> HIDE DEF o
<1> QED
  BY <1>1, <1>2, <1>3

\* A request becomes the page it asks for, with the two corrections.
Asked(k) ==
    [index |-> IF k = 0 THEN 1 ELSE k, size |-> IF input.size = 0 THEN 10 ELSE input.size,
     sort |-> "id", filter |-> {}]

LEMMA AskedIs ==
    ASSUME NEW k
    PROVE  P!NewPageFromRequest(Form(k)) = Asked(k) /\ P!NewPageFromRequestJSON(Body(k)) = Asked(k)
<1> DEFINE raw == [index |-> k, size |-> input.size, sort |-> "id", filter |-> {}]
           f == Form(k)
           b == Body(k)
<1>1. /\ f.index = k /\ f.size = input.size /\ f.sort = "id" /\ f.rest = <<>>
      /\ b.index = k /\ b.size = input.size /\ b.sort = "id" /\ b.rest = <<>> /\ b.valid = TRUE
  BY DEF Form, Body
<1>2. P!CheckField(raw) = Asked(k)
  BY DEF P!CheckField, Asked
<1> HIDE DEF raw, f, b
<1>3. DOMAIN f.rest = {} /\ DOMAIN b.rest = {}
  <2>1. DOMAIN <<>> = {}
    OBVIOUS
  <2> QED
    BY <1>1, <2>1, Zenon
<1>4. {<<m, f.rest[m][1]>> : m \in {j \in DOMAIN f.rest \ P!Reserved : f.rest[j] # <<>>}} = {}
  BY <1>3, Zenon
<1>5. {<<m, b.rest[m]>> :
          m \in {j \in DOMAIN b.rest \ P!Reserved : b.rest[j] \notin {"object", "array", "null"}}} = {}
  BY <1>3, Zenon
<1>6. P!NewPageFromRequest(f) = P!CheckField(raw)
  BY <1>1, <1>4, Zenon DEF P!NewPageFromRequest, raw
<1>7. P!NewPageFromRequestJSON(b) = P!CheckField(raw)
  BY <1>1, <1>5, Zenon DEF P!NewPageFromRequestJSON, raw
<1> QED
  BY <1>2, <1>6, <1>7, Zenon DEF f, b

\* The pages of a list are its consecutive pieces, for all page numbers and sizes,
\* those nobody corrects included.
THEOREM PagesAreTiles == FairSpec => []PagesTile
<1>1. PageInput => PagesTile
  <2> DEFINE x == input.index
             n == input.size
             Index(k) == IF k = 0 THEN 1 ELSE k
             limit == IF n = 0 THEN 10 ELSE n
  <2> SUFFICES ASSUME PageInput, part = "pure", input.part = "page"
               PROVE  /\ P!NewPageFromRequestJSON(Body(x)) = P!NewPageFromRequest(Form(x))
                      /\ Page(x).limit > 0 /\ x >= 1 =>
                            Page(x + 1).offset = Page(x).offset + Page(x).limit
                      /\ x \in {0, 1} => Page(x).offset = 0
                      /\ (Page(x).offset < 0 \/ Page(x).limit < 0) <=> n < 0 \/ (x < 0 /\ n >= 0)
    BY Zenon DEF PagesTile
  <2>1. x \in Int /\ n \in Int
    BY DEF PageInput
  <2>2. P!NewPageFromRequestJSON(Body(x)) = P!NewPageFromRequest(Form(x))
    BY AskedIs, Zenon
  <2>3. ASSUME NEW k
        PROVE  Page(k).limit = limit /\ Page(k).offset = P!Offset(Index(k), limit)
    <3>1. Asked(k).index = Index(k) /\ Asked(k).size = limit
      BY DEF Asked
    <3>2. Page(k) = [limit |-> Asked(k).size, offset |-> P!Offset(Asked(k).index, Asked(k).size)]
      BY AskedIs, Zenon DEF Page, P!GetLimitAndOffset
    <3> HIDE DEF limit, Index
    <3>3. Page(k) = [limit |-> limit, offset |-> P!Offset(Index(k), limit)]
      BY <3>1, <3>2, Zenon
    <3> QED
      BY <3>3
  <2> HIDE DEF x, n
  <2>4. /\ limit \in Int \ {0} /\ Index(x) \in Int \ {0}
        /\ (limit < 0 <=> n < 0) /\ (Index(x) < 0 <=> x < 0)
        /\ x >= 1 => Index(x + 1) = Index(x) + 1
        /\ x \in {0, 1} => Index(x) = 1
    BY <2>1
  <2> HIDE DEF limit, Index
  <2>5. /\ P!Offset(Index(x), limit) \in Int
        /\ P!Offset(Index(x) + 1, limit) = P!Offset(Index(x), limit) + limit
        /\ (P!Offset(Index(x), limit) < 0 \/ limit < 0) <=> (limit < 0 \/ Index(x) < 0)
    BY <2>4, OffsetIs
  <2>6. P!Offset(1, limit) = 0
    BY <2>4 DEF P!Offset
  <2>7. /\ Page(x).limit = limit /\ Page(x).offset = P!Offset(Index(x), limit)
        /\ Page(x + 1).offset = P!Offset(Index(x + 1), limit)
    BY <2>3, Zenon
  <2>8. x >= 1 => Page(x + 1).offset = Page(x).offset + Page(x).limit
    BY <2>4, <2>5, <2>7
  <2>9. x \in {0, 1} => Page(x).offset = 0
    BY <2>4, <2>6, <2>7
  <2>10. (Page(x).offset < 0 \/ Page(x).limit < 0) <=> n < 0 \/ (x < 0 /\ n >= 0)
    BY <2>1, <2>4, <2>5, <2>7
  <2> QED
    BY <2>2, <2>8, <2>9, <2>10
<1> QED
  BY InputsKept, <1>1, PTL

\* Paging keeps list elements as the decision tree does.
LEMMA KeptIs ==
    ASSUME NEW X, NEW s \in Seq(X), NEW S
    PROVE  /\ P!Among(s, S) \in Seq(X)
           /\ \A x : x \in ToSet(P!Among(s, S)) <=> x \in S /\ x \in ToSet(s)
<1>1. P!Among(s, S) = T!Among(s, S)
  BY Zenon DEF P!Among, T!Among
<1> QED
  BY <1>1, AmongIs

\* A last element that is not kept leaves the rest as it is.
LEMMA KeptButLast ==
    ASSUME NEW X, NEW f \in Seq(X), NEW ch \in X, NEW S, ToSet(f) \subseteq S, ch \notin S
    PROVE  P!Among(Append(f, ch), S) = f
<1> DEFINE s == Append(f, ch)
           n == Len(f)
           g == CHOOSE g : Keeps(g, s, S)
           Right(k) == g[k] \in Seq(X) /\ Len(g[k]) = k /\ \A j \in 1..k : g[k][j] = f[j]
           bad == {k \in 0..n : ~Right(k)}
<1>1. /\ s \in Seq(X) /\ Len(s) = n + 1 /\ s[n + 1] = ch /\ n \in Nat
      /\ \A k \in 1..n : s[k] = f[k] /\ f[k] \in S /\ f[k] \in X
  BY DEF ToSet
<1> HIDE DEF s
<1>2. Keeps(g, s, S)
  BY <1>1, KeepsExists, Zenon
<1>3. P!Among(s, S) = g[Len(s)]
  BY Zenon DEF P!Among, Keeps
<1> HIDE DEF g
<1>4. /\ g[0] = <<>>
      /\ \A k \in 1..n : g[k] = Append(g[k - 1], f[k])
      /\ g[n + 1] = g[n]
  <2>1. \A k \in 0..n + 1 : g[k] = IF k = 0 THEN <<>>
                                   ELSE IF s[k] \in S THEN Append(g[k - 1], s[k]) ELSE g[k - 1]
    BY <1>1, <1>2, Zenon DEF Keeps
  <2>2. g[0] = <<>>
    BY <1>1, <2>1
  <2>3. \A k \in 1..n : g[k] = Append(g[k - 1], f[k])
    <3>1. \A k \in 1..n : k \in 0..n + 1 /\ k # 0
      BY <1>1
    <3> QED
      BY <1>1, <2>1, <3>1
  <2>4. g[n + 1] = g[n]
    <3>1. n + 1 \in 0..n + 1 /\ n + 1 # 0 /\ n + 1 - 1 = n
      BY <1>1
    <3> QED
      BY <1>1, <2>1, <3>1
  <2> QED
    BY <2>2, <2>3, <2>4
<1>5. ASSUME NEW m \in bad, \A k \in bad : m <= k PROVE FALSE
  <2>0. m \in 0..n
    BY <1>5
  <2>1. CASE m = 0
    <3>1. g[0] \in Seq(X) /\ Len(g[0]) = 0
      BY <1>4
    <3>2. Right(0)
      BY <3>1
    <3> QED
      BY <2>1, <3>2
  <2>2. CASE m # 0
    <3>1. m - 1 \in 0..n /\ m \in 1..n /\ Right(m - 1)
      <4>1. m - 1 \in 0..n /\ m \in 1..n /\ ~(m <= m - 1)
        BY <1>1, <2>0, <2>2
      <4> HIDE DEF Right
      <4> QED
        BY <1>5, <4>1
    <3> DEFINE q == g[m - 1]
    <3>2. g[m] = Append(q, f[m]) /\ q \in Seq(X) /\ Len(q) = m - 1 /\ f[m] \in X
      BY <1>1, <1>4, <3>1
    <3>3. \A j \in 1..m - 1 : q[j] = f[j]
      BY <3>1
    <3> HIDE DEF q
    <3>4. g[m] \in Seq(X) /\ Len(g[m]) = m
      BY <3>1, <3>2
    <3>5. ASSUME NEW j \in 1..m PROVE g[m][j] = f[j]
      <4>1. CASE j = m
        BY <3>1, <3>2, <4>1
      <4>2. CASE j # m
        <5>1. j \in 1..m - 1
          BY <3>1, <4>2
        <5>2. g[m][j] = q[j]
          BY <3>1, <3>2, <5>1
        <5> QED
          BY <3>3, <5>1, <5>2
      <4> QED
        BY <4>1, <4>2
    <3>6. Right(m)
      BY <3>4, <3>5
    <3> QED
      BY <3>6
  <2> QED
    BY <2>1, <2>2
<1>6. bad = {}
  <2>1. bad \in SUBSET Nat
    BY <1>1
  <2> HIDE DEF bad
  <2> QED
    BY <1>5, <2>1, Least
<1>7. Right(n)
  <2>1. n \in 0..n
    BY <1>1
  <2>2. n \notin bad
    BY <1>6
  <2> HIDE DEF Right
  <2> QED
    BY <2>1, <2>2
<1>8. g[n] = f
  BY <1>7, SeqEqual
<1> QED
  BY <1>1, <1>3, <1>4, <1>8 DEF s

\* A single element is kept.
LEMMA KeptOne ==
    ASSUME NEW X, NEW v \in X, NEW S, v \in S
    PROVE  P!Among(<<v>>, S) = <<v>>
<1> DEFINE s == <<v>>
           g == CHOOSE g : Keeps(g, s, S)
<1>1. s \in Seq(X) /\ Len(s) = 1 /\ s[1] = v
  OBVIOUS
<1> HIDE DEF s
<1>2. Keeps(g, s, S)
  BY <1>1, KeepsExists, Zenon
<1>3. P!Among(s, S) = g[1]
  BY <1>1, Zenon DEF P!Among, Keeps
<1> HIDE DEF g
<1>4. \A k \in 0..1 : g[k] = IF k = 0 THEN <<>>
                             ELSE IF s[k] \in S THEN Append(g[k - 1], s[k]) ELSE g[k - 1]
  BY <1>1, <1>2, Zenon DEF Keeps
<1>5. g[0] = <<>>
  BY <1>4
<1>6. g[1] = Append(<<>>, v)
  <2>1. 1 \in 0..1 /\ 1 - 1 = 0 /\ 1 # 0
    OBVIOUS
  <2> QED
    BY <1>1, <1>4, <1>5, <2>1, Zenon
<1>7. Append(<<>>, v) = <<v>>
  OBVIOUS
<1> QED
  BY <1>3, <1>6, <1>7 DEF s

\* A name without space at its ends is not trimmed.
LEMMA TrimIs ==
    ASSUME NEW v \in Seq(Chars), v # <<>>, v[1] # P!Space, v[Len(v)] # P!Space
    PROVE  P!TrimSpace(v) = v
<1> DEFINE n == Len(v)
           ink == {k \in DOMAIN v : v[k] # P!Space}
           lo == CHOOSE k \in ink : \A j \in ink : k <= j
           hi == CHOOSE k \in ink : \A j \in ink : k >= j
<1>1. n \in Nat \ {0} /\ DOMAIN v = 1..n
  BY EmptySeq
<1>2. 1 \in ink /\ n \in ink /\ \A k \in ink : k \in 1..n
  BY <1>1
<1>3. P!TrimSpace(v) = IF ink = {} THEN <<>> ELSE SubSeq(v, lo, hi)
  BY Zenon DEF P!TrimSpace
<1> HIDE DEF ink
<1>4. \A j \in ink : 1 <= j /\ n >= j
  BY <1>1, <1>2
<1>5. lo \in ink /\ \A j \in ink : lo <= j
  BY <1>2, <1>4, Zenon
<1>6. hi \in ink /\ \A j \in ink : hi >= j
  BY <1>2, <1>4, Zenon
<1> HIDE DEF lo, hi
<1>7. lo = 1 /\ hi = n
  BY <1>1, <1>2, <1>5, <1>6
<1>8. SubSeq(v, 1, n) = v
  BY <1>1
<1> QED
  BY <1>2, <1>3, <1>7, <1>8

\* What is left without a character does not have it.
LEMMA WithoutIs ==
    ASSUME NEW v \in Seq(Chars), NEW ch
    PROVE  P!Without(v, ch) \in Seq(Chars) /\ ch \notin ToSet(P!Without(v, ch))
<1> DEFINE S == P!ToSet(v) \ {ch}
<1>1. P!Among(v, S) \in Seq(Chars) /\ \A x : x \in ToSet(P!Among(v, S)) => x \in S
  BY KeptIs, Zenon
<1>2. P!Without(v, ch) = P!Among(v, S)
  BY Zenon DEF P!Without
<1> QED
  BY <1>1, <1>2, Zenon

\* A name with a sign put after it.
LEMMA SignedIs ==
    ASSUME NEW f \in Seq(Chars), Named(f), NEW sign \in {"+", "-"}
    PROVE  LET v == Append(f, sign)
           IN  /\ P!TrimSpace(v) = v /\ v # <<>> /\ P!Last(v) = sign
               /\ P!Without(v, sign) \in Seq(Chars)
               /\ sign \notin ToSet(f) => P!Without(v, sign) = f
               /\ sign \in ToSet(f) => P!Without(v, sign) # f
<1> DEFINE v == Append(f, sign)
<1>0. sign \in Chars
  BY PackagesAssumption
<1>1. /\ v \in Seq(Chars) /\ Len(v) = Len(f) + 1 /\ v[Len(v)] = sign /\ v # <<>>
      /\ \A k \in 1..Len(f) : v[k] = f[k]
  <2>1. Len(f) \in Nat /\ Len(f) + 1 # 0
    OBVIOUS
  <2>2. /\ v \in Seq(Chars) /\ Len(v) = Len(f) + 1 /\ v[Len(f) + 1] = sign
        /\ \A k \in 1..Len(f) : v[k] = f[k]
    BY <1>0, AppendProperties
  <2>3. v # <<>>
    BY <2>1, <2>2, EmptySeq
  <2> QED
    BY <2>2, <2>3
<1>2. sign # P!Space
  BY Zenon DEF P!Space
<1>3. v[1] # P!Space
  <2>1. Len(f) \in Nat \ {0}
    BY EmptySeq DEF Named
  <2>2. f[1] # P!Space
    BY <2>1, HeadTailProperties DEF Named
  <2> QED
    BY <1>1, <2>1, <2>2
<1> HIDE DEF v
<1>4. P!TrimSpace(v) = v
  BY <1>1, <1>2, <1>3, TrimIs
<1>5. P!Last(v) = sign
  BY <1>1 DEF P!Last
<1>6. P!Without(v, sign) \in Seq(Chars) /\ sign \notin ToSet(P!Without(v, sign))
  BY <1>1, WithoutIs
<1>7. ASSUME sign \notin ToSet(f) PROVE P!Without(v, sign) = f
  <2>1. ToSet(f) \subseteq P!ToSet(v) \ {sign}
    BY <1>1, <1>7 DEF ToSet, P!ToSet
  <2>2. P!Among(v, P!ToSet(v) \ {sign}) = f
    BY <1>0, <2>1, KeptButLast DEF v
  <2> QED
    BY <2>2 DEF P!Without
<1> QED
  BY <1>1, <1>4, <1>5, <1>6, <1>7, Zenon DEF v

\* Only elements that were sent and name an allowed field come through.
LEMMA SortIs ==
    ASSUME NEW by \in Seq(Seq(Chars)), NEW allowed
    PROVE  \A j \in DOMAIN P!Sort(by, allowed) :
              \E v \in ToSet(by) :
                 /\ P!Sort(by, allowed)[j].field = P!Element(v).field
                 /\ P!ContainString(allowed, P!Element(v).field)
<1> DEFINE S == {v \in P!ToSet(by) : ~P!Element(v).empty
                                     /\ P!ContainString(allowed, P!Element(v).field)}
           kept == P!Among(by, S)
<1>1. kept \in Seq(Seq(Chars)) /\ \A x : x \in ToSet(kept) <=> x \in S /\ x \in ToSet(by)
  BY KeptIs, Zenon
<1>2. P!Sort(by, allowed) = P!Clause(kept)
  BY Zenon DEF P!Sort
<1> HIDE DEF kept
<1>3. ASSUME NEW j \in DOMAIN kept
      PROVE  /\ P!Clause(kept)[j] = [field |-> P!Element(kept[j]).field, desc |-> P!Element(kept[j]).desc]
             /\ kept[j] \in S /\ kept[j] \in ToSet(by)
  <2>1. kept[j] \in ToSet(kept)
    BY <1>1 DEF ToSet
  <2>2. kept[j] \in S /\ kept[j] \in ToSet(by)
    BY <1>1, <2>1, Zenon
  <2> QED
    BY <2>2, Zenon DEF P!Clause
<1>4. DOMAIN P!Clause(kept) = DOMAIN kept
  BY Zenon DEF P!Clause
<1>5. ASSUME NEW j \in DOMAIN kept
      PROVE  /\ P!Clause(kept)[j].field = P!Element(kept[j]).field
             /\ P!ContainString(allowed, P!Element(kept[j]).field)
  <2> DEFINE fld == P!Element(kept[j]).field
             dsc == P!Element(kept[j]).desc
  <2>0. P!Clause(kept)[j] = [field |-> fld, desc |-> dsc]
    BY <1>3, Zenon
  <2> HIDE DEF fld, dsc
  <2>1. P!Clause(kept)[j].field = fld
    BY <2>0
  <2> QED
    BY <1>3, <2>1, Zenon DEF fld
<1> QED
  BY <1>2, <1>3, <1>4, <1>5, Zenon

\* One element that names an allowed field comes through.
LEMMA SortOne ==
    ASSUME NEW v \in Seq(Chars), NEW allowed, ~P!Element(v).empty,
           P!ContainString(allowed, P!Element(v).field)
    PROVE  P!Sort(<<v>>, allowed) = <<[field |-> P!Element(v).field, desc |-> P!Element(v).desc]>>
<1> DEFINE by == <<v>>
           S == {x \in P!ToSet(by) : ~P!Element(x).empty
                                     /\ P!ContainString(allowed, P!Element(x).field)}
<1>1. v \in P!ToSet(by)
  BY DEF P!ToSet
<1>2. v \in S
  BY <1>1, Zenon
<1>3. P!Sort(by, allowed) = P!Clause(P!Among(by, S))
  BY Zenon DEF P!Sort
<1> HIDE DEF S
<1>4. P!Among(by, S) = by
  BY <1>2, KeptOne, Zenon
<1>5. P!Clause(by) = [j \in DOMAIN by |-> [field |-> P!Element(by[j]).field, desc |-> P!Element(by[j]).desc]]
  BY Zenon DEF P!Clause
<1>6. DOMAIN by = 1..1 /\ by[1] = v
  OBVIOUS
<1>7. [j \in 1..1 |-> [field |-> P!Element(by[j]).field, desc |-> P!Element(by[j]).desc]]
        = <<[field |-> P!Element(v).field, desc |-> P!Element(v).desc]>>
  OBVIOUS
<1> HIDE DEF by
<1>8. P!Clause(by) = <<[field |-> P!Element(v).field, desc |-> P!Element(v).desc]>>
  BY <1>5, <1>6, <1>7, Zenon
<1> QED
  BY <1>3, <1>4, <1>8, Zenon DEF by

\* The parts of an element, trimmed or not.
LEMMA ElementIs ==
    ASSUME NEW v, P!TrimSpace(v) = v, v # <<>>
    PROVE  LET desc == P!Last(v) = "-"
               plain == IF desc THEN P!Without(v, "-") ELSE v
           IN  /\ P!Element(v).field = IF plain # <<>> /\ P!Last(plain) = "+"
                                       THEN P!Without(plain, "+") ELSE plain
               /\ P!Element(v).desc = desc /\ P!Element(v).empty = FALSE
<1> DEFINE desc == P!Last(v) = "-"
           plain == IF desc THEN P!Without(v, "-") ELSE v
           field == IF plain # <<>> /\ P!Last(plain) = "+" THEN P!Without(plain, "+") ELSE plain
<1>1. P!EndsIn(v, "-") = desc
  BY Zenon DEF P!EndsIn
<1>2. P!Element(v) = [field |-> field, desc |-> desc, empty |-> FALSE]
  BY <1>1, Zenon DEF P!Element, P!EndsIn
<1> HIDE DEF desc, field
<1>3. P!Element(v).field = field /\ P!Element(v).desc = desc /\ P!Element(v).empty = FALSE
  BY <1>2
<1> QED
  BY <1>3, Zenon DEF desc, field

\* A name, a name with a sign.
LEMMA ElementOf ==
    ASSUME NEW f \in Seq(Chars), Named(f)
    PROVE  /\ P!Element(f).field = f /\ P!Element(f).desc = FALSE /\ P!Element(f).empty = FALSE
           /\ P!Element(Append(f, "+")).desc = FALSE /\ P!Element(Append(f, "+")).empty = FALSE
           /\ P!Element(Append(f, "-")).desc = TRUE /\ P!Element(Append(f, "-")).empty = FALSE
           /\ \A sign \in {"+", "-"} :
                 (P!Element(Append(f, sign)).field = f <=> sign \notin ToSet(f))
<1>1. P!Last(f) # "-" /\ P!Last(f) # "+" /\ P!Last(f) # P!Space /\ f # <<>> /\ Head(f) # P!Space
  BY Zenon DEF Named, P!Last, Last
<1>2. P!Element(f).field = f /\ P!Element(f).desc = FALSE /\ P!Element(f).empty = FALSE
  <2>1. P!TrimSpace(f) = f
    <3>1. f[1] = Head(f) /\ f[Len(f)] = P!Last(f)
      BY <1>1, EmptySeq DEF P!Last
    <3> QED
      BY <1>1, <3>1, TrimIs
  <2> QED
    BY <1>1, <2>1, ElementIs, Zenon
<1>3. ASSUME NEW sign \in {"+", "-"}
      PROVE  /\ P!TrimSpace(Append(f, sign)) = Append(f, sign) /\ Append(f, sign) # <<>>
             /\ P!Last(Append(f, sign)) = sign
             /\ P!Without(Append(f, sign), sign) \in Seq(Chars)
             /\ sign \notin ToSet(f) => P!Without(Append(f, sign), sign) = f
             /\ sign \notin ToSet(P!Without(Append(f, sign), sign))
  <2>1. Append(f, sign) \in Seq(Chars)
    BY PackagesAssumption, AppendProperties
  <2> QED
    BY <2>1, SignedIs, WithoutIs, Zenon
<1>4. "+" # "-"
  OBVIOUS
<1>5. /\ P!Element(Append(f, "+")).desc = FALSE /\ P!Element(Append(f, "+")).empty = FALSE
      /\ P!Element(Append(f, "+")).field = P!Without(Append(f, "+"), "+")
  <2>1. /\ P!TrimSpace(Append(f, "+")) = Append(f, "+") /\ Append(f, "+") # <<>>
        /\ P!Last(Append(f, "+")) = "+"
    BY <1>3
  <2> QED
    BY <1>4, <2>1, ElementIs, Zenon
<1>6. /\ P!Element(Append(f, "-")).desc = TRUE /\ P!Element(Append(f, "-")).empty = FALSE
      /\ LET w == P!Without(Append(f, "-"), "-")
         IN  P!Element(Append(f, "-")).field =
                IF w # <<>> /\ P!Last(w) = "+" THEN P!Without(w, "+") ELSE w
  <2>1. /\ P!TrimSpace(Append(f, "-")) = Append(f, "-") /\ Append(f, "-") # <<>>
        /\ P!Last(Append(f, "-")) = "-"
    BY <1>3
  <2> QED
    BY <2>1, ElementIs, Zenon
<1>7. P!Element(Append(f, "+")).field = f <=> "+" \notin ToSet(f)
  BY <1>3, <1>5
<1>8. P!Element(Append(f, "-")).field = f <=> "-" \notin ToSet(f)
  <2> DEFINE w == P!Without(Append(f, "-"), "-")
  <2>1. w \in Seq(Chars) /\ "-" \notin ToSet(w) /\ ("-" \notin ToSet(f) => w = f)
    BY <1>3
  <2> HIDE DEF w
  <2>2. "-" \notin ToSet(P!Without(w, "+"))
    <3>1. P!Without(w, "+") = P!Among(w, P!ToSet(w) \ {"+"})
      BY Zenon DEF P!Without
    <3> QED
      BY <2>1, <3>1, KeptIs, Zenon
  <2>3. P!Element(Append(f, "-")).field = IF w # <<>> /\ P!Last(w) = "+" THEN P!Without(w, "+") ELSE w
    BY <1>6 DEF w
  <2> QED
    BY <1>1, <2>1, <2>2, <2>3, Zenon
<1> QED
  BY <1>2, <1>5, <1>6, <1>7, <1>8

\* The clause for a list of names.
LEMMA SortIsAllowed == SortInput => SortAllowed
<1> DEFINE by == input.by
           allowed == input.allowed
           out == P!Sort(by, allowed)
<1> SUFFICES ASSUME by \in Seq(Seq(Chars)), allowed \in SUBSET Seq(Chars)
             PROVE  /\ \A j \in DOMAIN out :
                          \E f \in allowed : P!TrimSpace(out[j].field) = P!TrimSpace(f)
                    /\ \A f \in {g \in allowed : Named(g)} :
                          /\ by = <<f>> => out = <<[field |-> f, desc |-> FALSE]>>
                          /\ by = <<Append(f, "+")>> =>
                                IF "+" \in ToSet(f) THEN \A j \in DOMAIN out : out[j].field # f
                                ELSE out = <<[field |-> f, desc |-> FALSE]>>
                          /\ by = <<Append(f, "-")>> =>
                                IF "-" \in ToSet(f) THEN \A j \in DOMAIN out : out[j].field # f
                                ELSE out = <<[field |-> f, desc |-> TRUE]>>
  BY Zenon DEF SortInput, SortAllowed
<1> HIDE DEF by, allowed
<1>1. \A j \in DOMAIN out : \E f \in allowed : P!TrimSpace(out[j].field) = P!TrimSpace(f)
  <2>1. \A j \in DOMAIN out : P!ContainString(allowed, out[j].field)
    BY SortIs, Zenon
  <2> HIDE DEF out
  <2> QED
    BY <2>1, Zenon DEF P!ContainString
<1>2. ASSUME NEW f \in allowed, Named(f)
      PROVE  /\ by = <<f>> => out = <<[field |-> f, desc |-> FALSE]>>
             /\ by = <<Append(f, "+")>> =>
                   IF "+" \in ToSet(f) THEN \A j \in DOMAIN out : out[j].field # f
                   ELSE out = <<[field |-> f, desc |-> FALSE]>>
             /\ by = <<Append(f, "-")>> =>
                   IF "-" \in ToSet(f) THEN \A j \in DOMAIN out : out[j].field # f
                   ELSE out = <<[field |-> f, desc |-> TRUE]>>
  <2>1. f \in Seq(Chars)
    OBVIOUS
  <2>2. P!ContainString(allowed, f)
    BY <1>2, Zenon DEF P!ContainString
  <2>3. \A v \in Seq(Chars) : P!Element(v).field = f /\ P!Element(v).empty = FALSE
           => P!Sort(<<v>>, allowed) = <<[field |-> f, desc |-> P!Element(v).desc]>>
    BY <2>2, SortOne, Zenon
  <2>4. by = <<f>> => out = <<[field |-> f, desc |-> FALSE]>>
    BY <1>2, <2>1, <2>3, ElementOf, Zenon
  <2>5. ASSUME NEW sign \in {"+", "-"}, by = <<Append(f, sign)>>
        PROVE  IF sign \in ToSet(f) THEN \A j \in DOMAIN out : out[j].field # f
               ELSE out = <<[field |-> f, desc |-> P!Element(Append(f, sign)).desc]>>
    <3> DEFINE v == Append(f, sign)
    <3>1. v \in Seq(Chars)
      BY <2>1, PackagesAssumption, AppendProperties
    <3>2. P!Element(v).field = f <=> sign \notin ToSet(f)
      BY <1>2, <2>1, ElementOf, Zenon
    <3>3. P!Element(v).empty = FALSE
      BY <1>2, <2>1, ElementOf
    <3> HIDE DEF v
    <3>4. ASSUME sign \in ToSet(f), NEW j \in DOMAIN out PROVE out[j].field # f
      <4>1. ToSet(by) = {v}
        <5>1. DOMAIN <<v>> = {1} /\ <<v>>[1] = v
          OBVIOUS
        <5> QED
          BY <2>5, <5>1, Zenon DEF ToSet, v
      <4> QED
        BY <3>2, <3>4, <4>1, SortIs, Zenon
    <3>5. ASSUME sign \notin ToSet(f) PROVE out = <<[field |-> f, desc |-> P!Element(v).desc]>>
      BY <2>3, <2>5, <3>1, <3>2, <3>3, <3>5, Zenon DEF v
    <3> QED
      BY <3>4, <3>5, Zenon DEF v
  <2>6. P!Element(Append(f, "+")).desc = FALSE /\ P!Element(Append(f, "-")).desc = TRUE
    BY <1>2, <2>1, ElementOf
  <2> HIDE DEF out
  <2>7. by = <<Append(f, "+")>> =>
           IF "+" \in ToSet(f) THEN \A j \in DOMAIN out : out[j].field # f
           ELSE out = <<[field |-> f, desc |-> FALSE]>>
    BY <2>5, <2>6, Zenon
  <2>8. by = <<Append(f, "-")>> =>
           IF "-" \in ToSet(f) THEN \A j \in DOMAIN out : out[j].field # f
           ELSE out = <<[field |-> f, desc |-> TRUE]>>
    BY <2>5, <2>6, Zenon
  <2> QED
    BY <2>4, <2>7, <2>8
<1> QED
  BY <1>1, <1>2, Zenon

\* Only allowed fields reach the ORDER BY clause, and a plain name gets the
\* direction its suffix asks for, whatever names are sent and allowed.
THEOREM SortsAreAllowed == FairSpec => []SortAllowed
  BY InputsKept, SortIsAllowed, PTL

\* The last option of a kind is one of that kind, if there is one.
LEMMA LastOption ==
    ASSUME NEW opts \in Seq(G!Options), NEW K, NEW S, S = {j \in DOMAIN opts : opts[j] \in K}, S # {}
    PROVE  opts[G!Max(S)] \in K
<1>1. Len(opts) \in Nat /\ S \in SUBSET (0..Len(opts))
  OBVIOUS
<1>2. PICK m \in S : \A j \in S : j <= m
  BY <1>1, Greatest
<1>3. \A j \in S : m >= j
  <2>1. \A j \in S : j \in Int /\ m \in Int
    BY <1>1
  <2> QED
    BY <1>2, <2>1
<1>4. G!Max(S) \in S
  BY <1>3, Zenon DEF G!Max
<1> QED
  BY <1>4

\* And it is the one behind which there is no other.
LEMMA NothingBehind ==
    ASSUME NEW opts \in Seq(G!Options), NEW K, NEW S, S = {j \in DOMAIN opts : opts[j] \in K},
           NEW j \in S, \A k \in DOMAIN opts : k > j => opts[k] \notin K
    PROVE  G!Max(S) = j
<1>1. Len(opts) \in Nat /\ DOMAIN opts = 1..Len(opts)
  OBVIOUS
<1>2. \A k \in S : j >= k
  BY <1>1
<1>3. \A x \in S : (\A k \in S : x >= k) => x = j
  BY <1>1, <1>2
<1> QED
  BY <1>2, <1>3, Zenon DEF G!Max

IsFile(opts, j) == opts[j] \in {"file", "rotation"}

LEMMA AppliedIs ==
    ASSUME NEW opts \in Seq(G!Options)
    PROVE  /\ G!Applied(opts).level \in Int
           /\ G!Applied(opts).disableConsole <=> \E j \in DOMAIN opts : opts[j] = "disableConsole"
           /\ G!Applied(opts).file \in {"nil", "file", "rotation"}
           /\ G!Applied(opts).file = "nil" <=> \A j \in DOMAIN opts : ~IsFile(opts, j)
           /\ \A j \in DOMAIN opts :
                 IsFile(opts, j) /\ (\A k \in DOMAIN opts : k > j => ~IsFile(opts, k))
                    => G!Applied(opts).file = opts[j]
<1> DEFINE byLevel == {j \in DOMAIN opts : opts[j] \in DOMAIN G!Levels}
           byFile == {j \in DOMAIN opts : opts[j] \in {"file", "rotation"}}
           lev == IF byLevel = {} THEN G!DefaultLevel ELSE G!Levels[opts[G!Max(byLevel)]]
           fil == IF byFile = {} THEN "nil" ELSE opts[G!Max(byFile)]
           dis == "disableConsole" \in G!ToSet(opts)
<1>1. \A v \in DOMAIN G!Levels : G!Levels[v] \in Int
  BY DEF G!Levels
<1>2. lev \in Int
  <2>1. G!DefaultLevel \in Int
    BY DEF G!DefaultLevel, G!Levels
  <2>2. byLevel # {} => opts[G!Max(byLevel)] \in DOMAIN G!Levels
    BY LastOption, Zenon
  <2> HIDE DEF byLevel
  <2> QED
    BY <1>1, <2>1, <2>2
<1>3. fil \in {"nil", "file", "rotation"} /\ (fil = "nil" <=> byFile = {})
  <2>1. byFile # {} => opts[G!Max(byFile)] \in {"file", "rotation"}
    BY LastOption, Zenon
  <2> HIDE DEF byFile
  <2> QED
    BY <2>1
<1>4. byFile = {} <=> \A j \in DOMAIN opts : ~IsFile(opts, j)
  BY DEF IsFile
<1>5. ASSUME NEW j \in DOMAIN opts, IsFile(opts, j),
             \A k \in DOMAIN opts : k > j => ~IsFile(opts, k)
      PROVE  fil = opts[j]
  <2>1. j \in byFile /\ \A k \in DOMAIN opts : k > j => opts[k] \notin {"file", "rotation"}
    BY <1>5 DEF IsFile
  <2>2. G!Max(byFile) = j
    BY <2>1, NothingBehind, Zenon
  <2> HIDE DEF byFile
  <2> QED
    BY <2>1, <2>2
<1>6. dis <=> \E j \in DOMAIN opts : opts[j] = "disableConsole"
  BY DEF G!ToSet
<1>7. G!Applied(opts) = [level |-> lev, file |-> fil, disableConsole |-> dis]
  BY Zenon DEF G!Applied
<1> HIDE DEF lev, fil, dis, byFile
<1> QED
  BY <1>2, <1>3, <1>4, <1>5, <1>6, <1>7

\* For any list of options and every level: an entry goes to the one writer its
\* options ask for, and the call panics exactly when they ask for none.
THEOREM EntriesAreWrittenOnce == FairSpec => []WrittenOnce
<1>1. LogInput => WrittenOnce
  <2> SUFFICES ASSUME LogInput, part = "pure", input.part = "log" PROVE WrittenOnce
    BY DEF WrittenOnce
  <2> DEFINE opts == input.opts
             opt == G!Applied(opts)
             lvl == G!Levels[input.lvl]
             out == G!Writers(opt, lvl)
             writes == lvl >= opt.level
             dis == opt.disableConsole
             file == opt.file
             console == \A j \in DOMAIN opts : opts[j] # "disableConsole"
             error == input.lvl \in {"error", "dpanic", "panic", "fatal"}
  <2>1. /\ opt.level \in Int /\ (dis <=> ~console)
        /\ file \in {"nil", "file", "rotation"}
        /\ file = "nil" <=> \A j \in DOMAIN opts : ~IsFile(opts, j)
        /\ \A j \in DOMAIN opts :
              IsFile(opts, j) /\ (\A k \in DOMAIN opts : k > j => ~IsFile(opts, k))
                 => file = opts[j]
    BY AppliedIs DEF LogInput
  <2>2. lvl \in Int /\ (lvl >= 2 <=> error)
    BY DEF LogInput, G!Levels
  <2> HIDE DEF lvl, opt
  <2>less. opt.level \in Int /\ lvl \in Int /\ (lvl < opt.level <=> ~writes)
    <3>1. opt.level \in Int /\ lvl \in Int
      BY <2>1, <2>2, Zenon
    <3> QED
      BY <3>1
  <2>3. /\ G!LowPriority(opt, lvl) <=> writes /\ lvl < 2
        /\ G!HighPriority(opt, lvl) <=> writes /\ lvl >= 2
    BY DEF G!LowPriority, G!HighPriority, G!Levels
  <2>4. lvl < 2 <=> ~error
    BY <2>2
  <2>5. out = IF ~writes THEN {} ELSE IF dis THEN {file} ELSE IF error THEN {"stderr"} ELSE {"stdout"}
    <3>1. \A w : w \in out <=> \/ w = "stdout" /\ ~dis /\ G!LowPriority(opt, lvl)
                               \/ w = "stderr" /\ ~dis /\ G!HighPriority(opt, lvl)
                               \/ w = file /\ dis /\ writes
      BY DEF G!Writers
    <3> HIDE DEF out, writes, dis, file, error
    <3> QED
      BY <2>1, <2>2, <2>3, <2>4, <3>1
  <2>6. G!Panics(opt, lvl) <=> "nil" \in out
    BY DEF G!Panics
  <2> HIDE DEF out, dis, file, console, error, writes
  <2>7. CASE ~writes
    <3>1. out = {} /\ lvl < opt.level
      BY <2>5, <2>7, <2>less, Zenon
    <3> QED
      BY <3>1, Zenon DEF WrittenOnce, opts, opt, lvl, out
  <2>8. CASE writes
    <3>1. console => out = {IF error THEN "stderr" ELSE "stdout"}
      <4>1. console => out = IF error THEN {"stderr"} ELSE {"stdout"}
        BY <2>1, <2>5, <2>8, Zenon
      <4> QED
        BY <4>1
    <3>2. ~console => out = {file}
      BY <2>1, <2>5, <2>8, Zenon
    <3>3. ~console => \A j \in DOMAIN opts :
             IsFile(opts, j) /\ (\A k \in DOMAIN opts : k > j => ~IsFile(opts, k)) => out = {opts[j]}
      BY <2>1, <3>2, Zenon
    <3>4. G!Panics(opt, lvl) <=> ~console /\ \A j \in DOMAIN opts : ~IsFile(opts, j)
      <4>1. console => "nil" \notin out
        BY <3>1
      <4>2. ~console => ("nil" \in out <=> file = "nil")
        BY <3>2
      <4> QED
        BY <2>1, <2>6, <4>1, <4>2, Zenon
    <3>5. ~(lvl < opt.level)
      BY <2>8, <2>less, Zenon
    <3> QED
      BY <3>1, <3>3, <3>4, <3>5, Zenon DEF WrittenOnce, IsFile, opts, opt, lvl, out, console, error
  <2> QED
    BY <2>7, <2>8
<1> QED
  BY InputsKept, <1>1, PTL

-----------------------------------------------------------------------------
(* Rsa: chunks that are put together and cut again.                        *)

\* The function behind FlattenSeq.
Joins(f, s) == f = [k \in 1..Len(s) |-> IF k = 1 THEN s[k] ELSE f[k - 1] \o s[k]]

LEMMA JoinsExists == ASSUME NEW X, NEW s \in Seq(Seq(X)), Len(s) # 0 PROVE \E f : Joins(f, s)
<1> DEFINE n == Len(s)
           Upto(m, f) ==
               /\ f \in [1..m -> Seq(X)]
               /\ \A k \in 1..m : f[k] = IF k = 1 THEN s[k] ELSE f[k - 1] \o s[k]
           bad == {m \in 1..n : ~ \E f : Upto(m, f)}
<1>1. n \in Nat \ {0} /\ \A k \in 1..n : s[k] \in Seq(X)
  OBVIOUS
<1>2. ASSUME NEW m \in bad, \A k \in bad : m <= k PROVE FALSE
  <2>0. m \in 1..n
    BY <1>2
  <2>1. CASE m = 1
    <3>1. Upto(1, [k \in 1..1 |-> s[1]])
      BY <1>1
    <3> QED
      BY <2>1, <3>1
  <2>2. CASE m # 1
    <3>1. m - 1 \in 1..n /\ m - 1 \notin bad
      <4>1. m - 1 \in 1..n /\ ~(m <= m - 1)
        BY <1>1, <2>2, <2>0
      <4> HIDE DEF bad
      <4> QED
        BY <1>2, <4>1
    <3>2. PICK f : Upto(m - 1, f)
      BY <3>1, Zenon
    <3> DEFINE e == f[m - 1] \o s[m]
               g == [k \in 1..m |-> IF k = m THEN e ELSE f[k]]
    <3>3. e \in Seq(X)
      <4>1. f[m - 1] \in Seq(X) /\ s[m] \in Seq(X)
        BY <1>1, <2>0, <2>2, <3>2
      <4> QED
        BY <4>1
    <3>4. /\ g \in [1..m -> Seq(X)] /\ g[m] = e
          /\ \A k \in 1..m - 1 : g[k] = f[k]
      <4>1. m \in Nat \ {0} /\ f \in [1..m - 1 -> Seq(X)]
        BY <2>0, <3>2
      <4> HIDE DEF e
      <4>2. \A k \in 1..m : k = m \/ k \in 1..m - 1
        BY <4>1
      <4>3. \A k \in 1..m : g[k] \in Seq(X)
        BY <3>3, <4>1, <4>2
      <4>4. g \in [1..m -> Seq(X)]
        BY <4>3, Zenon
      <4> QED
        BY <4>1, <4>4
    <3>5. ASSUME NEW k \in 1..m PROVE g[k] = IF k = 1 THEN s[k] ELSE g[k - 1] \o s[k]
      <4> HIDE DEF g
      <4>1. CASE k = m
        <5>1. m - 1 \in 1..m - 1 /\ k # 1
          BY <2>0, <2>2, <4>1
        <5> QED
          BY <3>4, <4>1, <5>1, Zenon
      <4>2. CASE k # m
        <5>1. k \in 1..m - 1 /\ (k # 1 => k - 1 \in 1..m - 1)
          BY <2>0, <4>2
        <5>2. f[k] = IF k = 1 THEN s[k] ELSE f[k - 1] \o s[k]
          BY <3>2, <5>1
        <5> QED
          BY <3>4, <5>1, <5>2, Zenon
      <4> QED
        BY <4>1, <4>2
    <3> HIDE DEF g
    <3>6. Upto(m, g)
      BY <3>4, <3>5, Zenon
    <3> QED
      BY <3>6
  <2> QED
    BY <2>1, <2>2
<1>3. bad = {}
  <2>1. bad \in SUBSET Nat
    BY <1>1
  <2> HIDE DEF bad
  <2> QED
    BY <1>2, <2>1, Least
<1>4. PICK f : Upto(n, f)
  <2>1. n \in 1..n
    BY <1>1
  <2>2. n \notin bad
    BY <1>3
  <2> QED
    BY <2>1, <2>2, Zenon
<1>5. f = [k \in 1..n |-> IF k = 1 THEN s[k] ELSE f[k - 1] \o s[k]]
  BY <1>4
<1> QED
  BY <1>5, Zenon DEF Joins

\* Parts of equal length, the last of which may be shorter, keep their places when
\* they are put together.
LEMMA FlattenIs ==
    ASSUME NEW X, NEW s \in Seq(Seq(X)), Len(s) # 0, NEW len \in Nat,
           \A c \in 1..Len(s) - 1 : Len(s[c]) = len
    PROVE  /\ R!FlattenSeq(s) \in Seq(X)
           /\ Len(R!FlattenSeq(s)) = (Len(s) - 1) * len + Len(s[Len(s)])
           /\ \A c \in 1..Len(s) : \A j \in 1..Len(s[c]) :
                 R!FlattenSeq(s)[(c - 1) * len + j] = s[c][j]
<1> DEFINE n == Len(s)
           f == CHOOSE f : Joins(f, s)
           Right(k) ==
               /\ f[k] \in Seq(X) /\ Len(f[k]) = (k - 1) * len + Len(s[k])
               /\ \A c \in 1..k : \A j \in 1..Len(s[c]) : f[k][(c - 1) * len + j] = s[c][j]
           bad == {k \in 1..n : ~Right(k)}
<1>1. Joins(f, s)
  BY JoinsExists, Zenon
<1>2. R!FlattenSeq(s) = f[n]
  BY Zenon DEF R!FlattenSeq, Joins
<1>3. n \in Nat \ {0} /\ \A k \in 1..n : s[k] \in Seq(X)
  OBVIOUS
<1> HIDE DEF f
<1>4. \A k \in 1..n : f[k] = IF k = 1 THEN s[k] ELSE f[k - 1] \o s[k]
  BY <1>1, Zenon DEF Joins
<1>5. ASSUME NEW m \in bad, \A k \in bad : m <= k PROVE FALSE
  <2>0. m \in 1..n
    BY <1>5
  <2>1. CASE m = 1
    <3>1. f[1] = s[1] /\ s[1] \in Seq(X) /\ (1 - 1) * len = 0
      BY <1>3, <1>4
    <3>2. Len(f[1]) = (1 - 1) * len + Len(s[1])
      <4>1. 0 + Len(s[1]) = Len(s[1])
        BY <3>1
      <4> QED
        BY <3>1, <4>1, Zenon
    <3>3. ASSUME NEW c \in 1..1, NEW j \in 1..Len(s[c]) PROVE f[1][(c - 1) * len + j] = s[c][j]
      <4>1. c = 1 /\ (c - 1) * len = 0 /\ 0 + j = j
        OBVIOUS
      <4> QED
        BY <3>1, <4>1
    <3>4. Right(1)
      BY <3>1, <3>2, <3>3, Zenon
    <3> QED
      BY <2>1, <3>4
  <2>2. CASE m # 1
    <3>1. m - 1 \in 1..n /\ m \in Nat /\ Right(m - 1)
      <4>1. m - 1 \in 1..n /\ m \in Nat /\ ~(m <= m - 1)
        BY <1>3, <2>0, <2>2
      <4> HIDE DEF Right
      <4> QED
        BY <1>5, <4>1
    <3> DEFINE q == f[m - 1]
               base == (m - 1) * len
    <3>2. f[m] = q \o s[m] /\ q \in Seq(X) /\ s[m] \in Seq(X)
      BY <1>3, <1>4, <2>0, <2>2, <3>1
    <3>3. Len(q) = base
      <4>1. Len(q) = (m - 1 - 1) * len + len
        <5>1. m - 1 \in 1..n - 1
          BY <1>3, <2>0, <3>1
        <5> QED
          BY <3>1, <5>1
      <4> QED
        BY <3>1, <4>1
    <3>4. base \in Nat
      BY <3>2, <3>3
    <3>5. ASSUME NEW c \in 1..m, NEW j \in 1..Len(s[c])
          PROVE  f[m][(c - 1) * len + j] = s[c][j]
      <4>1. CASE c = m
        <5> HIDE DEF base, q
        <5>1. f[m][base + j] = s[m][j]
          <6>1. j \in 1..Len(s[m])
            BY <4>1
          <6>2. base + j \in 1..Len(q) + Len(s[m]) /\ base + j > Len(q) /\ base + j - Len(q) = j
            BY <3>2, <3>3, <6>1
          <6> QED
            <7> DEFINE t == s[m]
                       x == base + j
            <7>1. t \in Seq(X) /\ x \in 1..Len(q) + Len(t) /\ ~(x <= Len(q)) /\ x - Len(q) = j
              BY <3>2, <3>3, <6>1, <6>2
            <7> HIDE DEF t, x
            <7>2. (q \o t)[x] = t[x - Len(q)]
              BY <3>2, <7>1, ConcatProperties
            <7> QED
              BY <3>2, <7>1, <7>2, Zenon DEF t, x
        <5> QED
          BY <4>1, <5>1 DEF base
      <4>2. CASE c # m
        <5> DEFINE at_ == (c - 1) * len + j
        <5>1. c \in 1..m - 1 /\ c \in 1..n - 1
          <6>1. m \in Nat /\ n \in Nat /\ m <= n
            BY <1>3, <2>0
          <6> HIDE DEF n
          <6> QED
            BY <4>2, <6>1
        <5>2. q[at_] = s[c][j]
          BY <3>1, <5>1
        <5>3. at_ \in 1..base
          <6>1. j \in 1..len
            BY <5>1
          <6> DEFINE a == (c - 1) * len
                     b == (m - 1 - c) * len
          <6>2. base = a + len + b
            BY <5>1, <2>0
          <6>3. a \in Nat
            <7> DEFINE d == c - 1
            <7>1. d \in Nat
              BY <5>1
            <7> HIDE DEF d
            <7>2. d * len \in Nat
              BY <7>1
            <7> QED
              BY <7>2 DEF d
          <6>4. b \in Nat
            <7> DEFINE d == m - 1 - c
            <7>1. d \in Nat
              BY <2>0, <5>1
            <7> HIDE DEF d
            <7>2. d * len \in Nat
              BY <7>1
            <7> QED
              BY <7>2 DEF d
          <6>5. at_ = a + j
            OBVIOUS
          <6> HIDE DEF a, b, base, at_
          <6> QED
            BY <6>1, <6>2, <6>3, <6>4, <6>5
        <5> HIDE DEF at_, base, q
        <5>4. f[m][at_] = q[at_]
          BY <3>2, <3>3, <3>4, <5>3
        <5> QED
          BY <5>2, <5>4 DEF at_, q
      <4> QED
        BY <4>1, <4>2
    <3>6. f[m] \in Seq(X) /\ Len(f[m]) = base + Len(s[m])
      <4> HIDE DEF base, q
      <4> QED
        BY <3>2, <3>3, ConcatProperties
    <3>7. Right(m)
      BY <3>5, <3>6, Zenon
    <3> QED
      BY <3>7
  <2> QED
    BY <2>1, <2>2
<1>6. bad = {}
  <2>1. bad \in SUBSET Nat
    BY <1>3
  <2> HIDE DEF bad
  <2> QED
    BY <1>5, <2>1, Least
<1>7. Right(n)
  <2>1. n \in 1..n
    BY <1>3
  <2>2. n \notin bad
    BY <1>6
  <2> HIDE DEF Right
  <2> QED
    BY <2>1, <2>2
<1> QED
  BY <1>2, <1>7, Zenon

\* A product is ordered as its factors are.
LEMMA Times ==
    ASSUME NEW a \in Int, NEW b \in Int, NEW l \in Nat \ {0}
    PROVE  a * l \in Int /\ (a * l < b * l <=> a < b) /\ (a * l <= b * l <=> a <= b)
<1> DEFINE u == b - a
           v == a - b
<1>1. a * l \in Int /\ b * l \in Int
  OBVIOUS
<1>2. b * l = a * l + u * l /\ a * l = b * l + v * l
  OBVIOUS
<1>3. /\ u \in Int /\ v \in Int /\ (a < b <=> u > 0) /\ (a <= b <=> u >= 0)
      /\ (u > 0 <=> v < 0) /\ (u >= 0 <=> v <= 0)
  OBVIOUS
<1> HIDE DEF u, v
<1>4. (u > 0 => u * l > 0) /\ (u >= 0 => u * l >= 0) /\ (v > 0 => v * l > 0) /\ (v >= 0 => v * l >= 0)
      /\ u * l \in Int /\ v * l \in Int
  BY <1>3
<1> DEFINE al == a * l
           bl == b * l
           ul == u * l
           vl == v * l
<1> HIDE DEF al, bl, ul, vl
<1>5. /\ al \in Int /\ bl \in Int /\ ul \in Int /\ vl \in Int /\ bl = al + ul /\ al = bl + vl
      /\ (u > 0 => ul > 0) /\ (u >= 0 => ul >= 0) /\ (v > 0 => vl > 0) /\ (v >= 0 => vl >= 0)
  BY <1>1, <1>2, <1>4 DEF al, bl, ul, vl
<1>6. (al < bl <=> a < b) /\ (al <= bl <=> a <= b)
  <2>1. v > 0 \/ u >= 0
    BY <1>3
  <2>2. v >= 0 \/ u > 0
    BY <1>3
  <2> QED
    BY <1>3, <1>5, <2>1, <2>2
<1> QED
  BY <1>1, <1>6 DEF al, bl

\* So many chunks are needed, and no fewer.
LEMMA ChunksIs ==
    ASSUME NEW n \in Nat, NEW lim \in Nat \ {0}
    PROVE  /\ R!Chunks(n, lim) \in Nat
           /\ n = 0 => R!Chunks(n, lim) = 0
           /\ n # 0 => R!Chunks(n, lim) # 0
           /\ (R!Chunks(n, lim) - 1) * lim < n /\ n <= R!Chunks(n, lim) * lim
<1> DEFINE a == n + lim - 1
           c == a \div lim
           r == a % lim
<1>1. a \in Nat /\ R!Chunks(n, lim) = c
  BY DEF R!Chunks
<1> HIDE DEF a
<1>2. c \in Nat /\ a = lim * c + r /\ r \in 0..lim - 1
  BY <1>1
<1> HIDE DEF c, r
<1> DEFINE p == c * lim
<1>3. p = lim * c /\ (c - 1) * lim = p - lim /\ p \in Nat
  BY <1>2
<1>4. (c = 0 => p = 0) /\ (c # 0 => p >= lim)
  <2>1. c # 0 => p - lim >= 0
    <3> DEFINE d == c - 1
    <3>1. c # 0 => d \in Nat
      BY <1>2
    <3>2. d * lim = p - lim
      BY <1>2
    <3> HIDE DEF d, p
    <3>3. d \in Nat => d * lim \in Nat
      OBVIOUS
    <3> QED
      BY <1>3, <3>1, <3>2, <3>3
  <2> HIDE DEF p
  <2>2. c = 0 => p = 0
    BY DEF p
  <2> QED
    BY <1>2, <1>3, <2>1, <2>2
<1> HIDE DEF p
<1>5. n = p + r - lim + 1
  BY <1>2, <1>3 DEF a
<1>6. (c - 1) * lim < n /\ n <= p
  BY <1>2, <1>3, <1>5
<1>7. (n = 0 => c = 0) /\ (n # 0 => c # 0)
  BY <1>2, <1>3, <1>4, <1>5
<1> QED
  BY <1>1, <1>2, <1>6, <1>7 DEF p

\* s is buf in pieces of lim elements, but for the last.
Pieces(s, X, buf, lim) ==
    /\ s \in Seq(Seq(X)) /\ Len(s) = R!Chunks(Len(buf), lim)
    /\ \A c \in 1..Len(s) - 1 : Len(s[c]) = lim
    /\ Len(s) # 0 => Len(s[Len(s)]) = Len(buf) - (Len(s) - 1) * lim
    /\ \A c \in 1..Len(s) : \A j \in 1..Len(s[c]) :
          (c - 1) * lim + j \in 1..Len(buf) /\ s[c][j] = buf[(c - 1) * lim + j]

\* What split makes of a buffer.
LEMMA SplitIs ==
    ASSUME NEW X, NEW buf \in Seq(X), NEW lim \in Nat \ {0}
    PROVE  Pieces(R!Split(buf, lim), X, buf, lim)
<1> DEFINE s == R!Split(buf, lim)
           n == R!Chunks(Len(buf), lim)
           len == Len(buf)
<1>0. len \in Nat
  OBVIOUS
<1>1. /\ n \in Nat /\ (len = 0 => n = 0) /\ (len # 0 => n # 0)
      /\ (n - 1) * lim < len /\ len <= n * lim
  BY <1>0, ChunksIs
<1>2. s = [c \in 1..n |-> SubSeq(buf, (c - 1) * lim + 1, IF c * lim < len THEN c * lim ELSE len)]
  BY Zenon DEF R!Split
<1> HIDE DEF s, n
<1>3. ASSUME NEW c \in 1..n
      PROVE  /\ s[c] \in Seq(X)
             /\ Len(s[c]) = IF c = n THEN len - (n - 1) * lim ELSE lim
             /\ \A j \in 1..Len(s[c]) :
                   (c - 1) * lim + j \in 1..len /\ s[c][j] = buf[(c - 1) * lim + j]
  <2> DEFINE b == (c - 1) * lim
             e == c * lim
             q == IF e < len THEN e ELSE len
             bn == (n - 1) * lim
             en == n * lim
  <2>1. s[c] = SubSeq(buf, b + 1, q)
    BY <1>2
  <2>2. /\ b \in Int /\ e \in Int /\ e = b + lim /\ en = bn + lim /\ bn \in Int /\ en \in Int
    <3>1. c - 1 \in Int /\ c \in Int /\ n \in Int /\ n - 1 \in Int
      BY <1>1
    <3> QED
      BY <3>1
  <2>3. b >= 0
    <3>1. c - 1 \in Int /\ 0 \in Int /\ 0 <= c - 1 /\ 0 * lim = 0
      BY <1>1
    <3>2. 0 * lim <= (c - 1) * lim
      BY <3>1, Times
    <3> QED
      BY <3>1, <3>2
  <2>4. c # n => e <= bn
    <3>1. c # n => c <= n - 1 /\ c \in Int /\ n - 1 \in Int
      BY <1>1
    <3> QED
      BY <3>1, Times
  <2>5. c = n => b = bn /\ e = en
    OBVIOUS
  <2>6. bn < len /\ len <= en
    BY <1>1
  <2> HIDE DEF b, e, bn, en
  <2>7. q = IF c = n THEN len ELSE e
    BY <1>0, <2>2, <2>4, <2>5, <2>6
  <2>8. q \in 1..len /\ b + 1 \in 1..q
    BY <1>0, <2>2, <2>3, <2>4, <2>5, <2>6, <2>7
  <2> HIDE DEF q, len
  <2>9. /\ SubSeq(buf, b + 1, q) \in Seq(X)
        /\ Len(SubSeq(buf, b + 1, q)) = q - b
        /\ \A j \in 1..q - b : SubSeq(buf, b + 1, q)[j] = buf[b + j]
    <3>1. \A j \in b + 1..q : j \in 1..Len(buf)
      BY <1>0, <2>2, <2>3, <2>8 DEF len
    <3>2. \A j \in b + 1..q : buf[j] \in X
      BY <3>1
    <3>3. q - b \in Nat /\ (b + 1 <= q) /\ q - (b + 1) + 1 = q - b
      BY <1>0, <2>2, <2>3, <2>8
    <3>4. SubSeq(buf, b + 1, q) = [j \in 1..q - b |-> buf[j + (b + 1) - 1]]
      BY <2>2, <2>8, <3>3, <1>0
    <3>5. \A j \in 1..q - b : j + (b + 1) - 1 = b + j /\ b + j \in b + 1..q
      BY <1>0, <2>2, <2>8
    <3>6. SubSeq(buf, b + 1, q) = [j \in 1..q - b |-> buf[b + j]]
      BY <3>4, <3>5
    <3> DEFINE m == q - b
    <3>7. m \in Nat /\ \A j \in 1..m : buf[b + j] \in X
      BY <3>2, <3>3, <3>5
    <3> DEFINE w == SubSeq(buf, b + 1, q)
    <3>8. w = [j \in 1..m |-> buf[b + j]]
      BY <3>6
    <3> HIDE DEF m, w
    <3>9. /\ w \in Seq(X) /\ Len(w) = m
          /\ \A j \in 1..m : w[j] = buf[b + j]
      BY <3>7, <3>8
    <3> QED
      BY <3>9 DEF m, w
  <2>10. q - b = IF c = n THEN len - bn ELSE lim
    BY <1>0, <2>2, <2>5, <2>7
  <2>11. \A j \in 1..q - b : b + j \in 1..len
    BY <1>0, <2>2, <2>3, <2>8
  <2> QED
    BY <2>1, <2>9, <2>10, <2>11 DEF b, bn
<1>4. s \in Seq(Seq(X)) /\ Len(s) = n
  BY <1>1, <1>2, <1>3
<1>5. \A c \in 1..n - 1 : c \in 1..n /\ c # n
  BY <1>1
<1>6. n # 0 => n \in 1..n
  BY <1>1
<1> QED
  BY <1>3, <1>4, <1>5, <1>6, Zenon DEF s, n, Pieces

\* The place of the k-th element among chunks.
LEMMA PlaceIs ==
    ASSUME NEW n \in Nat, NEW lim \in Nat \ {0}, NEW k \in 1..n
    PROVE  \E c \in 1..R!Chunks(n, lim) : \E j \in 1..lim :
              k = (c - 1) * lim + j /\ (c = R!Chunks(n, lim) => j <= n - (c - 1) * lim)
<1> DEFINE c == R!Chunks(k, lim)
           m == R!Chunks(n, lim)
           b == (c - 1) * lim
<1>1. k \in Nat \ {0} /\ k <= n
  OBVIOUS
<1>2. c \in Nat \ {0} /\ (c - 1) * lim < k /\ k <= c * lim
  BY <1>1, ChunksIs
<1>3. m \in Nat \ {0} /\ n <= m * lim
  BY <1>1, ChunksIs
<1> HIDE DEF c, m
<1>4. b \in Int /\ c * lim = b + lim
  BY <1>2
<1>5. c <= m
  <2>1. c - 1 \in Int /\ m \in Int /\ m * lim \in Int
    BY <1>2, <1>3
  <2>2. (c - 1) * lim < m * lim
    <3> DEFINE x == m * lim
    <3> HIDE DEF x, b
    <3>1. x \in Int /\ b < k /\ n <= x
      BY <1>2, <1>3, <2>1 DEF x, b
    <3>2. b < x
      BY <1>1, <1>4, <3>1
    <3> QED
      BY <3>2 DEF x, b
  <2>3. c - 1 < m
    BY <2>1, <2>2, Times
  <2> QED
    BY <1>2, <1>3, <2>3
<1> HIDE DEF b
<1>6. k - b \in 1..lim /\ k = b + (k - b) /\ k - b <= n - b
  BY <1>1, <1>2, <1>4 DEF b
<1>7. c \in 1..m
  BY <1>2, <1>3, <1>5
<1> QED
  BY <1>6, <1>7, Zenon DEF b, m

\* What was cut in pieces and is put together again is what it was.
LEMMA JoinOfSplit ==
    ASSUME NEW X, NEW buf \in Seq(X), NEW lim \in Nat \ {0}
    PROVE  R!FlattenSeq(R!Split(buf, lim)) = buf
<1> DEFINE s == R!Split(buf, lim)
           n == R!Chunks(Len(buf), lim)
           q == R!FlattenSeq(s)
<1>0. Pieces(s, X, buf, lim)
  BY SplitIs
<1> HIDE DEF s
<1>1. /\ s \in Seq(Seq(X)) /\ Len(s) = n
      /\ \A c \in 1..n - 1 : Len(s[c]) = lim
      /\ n # 0 => Len(s[n]) = Len(buf) - (n - 1) * lim
      /\ \A c \in 1..n : \A j \in 1..Len(s[c]) :
            (c - 1) * lim + j \in 1..Len(buf) /\ s[c][j] = buf[(c - 1) * lim + j]
  BY <1>0, Zenon DEF Pieces
<1>2. n \in Nat /\ Len(buf) \in Nat /\ (Len(buf) = 0 <=> n = 0)
  <2>1. Len(buf) \in Nat
    OBVIOUS
  <2> QED
    BY <2>1, ChunksIs
<1> HIDE DEF n
<1>3. CASE n = 0
  <2>1. q = s
    BY <1>1, <1>3 DEF R!FlattenSeq
  <2> QED
    BY <1>1, <1>2, <1>3, <2>1, EmptySeq DEF s
<1>4. CASE n # 0
  <2>1. /\ q \in Seq(X) /\ Len(q) = (n - 1) * lim + Len(s[n])
        /\ \A c \in 1..n : \A j \in 1..Len(s[c]) : q[(c - 1) * lim + j] = s[c][j]
    <3>1. /\ s \in Seq(Seq(X)) /\ Len(s) # 0 /\ lim \in Nat
          /\ \A c \in 1..Len(s) - 1 : Len(s[c]) = lim
      BY <1>1, <1>4
    <3>2. /\ q \in Seq(X) /\ Len(q) = (Len(s) - 1) * lim + Len(s[Len(s)])
          /\ \A c \in 1..Len(s) : \A j \in 1..Len(s[c]) : q[(c - 1) * lim + j] = s[c][j]
      BY <3>1, FlattenIs
    <3> QED
      BY <1>1, <3>2, Zenon
  <2>2. Len(q) = Len(buf)
    <3> DEFINE b == (n - 1) * lim
    <3>1. b \in Int
      BY <1>2
    <3>2. Len(s[n]) = Len(buf) - b /\ Len(q) = b + Len(s[n])
      BY <1>1, <1>4, <2>1
    <3> HIDE DEF b, q
    <3> QED
      BY <1>2, <3>1, <3>2
  <2>3. ASSUME NEW k \in 1..Len(buf) PROVE q[k] = buf[k]
    <3>1. PICK c \in 1..n, j \in 1..lim :
             k = (c - 1) * lim + j /\ (c = n => j <= Len(buf) - (c - 1) * lim)
      BY <1>2, PlaceIs DEF n
    <3>2. j \in 1..Len(s[c])
      <4>1. CASE c = n
        <5>1. Len(s[c]) = Len(buf) - (c - 1) * lim /\ j <= Len(buf) - (c - 1) * lim
          BY <1>1, <1>4, <3>1, <4>1
        <5>2. Len(buf) - (c - 1) * lim \in Int
          BY <1>2
        <5> HIDE DEF q
        <5> QED
          BY <5>1, <5>2
      <4>2. CASE c # n
        BY <1>1, <1>2, <3>1, <4>2
      <4> QED
        BY <4>1, <4>2
    <3> QED
      BY <1>1, <2>1, <3>1, <3>2, Zenon
  <2> HIDE DEF q
  <2> QED
    BY <2>1, <2>2, <2>3, SeqEqual DEF q, s
<1> QED
  BY <1>3, <1>4

\* What was put together from pieces of one length is cut into them again.
LEMMA SplitOfJoin ==
    ASSUME NEW X, NEW s \in Seq(Seq(X)), NEW lim \in Nat \ {0},
           \A c \in 1..Len(s) : Len(s[c]) = lim
    PROVE  /\ R!FlattenSeq(s) \in Seq(X) /\ Len(R!FlattenSeq(s)) = Len(s) * lim
           /\ R!Split(R!FlattenSeq(s), lim) = s
<1> DEFINE n == Len(s)
           q == R!FlattenSeq(s)
           t == R!Split(q, lim)
<1>1. n \in Nat /\ \A c \in 1..n : s[c] \in Seq(X)
  OBVIOUS
<1>2. q \in Seq(X) /\ Len(q) = n * lim
  <2>1. CASE n = 0
    <3>1. q = s /\ s = <<>>
      BY <2>1, EmptySeq DEF R!FlattenSeq
    <3>2. 0 * lim = 0
      OBVIOUS
    <3> QED
      BY <2>1, <3>1, <3>2
  <2>2. CASE n # 0
    <3>1. (n - 1) * lim + lim = n * lim /\ n \in 1..n
      BY <1>1, <2>2
    <3>2. Len(s) # 0 /\ lim \in Nat /\ \A c \in 1..Len(s) - 1 : Len(s[c]) = lim
      BY <1>1, <2>2
    <3>3. q \in Seq(X) /\ Len(q) = (Len(s) - 1) * lim + Len(s[Len(s)])
      BY <3>2, FlattenIs
    <3> QED
      BY <3>1, <3>3
  <2> QED
    BY <2>1, <2>2
<1>3. \A c \in 1..n : \A j \in 1..lim : q[(c - 1) * lim + j] = s[c][j]
  <2>1. CASE n = 0
    BY <2>1
  <2>2. CASE n # 0
    <3>1. \A c \in 1..n : \A j \in 1..Len(s[c]) : q[(c - 1) * lim + j] = s[c][j]
      <4>1. Len(s) # 0 /\ lim \in Nat /\ \A c \in 1..Len(s) - 1 : Len(s[c]) = lim
        BY <1>1, <2>2
      <4> QED
        BY <4>1, FlattenIs
    <3> QED
      BY <3>1
  <2> QED
    BY <2>1, <2>2
<1> HIDE DEF q
<1>4. R!Chunks(Len(q), lim) = n
  <2> DEFINE m == R!Chunks(Len(q), lim)
  <2>1. Len(q) \in Nat
    BY <1>2
  <2>2. /\ m \in Int /\ m - 1 \in Int /\ n \in Int
        /\ (m - 1) * lim < n * lim /\ n * lim <= m * lim
    BY <1>1, <1>2, <2>1, ChunksIs
  <2> HIDE DEF m, n
  <2>3. m - 1 < n
    BY <2>2, Times
  <2>4. n <= m
    BY <2>2, Times
  <2> QED
    BY <2>2, <2>3, <2>4 DEF m
<1>5. /\ t \in Seq(Seq(X)) /\ Len(t) = n
      /\ \A c \in 1..n - 1 : Len(t[c]) = lim
      /\ n # 0 => Len(t[n]) = Len(q) - (n - 1) * lim
      /\ \A c \in 1..n : \A j \in 1..Len(t[c]) : t[c][j] = q[(c - 1) * lim + j]
  <2>1. Pieces(t, X, q, lim)
    BY <1>2, SplitIs
  <2> HIDE DEF t
  <2> QED
    BY <1>4, <2>1, Zenon DEF Pieces
<1> HIDE DEF t
<1>6. \A c \in 1..n : Len(t[c]) = lim
  <2>1. n # 0 => n * lim - (n - 1) * lim = lim
    BY <1>1
  <2>2. n # 0 => Len(t[n]) = lim
    BY <1>2, <1>5, <2>1
  <2>3. \A c \in 1..n : c = n \/ c \in 1..n - 1
    BY <1>1
  <2> QED
    BY <1>5, <2>2, <2>3
<1>7. ASSUME NEW c \in 1..n PROVE t[c] = s[c]
  <2>1. t[c] \in Seq(X) /\ s[c] \in Seq(X) /\ Len(t[c]) = Len(s[c])
    BY <1>1, <1>5, <1>6
  <2>2. \A j \in 1..Len(t[c]) : t[c][j] = s[c][j]
    BY <1>3, <1>5, <1>6
  <2> QED
    BY <2>1, <2>2, SeqEqual
<1>8. t = s
  BY <1>5, <1>7, SeqEqual
<1> QED
  BY <1>2, <1>8 DEF q, t

\* The lengths of a chunk and of what it becomes.
LEMMA Sizes ==
    ASSUME NEW bits \in Nat, ~(bits < 96)
    PROVE  /\ bits \div 8 - 11 \in Nat \ {0} /\ bits \div 8 \in Nat \ {0} /\ R!Size(bits) \in Nat \ {0}
           /\ bits % 8 = 0 => R!Size(bits) = bits \div 8
           /\ bits % 8 # 0 => R!Size(bits) = bits \div 8 + 1
  BY DEF R!Size

\* A chunk that was encrypted is a sequence of the key's size, which decrypts to it.
LEMMA OneChunk ==
    ASSUME NEW bits, R!Size(bits) \in Nat \ {0}, NEW chunk \in Seq(Bytes)
    PROVE  /\ R!EncryptPKCS1v15(bits, chunk) \in Seq(Seq(Bytes) \X Nat)
           /\ Len(R!EncryptPKCS1v15(bits, chunk)) = R!Size(bits)
           /\ R!DecryptPKCS1v15(bits, R!EncryptPKCS1v15(bits, chunk)) = chunk
<1> DEFINE z == R!Size(bits)
           e == R!EncryptPKCS1v15(bits, chunk)
<1>1. z \in Nat \ {0} /\ e = [j \in 1..z |-> <<chunk, j>>]
  BY DEF R!EncryptPKCS1v15
<1> HIDE DEF z, e
<1>2. e \in Seq(Seq(Bytes) \X Nat) /\ Len(e) = z /\ DOMAIN e = 1..z /\ \A j \in 1..z : e[j] = <<chunk, j>>
  BY <1>1
<1>3. 1 \in 1..z
  BY <1>1
<1>4. e[1][1] = chunk
  BY <1>2, <1>3
<1>5. R!DecryptPKCS1v15(bits, e) = chunk
  BY <1>2, <1>4, Zenon DEF R!DecryptPKCS1v15, z
<1> QED
  BY <1>2, <1>5 DEF z, e

\* What is decrypted is what was encrypted.
LEMMA ChunksMet == ChunkInput => ChunksMeet
<1> DEFINE bits == input.bits
           data == input.data
           secret == R!PublicEncrypt(bits, data)
           whole == bits % 8 = 0 \/ data = <<>>
<1> SUFFICES ASSUME bits \in Nat, data \in Seq(Bytes)
             PROVE  IF bits < 96 THEN secret = Failed
                    ELSE R!PrivateDecrypt(bits, secret) = IF whole THEN data ELSE Failed
  BY Zenon DEF ChunkInput, ChunksMeet
<1> HIDE DEF bits, data
<1>1. CASE bits < 96
  <2>1. bits \div 8 - 11 <= 0
    BY <1>1
  <2> QED
    BY <1>1, <2>1, Zenon DEF R!PublicEncrypt
<1>2. CASE ~(bits < 96)
  <2> DEFINE lim == bits \div 8 - 11
             d == bits \div 8
             z == R!Size(bits)
             s == R!Split(data, lim)
             enc == [c \in DOMAIN s |-> R!EncryptPKCS1v15(bits, s[c])]
  <2>1. /\ lim \in Nat \ {0} /\ d \in Nat \ {0} /\ z \in Nat \ {0} /\ ~(lim <= 0)
        /\ bits % 8 = 0 => z = d
        /\ bits % 8 # 0 => z = d + 1
    <3>1. /\ lim \in Nat \ {0} /\ d \in Nat \ {0} /\ z \in Nat \ {0}
          /\ bits % 8 = 0 => z = d
          /\ bits % 8 # 0 => z = d + 1
      BY <1>2, Sizes
    <3> HIDE DEF lim
    <3>2. ~(lim <= 0)
      BY <3>1
    <3> QED
      BY <3>1, <3>2
  <2>2. secret = R!FlattenSeq(enc)
    BY <2>1, Zenon DEF R!PublicEncrypt
  <2>3. R!FlattenSeq(s) = data /\ s \in Seq(Seq(Bytes))
    <3>1. lim \in Nat \ {0}
      BY <2>1
    <3> HIDE DEF lim
    <3> QED
      BY <3>1, JoinOfSplit, SplitIs DEF Pieces
  <2>4. Len(s) = 0 <=> data = <<>>
    <3>1. Len(s) = R!Chunks(Len(data), lim) /\ Len(data) \in Nat /\ (Len(data) = 0 <=> data = <<>>)
      <4>1. lim \in Nat \ {0}
        BY <2>1
      <4> HIDE DEF lim
      <4>2. Pieces(s, Bytes, data, lim)
        BY <4>1, SplitIs
      <4> HIDE DEF s
      <4> QED
        BY <4>2, EmptySeq DEF Pieces
    <3> QED
      BY <2>1, <3>1, ChunksIs
  <2> HIDE DEF lim, d, z, s, secret
  <2>5. /\ Len(s) \in Nat /\ DOMAIN s = 1..Len(s) /\ \A c \in 1..Len(s) : s[c] \in Seq(Bytes)
    BY <2>3
  <2>6. ASSUME NEW c \in 1..Len(s)
        PROVE  /\ enc[c] \in Seq(Seq(Bytes) \X Nat) /\ Len(enc[c]) = z
               /\ R!DecryptPKCS1v15(bits, enc[c]) = s[c]
    BY <2>1, <2>5, OneChunk DEF z
  <2>7. enc \in Seq(Seq(Seq(Bytes) \X Nat)) /\ Len(enc) = Len(s) /\ DOMAIN enc = 1..Len(s)
    BY <2>5, <2>6
  <2> HIDE DEF enc
  <2>8. /\ secret \in Seq(Seq(Bytes) \X Nat) /\ Len(secret) = Len(s) * z
        /\ R!Split(secret, z) = enc
    BY <2>1, <2>2, <2>6, <2>7, SplitOfJoin
  <2> DEFINE got_ == R!Split(secret, d)
             parts == [c \in DOMAIN got_ |-> R!DecryptPKCS1v15(bits, got_[c])]
  <2>9. R!PrivateDecrypt(bits, secret) =
            IF \E c \in DOMAIN parts : parts[c] = Failed THEN Failed ELSE R!FlattenSeq(parts)
    BY Zenon DEF R!PrivateDecrypt, d
  <2>10. CASE z = d \/ Len(s) = 0
    <3>1. got_ = enc
      <4>1. CASE z = d
        BY <2>8, <4>1
      <4>2. CASE Len(s) = 0
        <5>1. Len(secret) = 0
          BY <2>1, <2>8, <4>2
        <5>2. Pieces(got_, Seq(Bytes) \X Nat, secret, d)
          BY <2>1, <2>8, SplitIs
        <5>3. R!Chunks(0, d) = 0
          BY <2>1, ChunksIs
        <5> HIDE DEF got_
        <5>4. Len(got_) = 0 /\ got_ \in Seq(Seq(Seq(Bytes) \X Nat))
          BY <5>1, <5>2, <5>3 DEF Pieces
        <5> QED
          BY <2>7, <4>2, <5>4, EmptySeq
      <4> QED
        BY <2>10, <4>1, <4>2
    <3> HIDE DEF got_
    <3>2. parts = [c \in 1..Len(s) |-> s[c]]
      BY <2>6, <2>7, <3>1
    <3>3. parts = s
      BY <2>3, <3>2
    <3> HIDE DEF parts
    <3>4. ~ \E c \in DOMAIN parts : parts[c] = Failed
      BY <2>5, <3>3, PackagesAssumption
    <3>5. R!PrivateDecrypt(bits, secret) = data
      BY <2>3, <2>9, <3>3, <3>4, Zenon
    <3>6. whole
      <4>1. z = d => bits % 8 = 0
        BY <2>1
      <4> QED
        BY <2>4, <2>10, <4>1
    <3> QED
      BY <1>2, <3>5, <3>6
  <2>11. CASE ~(z = d \/ Len(s) = 0)
    <3>1. z = d + 1 /\ Len(s) \in Nat \ {0} /\ ~whole
      BY <2>1, <2>4, <2>5, <2>11
    <3>2. Pieces(got_, Seq(Bytes) \X Nat, secret, d)
      BY <2>1, <2>8, SplitIs
    <3> HIDE DEF got_
    <3>3. Len(secret) >= z
      <4>1. 1 \in Int /\ Len(s) \in Int /\ 1 <= Len(s) /\ 1 * z = z
        BY <2>1, <3>1
      <4>2. 1 * z <= Len(s) * z
        BY <2>1, <4>1, Times
      <4> QED
        BY <2>8, <4>1, <4>2
    <3>4. Len(got_) \in Nat /\ Len(secret) \in Nat /\ DOMAIN got_ = 1..Len(got_)
      BY <2>8, <3>2 DEF Pieces
    <3>5. Len(got_) # 0 /\ Len(got_) # 1
      <4>1. Len(secret) <= Len(got_) * d
        BY <2>1, <3>2, <3>4, ChunksIs DEF Pieces
      <4>2. 0 * d = 0 /\ 1 * d = d /\ Len(secret) > d /\ d > 0
        BY <2>1, <3>1, <3>3, <3>4
      <4> QED
        <5> DEFINE g == Len(got_)
        <5>1. g \in Nat /\ (g = 0 => Len(secret) <= 0) /\ (g = 1 => Len(secret) <= d)
          BY <3>4, <4>1, <4>2
        <5> HIDE DEF g
        <5>2. g # 0 /\ g # 1
          BY <2>1, <3>4, <4>2, <5>1
        <5> QED
          BY <5>2 DEF g
    <3>6. 1 \in 1..Len(got_) /\ Len(got_[1]) = d
      BY <3>2, <3>4, <3>5 DEF Pieces
    <3>7. parts[1] = Failed /\ 1 \in DOMAIN parts
      <4>1. Len(got_[1]) # R!Size(bits)
        BY <2>1, <3>1, <3>6 DEF z
      <4>2. R!DecryptPKCS1v15(bits, got_[1]) = Failed
        BY <4>1, Zenon DEF R!DecryptPKCS1v15
      <4> QED
        BY <3>4, <3>6, <4>2
    <3> HIDE DEF parts
    <3>8. R!PrivateDecrypt(bits, secret) = Failed
      BY <2>9, <3>7, Zenon
    <3> QED
      BY <1>2, <3>1, <3>8
  <2> QED
    BY <2>10, <2>11
<1> QED
  BY <1>1, <1>2

\* Data of any length is decrypted in the chunks it was encrypted in, for every
\* key with a whole number of bytes; for any other key decryption fails.
THEOREM ChunksAlwaysMeet == FairSpec => []ChunksMeet
  BY InputsKept, ChunksMet, PTL

-----------------------------------------------------------------------------
(* All of them.                                                            *)

\* The variables of the five state machines keep their ranges, for any bounds.
THEOREM TypesKept == FairSpec => []TypeOK
<1>1. AesInv => A!TypeOK
  BY DEF AesInv, AesType
<1>2. OtelInv => O!TypeOK
  BY DEF OtelInv
<1>3. TreeInv => T!TypeOK
  BY DEF TreeInv
<1>4. A!TypeOK /\ O!TypeOK /\ L!TypeOK /\ C!TypeOK /\ T!TypeOK => TypeOK
  BY DEF TypeOK
<1> QED
  BY AesKept, OtelKept, TreeKept, LifeTyped, LoginTyped, <1>1, <1>2, <1>3, <1>4, PTL
=============================================================================
