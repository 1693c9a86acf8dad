----------------------------- MODULE OtelPlugin -----------------------------
(***************************************************************************)
(* db/otel_plugin.go: the hooks a gorm operation runs before and after its *)
(* statement.  A span travels in the Context of the gorm Statement, where  *)
(* the hook before puts it and where it stays.  The plugin's hook before   *)
(* is placed directly before gorm's own callback, so that BeforeCreate     *)
(* hooks and the saving of a belongs-to run ahead of it; its hook after is *)
(* the last of all.  Both leave room for operations inside an operation.   *)
(***************************************************************************)
EXTENDS Naturals, Sequences, SequencesExt

CONSTANTS
    MaxSpans,   \* bound: operations of a request
    MaxDepth    \* bound: operations inside one another

ConstantsOK == MaxSpans \in Nat /\ MaxDepth \in Nat

Root == 0       \* the request's own span, which the caller ends

VARIABLES
    stack,    \* operations under way, the innermost first: [ctx, phase, failed]
    spans,    \* spans begun: [parent, state, failed, late]; late is a history:
              \*   the span above had ended when this one was begun
    lost      \* history: spans of operations that ended in a panic

vars == <<stack, spans, lost>>

Span == 1..MaxSpans

TypeOK ==
    /\ stack \in Seq([ctx : 0..MaxSpans, phase : {"before", "within", "after"}, failed : BOOLEAN])
    /\ spans \in Seq([parent : 0..MaxSpans, state : {"open", "ended"}, failed : BOOLEAN,
                      late : BOOLEAN])
    /\ lost \subseteq Span /\ Len(spans) <= MaxSpans /\ Len(stack) <= MaxDepth

Init == stack = <<>> /\ spans = <<>> /\ lost = {}

\* Recording: SpanFromContext finds a span that has not ended.
Recording(ctx) == ctx # Root /\ spans[ctx].state = "open"

\* A hook of the user's, or gorm for an association, can be at work.
UserRuns == stack # <<>> /\ Head(stack).phase \in {"before", "within"}

\* gorm starts an operation of any of the six kinds that have the hooks, alone
\* or inside another.  Its Statement is a new one with the Context of the
\* operation around it, one used before, whose Context holds the span of its last
\* operation, or one of any other Context of the request: every span begun so far
\* is in one of these.
Begin ==
    /\ Len(stack) < MaxDepth /\ Len(spans) < MaxSpans
    /\ stack = <<>> \/ UserRuns
    /\ \E ctx \in {Root} \cup DOMAIN spans :
          stack' = <<[ctx |-> ctx, phase |-> "before", failed |-> FALSE]>> \o stack
    /\ UNCHANGED <<spans, lost>>

Started(ctx) ==
    [parent |-> ctx, state |-> "open", failed |-> FALSE, late |-> ctx # Root /\ ~Recording(ctx)]

\* Mutant of Before: the span does not go into the Statement.
BeforeLost ==
    /\ stack # <<>> /\ Head(stack).phase = "before"
    /\ Len(spans) < MaxSpans
    /\ spans' = Append(spans, Started(Head(stack).ctx))
    /\ stack' = [stack EXCEPT ![1].phase = "within"]
    /\ UNCHANGED lost

\* before: a span below the one in the Context, which it replaces there.
Before ==
    /\ stack # <<>> /\ Head(stack).phase = "before"
    /\ Len(spans) < MaxSpans
    /\ spans' = Append(spans, Started(Head(stack).ctx))
    /\ stack' = [stack EXCEPT ![1].phase = "within", ![1].ctx = Len(spans) + 1]
    /\ UNCHANGED lost

\* The statement itself; an error does not keep the later hooks from running.
Statement(fails) ==
    /\ stack # <<>> /\ Head(stack).phase = "within"
    /\ stack' = [stack EXCEPT ![1].phase = "after", ![1].failed = fails]
    /\ UNCHANGED <<spans, lost>>

\* after: the span found in the Context is ended, and stays there.
After ==
    /\ stack # <<>> /\ Head(stack).phase = "after"
    /\ spans' = IF ~Recording(Head(stack).ctx) THEN spans
                ELSE [spans EXCEPT ![Head(stack).ctx].state = "ended",
                                   ![Head(stack).ctx].failed = Head(stack).failed]
    /\ stack' = Tail(stack)
    /\ UNCHANGED lost

\* A panic in a statement or a hook of the user's passes the after hooks of the
\* operations up to the one whose hook recovers, or of all.
Panic ==
    /\ UserRuns
    /\ \E k \in DOMAIN stack :
          /\ lost' = lost \cup {stack[j].ctx : j \in {j \in 1..k : stack[j].phase # "before"}}
          /\ stack' = SubSeq(stack, k + 1, Len(stack))
    /\ UNCHANGED spans

Next == Panic \/ Begin \/ Before \/ (\E fails \in BOOLEAN : Statement(fails)) \/ After

Spec == Init /\ [][Next]_vars

-----------------------------------------------------------------------------
(* Properties.                                                             *)

IsOpen(s) == spans[s].state = "open"

\* Every operation ends the span it began and no other: the open spans are
\* those of the operations under way and of those that panicked.  And none ends
\* before a span below it that was begun while it was open, unless a panic has
\* kept that one from ending at all.
SpansNest ==
    /\ {s \in DOMAIN spans : IsOpen(s)}
          = lost \cup {stack[j].ctx : j \in {k \in DOMAIN stack : stack[k].phase # "before"}}
    /\ \A s \in DOMAIN spans : IsOpen(s) /\ s \notin lost /\ ~spans[s].late =>
          spans[s].parent = Root \/ IsOpen(spans[s].parent)
=============================================================================
