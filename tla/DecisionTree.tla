---------------------------- MODULE DecisionTree ----------------------------
(***************************************************************************)
(* pkg/branch_tree: a tree that is put together from nodes added in any    *)
(* order, each of which knows the names of its children, and the walk that *)
(* takes a decision, with the queue it edits while walking.                *)
(*                                                                         *)
(* The nodes a program adds form a forest; DecisionRule is the user's code *)
(* and answers what it likes.                                              *)
(***************************************************************************)
EXTENDS Integers, Sequences, SequencesExt, Lists

CONSTANTS
    MaxId,     \* bound: the nodes are 1..MaxId
    RootId     \* the ID of rootDecisionNode

\* What a program gives: a number of nodes, none of them named like the root.
ConstantsOK == MaxId \in Nat /\ RootId \notin 1..MaxId

Id == 1..MaxId
NoParent == 0

VARIABLES
    parent,   \* who names whom in its ChildrenList; a child is named after its parent
    exec,     \* the ExecNodes
    root,     \* is t.root there?
    added,    \* the keys of nodeMap but for the root
    roots,    \* rootDecisionNode.childList
    pc,       \* what the tree is used for
    queue,    \* the walk's queue
    size, i,  \* length of the level when it was begun, position in it
    level,    \* PrintTree: the IDs of the level so far
    printed,  \* PrintTree: the levels
    entered,  \* history: nodes whose rule said yes
    visited,  \* history: nodes the walk has looked at
    barred    \* history: nodes not yet looked at when a sibling was entered

shape == <<parent, exec>>
tree == <<root, added, roots>>
walk == <<queue, size, i>>
output == <<level, printed>>
history == <<entered, visited, barred>>
vars == <<shape, tree, pc, walk, output, history>>

\* ChildrenList of node n.
Kids(n) == IF n = RootId THEN roots
           ELSE Among([k \in Id |-> k], {k \in Id : parent[k] = n})
KidSet(n) == ToSet(Kids(n))
Siblings(n) == UNION {KidSet(p) : p \in {q \in Id \cup {RootId} : n \in KidSet(q)}}

TypeOK ==
    /\ parent \in [Id -> Id \cup {NoParent}] /\ exec \subseteq Id
    /\ root \in BOOLEAN /\ added \subseteq Id /\ roots \in Seq(Id)
    /\ pc \in {"build", "decide", "print", "done", "refused", "panic"}
    /\ queue \in Seq(Id \cup {RootId}) /\ size \in Nat /\ i \in Nat
    /\ level \in Seq(Id \cup {RootId}) /\ printed \in Seq(Seq(Id \cup {RootId}))
    /\ entered \subseteq Id \cup {RootId} /\ visited \subseteq Id \cup {RootId}
    /\ barred \subseteq Id \cup {RootId}

\* Any forest, any leaves that execute; a tree nobody has touched.
Init ==
    /\ parent \in {p \in [Id -> Id \cup {NoParent}] : \A n \in Id : p[n] < n}
    /\ exec \in SUBSET {n \in Id : \A k \in Id : parent[k] # n}
    /\ root = FALSE /\ added = {} /\ roots = <<>>
    /\ pc = "build"
    /\ queue = <<>> /\ size = 0 /\ i = 0
    /\ level = <<>> /\ printed = <<>>
    /\ entered = {} /\ visited = {} /\ barred = {}

-----------------------------------------------------------------------------
(* AddNode.                                                                *)

\* dfsTree: is node p named below n by a node that was added?
Below(p, top) ==
    LET search[n \in Id] ==
            n \in added \ exec
            /\ \E k \in KidSet(n) : k = p \/ search[k]
    IN  \E n \in ToSet(top) : search[n]

\* Mutant of AddNode: what waits under the root stays there.
AddNodeKeeping(p) ==
    /\ pc = "build"
    /\ root' = TRUE
    /\ added' = added \cup {p}
    /\ roots' = IF Below(p, roots) THEN Among(roots, Id \ {p})
                ELSE IF p \in ToSet(roots) THEN roots ELSE Append(roots, p)
    /\ UNCHANGED <<shape, pc, walk, output, history>>

\* A DecisionNode takes its children from the root.  The node goes under the
\* root unless an added node names it; adding it again changes nothing.
AddNode(p) ==
    /\ pc = "build"
    /\ root' = TRUE
    /\ added' = added \cup {p}
    /\ LET left == Among(roots, {k \in Id : parent[k] # p \/ p \in exec})
       IN  roots' = IF left # <<>> /\ Below(p, left) THEN Among(left, Id \ {p})
                    ELSE IF p \in ToSet(left) THEN left ELSE Append(left, p)
    /\ UNCHANGED <<shape, pc, walk, output, history>>

\* A Node that is neither is refused, after the root has been made.
AddOther ==
    /\ pc = "build"
    /\ root' = TRUE
    /\ UNCHANGED <<shape, added, roots, pc, walk, output, history>>

-----------------------------------------------------------------------------
(* Decision and levelOrderTree.                                            *)

\* Without a root Decision dereferences nil.
Decision ==
    /\ pc = "build"
    /\ pc' = IF ~root THEN "panic" ELSE IF roots = <<>> THEN "refused" ELSE "decide"
    /\ queue' = <<RootId>> /\ size' = 1 /\ i' = 0
    /\ UNCHANGED <<shape, tree, output, history>>

\* Mutant of Advance: positions are counted down.
AdvanceDown(q) ==
    /\ queue' = q
    /\ IF i + 1 < size THEN i' = i - 1 /\ UNCHANGED <<size, pc>>
       ELSE /\ i' = 0 /\ size' = Len(q)
            /\ pc' = IF q = <<>> THEN "done" ELSE pc

\* The walk goes on with queue q: the next position, the next level, or the end.
Advance(q) ==
    /\ queue' = q
    /\ IF i + 1 < size THEN i' = i + 1 /\ UNCHANGED <<size, pc>>
       ELSE /\ i' = 0 /\ size' = Len(q)
            /\ pc' = IF q = <<>> THEN "done" ELSE pc

Visiting(n) ==
    /\ pc = "decide"
    /\ queue # <<>> /\ n = Head(queue)
    /\ visited' = visited \cup {n}

\* What is left when size-1-i elements have been removed from the front and
\* the current one, unless it was among them.
EarlyExit ==
    IF i + 1 < size THEN SubSeq(queue, size - i, Len(queue)) ELSE Tail(queue)

\* Mutant of Enter: the children are queued whatever the rule says.
EnterAlways(n) ==
    /\ Visiting(n)
    /\ n \notin exec /\ n \in added \cup {RootId}
    /\ Len(queue) >= size - 1 - i
    /\ Advance(EarlyExit \o Kids(n))
    /\ entered' \in {entered, entered \cup {n}}
    /\ barred' = barred \cup (Siblings(n) \ visited')
    /\ UNCHANGED <<shape, tree, output>>

\* Mutant of Enter: the current element stays in the queue.
EnterAgain(n) ==
    /\ Visiting(n)
    /\ n \notin exec /\ n \in added \cup {RootId}
    /\ Advance(<<n>> \o Kids(n))
    /\ entered' = entered \cup {n}
    /\ UNCHANGED <<shape, tree, output, barred>>

\* The rule says yes: the level is cut short, the children are queued.
Enter(n) ==
    /\ Visiting(n)
    /\ n \notin exec /\ n \in added \cup {RootId}
    /\ Len(queue) >= size - 1 - i
    /\ Advance(EarlyExit \o Kids(n))
    /\ entered' = entered \cup {n}
    /\ barred' = barred \cup (Siblings(n) \ visited')
    /\ UNCHANGED <<shape, tree, output>>

\* The rule says no, or there is no such node.
Skip(n) ==
    /\ Visiting(n)
    /\ n # RootId /\ n \notin exec \cap added
    /\ Advance(Tail(queue))
    /\ UNCHANGED <<shape, tree, output, entered, barred>>

\* Do ends the decision.
Do(n) ==
    /\ Visiting(n)
    /\ n \in exec \cap added
    /\ pc' = "done"
    /\ UNCHANGED <<shape, tree, walk, output, entered, barred>>

\* The queue has run out in the middle of a level, before a visit or while it
\* is being cut short: Front() is nil.
NilFront ==
    /\ pc = "decide"
    /\ queue # <<>> => (Head(queue) \in added \ exec /\ Len(queue) < size - 1 - i)
    /\ pc' = "panic"
    /\ UNCHANGED <<shape, tree, walk, output, history>>

-----------------------------------------------------------------------------
(* PrintTree.                                                              *)

PrintTree ==
    /\ pc = "build"
    /\ pc' = "print"
    /\ queue' = <<RootId>> /\ size' = 1 /\ i' = 0
    /\ UNCHANGED <<shape, tree, output, history>>

\* nodeMap, which the first AddNode makes with the root in it.
Known == IF root THEN added \cup {RootId} ELSE {}

\* Mutant of PrintNode: levels are not told apart.
PrintNodeFlat(n) ==
    /\ pc = "print" /\ queue # <<>> /\ n = Head(queue)
    /\ n \in Known
    /\ Advance(Tail(queue) \o Kids(n))
    /\ level' = Append(level, n)
    /\ printed' = IF pc' = "done" THEN <<level'>> ELSE printed
    /\ UNCHANGED <<shape, tree, history>>

PrintNode(n) ==
    /\ pc = "print" /\ queue # <<>> /\ n = Head(queue)
    /\ n \in Known
    /\ Advance(Tail(queue) \o Kids(n))
    /\ IF i + 1 < size THEN level' = Append(level, n) /\ UNCHANGED printed
       ELSE level' = <<>> /\ printed' = Append(printed, Append(level, n))
    /\ UNCHANGED <<shape, tree, history>>

\* An unknown child is left where it is, and looked at again: from then on
\* every level is empty, and those are not written down here.
PrintUnknown(n) ==
    /\ pc = "print" /\ queue # <<>> /\ n = Head(queue)
    /\ n \notin Known
    /\ Advance(queue)
    /\ IF i + 1 < size \/ level = <<>> THEN UNCHANGED output
       ELSE level' = <<>> /\ printed' = Append(printed, level)
    /\ UNCHANGED <<shape, tree, history>>

-----------------------------------------------------------------------------
Walk ==
    \/ \E n \in Id \cup {RootId} : Enter(n) \/ Skip(n) \/ Do(n)
    \/ NilFront
    \/ \E n \in Id \cup {RootId} : PrintNode(n) \/ PrintUnknown(n)

Next ==
    \/ \E p \in Id : AddNode(p)
    \/ AddOther
    \/ Decision
    \/ PrintTree
    \/ Walk

Spec == Init /\ [][Next]_vars

\* A call in progress goes on: it is one goroutine that waits for nothing.
Fair == WF_vars(Walk)

-----------------------------------------------------------------------------
(* Properties.                                                             *)

\* AddNode, whatever the order: the root's children are the nodes that no
\* added decision node names, each of them once.
RootsAreParentless ==
    /\ ToSet(roots) = {n \in added : parent[n] \notin added}
    /\ \A j, k \in DOMAIN roots : roots[j] = roots[k] => j = k

\* Whatever a decision looks at, and the leaf it executes at last, lies below
\* nodes that all said yes; nothing is looked at twice.
OnlyBelowEntered ==
    /\ \A k \in visited \ {RootId} : \E n \in entered : k \in KidSet(n)
    /\ pc = "decide" => /\ ToSet(queue) \cap visited = {}
                        /\ \A j, k \in DOMAIN queue : queue[j] = queue[k] => j = k

\* The depth of a node in the tree as it stands.
Depth[n \in Id] == IF parent[n] \in added THEN 1 + Depth[parent[n]] ELSE 1

\* PrintTree answers the levels of the tree: every added node once, at its depth.
PrintsTheLevels ==
    (pc = "done" /\ printed # <<>>) =>
        /\ Head(printed) = <<RootId>>
        /\ \A d \in 1..Len(printed) - 1 :
              /\ ToSet(printed[d + 1]) = {n \in added : Depth[n] = d}
              /\ Len(printed[d + 1]) = Cardinality(ToSet(printed[d + 1]))
        /\ \A n \in added : Depth[n] < Len(printed)

\* A decision comes to an end; so does printing, if every child was added.
\* Neither is said by a counter: the loops run on a queue they feed themselves.
CallsEnd ==
    /\ pc = "decide" ~> pc \in {"done", "panic"}
    /\ (pc = "print" /\ root /\ \A n \in added \ exec : KidSet(n) \subseteq added)
          ~> pc = "done"

\* The comment at DecisionRule (node.go:11): true means that the siblings of
\* this node are not looked at any more.
SkipsSiblings == visited \cap barred = {}
=============================================================================
