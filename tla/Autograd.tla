------------------------------ MODULE Autograd ------------------------------
(***************************************************************************)
(* Reverse-mode differentiation in candle-core: the graph recorded by the  *)
(* operations (op.rs, tensor.rs), the depth-first search that sorts it     *)
(* (Tensor::sorted_nodes) and the sweep that accumulates the gradients     *)
(* (Tensor::backward, GradStore).                                          *)
(*                                                                         *)
(* A tensor is identified with its position in the sequence graph: the     *)
(* arguments of a node are older than the node.  Its elements are          *)
(* abstracted to one integer, so that a derivative is an integer too.      *)
(***************************************************************************)
EXTENDS Integers, Sequences

CONSTANTS
  Kinds,       \* the operations that are used
  Muls,        \* the factors of Affine
  VarVal,      \* the value of every variable
  ConstVal,    \* the value of every constant
  MaxLeaves,   \* bound: variables and constants
  MaxNodes     \* bound: nodes of the graph

BinaryKinds == {"add", "sub", "mul", "scatter", "scatter_add"}
ViewKinds == {"view", "upsample", "custom_none", "unsupported"}
UnaryKinds == {"neg", "sqr", "step"} \cup ViewKinds
OtherKinds == {"affine", "cmp", "to_int", "to_float", "where_cond", "detach"}

ASSUME GraphAssumption ==
  /\ Kinds \subseteq BinaryKinds \cup UnaryKinds \cup OtherKinds
  /\ Muls \subseteq Int /\ VarVal \in Int /\ ConstVal \in Int
  /\ MaxLeaves \in Nat /\ MaxNodes \in Nat

VARIABLES
  graph,    \* graph[n]: the n-th tensor created
  phase,    \* "build", "walk", "sweep", "done", "failed" (Err), "panic"
  stack,    \* the calls of walk in progress, the innermost last
  seen,     \* already_seen: [node -> track_grad]
  nodes,    \* the vec built by walk, then reversed
  idx,      \* the element of nodes the sweep is at
  grads     \* GradStore: [node -> gradient]

vars == <<graph, phase, stack, seen, nodes, idx, grads>>

-----------------------------------------------------------------------------
(* The graph.                                                              *)

Root == Len(graph)

track_op(n) == graph[n].is_variable \/ graph[n].recorded

\* Mutant: the operation is recorded only if every argument is tracked.
NodeAllTracked(op, args, mul, int, val) ==
  [op |-> op, args |-> args, mul |-> mul, int |-> int, val |-> val, is_variable |-> FALSE,
   recorded |-> \A i \in 1 .. Len(args) : track_op(args[i])]

\* BackpropOp::new1/2/3: the operation is recorded if an argument is tracked.
\* recorded is what BackpropOp keeps; op and args describe the computation.
Node(op, args, mul, int, val) ==
  [op |-> op, args |-> args, mul |-> mul, int |-> int, val |-> val, is_variable |-> FALSE,
   recorded |-> \E i \in 1 .. Len(args) : track_op(args[i])]

\* A tensor without a recorded operation.
Leaf(op, args, var, val) ==
  [op |-> op, args |-> args, mul |-> 0, int |-> FALSE, val |-> val, is_variable |-> var,
   recorded |-> FALSE]

Floats == {n \in 1 .. Len(graph) : ~graph[n].int}
Ints == {n \in 1 .. Len(graph) : graph[n].int}

\* Mutant: the search goes through floor, round, ceil and sign.
NotWalkedButStep(n) ==
  \/ graph[n].is_variable
  \/ ~graph[n].recorded
  \/ graph[n].int
  \/ graph[n].op = "affine" /\ graph[n].mul = 0
  \/ graph[n].op = "to_float" /\ graph[graph[n].args[1]].int

\* The arguments that walk visits.
NotWalked(n) ==
  \/ graph[n].is_variable
  \/ ~graph[n].recorded
  \/ graph[n].int
  \/ graph[n].op = "step"
  \/ graph[n].op = "affine" /\ graph[n].mul = 0
  \/ graph[n].op = "to_float" /\ graph[graph[n].args[1]].int

WalkArgs(n) == IF NotWalked(n) THEN <<>> ELSE graph[n].args

Init ==
  /\ graph = <<>>
  /\ phase = "build"
  /\ stack = <<>>
  /\ seen = <<>>
  /\ nodes = <<>>
  /\ idx = 1
  /\ grads = <<>>

Create(node) ==
  /\ phase = "build"
  /\ Len(graph) < MaxNodes
  /\ graph' = Append(graph, node)
  /\ UNCHANGED <<phase, stack, seen, nodes, idx, grads>>

\* Leaves first: the order in which tensors are created does not matter.
NewLeaf ==
  /\ Len(graph) < MaxLeaves
  /\ \A n \in 1 .. Len(graph) : graph[n].op = "leaf"
  /\ \/ Create(Leaf("leaf", <<>>, TRUE, VarVal))
     \/ Create(Leaf("leaf", <<>>, FALSE, ConstVal))

BinaryVal(k, x, y) ==
  CASE k \in {"add", "scatter_add"} -> x + y
    [] k = "sub" -> x - y
    [] k = "mul" -> x * y
    [] k = "scatter" -> y

UnaryVal(k, x) == CASE k = "neg" -> -x [] k = "sqr" -> x * x [] OTHER -> x

\* scatter(init, indexes, src): the indexes are integers and never visited,
\* and the one element of init is the one they point at.
Binary ==
  \E k \in Kinds \cap BinaryKinds, l \in Floats, r \in Floats :
    Create(Node(k, <<l, r>>, 0, FALSE, BinaryVal(k, graph[l].val, graph[r].val)))

\* "step" stands for floor, round, ceil and sign; "view" for the operations
\* that move elements (reshape, transpose, copy, narrow, to_device, ...);
\* "custom_none" for a custom operation whose bwd returns None and
\* "unsupported" for one whose bwd is the default.
Unary ==
  \E k \in Kinds \cap UnaryKinds, a \in Floats :
    Create(Node(k, <<a>>, 0, FALSE, UnaryVal(k, graph[a].val)))

Affine ==
  /\ "affine" \in Kinds
  /\ \E a \in Floats, m \in Muls :
       Create(Node("affine", <<a>>, m, FALSE, m * graph[a].val))

\* The result is of type u8; only the left operand is recorded.
Cmp ==
  /\ "cmp" \in Kinds
  /\ \E a, b \in Floats :
       Create(Node("cmp", <<a>>, 0, TRUE, IF graph[a].val <= graph[b].val THEN 1 ELSE 0))

ToDType ==
  \/ /\ "to_int" \in Kinds
     /\ \E a \in Floats : Create(Node("to_int", <<a>>, 0, TRUE, graph[a].val))
  \/ /\ "to_float" \in Kinds
     /\ \E a \in Ints : Create(Node("to_float", <<a>>, 0, FALSE, graph[a].val))

WhereCond ==
  /\ "where_cond" \in Kinds
  /\ \E p \in Ints, t \in Floats, f \in Floats :
       Create(Node("where_cond", <<p, t, f>>, 0, FALSE,
                   IF graph[p].val # 0 THEN graph[t].val ELSE graph[f].val))

Detach ==
  /\ "detach" \in Kinds
  /\ \E a \in Floats : track_op(a) /\ Create(Leaf("detach", <<a>>, FALSE, graph[a].val))

-----------------------------------------------------------------------------
(* Tensor::sorted_nodes.                                                   *)

Frame(n) == [node |-> n, next |-> 1, track |-> graph[n].is_variable]

Top == stack[Len(stack)]

\* backward is called on the newest tensor.
Backward ==
  /\ phase = "build" /\ graph # <<>>
  /\ phase' = "walk"
  /\ stack' = <<Frame(Root)>>
  /\ UNCHANGED <<graph, seen, nodes, idx, grads>>

NextWalkArg == WalkArgs(Top.node)[Top.next]

\* walk is called for an argument not met before.
WalkDown ==
  /\ phase = "walk" /\ stack # <<>>
  /\ Top.next <= Len(WalkArgs(Top.node))
  /\ NextWalkArg \notin DOMAIN seen
  /\ stack' = Append(stack, Frame(NextWalkArg))
  /\ UNCHANGED <<graph, phase, seen, nodes, idx, grads>>

\* The track_grad of an argument is known: now or from an earlier visit.
WalkNext ==
  /\ phase = "walk" /\ stack # <<>>
  /\ Top.next <= Len(WalkArgs(Top.node))
  /\ NextWalkArg \in DOMAIN seen
  /\ stack' = [stack EXCEPT ![Len(stack)] =
                  [node |-> Top.node, next |-> Top.next + 1,
                   track |-> Top.track \/ seen[NextWalkArg]]]
  /\ UNCHANGED <<graph, phase, seen, nodes, idx, grads>>

\* Mutant: a node is pushed although no argument is tracked.
WalkUpAlways ==
  /\ phase = "walk" /\ stack # <<>>
  /\ Top.next > Len(WalkArgs(Top.node))
  /\ seen' = [n \in DOMAIN seen \cup {Top.node} |-> IF n = Top.node THEN Top.track ELSE seen[n]]
  /\ nodes' = Append(nodes, Top.node)
  /\ stack' = SubSeq(stack, 1, Len(stack) - 1)
  /\ UNCHANGED <<graph, phase, idx, grads>>

WalkUp ==
  /\ phase = "walk" /\ stack # <<>>
  /\ Top.next > Len(WalkArgs(Top.node))
  /\ seen' = [n \in DOMAIN seen \cup {Top.node} |-> IF n = Top.node THEN Top.track ELSE seen[n]]
  /\ nodes' = IF Top.track THEN Append(nodes, Top.node) ELSE nodes
  /\ stack' = SubSeq(stack, 1, Len(stack) - 1)
  /\ UNCHANGED <<graph, phase, idx, grads>>

\* Mutant: nodes.reverse() is missing.
StartSweepForward ==
  /\ phase = "walk" /\ stack = <<>>
  /\ phase' = "sweep"
  /\ idx' = 1
  /\ grads' = [n \in {Root} |-> 1]
  /\ UNCHANGED <<graph, stack, seen, nodes>>

\* nodes.reverse(), and the gradient of the root is one.
StartSweep ==
  /\ phase = "walk" /\ stack = <<>>
  /\ phase' = "sweep"
  /\ nodes' = [i \in 1 .. Len(nodes) |-> nodes[Len(nodes) + 1 - i]]
  /\ idx' = 1
  /\ grads' = [n \in {Root} |-> 1]
  /\ UNCHANGED <<graph, stack, seen>>

-----------------------------------------------------------------------------
(* Tensor::backward.                                                       *)

Current == nodes[idx]

Val(n) == graph[n].val

\* The arguments for which the arm of the operation calls grads.or_insert.
Credited(n) ==
  CASE graph[n].op = "where_cond" -> {2, 3}
    [] graph[n].op \in {"leaf", "detach", "step", "cmp", "custom_none"} -> {}
    [] OTHER -> 1 .. Len(graph[n].args)

\* The factor with which the arm passes the gradient on to the i-th argument.
Partial(n, i) ==
  LET a == graph[n].args
  IN  CASE graph[n].op = "sub"    -> IF i = 1 THEN 1 ELSE -1
        [] graph[n].op = "mul"    -> Val(a[3 - i])
        [] graph[n].op = "neg"    -> -1
        [] graph[n].op = "sqr"    -> 2 * Val(a[1])
        [] graph[n].op = "affine" -> graph[n].mul
        [] graph[n].op = "where_cond" -> IF (Val(a[1]) # 0) = (i = 2) THEN 1 ELSE 0
        [] graph[n].op = "scatter_add" -> IF i = 1 THEN 0 ELSE 1
        [] OTHER -> 1

\* Mutant: the arms of the element-moving operations assign too.
BaseOverwrites(gs, n, m) == IF m \in DOMAIN gs /\ graph[n].op # "view" THEN gs[m] ELSE 0

\* The arms of UpsampleNearest1D and 2D assign the gradient, the others add it.
Base(gs, n, m) == IF m \in DOMAIN gs /\ graph[n].op # "upsample" THEN gs[m] ELSE 0

Share(n, g, m, i) ==
  IF i \in Credited(n) /\ graph[n].args[i] = m THEN g * Partial(n, i) ELSE 0

Shares(n, g, m) == Share(n, g, m, 1) + Share(n, g, m, 2) + Share(n, g, m, 3)

CreditedArgs(n) == {graph[n].args[i] : i \in Credited(n)}

\* One arm: or_insert and *sum_grad = sum_grad.add(..) for each argument.
Accumulate(gs, n, g) ==
  [m \in DOMAIN gs \cup CreditedArgs(n) |->
     IF m \in CreditedArgs(n) THEN Base(gs, n, m) + Shares(n, g, m) ELSE gs[m]]

Without(gs, n) == [m \in DOMAIN gs \ {n} |-> gs[m]]

\* A variable keeps its gradient.
SkipVariable ==
  /\ phase = "sweep" /\ idx <= Len(nodes)
  /\ graph[Current].is_variable
  /\ idx' = idx + 1
  /\ UNCHANGED <<graph, phase, stack, seen, nodes, grads>>

Propagate ==
  /\ phase = "sweep" /\ idx <= Len(nodes)
  /\ ~graph[Current].is_variable
  /\ Current \in DOMAIN grads
  /\ graph[Current].op # "unsupported"
  /\ grads' = Accumulate(Without(grads, Current), Current, grads[Current])
  /\ idx' = idx + 1
  /\ UNCHANGED <<graph, phase, stack, seen, nodes>>

\* Err(BackwardNotSupported).
NotSupported ==
  /\ phase = "sweep" /\ idx <= Len(nodes)
  /\ ~graph[Current].is_variable
  /\ Current \in DOMAIN grads
  /\ graph[Current].op = "unsupported"
  /\ phase' = "failed"
  /\ UNCHANGED <<graph, stack, seen, nodes, idx, grads>>

\* .expect("candle internal error - grad not populated")
Panic ==
  /\ phase = "sweep" /\ idx <= Len(nodes)
  /\ ~graph[Current].is_variable
  /\ Current \notin DOMAIN grads
  /\ phase' = "panic"
  /\ UNCHANGED <<graph, stack, seen, nodes, idx, grads>>

Finish ==
  /\ phase = "sweep" /\ idx > Len(nodes)
  /\ phase' = "done"
  /\ UNCHANGED <<graph, stack, seen, nodes, idx, grads>>

Build ==
  NewLeaf \/ Binary \/ Unary \/ Affine \/ Cmp \/ ToDType \/ WhereCond \/ Detach \/ Backward

Run ==
  WalkDown \/ WalkNext \/ WalkUp \/ StartSweep \/ SkipVariable \/ Propagate
    \/ NotSupported \/ Panic \/ Finish

Next == Build \/ Run

Spec == Init /\ [][Next]_vars

-----------------------------------------------------------------------------
(* Properties.                                                             *)

Ids == 1 .. Len(graph)
AllOps == BinaryKinds \cup UnaryKinds \cup OtherKinds \cup {"leaf"}
Phases == {"build", "walk", "sweep", "done", "failed", "panic"}
Swept == phase \in {"sweep", "done", "failed", "panic"}

\* A node is a DAG node: its arguments are older.
NodeOK(n) ==
  /\ graph[n].op \in AllOps
  /\ graph[n].val \in Int /\ graph[n].mul \in Int
  /\ graph[n].int \in BOOLEAN /\ graph[n].is_variable \in BOOLEAN
  /\ graph[n].recorded \in BOOLEAN
  /\ Len(graph[n].args) <= 3
  /\ \A i \in 1 .. Len(graph[n].args) : graph[n].args[i] \in 1 .. n - 1

FrameOK(f) ==
  /\ f.node \in Ids /\ f.track \in BOOLEAN
  /\ f.next \in 1 .. Len(WalkArgs(f.node)) + 1

\* Type invariant.  The calls of walk nest at most as deep as the graph, and
\* every tensor id in nodes, already_seen and the GradStore is a node's.
TypeOK ==
  /\ phase \in Phases
  /\ Len(graph) <= MaxNodes /\ \A n \in Ids : NodeOK(n)
  /\ Len(stack) <= Len(graph) /\ \A k \in 1 .. Len(stack) : FrameOK(stack[k])
  /\ DOMAIN seen \subseteq Ids /\ \A n \in DOMAIN seen : seen[n] \in BOOLEAN
  /\ Len(nodes) <= Len(graph) /\ \A i \in 1 .. Len(nodes) : nodes[i] \in Ids
  /\ idx \in 1 .. Len(nodes) + 1
  /\ DOMAIN grads \subseteq Ids /\ \A n \in DOMAIN grads : grads[n] \in Int

VisitedArgs(n) == {WalkArgs(n)[i] : i \in 1 .. Len(WalkArgs(n))}

\* The nodes that a variable influences through differentiable operations.
Tracked ==
  LET t[n \in Ids] == graph[n].is_variable \/ \E m \in VisitedArgs(n) : t[m]
  IN  {n \in Ids : t[n]}

\* The nodes the result is computed from.
Ancestors ==
  LET a[n \in Ids] == n = Root \/ \E m \in n + 1 .. Root : n \in VisitedArgs(m) /\ a[m]
  IN  {n \in Ids : a[n]}

\* "all the nodes that lead to this value in a topologically sorted vec, the
\* first elements having dependencies on the latter ones" (backprop.rs:32):
\* once sorted, nodes holds each tracked ancestor of the result exactly once,
\* and every node before the arguments it depends on.
DependenciesLater ==
  /\ \A i, j \in 1 .. Len(nodes) : nodes[i] = nodes[j] => i = j
  /\ \A i, j \in 1 .. Len(nodes) : nodes[j] \in VisitedArgs(nodes[i]) => i < j

TopologicalOrder == Swept => DependenciesLater

SortedNodes ==
  Swept => TopologicalOrder /\ {nodes[i] : i \in 1 .. Len(nodes)} = Tracked \cap Ancestors

\* A custom operation whose bwd returned None has been passed.
ReturnedNone ==
  \E i \in 1 .. Len(nodes) : i < idx /\ graph[nodes[i]].op = "custom_none"

\* The .expect of backward (backprop.rs:175): when the sweep reaches a node its
\* gradient has been populated by the nodes that depend on it.  It fails only
\* below a custom operation that gave no gradient.
GradPopulated == phase = "panic" => ReturnedNone

\* The derivative of the result with respect to variable v, computed forward
\* from the definition of each operation.
Derivative(v) ==
  LET d[n \in Ids] ==
        LET a == graph[n].args
            x == IF Len(a) >= 1 THEN d[a[1]] ELSE 0
            y == IF Len(a) >= 2 THEN d[a[2]] ELSE 0
        IN  CASE n = v -> 1
              [] n # v /\ graph[n].op \in {"leaf", "detach", "step", "cmp", "to_int", "custom_none"} -> 0
              [] graph[n].op \in {"add", "scatter_add"} -> x + y
              [] graph[n].op = "sub" -> x - y
              [] graph[n].op = "mul" -> x * Val(a[2]) + y * Val(a[1])
              [] graph[n].op = "scatter" -> y
              [] graph[n].op = "neg" -> -x
              [] graph[n].op = "sqr" -> 2 * Val(a[1]) * x
              [] graph[n].op = "affine" -> graph[n].mul * x
              [] graph[n].op = "where_cond" -> IF Val(a[1]) # 0 THEN y ELSE d[a[3]]
              [] graph[n].op \in {"view", "upsample", "unsupported", "to_float"} -> x
  IN  d[Root]

Variables == {n \in Ids : graph[n].is_variable}

\* What backward returns: the gradient stored for a variable is the derivative
\* of the result with respect to it, however the paths between the two share
\* nodes, and a variable without a gradient has no influence (GradStore::get).
\* No gradient of an intermediate tracked node is left in the store.
GradientsCorrect ==
  phase = "done" =>
    /\ \A v \in Variables :
         Derivative(v) = IF v \in DOMAIN grads THEN grads[v] ELSE 0
    /\ \A i \in 1 .. Len(nodes) : graph[nodes[i]].is_variable \/ nodes[i] \notin DOMAIN grads

\* Once the sweep has passed a node nothing more is added to its gradient:
\* the gradient it passed on, or the one a variable keeps, was complete.
PassedGradUnchanged ==
  phase = "sweep" =>
    \A i \in 1 .. idx - 1 :
      LET n == nodes[i]
      IN  /\ n \in DOMAIN grads' <=> n \in DOMAIN grads
          /\ n \in DOMAIN grads => grads'[n] = grads[n]

FinalGrads == [][PassedGradUnchanged]_vars
=============================================================================
