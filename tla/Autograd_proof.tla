--------------------------- MODULE Autograd_proof ---------------------------
(***************************************************************************)
(* Proofs about Autograd, for graphs of every size over every set of       *)
(* kinds: the vector sorted_nodes returns is topologically sorted and      *)
(* complete, no gradient changes after the sweep has used it, the sweep    *)
(* always finds the gradient it needs, unless a custom operation returns   *)
(* None, and the gradients it ends with are the derivatives, unless it     *)
(* meets one of the three operations whose arms do not add the gradient    *)
(* that their operation calls for (ExactArms).                             *)
(***************************************************************************)
EXTENDS Autograd, SequenceTheorems, WellFoundedInduction, TLAPS

-----------------------------------------------------------------------------
(* The inductive invariant.                                                *)

NodeType ==
  [op : AllOps, args : Seq(Nat), mul : Int, int : BOOLEAN, val : Int,
   is_variable : BOOLEAN, recorded : BOOLEAN]

FrameType == [node : Nat, next : Nat, track : BOOLEAN]

\* What the operations that create a node ensure of its record.
WellFormed(n) ==
  /\ Len(graph[n].args) <= 3
  /\ \A i \in 1 .. Len(graph[n].args) : graph[n].args[i] \in 1 .. n - 1
  /\ graph[n].is_variable => ~graph[n].int
  /\ graph[n].op = "where_cond" => Len(graph[n].args) = 3 /\ graph[graph[n].args[1]].int
  /\ graph[n].op = "leaf" => Len(graph[n].args) = 0
  /\ graph[n].op = "detach" => ~graph[n].recorded
  /\ graph[n].op = "cmp" => graph[n].int

GraphOK == graph \in Seq(NodeType) /\ \A n \in Ids : WellFormed(n)

NotStarted == phase = "build" => stack = <<>> /\ nodes = <<>> /\ DOMAIN seen = {}

Types ==
  /\ phase \in Phases
  /\ stack \in Seq(FrameType)
  /\ nodes \in Seq(Nat)
  /\ idx \in Nat \ {0}

\* already_seen is closed under the arguments that are visited, and maps a
\* node to whether it depends on a variable; nodes holds those that do.
SeenOK ==
  /\ DOMAIN seen \subseteq Ids
  /\ \A n \in DOMAIN seen :
       /\ seen[n] \in BOOLEAN
       /\ VisitedArgs(n) \subseteq DOMAIN seen
       /\ seen[n] <=> graph[n].is_variable \/ \E m \in VisitedArgs(n) : seen[m]
       /\ seen[n] => \E i \in 1 .. Len(nodes) : nodes[i] = n
  /\ \A i \in 1 .. Len(nodes) : nodes[i] \in DOMAIN seen /\ seen[nodes[i]]

\* A call in progress has seen the arguments before next and is waiting for
\* the call above it, which is for the argument at next.
WaitingOK(k) ==
  /\ stack[k].node \in Ids \ DOMAIN seen
  /\ stack[k].next \in 1 .. Len(WalkArgs(stack[k].node)) + 1
  /\ \A i \in 1 .. stack[k].next - 1 : WalkArgs(stack[k].node)[i] \in DOMAIN seen
  /\ stack[k].track <=>
       \/ graph[stack[k].node].is_variable
       \/ \E i \in 1 .. stack[k].next - 1 : seen[WalkArgs(stack[k].node)[i]]
  /\ k = 1 => stack[k].node = Root
  /\ k < Len(stack) =>
       /\ stack[k].next <= Len(WalkArgs(stack[k].node))
       /\ WalkArgs(stack[k].node)[stack[k].next] = stack[k + 1].node

StackOK ==
  /\ \A k \in 1 .. Len(stack) : WaitingOK(k)
  /\ \A j, k \in 1 .. Len(stack) : j < k => stack[k].node < stack[j].node
  /\ stack # <<>> => phase = "walk"

OnStack(n) == \E k \in 1 .. Len(stack) : stack[k].node = n

\* Every node seen, but for the root, was visited for a node that uses it.
HasParent(n) == \E p \in Ids : n \in VisitedArgs(p) /\ (p \in DOMAIN seen \/ OnStack(p))

ParentsOK == \A n \in DOMAIN seen : n = Root \/ HasParent(n)

\* Before nodes.reverse() a node comes after the arguments it depends on.
DependenciesEarlier ==
  /\ \A i, j \in 1 .. Len(nodes) : nodes[i] = nodes[j] => i = j
  /\ \A i, j \in 1 .. Len(nodes) : nodes[j] \in VisitedArgs(nodes[i]) => j < i

OrderOK ==
  /\ phase \in {"build", "walk"} => DependenciesEarlier
  /\ Swept => DependenciesLater

IInv == GraphOK /\ NotStarted /\ Types /\ SeenOK /\ StackOK /\ ParentsOK /\ OrderOK

-----------------------------------------------------------------------------
(* Lemmas about the graph.                                                 *)

\* walk only visits older nodes.
LEMMA VisitedOlder ==
  ASSUME GraphOK, NEW n \in Ids
  PROVE  /\ VisitedArgs(n) \subseteq 1 .. n - 1
         /\ VisitedArgs(n) \subseteq Ids
         /\ WalkArgs(n) \in Seq(Nat)
         /\ graph[n].int => VisitedArgs(n) = {}
         /\ graph[n].is_variable => VisitedArgs(n) = {}
         /\ Len(WalkArgs(n)) \in Nat
<1>0. graph[n] \in NodeType /\ WellFormed(n) /\ n \in Nat /\ Len(graph) \in Nat
  BY DEF GraphOK, Ids
<1>1. CASE NotWalked(n)
  <2>1. WalkArgs(n) = <<>> /\ VisitedArgs(n) = {}
    BY <1>1 DEF WalkArgs, VisitedArgs
  <2> QED BY <2>1
<1>2. CASE ~NotWalked(n)
  <2>1. WalkArgs(n) = graph[n].args /\ ~graph[n].int /\ ~graph[n].is_variable
    BY <1>2 DEF WalkArgs, NotWalked
  <2>2. graph[n].args \in Seq(Nat)
    BY <1>0 DEF NodeType
  <2>3. VisitedArgs(n) \subseteq 1 .. n - 1
    BY <2>1, <1>0 DEF VisitedArgs, WellFormed
  <2>4. 1 .. n - 1 \subseteq Ids
    BY <1>0 DEF Ids
  <2> QED BY <2>1, <2>2, <2>3, <2>4
<1> QED BY <1>1, <1>2

\* The arm of an operation credits every argument that can be tracked.
LEMMA VisitedAreCredited ==
  ASSUME GraphOK, NEW n \in Ids, NEW m \in VisitedArgs(n), ~graph[m].int,
         graph[n].op # "custom_none"
  PROVE  m \in CreditedArgs(n)
<1>1. graph[n] \in NodeType /\ WellFormed(n)
  BY DEF GraphOK, Ids
<1>2. PICK i \in 1 .. Len(WalkArgs(n)) : m = WalkArgs(n)[i]
  BY DEF VisitedArgs
<1>3. ~NotWalked(n) /\ WalkArgs(n) = graph[n].args
  BY <1>2 DEF WalkArgs
<1>4. graph[n].recorded /\ ~graph[n].int /\ graph[n].op # "step"
  BY <1>3 DEF NotWalked
<1>5. i \in 1 .. Len(graph[n].args) /\ graph[n].args[i] = m
  BY <1>2, <1>3
<1>6. graph[n].op \notin {"leaf", "detach", "step", "cmp", "custom_none"}
  BY <1>1, <1>4, <1>5 DEF WellFormed, NodeType
<1>7. CASE graph[n].op = "where_cond"
  <2>1. i # 1 /\ i \in 1 .. 3
    BY <1>1, <1>5, <1>7 DEF WellFormed
  <2>2. i \in Credited(n)
    BY <2>1, <1>7 DEF Credited
  <2> QED BY <2>2, <1>5 DEF CreditedArgs
<1>8. CASE graph[n].op # "where_cond"
  <2>1. Credited(n) = 1 .. Len(graph[n].args)
    BY <1>6, <1>8 DEF Credited
  <2> QED BY <2>1, <1>5 DEF CreditedArgs
<1> QED BY <1>7, <1>8

\* An operation whose arguments are visited credits no other node.
LEMMA CreditedAreVisited ==
  ASSUME GraphOK, NEW n \in Ids, VisitedArgs(n) # {}
  PROVE  CreditedArgs(n) \subseteq VisitedArgs(n)
<1>1. graph[n] \in NodeType /\ WellFormed(n)
  BY DEF GraphOK, Ids
<1>2. WalkArgs(n) = graph[n].args
  BY DEF VisitedArgs, WalkArgs
<1>3. Credited(n) \subseteq 1 .. Len(graph[n].args)
  <2>1. CASE graph[n].op = "where_cond"
    <3>1. Credited(n) = {2, 3}
      BY <2>1 DEF Credited
    <3>2. Len(graph[n].args) = 3
      BY <2>1, <1>1 DEF WellFormed
    <3> QED BY <3>1, <3>2
  <2>2. CASE graph[n].op # "where_cond"
    BY <2>2 DEF Credited
  <2> QED BY <2>1, <2>2
<1> QED BY <1>2, <1>3 DEF CreditedArgs, VisitedArgs

-----------------------------------------------------------------------------
(* Building the graph.                                                     *)

\* What a new record must satisfy to be well-formed at the end of the graph.
Fits(node) ==
  /\ node \in NodeType
  /\ Len(node.args) <= 3
  /\ \A i \in 1 .. Len(node.args) : node.args[i] \in Ids
  /\ node.is_variable => ~node.int
  /\ node.op = "where_cond" => Len(node.args) = 3 /\ graph[node.args[1]].int
  /\ node.op = "leaf" => Len(node.args) = 0
  /\ node.op = "detach" => ~node.recorded
  /\ node.op = "cmp" => node.int

LEMMA CreatePreserves ==
  ASSUME IInv, NEW node, Fits(node), Create(node)
  PROVE  IInv'
<1>0. /\ phase = "build" /\ graph' = Append(graph, node)
      /\ UNCHANGED <<phase, stack, seen, nodes, idx, grads>>
  BY DEF Create
<1>1. stack = <<>> /\ nodes = <<>> /\ DOMAIN seen = {}
  BY <1>0 DEF IInv, NotStarted
<1>2. GraphOK'
  <2>1. graph \in Seq(NodeType) /\ node \in NodeType /\ Len(graph) \in Nat
    BY DEF IInv, GraphOK, Fits
  <2>2. graph' \in Seq(NodeType) /\ Len(graph') = Len(graph) + 1
    BY <2>1, <1>0
  <2>3. \A n \in Ids : graph'[n] = graph[n]
    BY <2>1, <1>0 DEF Ids
  <2>4. graph'[Len(graph) + 1] = node
    BY <2>1, <1>0
  <2>5. ASSUME NEW n \in Ids
        PROVE  WellFormed(n)'
    <3>1. WellFormed(n) /\ graph'[n] = graph[n] /\ graph[n] \in NodeType /\ n \in Nat
      BY <2>1, <2>3 DEF IInv, GraphOK, Ids
    <3>2. graph[n].op = "where_cond" => graph'[graph[n].args[1]] = graph[graph[n].args[1]]
      <4>1. SUFFICES ASSUME graph[n].op = "where_cond"
                     PROVE  graph[n].args[1] \in Ids
        BY <2>3
      <4>2. Len(graph[n].args) = 3 /\ 1 \in 1 .. 3
        BY <4>1, <3>1 DEF WellFormed
      <4>3. graph[n].args[1] \in 1 .. n - 1
        BY <4>2, <3>1 DEF WellFormed
      <4> QED BY <4>3, <2>1, <3>1 DEF Ids
    <3> QED BY <3>1, <3>2 DEF WellFormed
  <2>6. ASSUME NEW n, n = Len(graph) + 1
        PROVE  WellFormed(n)'
    <3>1. graph'[n] = node /\ Fits(node)
      BY <2>4, <2>6
    <3>2. node.op = "where_cond" => graph'[node.args[1]] = graph[node.args[1]]
      <4>1. SUFFICES ASSUME node.op = "where_cond"
                     PROVE  node.args[1] \in Ids
        BY <2>3
      <4>2. Len(node.args) = 3 /\ 1 \in 1 .. 3
        BY <4>1, <3>1 DEF Fits
      <4> QED BY <4>2, <3>1 DEF Fits
    <3>3. \A i \in 1 .. Len(node.args) : node.args[i] \in 1 .. n - 1
      BY <2>1, <2>6, <3>1 DEF Fits, Ids
    <3> QED BY <3>1, <3>2, <3>3 DEF Fits, WellFormed
  <2>7. \A n \in Ids' : n \in Ids \/ n = Len(graph) + 1
    BY <2>1, <2>2 DEF Ids
  <2> QED BY <2>2, <2>5, <2>6, <2>7 DEF GraphOK
<1>3. NotStarted' /\ Types'
  BY <1>0 DEF IInv, NotStarted, Types
<1>4. SeenOK' /\ ParentsOK'
  BY <1>0, <1>1 DEF SeenOK, ParentsOK
<1>5. StackOK'
  BY <1>0, <1>1 DEF StackOK
<1>6. OrderOK'
  <2>1. nodes' = <<>> /\ phase' = "build"
    BY <1>0, <1>1
  <2>2. DependenciesEarlier'
    BY <2>1 DEF DependenciesEarlier
  <2> QED BY <2>1, <2>2 DEF OrderOK, Swept
<1> QED BY <1>2, <1>3, <1>4, <1>5, <1>6 DEF IInv

\* The parameters with which the operations create a record.
Params(op, args, mul, int, val) ==
  /\ op \in AllOps \ {"leaf", "detach"}
  /\ args \in Seq(Nat) /\ mul \in Int /\ int \in BOOLEAN /\ val \in Int
  /\ Len(args) <= 3 /\ \A i \in 1 .. Len(args) : args[i] \in Ids
  /\ op = "where_cond" => Len(args) = 3 /\ graph[args[1]].int
  /\ op = "cmp" => int

LEMMA NodeFits ==
  ASSUME NEW op, NEW args, NEW mul, NEW int, NEW val, Params(op, args, mul, int, val)
  PROVE  Fits(Node(op, args, mul, int, val))
<1> DEFINE node == Node(op, args, mul, int, val)
<1>1. /\ node.op = op /\ node.args = args /\ node.int = int /\ node.is_variable = FALSE
      /\ node.recorded \in BOOLEAN /\ node.mul = mul /\ node.val = val
  BY DEF Node, Params
<1>2. node \in NodeType
  BY DEF Node, NodeType, Params
<1> HIDE DEF node
<1>3. Fits(node)
  BY <1>1, <1>2 DEF Fits, Params
<1> QED BY <1>3 DEF node

LEMMA BuildPreserves ==
  ASSUME IInv, Build
  PROVE  IInv' \/ Backward
<1>0. GraphOK /\ graph \in Seq(NodeType) /\ Len(graph) \in Nat
  BY DEF IInv, GraphOK
<1>1. \A n \in Ids : n \in Nat /\ graph[n].val \in Int
  <2>1. \A n \in Ids : n \in Nat /\ graph[n] \in NodeType
    BY <1>0 DEF Ids
  <2> QED BY <2>1 DEF NodeType
<1>2. Floats \subseteq Ids /\ Ints \subseteq Ids /\ \A n \in Ints : graph[n].int
  BY DEF Floats, Ints, Ids
<1>3. CASE NewLeaf
  <2>1. \A var \in BOOLEAN : \A val \in Int : Fits(Leaf("leaf", <<>>, var, val))
    <3>1. SUFFICES ASSUME NEW var \in BOOLEAN, NEW val \in Int
                   PROVE  Fits(Leaf("leaf", <<>>, var, val))
      OBVIOUS
    <3>2. Leaf("leaf", <<>>, var, val) \in NodeType /\ Leaf("leaf", <<>>, var, val).op = "leaf"
          /\ Leaf("leaf", <<>>, var, val).args = <<>> /\ Leaf("leaf", <<>>, var, val).int = FALSE
      BY DEF Leaf, NodeType, AllOps
    <3> QED BY <3>2 DEF Fits
  <2>2. \E var \in BOOLEAN : \E val \in Int : Create(Leaf("leaf", <<>>, var, val))
    BY <1>3, GraphAssumption DEF NewLeaf
  <2>3. PICK var \in BOOLEAN, val \in Int : Create(Leaf("leaf", <<>>, var, val))
    BY <2>2
  <2> QED BY <2>1, <2>3, CreatePreserves
<1>4. CASE Binary
  <2>1. PICK k \in Kinds \cap BinaryKinds, l \in Floats, r \in Floats :
          Create(Node(k, <<l, r>>, 0, FALSE, BinaryVal(k, graph[l].val, graph[r].val)))
    BY <1>4 DEF Binary
  <2> DEFINE val == BinaryVal(k, graph[l].val, graph[r].val)
  <2>2. val \in Int
    BY <1>1, <1>2 DEF BinaryVal, BinaryKinds
  <2> HIDE DEF val
  <2>3. k \in AllOps /\ k \notin {"leaf", "detach", "where_cond", "cmp", "custom_none"}
    BY DEF BinaryKinds, AllOps
  <2>4. <<l, r>> \in Seq(Nat) /\ Len(<<l, r>>) <= 3
        /\ \A i \in 1 .. Len(<<l, r>>) : <<l, r>>[i] \in Ids
    BY <1>1, <1>2
  <2>5. Params(k, <<l, r>>, 0, FALSE, val)
    BY <1>0, <2>2, <2>3, <2>4 DEF Params
  <2>7. Fits(Node(k, <<l, r>>, 0, FALSE, val))
    BY <2>5, NodeFits
  <2> QED BY <2>1, <2>7, CreatePreserves DEF val
<1>5. CASE Unary
  <2>1. PICK k \in Kinds \cap UnaryKinds, a \in Floats :
          Create(Node(k, <<a>>, 0, FALSE, UnaryVal(k, graph[a].val)))
    BY <1>5 DEF Unary
  <2> DEFINE val == UnaryVal(k, graph[a].val)
  <2>2. val \in Int
    BY <1>1, <1>2 DEF UnaryVal
  <2> HIDE DEF val
  <2>3. k \in AllOps /\ k \notin {"leaf", "detach", "where_cond", "cmp"}
    BY DEF UnaryKinds, ViewKinds, AllOps
  <2>4. <<a>> \in Seq(Nat) /\ Len(<<a>>) <= 3 /\ \A i \in 1 .. Len(<<a>>) : <<a>>[i] \in Ids
    BY <1>1, <1>2
  <2>5. Params(k, <<a>>, 0, FALSE, val)
    BY <1>0, <2>2, <2>3, <2>4 DEF Params
  <2>7. Fits(Node(k, <<a>>, 0, FALSE, val))
    BY <2>5, NodeFits
  <2> QED BY <2>1, <2>7, CreatePreserves DEF val
<1>6. CASE Affine
  <2>1. PICK a \in Floats, m \in Muls :
          Create(Node("affine", <<a>>, m, FALSE, m * graph[a].val))
    BY <1>6 DEF Affine
  <2>2. m \in Int /\ m * graph[a].val \in Int
    BY <1>1, <1>2, GraphAssumption
  <2>3. "affine" \in AllOps
    BY DEF OtherKinds, AllOps
  <2>4. <<a>> \in Seq(Nat) /\ Len(<<a>>) <= 3 /\ \A i \in 1 .. Len(<<a>>) : <<a>>[i] \in Ids
    BY <1>1, <1>2
  <2>5. Params("affine", <<a>>, m, FALSE, m * graph[a].val)
    BY <1>0, <2>2, <2>3, <2>4 DEF Params
  <2>7. Fits(Node("affine", <<a>>, m, FALSE, m * graph[a].val))
    BY <2>5, NodeFits
  <2> QED BY <2>1, <2>7, CreatePreserves
<1>7. CASE Cmp
  <2>1. PICK a \in Floats, b \in Floats :
          Create(Node("cmp", <<a>>, 0, TRUE, IF graph[a].val <= graph[b].val THEN 1 ELSE 0))
    BY <1>7 DEF Cmp
  <2> DEFINE val == IF graph[a].val <= graph[b].val THEN 1 ELSE 0
  <2>2. val \in Int
    OBVIOUS
  <2> HIDE DEF val
  <2>3. "cmp" \in AllOps
    BY DEF OtherKinds, AllOps
  <2>4. <<a>> \in Seq(Nat) /\ Len(<<a>>) <= 3 /\ \A i \in 1 .. Len(<<a>>) : <<a>>[i] \in Ids
    BY <1>1, <1>2
  <2>5. Params("cmp", <<a>>, 0, TRUE, val)
    BY <1>0, <2>2, <2>3, <2>4 DEF Params
  <2>7. Fits(Node("cmp", <<a>>, 0, TRUE, val))
    BY <2>5, NodeFits
  <2> QED BY <2>1, <2>7, CreatePreserves DEF val
<1>8. CASE ToDType
  <2>1. PICK k \in {"to_int", "to_float"}, int \in BOOLEAN, a \in Ids :
          Create(Node(k, <<a>>, 0, int, graph[a].val))
    BY <1>8, <1>2 DEF ToDType
  <2>3. k \in AllOps /\ k \notin {"leaf", "detach", "where_cond", "cmp", "custom_none"}
    BY DEF OtherKinds, AllOps
  <2>4. <<a>> \in Seq(Nat) /\ Len(<<a>>) <= 3 /\ \A i \in 1 .. Len(<<a>>) : <<a>>[i] \in Ids
    BY <1>1
  <2>5. Params(k, <<a>>, 0, int, graph[a].val)
    BY <1>0, <1>1, <2>3, <2>4 DEF Params
  <2>7. Fits(Node(k, <<a>>, 0, int, graph[a].val))
    BY <2>5, NodeFits
  <2> QED BY <2>1, <2>7, CreatePreserves
<1>9. CASE WhereCond
  <2>1. PICK p \in Ints, t \in Floats, f \in Floats :
          Create(Node("where_cond", <<p, t, f>>, 0, FALSE,
                      IF graph[p].val # 0 THEN graph[t].val ELSE graph[f].val))
    BY <1>9 DEF WhereCond
  <2> DEFINE val == IF graph[p].val # 0 THEN graph[t].val ELSE graph[f].val
             args == <<p, t, f>>
  <2>2. val \in Int
    BY <1>1, <1>2
  <2>3. "where_cond" \in AllOps
    BY DEF OtherKinds, AllOps
  <2>4. args \in Seq(Nat) /\ Len(args) = 3 /\ args[1] = p
        /\ \A i \in 1 .. Len(args) : args[i] \in Ids
    BY <1>1, <1>2
  <2>6. graph[p].int
    BY <1>2
  <2> HIDE DEF val, args
  <2>5. Params("where_cond", args, 0, FALSE, val)
    BY <1>0, <2>2, <2>3, <2>4, <2>6 DEF Params
  <2>7. Fits(Node("where_cond", args, 0, FALSE, val))
    BY <2>5, NodeFits
  <2> QED BY <2>1, <2>7, CreatePreserves DEF val, args
<1>10. CASE Detach
  <2>1. PICK a \in Floats : Create(Leaf("detach", <<a>>, FALSE, graph[a].val))
    BY <1>10 DEF Detach
  <2> DEFINE args == <<a>>
             val == graph[a].val
             node == Leaf("detach", args, FALSE, val)
  <2>2. args \in Seq(Nat) /\ Len(args) <= 3 /\ \A i \in 1 .. Len(args) : args[i] \in Ids
    BY <1>1, <1>2
  <2>3. val \in Int
    BY <1>1, <1>2
  <2> HIDE DEF args, val
  <2>4. node \in NodeType /\ node.op = "detach" /\ node.args = args /\ ~node.recorded
        /\ ~node.is_variable
    BY <2>2, <2>3 DEF Leaf, NodeType, AllOps, OtherKinds
  <2> HIDE DEF node
  <2>5. Fits(node)
    BY <2>2, <2>4 DEF Fits
  <2> QED BY <2>1, <2>5, CreatePreserves DEF node, args, val
<1> QED
  BY <1>3, <1>4, <1>5, <1>6, <1>7, <1>8, <1>9, <1>10 DEF Build

-----------------------------------------------------------------------------
(* The depth-first search.                                                 *)

LEMMA GraphFixed ==
  ASSUME GraphOK, UNCHANGED graph
  PROVE  /\ GraphOK' /\ Ids' = Ids /\ Root' = Root
         /\ \A n : WalkArgs(n)' = WalkArgs(n)
         /\ \A n : VisitedArgs(n)' = VisitedArgs(n)
<1>1. \A n : WalkArgs(n)' = WalkArgs(n)
  BY DEF WalkArgs, NotWalked
<1>2. \A n : VisitedArgs(n)' = VisitedArgs(n)
  BY <1>1 DEF VisitedArgs
<1>3. Ids' = Ids /\ Root' = Root
  BY DEF Ids, Root
<1>4. \A n : WellFormed(n)' = WellFormed(n)
  BY DEF WellFormed
<1>5. GraphOK'
  BY <1>3, <1>4 DEF GraphOK
<1> QED BY <1>1, <1>2, <1>3, <1>5

LEMMA BackwardPreserves ==
  ASSUME IInv, Backward
  PROVE  IInv'
<1>0. /\ phase = "build" /\ graph # <<>> /\ phase' = "walk" /\ stack' = <<Frame(Root)>>
      /\ UNCHANGED <<graph, seen, nodes, idx, grads>>
  BY DEF Backward
<1>1. stack = <<>> /\ nodes = <<>> /\ DOMAIN seen = {} /\ GraphOK
  BY <1>0 DEF IInv, NotStarted
<1>2. GraphOK' /\ Ids' = Ids /\ Root' = Root /\ \A n : WalkArgs(n)' = WalkArgs(n)
  BY <1>0, <1>1, GraphFixed
<1>3. Root \in Ids /\ Root \in Nat
  <2>1. Len(graph) \in Nat /\ Len(graph) # 0
    BY <1>0, <1>1 DEF GraphOK
  <2> QED BY <2>1 DEF Root, Ids
<1>4. /\ Frame(Root) \in FrameType /\ Frame(Root).node = Root /\ Frame(Root).next = 1
      /\ Frame(Root).track = graph[Root].is_variable
  <2>1. graph[Root].is_variable \in BOOLEAN
    <3>1. graph[Root] \in NodeType
      BY <1>1, <1>3 DEF GraphOK, Ids
    <3> QED BY <3>1 DEF NodeType
  <2> QED BY <1>3, <2>1 DEF Frame, FrameType
<1>5. Len(stack') = 1 /\ stack' \in Seq(FrameType) /\ stack'[1] = Frame(Root)
  BY <1>0, <1>4
<1>6. Len(WalkArgs(Root)) \in Nat
  BY <1>1, <1>3, VisitedOlder
<1>7. ASSUME NEW k \in 1 .. Len(stack')
      PROVE  WaitingOK(k)'
  <2>1. k = 1 /\ stack'[k] = Frame(Root)
    BY <1>5
  <2> QED
    BY <2>1, <1>0, <1>1, <1>2, <1>3, <1>4, <1>5, <1>6 DEF WaitingOK
<1>8. StackOK'
  BY <1>0, <1>5, <1>7 DEF StackOK
<1>9. NotStarted' /\ Types' /\ SeenOK' /\ ParentsOK'
  BY <1>0, <1>1, <1>5 DEF IInv, NotStarted, Types, SeenOK, ParentsOK, Phases
<1>10. OrderOK'
  BY <1>0, <1>1 DEF OrderOK, DependenciesEarlier, Swept
<1> QED BY <1>2, <1>8, <1>9, <1>10 DEF IInv

\* The facts about the innermost call that every step of walk uses.
LEMMA TopFacts ==
  ASSUME IInv, phase = "walk", stack # <<>>
  PROVE  /\ Len(stack) \in Nat /\ Len(stack) >= 1 /\ Len(stack) \in 1 .. Len(stack)
         /\ Top = stack[Len(stack)] /\ Top \in FrameType
         /\ Top.node \in Ids /\ Top.node \notin DOMAIN seen /\ Top.node \in Nat
         /\ Top.next \in 1 .. Len(WalkArgs(Top.node)) + 1
         /\ Len(WalkArgs(Top.node)) \in Nat
         /\ \A i \in 1 .. Top.next - 1 : WalkArgs(Top.node)[i] \in DOMAIN seen
         /\ Top.track <=>
              \/ graph[Top.node].is_variable
              \/ \E i \in 1 .. Top.next - 1 : seen[WalkArgs(Top.node)[i]]
<1>1. stack \in Seq(FrameType) /\ GraphOK
  BY DEF IInv, Types
<1>2. Len(stack) \in Nat /\ Len(stack) # 0
  BY <1>1
<1>3. Len(stack) \in 1 .. Len(stack) /\ Len(stack) >= 1 /\ Top = stack[Len(stack)]
  BY <1>2 DEF Top
<1>4. Top \in FrameType
  BY <1>1, <1>3
<1>5. WaitingOK(Len(stack))
  BY <1>3 DEF IInv, StackOK
<1>6. Top.node \in Ids /\ Top.node \in Nat
  BY <1>3, <1>5 DEF WaitingOK, Ids
<1>7. Len(WalkArgs(Top.node)) \in Nat
  BY <1>1, <1>6, VisitedOlder
<1> QED BY <1>2, <1>3, <1>4, <1>5, <1>6, <1>7 DEF WaitingOK

LEMMA WalkDownPreserves ==
  ASSUME IInv, WalkDown
  PROVE  IInv'
<1> DEFINE L == Len(stack)
           a == NextWalkArg
<1>0. /\ phase = "walk" /\ stack # <<>> /\ Top.next <= Len(WalkArgs(Top.node))
      /\ a \notin DOMAIN seen /\ stack' = Append(stack, Frame(a))
      /\ UNCHANGED <<graph, phase, seen, nodes, idx, grads>>
  BY DEF WalkDown
<1>1. GraphOK /\ GraphOK' /\ Ids' = Ids /\ Root' = Root
      /\ (\A n : WalkArgs(n)' = WalkArgs(n)) /\ (\A n : VisitedArgs(n)' = VisitedArgs(n))
  BY <1>0, GraphFixed DEF IInv
<1>2. L \in Nat /\ L >= 1 /\ L \in 1 .. L /\ Top = stack[L] /\ Top.node \in Ids /\ Top.node \in Nat
      /\ stack \in Seq(FrameType) /\ Top.next \in 1 .. Len(WalkArgs(Top.node)) + 1
      /\ Len(WalkArgs(Top.node)) \in Nat
  BY <1>0, TopFacts DEF IInv, Types
<1>3. a = WalkArgs(Top.node)[Top.next] /\ a \in VisitedArgs(Top.node)
  BY <1>0, <1>2 DEF NextWalkArg, VisitedArgs
<1>4. a \in Ids /\ a \in Nat /\ a < Top.node /\ Len(WalkArgs(a)) \in Nat
  <2>1. a \in 1 .. Top.node - 1 /\ a \in Ids
    BY <1>1, <1>2, <1>3, VisitedOlder
  <2>2. Len(WalkArgs(a)) \in Nat
    BY <1>1, <2>1, VisitedOlder
  <2> QED BY <2>1, <2>2, <1>2
<1>5. /\ Frame(a) \in FrameType /\ Frame(a).node = a /\ Frame(a).next = 1
      /\ Frame(a).track = graph[a].is_variable
  <2>1. graph[a].is_variable \in BOOLEAN
    <3>1. graph[a] \in NodeType
      BY <1>1, <1>4 DEF GraphOK, Ids
    <3> QED BY <3>1 DEF NodeType
  <2> QED BY <1>4, <2>1 DEF Frame, FrameType
<1> HIDE DEF L, a
<1>6. /\ stack' \in Seq(FrameType) /\ Len(stack') = L + 1
      /\ stack'[L + 1] = Frame(a) /\ \A k \in 1 .. L : stack'[k] = stack[k]
  BY <1>0, <1>2, <1>5 DEF L
<1>7. \A k \in 1 .. L : WaitingOK(k)
  BY DEF IInv, StackOK, L
<1>8. ASSUME NEW k \in 1 .. L
      PROVE  WaitingOK(k)'
  <2>1. WaitingOK(k) /\ stack'[k] = stack[k]
    BY <1>6, <1>7
  <2>2. k < L => stack'[k + 1] = stack[k + 1]
    BY <1>2, <1>6
  <2>3. k = L => stack'[k + 1] = Frame(a) /\ stack[k] = Top
    BY <1>2, <1>6
  <2>4. /\ stack[k].next <= Len(WalkArgs(stack[k].node))
        /\ WalkArgs(stack[k].node)[stack[k].next] = stack'[k + 1].node
    <3>1. CASE k < L
      BY <3>1, <2>1, <2>2 DEF WaitingOK, L
    <3>2. CASE k = L
      BY <3>2, <2>3, <1>0, <1>3, <1>5
    <3> QED BY <3>1, <3>2, <1>2
  <2> QED BY <2>1, <2>4, <1>0, <1>1 DEF WaitingOK
<1>9. ASSUME NEW k, k = L + 1
      PROVE  WaitingOK(k)'
  <2>1. stack'[k] = Frame(a) /\ Len(stack') = k /\ k # 1 /\ k \in Nat
    BY <1>2, <1>6, <1>9
  <2> QED BY <2>1, <1>0, <1>1, <1>4, <1>5 DEF WaitingOK
<1>10. \A j, k \in 1 .. Len(stack') : j < k => stack'[k].node < stack'[j].node
  <2>1. SUFFICES ASSUME NEW j \in 1 .. Len(stack'), NEW k \in 1 .. Len(stack'), j < k
                 PROVE  stack'[k].node < stack'[j].node
    OBVIOUS
  <2>2. j \in 1 .. L /\ j \in Nat /\ k \in Nat /\ stack'[j] = stack[j] /\ stack[j] \in FrameType
    BY <2>1, <1>2, <1>6 DEF L
  <2>3. CASE k \in 1 .. L
    BY <2>1, <2>2, <2>3, <1>6 DEF IInv, StackOK, L
  <2>4. CASE k = L + 1
    <3>1. stack'[k].node = a
      BY <2>4, <1>5, <1>6
    <3>2. Top.node <= stack[j].node
      <4>1. CASE j = L
        BY <4>1, <1>2
      <4>2. CASE j < L
        <5>1. stack[L].node < stack[j].node
          BY <4>2, <2>2, <1>2 DEF IInv, StackOK, L
        <5>2. stack[j].node \in Nat
          BY <2>2 DEF FrameType
        <5> QED BY <5>1, <5>2, <1>2
      <4> QED BY <4>1, <4>2, <2>2, <1>2
    <3>3. stack[j].node \in Nat
      BY <2>2 DEF FrameType
    <3> QED BY <3>1, <3>2, <3>3, <2>2, <1>2, <1>4
  <2> QED BY <2>2, <2>3, <2>4, <1>2, <1>6
<1>11. StackOK'
  <2>1. \A k \in 1 .. Len(stack') : k \in 1 .. L \/ k = L + 1
    BY <1>2, <1>6
  <2> QED BY <2>1, <1>0, <1>8, <1>9, <1>10 DEF StackOK
<1>12. NotStarted' /\ Types' /\ SeenOK' /\ OrderOK'
  <2>1. Types' /\ NotStarted'
    BY <1>0, <1>6 DEF IInv, Types, NotStarted
  <2>2. SeenOK'
    BY <1>0, <1>1 DEF IInv, SeenOK
  <2>3. OrderOK'
    BY <1>0, <1>1 DEF IInv, OrderOK, DependenciesEarlier, DependenciesLater, Swept
  <2> QED BY <2>1, <2>2, <2>3
<1>13. ParentsOK'
  <2>1. ASSUME NEW n \in DOMAIN seen
        PROVE  n = Root \/ HasParent(n)'
    <3>1. n = Root \/ HasParent(n)
      BY DEF IInv, ParentsOK
    <3>2. CASE HasParent(n)
      <4>1. PICK p \in Ids : n \in VisitedArgs(p) /\ (p \in DOMAIN seen \/ OnStack(p))
        BY <3>2 DEF HasParent
      <4>2. OnStack(p) => OnStack(p)'
        <5>1. \A k \in 1 .. L : k \in 1 .. Len(stack') /\ stack'[k].node = stack[k].node
          BY <1>2, <1>6
        <5> QED BY <5>1 DEF OnStack, L
      <4> QED BY <4>1, <4>2, <1>0, <1>1 DEF HasParent
    <3> QED BY <3>1, <3>2
  <2> QED BY <2>1, <1>0, <1>1 DEF ParentsOK
<1> QED BY <1>1, <1>11, <1>12, <1>13 DEF IInv

LEMMA WalkNextPreserves ==
  ASSUME IInv, WalkNext
  PROVE  IInv'
<1> DEFINE L == Len(stack)
           a == NextWalkArg
           f == [node |-> Top.node, next |-> Top.next + 1, track |-> Top.track \/ seen[a]]
<1>0. /\ phase = "walk" /\ stack # <<>> /\ Top.next <= Len(WalkArgs(Top.node))
      /\ a \in DOMAIN seen /\ stack' = [stack EXCEPT ![L] = f]
      /\ UNCHANGED <<graph, phase, seen, nodes, idx, grads>>
  BY DEF WalkNext
<1>1. GraphOK /\ GraphOK' /\ Ids' = Ids /\ Root' = Root
      /\ (\A n : WalkArgs(n)' = WalkArgs(n)) /\ (\A n : VisitedArgs(n)' = VisitedArgs(n))
  BY <1>0, GraphFixed DEF IInv
<1>2. L \in Nat /\ L >= 1 /\ L \in 1 .. L /\ Top = stack[L] /\ Top.node \in Ids /\ Top.node \in Nat
      /\ stack \in Seq(FrameType) /\ Top.next \in 1 .. Len(WalkArgs(Top.node)) + 1
      /\ Len(WalkArgs(Top.node)) \in Nat /\ Top.node \notin DOMAIN seen
  BY <1>0, TopFacts DEF IInv, Types
<1>3. a = WalkArgs(Top.node)[Top.next] /\ Top.next \in Nat /\ Top.next >= 1
  BY <1>2 DEF NextWalkArg
<1>4. /\ \A i \in 1 .. Top.next : WalkArgs(Top.node)[i] \in DOMAIN seen
      /\ (Top.track \/ seen[a]) <=>
           \/ graph[Top.node].is_variable
           \/ \E i \in 1 .. Top.next : seen[WalkArgs(Top.node)[i]]
  <2>1. \A i \in 1 .. Top.next : i \in 1 .. Top.next - 1 \/ i = Top.next
    BY <1>3
  <2>2. \A i \in 1 .. Top.next - 1 : i \in 1 .. Top.next
    BY <1>3
  <2>3. Top.next \in 1 .. Top.next
    BY <1>3
  <2>4. /\ \A i \in 1 .. Top.next - 1 : WalkArgs(Top.node)[i] \in DOMAIN seen
        /\ Top.track <=>
             \/ graph[Top.node].is_variable
             \/ \E i \in 1 .. Top.next - 1 : seen[WalkArgs(Top.node)[i]]
    BY <1>0, TopFacts
  <2> QED BY <2>1, <2>2, <2>3, <2>4, <1>0, <1>3
<1>5. f \in FrameType /\ f.node = Top.node /\ f.next = Top.next + 1
      /\ f.track = (Top.track \/ seen[a])
  BY <1>2, <1>3 DEF FrameType
<1> HIDE DEF L, a, f
<1>6. /\ stack' \in Seq(FrameType) /\ Len(stack') = L
      /\ stack'[L] = f /\ \A k \in 1 .. L : k # L => stack'[k] = stack[k]
  BY <1>0, <1>2, <1>5 DEF L
<1>7. \A k \in 1 .. L : stack'[k].node = stack[k].node
  BY <1>2, <1>5, <1>6
<1>8. ASSUME NEW k \in 1 .. L, k # L
      PROVE  WaitingOK(k)'
  <2>1. WaitingOK(k) /\ stack'[k] = stack[k]
    BY <1>6, <1>8 DEF IInv, StackOK, L
  <2>2. k + 1 \in 1 .. L /\ stack'[k + 1].node = stack[k + 1].node
    BY <1>2, <1>7, <1>8
  <2> QED BY <2>1, <2>2, <1>0, <1>1, <1>6 DEF WaitingOK, L
<1>9. WaitingOK(L)
  BY <1>2 DEF IInv, StackOK, L
<1>10. ASSUME NEW k, k = L
       PROVE  WaitingOK(k)'
  <2>1. stack'[k] = f /\ Len(stack') = k /\ k = 1 => Top.node = Root
    BY <1>2, <1>6, <1>9, <1>10 DEF WaitingOK
  <2>2. f.next \in 1 .. Len(WalkArgs(f.node)) + 1 /\ f.next - 1 = Top.next
    BY <1>0, <1>2, <1>3, <1>5
  <2>3. stack'[k] = f /\ Len(stack') = k /\ ~(k < Len(stack'))
    BY <1>2, <1>6, <1>10
  <2> QED BY <2>1, <2>2, <2>3, <1>0, <1>1, <1>2, <1>4, <1>5 DEF WaitingOK
<1>11. StackOK'
  <2>1. \A j, k \in 1 .. Len(stack') : j < k => stack'[k].node < stack'[j].node
    BY <1>6, <1>7 DEF IInv, StackOK, L
  <2> QED BY <2>1, <1>0, <1>6, <1>8, <1>10 DEF StackOK
<1>12. NotStarted' /\ Types' /\ SeenOK' /\ OrderOK'
  <2>1. Types' /\ NotStarted'
    BY <1>0, <1>6 DEF IInv, Types, NotStarted
  <2>2. SeenOK'
    BY <1>0, <1>1 DEF IInv, SeenOK
  <2>3. OrderOK'
    BY <1>0, <1>1 DEF IInv, OrderOK, DependenciesEarlier, DependenciesLater, Swept
  <2> QED BY <2>1, <2>2, <2>3
<1>13. ParentsOK'
  <2>1. \A p : OnStack(p)' = OnStack(p)
    BY <1>6, <1>7 DEF OnStack, L
  <2> QED BY <2>1, <1>0, <1>1 DEF IInv, ParentsOK, HasParent
<1> QED BY <1>1, <1>11, <1>12, <1>13 DEF IInv

LEMMA WalkUpPreserves ==
  ASSUME IInv, WalkUp
  PROVE  IInv'
<1> DEFINE L == Len(stack)
           N == Len(nodes)
<1>t. PICK t \in Ids : t = Top.node
  BY TopFacts DEF WalkUp
<1>0. /\ phase = "walk" /\ stack # <<>> /\ Top.next > Len(WalkArgs(t))
      /\ seen' = [n \in DOMAIN seen \cup {t} |-> IF n = t THEN Top.track ELSE seen[n]]
      /\ nodes' = IF Top.track THEN Append(nodes, t) ELSE nodes
      /\ stack' = SubSeq(stack, 1, L - 1)
      /\ UNCHANGED <<graph, phase, idx, grads>>
  BY <1>t DEF WalkUp
<1>1. GraphOK /\ GraphOK' /\ Ids' = Ids /\ Root' = Root
      /\ (\A n : WalkArgs(n)' = WalkArgs(n)) /\ (\A n : VisitedArgs(n)' = VisitedArgs(n))
  BY <1>0, GraphFixed DEF IInv
<1>2. L \in Nat /\ L >= 1 /\ L \in 1 .. L /\ Top = stack[L] /\ t = stack[L].node /\ t \in Nat
      /\ stack \in Seq(FrameType) /\ nodes \in Seq(Nat) /\ N \in Nat
      /\ t \notin DOMAIN seen /\ Top.track \in BOOLEAN
  BY <1>0, <1>t, TopFacts DEF IInv, Types, FrameType
<1>3. /\ VisitedArgs(t) \subseteq DOMAIN seen
      /\ Top.track <=> graph[t].is_variable \/ \E m \in VisitedArgs(t) : seen[m]
      /\ VisitedArgs(t) \subseteq 1 .. t - 1
  <2>1. /\ Top.next \in 1 .. Len(WalkArgs(t)) + 1 /\ Len(WalkArgs(t)) \in Nat
        /\ \A i \in 1 .. Top.next - 1 : WalkArgs(t)[i] \in DOMAIN seen
        /\ Top.track <=>
             \/ graph[t].is_variable
             \/ \E i \in 1 .. Top.next - 1 : seen[WalkArgs(t)[i]]
    BY <1>0, <1>t, TopFacts
  <2>2. Top.next - 1 = Len(WalkArgs(t))
    BY <2>1, <1>0
  <2>3. VisitedArgs(t) \subseteq 1 .. t - 1
    BY <1>1, <1>2, VisitedOlder
  <2> QED BY <2>1, <2>2, <2>3 DEF VisitedArgs
<1>4. \A k \in 1 .. L : WaitingOK(k)
  BY DEF IInv, StackOK
<1>5. \A j, k \in 1 .. L : j < k => stack[k].node < stack[j].node
  BY DEF IInv, StackOK
<1> HIDE DEF L, N
<1>6. /\ DOMAIN seen' = DOMAIN seen \cup {t} /\ seen'[t] = Top.track
      /\ \A n \in DOMAIN seen : seen'[n] = seen[n]
  BY <1>0, <1>2
<1>7. /\ Len(stack') = L - 1 /\ Len(stack') \in Nat /\ stack' \in Seq(FrameType)
      /\ \A k \in 1 .. L - 1 : stack'[k] = stack[k] /\ k \in 1 .. L
  <2>1. L - 1 \in 1 - 1 .. Len(stack) /\ 1 \in 1 .. Len(stack) + 1 /\ L - 1 \in Nat
    BY <1>2 DEF L
  <2>2. /\ Len(SubSeq(stack, 1, L - 1)) = L - 1
        /\ SubSeq(stack, 1, L - 1) \in Seq(FrameType)
    BY <2>1, <1>2, SubSeqProperties
  <2>3. \A k \in 1 .. L - 1 : SubSeq(stack, 1, L - 1)[k] = stack[k]
    BY <2>1, <1>2 DEF L
  <2> QED BY <2>1, <2>2, <2>3, <1>0, <1>2
<1>8. /\ nodes' \in Seq(Nat)
      /\ Top.track => Len(nodes') = N + 1 /\ nodes'[N + 1] = t
      /\ ~Top.track => Len(nodes') = N
      /\ \A i \in 1 .. N : nodes'[i] = nodes[i]
  <2>1. CASE Top.track
    BY <2>1, <1>0, <1>2 DEF N
  <2>2. CASE ~Top.track
    BY <2>2, <1>0, <1>2 DEF N
  <2> QED BY <2>1, <2>2, <1>2
<1>9. \A k \in 1 .. L - 1 : stack[k].node # t
  <2>1. SUFFICES ASSUME NEW k \in 1 .. L - 1
                 PROVE  stack[L].node < stack[k].node
    BY <1>2
  <2>2. k \in 1 .. L /\ k < L
    BY <1>2
  <2> QED BY <2>2, <1>2, <1>5
<1>10. StackOK'
  <2>1. ASSUME NEW k \in 1 .. L - 1
        PROVE  WaitingOK(k)'
    <3>1. WaitingOK(k) /\ stack'[k] = stack[k] /\ stack[k].node # t
      BY <1>4, <1>7, <1>9
    <3>2. k + 1 \in 1 .. L - 1 => stack'[k + 1] = stack[k + 1]
      BY <1>7
    <3>3. k < L - 1 => k + 1 \in 1 .. L - 1 /\ k < L
      BY <1>2
    <3>4. stack'[k].node \in (Ids \ DOMAIN seen)'
      BY <3>1, <1>1, <1>6 DEF WaitingOK
    <3>5. stack'[k].next \in 1 .. Len(WalkArgs(stack'[k].node)) + 1
      BY <3>1 DEF WaitingOK
    <3>6. /\ \A i \in 1 .. stack'[k].next - 1 : WalkArgs(stack'[k].node)[i] \in DOMAIN seen'
          /\ stack'[k].track <=>
               \/ graph[stack'[k].node].is_variable
               \/ \E i \in 1 .. stack'[k].next - 1 : seen'[WalkArgs(stack'[k].node)[i]]
      BY <3>1, <1>6 DEF WaitingOK
    <3>7. k < Len(stack') =>
            /\ stack'[k].next <= Len(WalkArgs(stack'[k].node))
            /\ WalkArgs(stack'[k].node)[stack'[k].next] = stack'[k + 1].node
      BY <3>1, <3>2, <3>3, <1>7 DEF WaitingOK, L
    <3>8. k = 1 => stack'[k].node = Root
      BY <3>1 DEF WaitingOK
    <3> QED BY <3>4, <3>5, <3>6, <3>7, <3>8, <1>0, <1>1 DEF WaitingOK
  <2>2. \A j, k \in 1 .. Len(stack') : j < k => stack'[k].node < stack'[j].node
    BY <1>5, <1>7
  <2>3. \A k \in 1 .. Len(stack') : WaitingOK(k)'
    BY <2>1, <1>7
  <2> QED BY <2>2, <2>3, <1>0 DEF StackOK
<1>11. SeenOK'
  <2>1. DOMAIN seen \subseteq Ids /\ DOMAIN seen' \subseteq Ids'
    BY <1>1, <1>2, <1>6 DEF IInv, SeenOK
  <2>2. ASSUME NEW n \in DOMAIN seen
        PROVE  /\ seen'[n] \in BOOLEAN
               /\ VisitedArgs(n) \subseteq DOMAIN seen'
               /\ seen'[n] <=> graph[n].is_variable \/ \E m \in VisitedArgs(n) : seen'[m]
               /\ seen'[n] => \E i \in 1 .. Len(nodes') : nodes'[i] = n
    <3>1. /\ seen[n] \in BOOLEAN /\ VisitedArgs(n) \subseteq DOMAIN seen
          /\ seen[n] <=> graph[n].is_variable \/ \E m \in VisitedArgs(n) : seen[m]
          /\ seen[n] => \E i \in 1 .. N : nodes[i] = n
      BY DEF IInv, SeenOK, N
    <3>2. \A i \in 1 .. N : i \in 1 .. Len(nodes')
      BY <1>2, <1>8
    <3> QED BY <3>1, <3>2, <1>6, <1>8
  <2>3. /\ seen'[t] \in BOOLEAN
        /\ VisitedArgs(t) \subseteq DOMAIN seen'
        /\ seen'[t] <=> graph[t].is_variable \/ \E m \in VisitedArgs(t) : seen'[m]
        /\ seen'[t] => \E i \in 1 .. Len(nodes') : nodes'[i] = t
    <3>1. Top.track => N + 1 \in 1 .. Len(nodes')
      BY <1>2, <1>8
    <3> QED BY <3>1, <1>2, <1>3, <1>6, <1>8
  <2>4. \A i \in 1 .. Len(nodes') : nodes'[i] \in DOMAIN seen' /\ seen'[nodes'[i]]
    <3>1. \A i \in 1 .. N : nodes[i] \in DOMAIN seen /\ seen[nodes[i]]
      BY DEF IInv, SeenOK, N
    <3>2. \A i \in 1 .. Len(nodes') : i \in 1 .. N \/ (Top.track /\ i = N + 1)
      BY <1>2, <1>8
    <3> QED BY <3>1, <3>2, <1>6, <1>8
  <2>5. \A n \in DOMAIN seen' :
          /\ seen'[n] \in BOOLEAN
          /\ VisitedArgs(n) \subseteq DOMAIN seen'
          /\ seen'[n] <=> graph[n].is_variable \/ \E m \in VisitedArgs(n) : seen'[m]
          /\ seen'[n] => \E i \in 1 .. Len(nodes') : nodes'[i] = n
    <3>1. \A n \in DOMAIN seen' : n \in DOMAIN seen \/ n = t
      BY <1>6
    <3> QED BY <2>2, <2>3, <3>1
  <2> QED BY <2>1, <2>4, <2>5, <1>0, <1>1 DEF SeenOK
<1>12. ParentsOK'
  <2>1. ASSUME NEW n \in DOMAIN seen, HasParent(n)
        PROVE  HasParent(n)'
    <3>1. PICK p \in Ids : n \in VisitedArgs(p) /\ (p \in DOMAIN seen \/ OnStack(p))
      BY <2>1 DEF HasParent
    <3>2. OnStack(p) => p = t \/ OnStack(p)'
      <4>1. \A k \in 1 .. L : k = L \/ k \in 1 .. L - 1
        BY <1>2
      <4> QED BY <4>1, <1>2, <1>7 DEF OnStack, L
    <3> QED BY <3>1, <3>2, <1>1, <1>6 DEF HasParent
  <2>2. t = Root \/ HasParent(t)'
    <3>1. CASE L = 1
      BY <3>1, <1>2, <1>4 DEF WaitingOK
    <3>2. CASE L # 1
      <4>0. PICK k \in Nat : k = L - 1
        BY <3>2, <1>2
      <4>1. k \in 1 .. L /\ k < L /\ k \in 1 .. L - 1 /\ k + 1 = L
        BY <4>0, <3>2, <1>2
      <4>2. WaitingOK(k)
        BY <4>1, <1>4
      <4>6. PICK p \in Ids : p = stack[k].node
        BY <4>2 DEF WaitingOK
      <4>3. p \in Ids /\ stack[k].next \in 1 .. Len(WalkArgs(p)) /\ WalkArgs(p)[stack[k].next] = t
        <5>1. Len(WalkArgs(p)) \in Nat
          BY <1>1, VisitedOlder
        <5> QED BY <5>1, <4>1, <4>2, <4>6, <1>2 DEF WaitingOK, L
      <4>4. t \in VisitedArgs(p)
        BY <4>3 DEF VisitedArgs
      <4>5. OnStack(p)'
        BY <4>1, <4>6, <1>7 DEF OnStack
      <4> QED BY <4>3, <4>4, <4>5, <1>1 DEF HasParent
    <3> QED BY <3>1, <3>2
  <2>3. \A n \in DOMAIN seen : n = Root \/ HasParent(n)
    BY DEF IInv, ParentsOK
  <2> QED BY <2>1, <2>2, <2>3, <1>1, <1>6 DEF ParentsOK
<1>13. OrderOK'
  <2>1. DependenciesEarlier
    BY <1>0 DEF IInv, OrderOK
  <2>2. \A i \in 1 .. N : nodes[i] \in DOMAIN seen /\ nodes[i] # t
                          /\ VisitedArgs(nodes[i]) \subseteq DOMAIN seen
    BY <1>2 DEF IInv, SeenOK, N
  <2>3. t \notin VisitedArgs(t)
    BY <1>2, <1>3
  <2>4. DependenciesEarlier'
    <3>1. CASE ~Top.track
      BY <3>1, <2>1, <1>0, <1>1 DEF DependenciesEarlier
    <3>2. CASE Top.track
      <4>1. \A i \in 1 .. Len(nodes') : i \in 1 .. N \/ i = N + 1
        BY <3>2, <1>2, <1>8
      <4>2. \A i, j \in 1 .. Len(nodes') : nodes'[i] = nodes'[j] => i = j
        <5>1. \A i, j \in 1 .. N : nodes[i] = nodes[j] => i = j
          BY <2>1 DEF DependenciesEarlier, N
        <5> QED BY <3>2, <4>1, <5>1, <2>2, <1>8
      <4>3. \A i, j \in 1 .. Len(nodes') : nodes'[j] \in VisitedArgs(nodes'[i]) => j < i
        <5>1. SUFFICES ASSUME NEW i \in 1 .. Len(nodes'), NEW j \in 1 .. Len(nodes'),
                              nodes'[j] \in VisitedArgs(nodes'[i])
                       PROVE  j < i
          OBVIOUS
        <5>2. CASE i \in 1 .. N /\ j \in 1 .. N
          BY <5>1, <5>2, <2>1, <1>8 DEF DependenciesEarlier, N
        <5>3. CASE i \in 1 .. N /\ j = N + 1
          BY <5>1, <5>3, <3>2, <2>2, <1>2, <1>8
        <5>4. CASE i = N + 1 /\ j \in 1 .. N
          BY <5>4, <1>2
        <5>5. CASE i = N + 1 /\ j = N + 1
          BY <5>1, <5>5, <3>2, <2>3, <1>8
        <5> QED BY <4>1, <5>2, <5>3, <5>4, <5>5
      <4> QED BY <4>2, <4>3, <1>1 DEF DependenciesEarlier
    <3> QED BY <3>1, <3>2
  <2> QED BY <2>4, <1>0 DEF OrderOK, Swept
<1>14. NotStarted' /\ Types'
  BY <1>0, <1>7, <1>8 DEF IInv, Types, NotStarted
<1> QED BY <1>1, <1>10, <1>11, <1>12, <1>13, <1>14 DEF IInv

LEMMA StartSweepPreserves ==
  ASSUME IInv, StartSweep
  PROVE  IInv'
<1> DEFINE N == Len(nodes)
<1>0. /\ phase = "walk" /\ stack = <<>> /\ phase' = "sweep"
      /\ nodes' = [i \in 1 .. N |-> nodes[N + 1 - i]]
      /\ idx' = 1 /\ grads' = [n \in {Root} |-> 1]
      /\ UNCHANGED <<graph, stack, seen>>
  BY DEF StartSweep
<1>1. GraphOK /\ GraphOK' /\ Ids' = Ids /\ Root' = Root
      /\ (\A n : WalkArgs(n)' = WalkArgs(n)) /\ (\A n : VisitedArgs(n)' = VisitedArgs(n))
  BY <1>0, GraphFixed DEF IInv
<1>2. nodes \in Seq(Nat) /\ N \in Nat
  BY DEF IInv, Types
<1> HIDE DEF N
<1>3. nodes' \in Seq(Nat) /\ Len(nodes') = N
  BY <1>0, <1>2 DEF N
<1>4. \A i \in 1 .. N : N + 1 - i \in 1 .. N /\ nodes'[i] = nodes[N + 1 - i]
                        /\ N + 1 - (N + 1 - i) = i
  BY <1>0, <1>2
<1>5. SeenOK'
  <2>1. \A n \in DOMAIN seen : seen[n] => \E i \in 1 .. N : nodes'[i] = n
    <3>1. SUFFICES ASSUME NEW n \in DOMAIN seen, seen[n]
                   PROVE  \E i \in 1 .. N : nodes'[i] = n
      OBVIOUS
    <3>2. PICK i \in 1 .. N : nodes[i] = n
      BY <3>1 DEF IInv, SeenOK, N
    <3>3. N + 1 - i \in 1 .. N /\ nodes'[N + 1 - i] = nodes[i]
      BY <1>2, <1>4
    <3> QED BY <3>2, <3>3
  <2>2. \A i \in 1 .. N : nodes'[i] \in DOMAIN seen /\ seen[nodes'[i]]
    BY <1>4 DEF IInv, SeenOK, N
  <2> QED BY <2>1, <2>2, <1>0, <1>1, <1>3 DEF IInv, SeenOK
<1>6. DependenciesLater'
  <2>0. DependenciesEarlier
    BY <1>0 DEF IInv, OrderOK
  <2>1. \A i, j \in 1 .. N : nodes'[i] = nodes'[j] => i = j
    <3>1. SUFFICES ASSUME NEW i \in 1 .. N, NEW j \in 1 .. N, nodes'[i] = nodes'[j]
                   PROVE  i = j
      OBVIOUS
    <3>2. N + 1 - i = N + 1 - j
      BY <3>1, <2>0, <1>4 DEF DependenciesEarlier, N
    <3> QED BY <3>2, <1>2
  <2>2. \A i, j \in 1 .. N : nodes'[j] \in VisitedArgs(nodes'[i]) => i < j
    <3>1. SUFFICES ASSUME NEW i \in 1 .. N, NEW j \in 1 .. N,
                          nodes'[j] \in VisitedArgs(nodes'[i])
                   PROVE  i < j
      OBVIOUS
    <3>2. N + 1 - j < N + 1 - i
      BY <3>1, <2>0, <1>4 DEF DependenciesEarlier, N
    <3> QED BY <3>2, <1>2
  <2> QED BY <2>1, <2>2, <1>1, <1>3 DEF DependenciesLater
<1>7. NotStarted' /\ Types' /\ StackOK'
  BY <1>0, <1>3 DEF IInv, NotStarted, Types, StackOK, Phases
<1>8. ParentsOK'
  BY <1>0, <1>1 DEF IInv, ParentsOK, HasParent, OnStack
<1>9. OrderOK'
  BY <1>0, <1>6 DEF OrderOK
<1> QED BY <1>1, <1>5, <1>7, <1>8, <1>9 DEF IInv

-----------------------------------------------------------------------------
(* The sweep.                                                              *)

Sweep == SkipVariable \/ Propagate \/ NotSupported \/ Panic \/ Finish

LEMMA SweepFacts ==
  ASSUME IInv, Sweep
  PROVE  /\ phase = "sweep" /\ Swept'
         /\ phase' \in {"sweep", "failed", "panic", "done"}
         /\ idx \in Nat \ {0} /\ idx' \in {idx, idx + 1}
         /\ UNCHANGED <<graph, stack, seen, nodes>>
  BY DEF IInv, Types, Sweep, SkipVariable, Propagate, NotSupported, Panic, Finish, Swept

LEMMA SweepPreserves ==
  ASSUME IInv, Sweep
  PROVE  IInv'
<1>0. /\ phase = "sweep" /\ Swept' /\ phase' \in {"sweep", "failed", "panic", "done"}
      /\ idx \in Nat \ {0} /\ idx' \in {idx, idx + 1}
      /\ UNCHANGED <<graph, stack, seen, nodes>>
  BY SweepFacts
<1>1. GraphOK /\ GraphOK' /\ Ids' = Ids /\ Root' = Root
      /\ (\A n : WalkArgs(n)' = WalkArgs(n)) /\ (\A n : VisitedArgs(n)' = VisitedArgs(n))
  BY <1>0, GraphFixed DEF IInv
<1>2. stack = <<>>
  BY <1>0 DEF IInv, StackOK
<1>3. Types' /\ NotStarted'
  BY <1>0 DEF IInv, Types, NotStarted, Phases
<1>4. SeenOK'
  BY <1>0, <1>1 DEF IInv, SeenOK
<1>5. StackOK'
  BY <1>0, <1>2 DEF StackOK
<1>6. ParentsOK'
  BY <1>0, <1>1 DEF IInv, ParentsOK, HasParent, OnStack
<1>7. OrderOK'
  BY <1>0, <1>1 DEF IInv, OrderOK, DependenciesLater, Swept
<1> QED BY <1>1, <1>3, <1>4, <1>5, <1>6, <1>7 DEF IInv

LEMMA StutterPreserves ==
  ASSUME IInv, UNCHANGED vars
  PROVE  IInv'
<1>0. UNCHANGED <<graph, phase, stack, seen, nodes, idx, grads>>
  BY DEF vars
<1>1. GraphOK' /\ Ids' = Ids /\ Root' = Root
      /\ (\A n : WalkArgs(n)' = WalkArgs(n)) /\ (\A n : VisitedArgs(n)' = VisitedArgs(n))
  BY <1>0, GraphFixed DEF IInv
<1>2. NotStarted' /\ Types' /\ SeenOK' /\ ParentsOK'
  BY <1>0, <1>1 DEF IInv, NotStarted, Types, SeenOK, ParentsOK, HasParent, OnStack
<1>3. StackOK'
  BY <1>0, <1>1 DEF IInv, StackOK, WaitingOK
<1>4. OrderOK'
  BY <1>0, <1>1 DEF IInv, OrderOK, DependenciesEarlier, DependenciesLater, Swept
<1> QED BY <1>1, <1>2, <1>3, <1>4 DEF IInv

LEMMA InitIInv == Init => IInv
<1> SUFFICES ASSUME Init PROVE IInv
  OBVIOUS
<1>1. GraphOK /\ NotStarted /\ Types
  BY DEF Init, GraphOK, NotStarted, Types, Phases, Ids
<1>2. SeenOK /\ StackOK /\ ParentsOK
  BY DEF Init, SeenOK, StackOK, ParentsOK
<1>3. OrderOK
  BY DEF Init, OrderOK, DependenciesEarlier, Swept
<1> QED BY <1>1, <1>2, <1>3 DEF IInv

LEMMA NextIInv == IInv /\ [Next]_vars => IInv'
<1> SUFFICES ASSUME IInv, [Next]_vars PROVE IInv'
  OBVIOUS
<1>1. CASE Build
  BY <1>1, BuildPreserves, BackwardPreserves
<1>2. CASE WalkDown
  BY <1>2, WalkDownPreserves
<1>3. CASE WalkNext
  BY <1>3, WalkNextPreserves
<1>4. CASE WalkUp
  BY <1>4, WalkUpPreserves
<1>5. CASE StartSweep
  BY <1>5, StartSweepPreserves
<1>6. CASE Sweep
  BY <1>6, SweepPreserves
<1>7. CASE UNCHANGED vars
  BY <1>7, StutterPreserves
<1> QED BY <1>1, <1>2, <1>3, <1>4, <1>5, <1>6, <1>7 DEF Next, Run, Sweep

THEOREM Invariance == Spec => []IInv
  BY InitIInv, NextIInv, PTL DEF Spec

-----------------------------------------------------------------------------
(* What the invariant gives.                                               *)

\* sorted_nodes returns a topological sort without duplicates, whatever the
\* graph: every node precedes the arguments that walk visits for it.
THEOREM Sorted == Spec => []TopologicalOrder
<1>1. IInv => TopologicalOrder
  BY DEF IInv, OrderOK, TopologicalOrder
<1> QED BY <1>1, Invariance, PTL

\* In a sweep a node that is not a variable only credits later nodes.
LEMMA CreditsLater ==
  ASSUME IInv, Swept, NEW i \in 1 .. Len(nodes), ~graph[nodes[i]].is_variable
  PROVE  /\ nodes[i] \in Ids
         /\ CreditedArgs(nodes[i]) \subseteq VisitedArgs(nodes[i])
         /\ \A j \in 1 .. Len(nodes) : nodes[j] \in CreditedArgs(nodes[i]) => i < j
<1>1. nodes[i] \in Ids /\ nodes[i] \in DOMAIN seen /\ seen[nodes[i]]
  BY DEF IInv, SeenOK
<1>2. VisitedArgs(nodes[i]) # {}
  BY <1>1 DEF IInv, SeenOK
<1>3. CreditedArgs(nodes[i]) \subseteq VisitedArgs(nodes[i])
  BY <1>1, <1>2, CreditedAreVisited DEF IInv
<1>4. DependenciesLater
  BY DEF IInv, OrderOK
<1> QED BY <1>1, <1>3, <1>4 DEF DependenciesLater

\* Once the sweep has passed a node its gradient does not change: the
\* gradient an arm propagated, or backward returns for a variable, is final.
THEOREM FinalGradients == Spec => FinalGrads
<1>1. IInv /\ [Next]_vars => [PassedGradUnchanged]_vars
  <2> SUFFICES ASSUME IInv, Next, phase = "sweep"
               PROVE  PassedGradUnchanged
    BY DEF PassedGradUnchanged
  <2>1. CASE Propagate
    <3>0. /\ idx \in 1 .. Len(nodes) /\ Current = nodes[idx] /\ ~graph[Current].is_variable
          /\ grads' = Accumulate(Without(grads, Current), Current, grads[Current])
      BY <2>1 DEF Propagate, Current, IInv, Types
    <3>1. Swept /\ DependenciesLater
      BY DEF Swept, IInv, OrderOK
    <3> DEFINE c == Current
    <3>2. \A m : m # c /\ m \notin CreditedArgs(c) =>
            /\ m \in DOMAIN grads' <=> m \in DOMAIN grads
            /\ m \in DOMAIN grads => grads'[m] = grads[m]
      BY <3>0 DEF Accumulate, Without
    <3>3. ASSUME NEW i \in 1 .. idx - 1
          PROVE  nodes[i] # c /\ nodes[i] \notin CreditedArgs(c)
      <4>1. i \in 1 .. Len(nodes) /\ i < idx /\ ~(idx < i) /\ i # idx
        BY <3>0
      <4>2. nodes[i] # nodes[idx]
        BY <4>1, <3>0, <3>1 DEF DependenciesLater
      <4>3. nodes[i] \notin CreditedArgs(nodes[idx])
        BY <4>1, <3>0, <3>1, CreditsLater
      <4> QED BY <4>2, <4>3, <3>0
    <3> QED BY <3>2, <3>3 DEF PassedGradUnchanged
  <2>2. CASE SkipVariable \/ NotSupported \/ Panic \/ Finish
    BY <2>2 DEF SkipVariable, NotSupported, Panic, Finish, PassedGradUnchanged
  <2>3. CASE Build \/ WalkDown \/ WalkNext \/ WalkUp \/ StartSweep
    BY <2>3 DEF Build, NewLeaf, Binary, Unary, Affine, Cmp, ToDType, WhereCond, Detach,
                Create, Backward, WalkDown, WalkNext, WalkUp, StartSweep
  <2> QED BY <2>1, <2>2, <2>3 DEF Next, Run
<1> QED BY <1>1, Invariance, PTL DEF Spec, FinalGrads

-----------------------------------------------------------------------------
(* The .expect of backward holds.                                          *)

\* A node the sweep has yet to reach has a gradient as soon as it is the
\* result or an argument of a node the sweep has passed, as long as every
\* node passed has given its arguments a gradient.
Populated ==
  phase = "sweep" /\ ~ReturnedNone =>
    \A i \in 1 .. Len(nodes) :
      /\ i >= idx
      /\ nodes[i] = Root \/ \E j \in 1 .. Len(nodes) :
                              j < idx /\ nodes[i] \in VisitedArgs(nodes[j])
      => nodes[i] \in DOMAIN grads

\* Every node of nodes is the result or an argument of an earlier node.
LEMMA UsedEarlier ==
  ASSUME IInv, Swept, NEW i \in 1 .. Len(nodes)
  PROVE  nodes[i] = Root \/ \E j \in 1 .. Len(nodes) :
                              j < i /\ nodes[i] \in VisitedArgs(nodes[j])
<1>1. nodes[i] \in DOMAIN seen /\ seen[nodes[i]]
  BY DEF IInv, SeenOK
<1>2. stack = <<>>
  BY DEF IInv, StackOK, Swept
<1>3. nodes[i] = Root \/ \E p \in DOMAIN seen : nodes[i] \in VisitedArgs(p)
  BY <1>1, <1>2 DEF IInv, ParentsOK, HasParent, OnStack
<1>4. CASE \E p \in DOMAIN seen : nodes[i] \in VisitedArgs(p)
  <2>1. PICK p \in DOMAIN seen : nodes[i] \in VisitedArgs(p)
    BY <1>4
  <2>2. PICK j \in 1 .. Len(nodes) : nodes[j] = p
    BY <1>1, <2>1 DEF IInv, SeenOK
  <2>3. j < i
    BY <2>1, <2>2 DEF IInv, OrderOK, DependenciesLater
  <2> QED BY <2>1, <2>2, <2>3
<1> QED BY <1>3, <1>4

LEMMA PopulatedStep ==
  ASSUME IInv, Populated, GradPopulated, Next
  PROVE  Populated' /\ GradPopulated'
<1>1. CASE Build \/ WalkDown \/ WalkNext \/ WalkUp
  BY <1>1 DEF Build, NewLeaf, Binary, Unary, Affine, Cmp, ToDType, WhereCond, Detach,
              Create, Backward, WalkDown, WalkNext, WalkUp, Populated, GradPopulated
<1>2. CASE StartSweep
  <2>1. phase' = "sweep" /\ idx' = 1 /\ grads' = [n \in {Root} |-> 1] /\ graph' = graph
    BY <1>2 DEF StartSweep
  <2>2. Root' = Root /\ Len(nodes') \in Nat
    <3>1. IInv'
      BY <1>2, StartSweepPreserves
    <3> QED BY <3>1, <2>1 DEF Root, IInv, Types
  <2>3. \A j \in 1 .. Len(nodes') : ~(j < idx')
    BY <2>1, <2>2
  <2> QED BY <2>1, <2>2, <2>3 DEF Populated, GradPopulated
<1>3. CASE NotSupported \/ Finish
  BY <1>3 DEF NotSupported, Finish, Populated, GradPopulated
<1>4. CASE Panic
  <2>1. phase = "sweep" /\ idx \in 1 .. Len(nodes) /\ Current = nodes[idx] /\ idx >= idx
        /\ Current \notin DOMAIN grads /\ Swept
    BY <1>4 DEF Panic, Current, IInv, Types, Swept
  <2>2. ReturnedNone
    <3>1. SUFFICES ASSUME ~ReturnedNone PROVE nodes[idx] \in DOMAIN grads
      BY <2>1
    <3> QED BY <2>1, <3>1, UsedEarlier DEF Populated
  <2>3. phase' = "panic" /\ UNCHANGED <<graph, nodes, idx>>
    BY <1>4 DEF Panic
  <2>4. ReturnedNone'
    BY <2>2, <2>3 DEF ReturnedNone
  <2> QED BY <2>3, <2>4 DEF Populated, GradPopulated
<1>5. CASE SkipVariable \/ Propagate
  <2>0. /\ phase = "sweep" /\ phase' = "sweep" /\ idx \in 1 .. Len(nodes) /\ idx' = idx + 1
        /\ UNCHANGED <<graph, nodes>> /\ Len(nodes) \in Nat /\ Swept
    BY <1>5 DEF SkipVariable, Propagate, IInv, Types, Swept
  <2>1. Root' = Root /\ \A n : VisitedArgs(n)' = VisitedArgs(n)
    BY <2>0, GraphFixed DEF IInv
  <2>4. ASSUME ~ReturnedNone'
        PROVE  ~ReturnedNone /\ graph[nodes[idx]].op # "custom_none"
    BY <2>0, <2>4 DEF ReturnedNone, IInv, Types
  <2>2. ASSUME ~ReturnedNone', NEW i \in 1 .. Len(nodes), i >= idx + 1,
               nodes[i] = Root \/ \E j \in 1 .. Len(nodes) :
                                    j < idx + 1 /\ nodes[i] \in VisitedArgs(nodes[j])
        PROVE  nodes[i] \in DOMAIN grads'
    <3>1. i \in Nat /\ idx \in Nat /\ i >= idx /\ i # idx
      BY <2>0, <2>2
    <3>2. nodes[i] # nodes[idx]
      BY <3>1, <2>0 DEF IInv, OrderOK, DependenciesLater
    <3>3. nodes[i] \in DOMAIN grads \/ nodes[i] \in VisitedArgs(nodes[idx])
      <4>1. \A j \in 1 .. Len(nodes) : j < idx + 1 => j < idx \/ j = idx
        BY <2>0
      <4> QED BY <4>1, <2>0, <2>2, <2>4, <3>1 DEF Populated
    <3>4. CASE SkipVariable
      <4>1. graph[nodes[idx]].is_variable /\ grads' = grads
        BY <3>4 DEF SkipVariable, Current
      <4>2. nodes[idx] \in Ids
        BY <2>0 DEF IInv, SeenOK
      <4>3. VisitedArgs(nodes[idx]) = {}
        BY <4>1, <4>2, VisitedOlder DEF IInv
      <4> QED BY <4>1, <4>3, <3>3
    <3>5. CASE Propagate
      <4>1. /\ Current = nodes[idx] /\ ~graph[nodes[idx]].is_variable
            /\ grads' = Accumulate(Without(grads, Current), Current, grads[Current])
        BY <3>5 DEF Propagate, Current
      <4>2. nodes[idx] \in Ids /\ nodes[i] \in Ids /\ nodes[i] \in DOMAIN seen /\ seen[nodes[i]]
        BY <2>0 DEF IInv, SeenOK
      <4>3. ~graph[nodes[i]].int
        <5>1. SUFFICES ASSUME graph[nodes[i]].int PROVE FALSE
          OBVIOUS
        <5>2. VisitedArgs(nodes[i]) = {}
          BY <5>1, <4>2, VisitedOlder DEF IInv
        <5>3. ~graph[nodes[i]].is_variable
          BY <5>1, <4>2 DEF IInv, GraphOK, WellFormed
        <5> QED BY <4>2, <5>2, <5>3 DEF IInv, SeenOK
      <4>4. graph[nodes[idx]].op # "custom_none"
        BY <2>2, <2>4
      <4>5. nodes[i] \in VisitedArgs(nodes[idx]) => nodes[i] \in CreditedArgs(nodes[idx])
        BY <4>2, <4>3, <4>4, VisitedAreCredited DEF IInv
      <4>6. DOMAIN grads' = (DOMAIN grads \ {nodes[idx]}) \cup CreditedArgs(nodes[idx])
        BY <4>1 DEF Accumulate, Without
      <4> QED BY <4>5, <4>6, <3>2, <3>3
    <3> QED BY <1>5, <3>4, <3>5
  <2>3. Populated'
    BY <2>0, <2>1, <2>2 DEF Populated
  <2> QED BY <2>0, <2>3 DEF GradPopulated
<1> QED BY <1>1, <1>2, <1>3, <1>4, <1>5 DEF Next, Run

\* The .expect of backward never fails before a custom operation has returned
\* None: until then the sweep finds the gradient of every node it reaches.
THEOREM GradsArePopulated ==
  Spec => []GradPopulated
<1>1. Init => Populated /\ GradPopulated
  BY DEF Init, Populated, GradPopulated
<1>2. IInv /\ (Populated /\ GradPopulated) /\ [Next]_vars => (Populated /\ GradPopulated)'
  <2> SUFFICES ASSUME IInv, Populated, GradPopulated, [Next]_vars
               PROVE  (Populated /\ GradPopulated)'
    OBVIOUS
  <2>1. CASE Next
    BY <2>1, PopulatedStep
  <2>2. CASE UNCHANGED vars
    <3>1. UNCHANGED <<graph, phase, nodes, idx, grads>>
      BY <2>2 DEF vars
    <3>2. Root' = Root /\ \A n : VisitedArgs(n)' = VisitedArgs(n)
      BY <3>1, GraphFixed DEF IInv
    <3> QED BY <3>1, <3>2 DEF Populated, GradPopulated, ReturnedNone
  <2> QED BY <2>1, <2>2
<1> QED BY <1>1, <1>2, Invariance, PTL DEF Spec
-----------------------------------------------------------------------------
(* nodes holds all the tracked ancestors of the result.                    *)

LEMMA NatMin ==
  ASSUME NEW T \in SUBSET Nat, T # {}
  PROVE  \E x \in T : \A y \in T : x <= y
<1> DEFINE R == {ss \in Nat \X Nat : ss[1] < ss[2]}
<1>1. IsWellFoundedOn(R, Nat)
  BY NatLessThanWellFounded DEF OpToRel
<1>2. PICK x \in T : \A y \in T : ~ (<<y, x>> \in R)
  BY <1>1, WFMin
<1>3. ASSUME NEW y \in T PROVE x <= y
  <2>1. x \in Nat /\ y \in Nat
    OBVIOUS
  <2>2. ~ (y < x)
    BY <1>2, <2>1
  <2> QED BY <2>1, <2>2
<1> QED BY <1>2, <1>3

\* The recursive definition of Tracked has a solution: the least one.
LEMMA TrackedIs ==
  ASSUME GraphOK
  PROVE  /\ Tracked \subseteq Ids
         /\ \A n \in Ids :
              n \in Tracked <=> graph[n].is_variable \/ \E m \in VisitedArgs(n) : m \in Tracked
<1> DEFINE IsT(t) == t = [n \in Ids |-> graph[n].is_variable \/ \E m \in VisitedArgs(n) : t[m]]
           Closed(S) == \A n \in Ids :
                          (graph[n].is_variable \/ \E m \in VisitedArgs(n) : m \in S) => n \in S
           T == {n \in Ids : \A S \in SUBSET Ids : Closed(S) => n \in S}
<1>1. \A n \in Ids : VisitedArgs(n) \subseteq Ids
  BY VisitedOlder
<1>2. Closed(T)
  <2> SUFFICES ASSUME NEW n \in Ids,
                      graph[n].is_variable \/ \E m \in VisitedArgs(n) : m \in T
               PROVE  n \in T
    OBVIOUS
  <2> SUFFICES ASSUME NEW S \in SUBSET Ids, Closed(S) PROVE n \in S
    OBVIOUS
  <2> QED OBVIOUS
<1>3. \A n \in T : graph[n].is_variable \/ \E m \in VisitedArgs(n) : m \in T
  <2> DEFINE S == {n \in T : graph[n].is_variable \/ \E m \in VisitedArgs(n) : m \in T}
  <2>1. Closed(S)
    BY <1>2
  <2>2. S \in SUBSET Ids
    OBVIOUS
  <2> QED BY <2>1, <2>2
<1> DEFINE t == [n \in Ids |-> n \in T]
<1>4. IsT(t)
  <2>1. \A n \in Ids : t[n] <=> graph[n].is_variable \/ \E m \in VisitedArgs(n) : t[m]
    BY <1>1, <1>2, <1>3
  <2>2. t = [n \in Ids |-> t[n]]
    OBVIOUS
  <2>3. \A n \in Ids : t[n] = (graph[n].is_variable \/ \E m \in VisitedArgs(n) : t[m])
    <3>1. \A n \in Ids : t[n] \in BOOLEAN
      OBVIOUS
    <3> HIDE DEF t
    <3> QED BY <2>1, <3>1
  <2> HIDE DEF t
  <2> QED BY <2>2, <2>3
<1> HIDE DEF T, t
<1> DEFINE c == CHOOSE x : IsT(x)
<1>5. IsT(c)
  BY <1>4
<1>6. Tracked = {n \in Ids : c[n]}
  BY DEF Tracked
<1> HIDE DEF c
<1>7. ASSUME NEW n \in Ids
      PROVE  n \in Tracked <=> graph[n].is_variable \/ \E m \in VisitedArgs(n) : m \in Tracked
  <2>1. c[n] <=> graph[n].is_variable \/ \E m \in VisitedArgs(n) : c[m]
    BY <1>5
  <2> QED BY <1>1, <1>6, <2>1
<1> QED BY <1>6, <1>7

LEMMA AncestorsIs ==
  ASSUME GraphOK
  PROVE  /\ Ancestors \subseteq Ids
         /\ \A n \in Ids :
              n \in Ancestors <=>
                n = Root \/ \E m \in n + 1 .. Root : n \in VisitedArgs(m) /\ m \in Ancestors
<1> DEFINE IsA(a) == a = [n \in Ids |-> n = Root \/
                                        \E m \in n + 1 .. Root : n \in VisitedArgs(m) /\ a[m]]
           Uses(n, S) == \E m \in n + 1 .. Root : n \in VisitedArgs(m) /\ m \in S
           Closed(S) == \A n \in Ids : (n = Root \/ Uses(n, S)) => n \in S
           T == {n \in Ids : \A S \in SUBSET Ids : Closed(S) => n \in S}
<1>1. \A n \in Ids : n + 1 .. Root \subseteq Ids
  <2>1. Len(graph) \in Nat
    BY DEF GraphOK
  <2> QED BY <2>1 DEF Ids, Root
<1>2. Closed(T)
  <2> SUFFICES ASSUME NEW n \in Ids, n = Root \/ Uses(n, T) PROVE n \in T
    OBVIOUS
  <2> SUFFICES ASSUME NEW S \in SUBSET Ids, Closed(S) PROVE n \in S
    OBVIOUS
  <2> QED OBVIOUS
<1>3. \A n \in T : n = Root \/ Uses(n, T)
  <2> DEFINE S == {n \in T : n = Root \/ Uses(n, T)}
  <2>1. Closed(S)
    BY <1>2
  <2>2. S \in SUBSET Ids
    OBVIOUS
  <2> QED BY <2>1, <2>2
<1> DEFINE a == [n \in Ids |-> n \in T]
<1>4. IsA(a)
  <2>1. \A n \in Ids :
          a[n] <=> n = Root \/ \E m \in n + 1 .. Root : n \in VisitedArgs(m) /\ a[m]
    BY <1>1, <1>2, <1>3
  <2>2. a = [n \in Ids |-> a[n]]
    OBVIOUS
  <2>3. \A n \in Ids :
          a[n] = (n = Root \/ \E m \in n + 1 .. Root : n \in VisitedArgs(m) /\ a[m])
    <3>1. \A n \in Ids : a[n] \in BOOLEAN
      OBVIOUS
    <3> HIDE DEF a
    <3> QED BY <2>1, <3>1
  <2> HIDE DEF a
  <2> QED BY <2>2, <2>3
<1> HIDE DEF T, a
<1> DEFINE c == CHOOSE x : IsA(x)
<1>5. IsA(c)
  BY <1>4
<1>6. Ancestors = {n \in Ids : c[n]}
  BY DEF Ancestors
<1> HIDE DEF c
<1>7. ASSUME NEW n \in Ids
      PROVE  n \in Ancestors <=>
               n = Root \/ \E m \in n + 1 .. Root : n \in VisitedArgs(m) /\ m \in Ancestors
  <2>1. c[n] <=> n = Root \/ \E m \in n + 1 .. Root : n \in VisitedArgs(m) /\ c[m]
    BY <1>5
  <2> QED BY <1>1, <1>6, <2>1
<1> QED BY <1>6, <1>7

\* already_seen maps a node to whether it is tracked.
LEMMA SeenTracked ==
  ASSUME IInv
  PROVE  \A n \in DOMAIN seen : seen[n] <=> n \in Tracked
<1> DEFINE T == {n \in DOMAIN seen : ~(seen[n] <=> n \in Tracked)}
<1>1. GraphOK /\ DOMAIN seen \subseteq Ids /\ T \in SUBSET Nat
  BY DEF IInv, SeenOK, Ids
<1> SUFFICES ASSUME T # {} PROVE FALSE
  OBVIOUS
<1>2. PICK n \in T : \A m \in T : n <= m
  BY <1>1, NatMin
<1>3. /\ n \in Ids /\ n \in Nat /\ VisitedArgs(n) \subseteq DOMAIN seen
      /\ seen[n] <=> graph[n].is_variable \/ \E m \in VisitedArgs(n) : seen[m]
  BY <1>1 DEF IInv, SeenOK
<1>4. \A m \in VisitedArgs(n) : seen[m] <=> m \in Tracked
  <2> SUFFICES ASSUME NEW m \in VisitedArgs(n), m \in T PROVE FALSE
    BY <1>3
  <2>1. m \in 1 .. n - 1 /\ n <= m
    BY <1>1, <1>2, <1>3, VisitedOlder
  <2> QED BY <1>3, <2>1
<1>5. n \in Tracked <=> graph[n].is_variable \/ \E m \in VisitedArgs(n) : m \in Tracked
  BY <1>1, <1>3, TrackedIs
<1> QED BY <1>3, <1>4, <1>5

\* The search starts at the root and ends with it.
RootSeen == (phase = "walk" /\ stack = <<>>) \/ Swept => Root \in DOMAIN seen

LEMMA RootSeenStep ==
  ASSUME IInv, RootSeen, [Next]_vars
  PROVE  RootSeen'
<1>1. CASE Build
  <2>1. CASE Backward
    <3>1. phase' = "walk" /\ stack' = <<Frame(Root)>>
      BY <2>1 DEF Backward
    <3> QED BY <3>1 DEF RootSeen, Swept
  <2>2. CASE ~Backward
    <3>1. phase' = "build"
      BY <1>1, <2>2 DEF Build, NewLeaf, Binary, Unary, Affine, Cmp, ToDType, WhereCond,
                        Detach, Create
    <3> QED BY <3>1 DEF RootSeen, Swept
  <2> QED BY <2>1, <2>2
<1>2. CASE WalkDown \/ WalkNext
  <2>1. /\ phase = "walk" /\ phase' = "walk" /\ stack # <<>> /\ stack \in Seq(FrameType)
        /\ IInv'
    BY <1>2, WalkDownPreserves, WalkNextPreserves DEF WalkDown, WalkNext, IInv, Types
  <2>2. Len(stack') # 0
    <3>1. CASE WalkDown
      <4>1. stack' = Append(stack, Frame(NextWalkArg))
        BY <3>1 DEF WalkDown
      <4>2. Len(stack') = Len(stack) + 1 /\ Len(stack) \in Nat
        BY <2>1, <4>1
      <4> QED BY <4>2
    <3>2. CASE WalkNext
      <4>1. Len(stack) \in Nat /\ Len(stack) # 0
        BY <2>1
      <4>2. Len(stack') = Len(stack)
        BY <2>1, <3>2 DEF WalkNext
      <4> QED BY <4>1, <4>2
    <3> QED BY <1>2, <3>1, <3>2
  <2>3. stack' # <<>>
    BY <2>2
  <2> QED BY <2>1, <2>3 DEF RootSeen, Swept
<1>3. CASE WalkUp
  <2>1. /\ phase = "walk" /\ stack # <<>> /\ phase' = "walk" /\ graph' = graph
        /\ DOMAIN seen' = DOMAIN seen \cup {Top.node}
        /\ stack' = SubSeq(stack, 1, Len(stack) - 1)
    BY <1>3 DEF WalkUp
  <2>2. stack \in Seq(FrameType) /\ Len(stack) \in Nat /\ Len(stack) >= 1
    BY <2>1, TopFacts DEF IInv, Types
  <2>3. ASSUME stack' = <<>> PROVE Root \in DOMAIN seen'
    <3> DEFINE L == Len(stack)
    <3>0. L \in Nat /\ L >= 1 /\ stack' = SubSeq(stack, 1, L - 1)
      BY <2>1, <2>2
    <3>1. L - 1 \in 1 - 1 .. Len(stack) /\ 1 \in 1 .. Len(stack) + 1 /\ L - 1 \in Nat
      BY <3>0
    <3> HIDE DEF L
    <3>4. Len(SubSeq(stack, 1, L - 1)) = L - 1
      BY <2>2, <3>1, SubSeqProperties
    <3>5. Len(stack') = 0
      BY <2>3
    <3>2. Len(stack) = 1
      BY <3>0, <3>4, <3>5 DEF L
    <3>3. WaitingOK(1) /\ Top = stack[1]
      BY <3>2 DEF IInv, StackOK, Top
    <3> QED BY <2>1, <3>3 DEF WaitingOK
  <2>4. Root' = Root
    BY <2>1 DEF Root
  <2> QED BY <2>1, <2>3, <2>4 DEF RootSeen, Swept
<1>4. CASE StartSweep \/ SkipVariable \/ Propagate \/ NotSupported \/ Panic \/ Finish
  BY <1>4 DEF StartSweep, SkipVariable, Propagate, NotSupported, Panic, Finish,
              RootSeen, Root, Swept
<1>5. CASE UNCHANGED vars
  BY <1>5 DEF vars, RootSeen, Root, Swept
<1> QED BY <1>1, <1>2, <1>3, <1>4, <1>5 DEF Next, Run

\* What the search has seen is what the result is computed from.
LEMMA SeenAncestors ==
  ASSUME IInv, Swept, Root \in DOMAIN seen
  PROVE  DOMAIN seen = Ancestors
<1>1. GraphOK /\ DOMAIN seen \subseteq Ids /\ Root \in Nat /\ stack = <<>> /\ Ids = 1 .. Root
  BY DEF IInv, SeenOK, GraphOK, StackOK, Ids, Root, Swept
<1>2. /\ Ancestors \subseteq Ids
      /\ \A n \in Ids :
           n \in Ancestors <=>
             n = Root \/ \E m \in n + 1 .. Root : n \in VisitedArgs(m) /\ m \in Ancestors
  BY <1>1, AncestorsIs
<1> DEFINE T == {k \in 0 .. Root :
                   Root - k \in Ids /\ ~(Root - k \in DOMAIN seen <=> Root - k \in Ancestors)}
<1> SUFFICES ASSUME T # {} PROVE FALSE
  <2>1. ASSUME NEW n \in Ids PROVE n \in DOMAIN seen <=> n \in Ancestors
    <3>1. Root - n \in 0 .. Root /\ Root - (Root - n) = n
      BY <1>1
    <3> QED BY <3>1
  <2> QED BY <1>1, <1>2, <2>1
<1>3. T \in SUBSET Nat
  BY <1>1
<1>4. PICK k \in T : \A j \in T : k <= j
  BY <1>3, NatMin
<1>5. PICK n \in Ids : n = Root - k
  OBVIOUS
<1>6. ~(n \in DOMAIN seen <=> n \in Ancestors) /\ k = Root - n /\ n \in Nat
  BY <1>1, <1>5
<1>7. ASSUME NEW m \in n + 1 .. Root PROVE m \in DOMAIN seen <=> m \in Ancestors
  <2>1. Root - m \in 0 .. Root /\ Root - (Root - m) = m /\ m \in Ids /\ Root - m < k
    BY <1>1, <1>6
  <2>2. Root - m \notin T
    BY <1>1, <1>4, <2>1
  <2> QED BY <2>1, <2>2
<1>8. CASE n \in DOMAIN seen
  <2>1. n # Root
    BY <1>2, <1>6, <1>8
  <2>2. PICK p \in Ids : n \in VisitedArgs(p) /\ p \in DOMAIN seen
    BY <1>1, <1>8, <2>1 DEF IInv, ParentsOK, HasParent, OnStack
  <2>3. n \in 1 .. p - 1
    BY <1>1, <2>2, VisitedOlder
  <2>4. p \in n + 1 .. Root
    BY <1>1, <1>6, <2>3
  <2> QED BY <1>2, <1>6, <1>7, <1>8, <2>2, <2>4
<1>9. CASE n \in Ancestors /\ n \notin DOMAIN seen
  <2>1. PICK m \in n + 1 .. Root : n \in VisitedArgs(m) /\ m \in Ancestors
    BY <1>2, <1>9
  <2>2. m \in DOMAIN seen
    BY <1>7, <2>1
  <2> QED BY <1>9, <2>1, <2>2 DEF IInv, SeenOK
<1> QED BY <1>6, <1>8, <1>9

\* sorted_nodes returns every tensor that a variable influences and the result
\* is computed from, exactly once and before the tensors it is computed from:
\* the search neither misses a node behind one it has met before nor keeps a
\* node that no variable influences.
THEOREM SortedIsComplete == Spec => []SortedNodes
<1>1. Init => RootSeen
  BY DEF Init, RootSeen, Swept
<1>2. IInv /\ RootSeen /\ [Next]_vars => RootSeen'
  BY RootSeenStep
<1>3. IInv /\ RootSeen => SortedNodes
  <2> SUFFICES ASSUME IInv, RootSeen, Swept
               PROVE  /\ TopologicalOrder
                      /\ {nodes[i] : i \in 1 .. Len(nodes)} = Tracked \cap Ancestors
    BY DEF SortedNodes
  <2>1. TopologicalOrder
    BY DEF IInv, OrderOK, TopologicalOrder
  <2>2. DOMAIN seen = Ancestors
    BY SeenAncestors DEF RootSeen
  <2>3. \A n \in DOMAIN seen : seen[n] <=> n \in Tracked
    BY SeenTracked
  <2>4. \A n \in DOMAIN seen : seen[n] => \E i \in 1 .. Len(nodes) : nodes[i] = n
    BY DEF IInv, SeenOK
  <2>5. \A i \in 1 .. Len(nodes) : nodes[i] \in DOMAIN seen /\ seen[nodes[i]]
    BY DEF IInv, SeenOK
  <2> QED BY <2>1, <2>2, <2>3, <2>4, <2>5
<1> QED BY <1>1, <1>2, <1>3, Invariance, PTL DEF Spec
-----------------------------------------------------------------------------
(* The gradients of a completed sweep are the derivatives.                 *)

\* The kinds whose arm passes on the gradient it should: the arms of upsample
\* and of the two scatters do not.
ExactArms == Kinds \cap {"upsample", "scatter", "scatter_add"} = {}

Arity(op) ==
  CASE op \in BinaryKinds -> 2 [] op = "where_cond" -> 3 [] op = "leaf" -> 0 [] OTHER -> 1

\* What the record of a tensor says of the operation that computed it: if it
\* is not recorded, no argument is tracked, or there is nothing to record.
Meant(node) ==
  /\ node.op \in Kinds \cup {"leaf"}
  /\ node.is_variable => node.op = "leaf"
  /\ \/ node.recorded
     \/ node.op \in {"leaf", "detach"}
     \/ \A i \in 1 .. Len(node.args) : ~track_op(node.args[i])
  /\ node.int <=> node.op \in {"cmp", "to_int"}
  /\ Len(node.args) = Arity(node.op)

GraphMeant == \A n \in Ids : Meant(graph[n])

LEMMA NodeMeant ==
  ASSUME NEW op \in Kinds, NEW args, NEW mul, NEW int \in BOOLEAN, NEW val, op # "leaf",
         Len(args) = Arity(op), int <=> op \in {"cmp", "to_int"}
  PROVE  Meant(Node(op, args, mul, int, val))
<1> DEFINE node == Node(op, args, mul, int, val)
<1>1. /\ node.op = op /\ node.args = args /\ node.int = int /\ node.is_variable = FALSE
      /\ node.recorded = \E i \in 1 .. Len(args) : track_op(args[i])
  BY DEF Node
<1> HIDE DEF node
<1>2. Meant(node)
  BY <1>1 DEF Meant
<1> QED BY <1>2 DEF node

LEMMA CreateMeant ==
  ASSUME IInv, GraphMeant, NEW node, Meant(node), Create(node),
         \A i \in 1 .. Len(node.args) : node.args[i] \in Ids
  PROVE  GraphMeant'
<1>1. graph' = Append(graph, node) /\ graph \in Seq(NodeType) /\ Len(graph) \in Nat
  BY DEF Create, IInv, GraphOK
<1>2. /\ Len(graph') = Len(graph) + 1 /\ graph'[Len(graph) + 1] = node
      /\ \A n \in Ids : graph'[n] = graph[n]
  BY <1>1 DEF Ids
<1>3. \A n \in Ids : track_op(n)' = track_op(n)
  BY <1>2 DEF track_op
<1>4. ASSUME NEW n \in Ids PROVE Meant(graph[n])'
  <2>1. \A i \in 1 .. Len(graph[n].args) : graph[n].args[i] \in Ids
    <3>1. WellFormed(n) /\ n \in 1 .. Len(graph)
      BY DEF IInv, GraphOK, Ids
    <3> QED BY <1>1, <3>1 DEF WellFormed, Ids
  <2>2. Meant(graph[n]) /\ graph'[n] = graph[n]
    BY <1>2 DEF GraphMeant
  <2> QED BY <1>3, <2>1, <2>2 DEF Meant
<1>5. ASSUME NEW n, n = Len(graph) + 1 PROVE Meant(graph[n])'
  <2>1. graph'[n] = node
    BY <1>2, <1>5
  <2> QED BY <1>3, <2>1 DEF Meant
<1>6. \A n \in Ids' : n \in Ids \/ n = Len(graph) + 1
  BY <1>1, <1>2 DEF Ids
<1> QED BY <1>4, <1>5, <1>6 DEF GraphMeant

LEMMA GraphMeantStep ==
  ASSUME IInv, GraphMeant, [Next]_vars
  PROVE  GraphMeant'
<1>0. Floats \subseteq Ids /\ Ints \subseteq Ids
  BY DEF Floats, Ints, Ids
<1>1. ASSUME UNCHANGED graph PROVE GraphMeant'
  BY <1>1 DEF GraphMeant, Meant, Ids, track_op
<1>2. ASSUME NEW op \in Kinds, NEW args \in Seq(Ids), NEW mul, NEW int \in BOOLEAN, NEW val,
             op # "leaf", Len(args) = Arity(op), int <=> op \in {"cmp", "to_int"},
             Create(Node(op, args, mul, int, val))
      PROVE  GraphMeant'
  <2> DEFINE node == Node(op, args, mul, int, val)
  <2>1. Meant(node)
    BY <1>2, NodeMeant
  <2>2. node.args = args
    BY DEF Node
  <2>3. Create(node)
    BY <1>2
  <2> HIDE DEF node
  <2> QED BY <2>1, <2>2, <2>3, CreateMeant
<1>3. CASE NewLeaf
  <2>0. PICK var \in BOOLEAN : \E val : Create(Leaf("leaf", <<>>, var, val))
    BY <1>3 DEF NewLeaf
  <2>1. PICK val : Create(Leaf("leaf", <<>>, var, val))
    BY <2>0
  <2> DEFINE node == Leaf("leaf", <<>>, var, val)
  <2>2. /\ node.op = "leaf" /\ node.args = <<>> /\ node.int = FALSE
    BY DEF Leaf
  <2>3. Create(node)
    BY <2>1
  <2> HIDE DEF node
  <2>4. Arity("leaf") = 0 /\ Len(node.args) = 0
    BY <2>2 DEF Arity, BinaryKinds
  <2>5. Meant(node)
    BY <2>2, <2>4 DEF Meant
  <2> QED BY <2>3, <2>4, <2>5, CreateMeant
<1>4. CASE Binary
  <2>1. PICK k \in Kinds \cap BinaryKinds, l \in Floats, r \in Floats :
          Create(Node(k, <<l, r>>, 0, FALSE, BinaryVal(k, graph[l].val, graph[r].val)))
    BY <1>4 DEF Binary
  <2>2. k \notin {"leaf", "cmp", "to_int"} /\ Arity(k) = 2
    BY DEF BinaryKinds, Arity
  <2>3. <<l, r>> \in Seq(Ids) /\ Len(<<l, r>>) = 2
    BY <1>0
  <2> QED BY <1>2, <2>1, <2>2, <2>3
<1>5. CASE Unary
  <2>1. PICK k \in Kinds \cap UnaryKinds, a \in Floats :
          Create(Node(k, <<a>>, 0, FALSE, UnaryVal(k, graph[a].val)))
    BY <1>5 DEF Unary
  <2>2. k \notin {"leaf", "cmp", "to_int"} /\ Arity(k) = 1
    BY DEF UnaryKinds, ViewKinds, BinaryKinds, Arity
  <2>3. <<a>> \in Seq(Ids) /\ Len(<<a>>) = 1
    BY <1>0
  <2> QED BY <1>2, <2>1, <2>2, <2>3
<1>6. CASE Affine
  <2>1. PICK a \in Floats, m \in Muls :
          Create(Node("affine", <<a>>, m, FALSE, m * graph[a].val))
    BY <1>6 DEF Affine
  <2>2. "affine" \in Kinds /\ Arity("affine") = 1
    BY <1>6 DEF Affine, BinaryKinds, Arity
  <2>3. <<a>> \in Seq(Ids) /\ Len(<<a>>) = 1
    BY <1>0
  <2> QED BY <1>2, <2>1, <2>2, <2>3
<1>7. CASE Cmp
  <2>0. PICK a \in Floats : \E val : Create(Node("cmp", <<a>>, 0, TRUE, val))
    BY <1>7 DEF Cmp
  <2>1. PICK val : Create(Node("cmp", <<a>>, 0, TRUE, val))
    BY <2>0
  <2>2. "cmp" \in Kinds /\ Arity("cmp") = 1
    BY <1>7 DEF Cmp, BinaryKinds, Arity
  <2>3. <<a>> \in Seq(Ids) /\ Len(<<a>>) = 1
    BY <1>0
  <2> QED BY <1>2, <2>1, <2>2, <2>3
<1>8. CASE ToDType
  <2>1. PICK k \in Kinds \cap {"to_int", "to_float"}, a \in Ids :
          Create(Node(k, <<a>>, 0, k = "to_int", graph[a].val))
    <3>1. CASE /\ "to_int" \in Kinds
               /\ \E a \in Floats : Create(Node("to_int", <<a>>, 0, TRUE, graph[a].val))
      BY <1>0, <3>1
    <3>2. CASE /\ "to_float" \in Kinds
               /\ \E a \in Ints : Create(Node("to_float", <<a>>, 0, FALSE, graph[a].val))
      <4>1. ("to_float" = "to_int") = FALSE
        OBVIOUS
      <4> QED BY <1>0, <3>2, <4>1
    <3> QED BY <1>8, <3>1, <3>2 DEF ToDType
  <2>2. k # "leaf" /\ Arity(k) = 1 /\ ((k = "to_int") <=> k \in {"cmp", "to_int"})
    BY DEF BinaryKinds, Arity
  <2>3. <<a>> \in Seq(Ids) /\ Len(<<a>>) = 1
    OBVIOUS
  <2>4. (k = "to_int") \in BOOLEAN /\ k \in Kinds
    OBVIOUS
  <2> QED BY <1>2, <2>1, <2>2, <2>3, <2>4
<1>9. CASE WhereCond
  <2>0. PICK p \in Ints, t \in Floats, f \in Floats :
          \E val : Create(Node("where_cond", <<p, t, f>>, 0, FALSE, val))
    BY <1>9 DEF WhereCond
  <2>1. PICK val : Create(Node("where_cond", <<p, t, f>>, 0, FALSE, val))
    BY <2>0
  <2>2. "where_cond" \in Kinds /\ Arity("where_cond") = 3
    BY <1>9 DEF WhereCond, BinaryKinds, Arity
  <2>3. <<p, t, f>> \in Seq(Ids) /\ Len(<<p, t, f>>) = 3
    BY <1>0
  <2> QED BY <1>2, <2>1, <2>2, <2>3
<1>10. CASE Detach
  <2>1. PICK a \in Floats : Create(Leaf("detach", <<a>>, FALSE, graph[a].val))
    BY <1>10 DEF Detach
  <2> DEFINE node == Leaf("detach", <<a>>, FALSE, graph[a].val)
  <2>2. node.op = "detach" /\ node.args = <<a>> /\ node.int = FALSE /\ node.is_variable = FALSE
    BY DEF Leaf
  <2>3. Create(node)
    BY <2>1
  <2> HIDE DEF node
  <2>4. /\ Arity("detach") = 1 /\ Len(node.args) = 1
        /\ \A i \in 1 .. Len(node.args) : node.args[i] \in Ids
    BY <1>0, <2>2 DEF Arity, BinaryKinds
  <2>5. "detach" \in Kinds
    BY <1>10 DEF Detach
  <2>6. Meant(node)
    BY <2>2, <2>4, <2>5 DEF Meant
  <2> QED BY <2>3, <2>4, <2>6, CreateMeant
<1>11. CASE Backward \/ Run
  BY <1>1, <1>11 DEF Backward, Run, WalkDown, WalkNext, WalkUp, StartSweep, SkipVariable,
                     Propagate, NotSupported, Panic, Finish
<1>12. CASE UNCHANGED vars
  BY <1>1, <1>12 DEF vars
<1> QED
  BY <1>3, <1>4, <1>5, <1>6, <1>7, <1>8, <1>9, <1>10, <1>11, <1>12 DEF Next, Build

\* The derivative of tensor n by variable v, given those of n's arguments.
Rule(v, n, d) ==
  LET a == graph[n].args
      x == IF Len(a) >= 1 THEN d[a[1]] ELSE 0
      y == IF Len(a) >= 2 THEN d[a[2]] ELSE 0
  IN  CASE n = v -> 1
        [] n # v /\ graph[n].op \in
             {"leaf", "detach", "step", "cmp", "to_int", "custom_none"} -> 0
        [] graph[n].op \in {"add", "scatter_add"} -> x + y
        [] graph[n].op = "sub" -> x - y
        [] graph[n].op = "mul" -> x * Val(a[2]) + y * Val(a[1])
        [] graph[n].op = "scatter" -> y
        [] graph[n].op = "neg" -> -x
        [] graph[n].op = "sqr" -> 2 * Val(a[1]) * x
        [] graph[n].op = "affine" -> graph[n].mul * x
        [] graph[n].op = "where_cond" -> IF Val(a[1]) # 0 THEN y ELSE d[a[3]]
        [] graph[n].op \in {"view", "upsample", "unsupported", "to_float"} -> x

\* d lists the derivatives of all tensors by v.
IsD(v, d) == d = [n \in Ids |-> Rule(v, n, d)]

\* The graph and the kinds of its tensors.
LEMMA NodeFacts ==
  ASSUME GraphOK, GraphMeant, NEW n \in Ids
  PROVE  /\ n \in Nat /\ graph[n].op \in AllOps /\ graph[n].mul \in Int /\ graph[n].val \in Int
         /\ Len(graph[n].args) = Arity(graph[n].op) /\ Len(graph[n].args) \in 0 .. 3
         /\ \A i \in 1 .. Len(graph[n].args) :
              /\ graph[n].args[i] \in Ids /\ graph[n].args[i] \in Nat
              /\ graph[n].args[i] < n
         /\ graph[n].is_variable => graph[n].op = "leaf"
         /\ graph[n].int <=> graph[n].op \in {"cmp", "to_int"}
<1>1. graph[n] \in NodeType /\ WellFormed(n) /\ n \in 1 .. Len(graph) /\ Len(graph) \in Nat
  BY DEF GraphOK, Ids
<1>2. Meant(graph[n])
  BY DEF GraphMeant
<1>3. Len(graph[n].args) \in 0 .. 3
  BY <1>2 DEF Meant, Arity
<1>4. \A i \in 1 .. Len(graph[n].args) :
        graph[n].args[i] \in Ids /\ graph[n].args[i] \in Nat /\ graph[n].args[i] < n
  BY <1>1 DEF WellFormed, Ids
<1> QED BY <1>1, <1>2, <1>3, <1>4 DEF NodeType, Meant

\* The rule only looks at the arguments.
LEMMA RuleAgrees ==
  ASSUME GraphOK, GraphMeant, NEW v, NEW n \in Ids, NEW d, NEW e,
         \A i \in 1 .. Len(graph[n].args) : d[graph[n].args[i]] = e[graph[n].args[i]]
  PROVE  Rule(v, n, d) = Rule(v, n, e)
<1> DEFINE a == graph[n].args
<1>1. Len(a) \in 0 .. 3 /\ (graph[n].op = "where_cond" => Len(a) = 3)
  BY NodeFacts DEF Arity, BinaryKinds
<1>2. /\ Len(a) >= 1 => d[a[1]] = e[a[1]]
      /\ Len(a) >= 2 => d[a[2]] = e[a[2]]
      /\ Len(a) = 3 => d[a[3]] = e[a[3]]
  BY <1>1
<1> QED BY <1>1, <1>2 DEF Rule

\* The recursive definition of Derivative has a solution, one tensor after the
\* other.
LEMMA PrefixExists ==
  ASSUME GraphOK, GraphMeant, NEW v
  PROVE  \A j \in 0 .. Root : \E d : d = [n \in 1 .. j |-> Rule(v, n, d)]
<1> DEFINE P(j) == \E d : d = [n \in 1 .. j |-> Rule(v, n, d)]
           T == {j \in 0 .. Root : ~P(j)}
<1>0. Root \in Nat /\ Ids = 1 .. Root
  BY DEF GraphOK, Root, Ids
<1> SUFFICES ASSUME T # {} PROVE FALSE
  OBVIOUS
<1>1. T \in SUBSET Nat
  OBVIOUS
<1>2. PICK k \in T : \A j \in T : k <= j
  BY <1>1, NatMin
<1>3. k # 0
  <2> DEFINE d == [n \in 1 .. 0 |-> 0]
  <2>1. d = [n \in 1 .. 0 |-> Rule(v, n, d)]
    OBVIOUS
  <2>2. P(0)
    BY <2>1
  <2> QED BY <2>2
<1>4. PICK j \in Nat : k = j + 1
  <2>1. k - 1 \in Nat /\ k = (k - 1) + 1
    BY <1>3
  <2> QED BY <2>1
<1>5. j \in 0 .. Root /\ k \in Ids /\ j \notin T
  BY <1>0, <1>2, <1>4
<1>6. PICK R : R = [n \in 1 .. j |-> Rule(v, n, R)]
  BY <1>5
<1> DEFINE Q == [n \in 1 .. k |-> IF n = k THEN Rule(v, k, R) ELSE R[n]]
<1>7. \A n \in 1 .. j : Q[n] = R[n]
  BY <1>4
<1>8. ASSUME NEW n \in 1 .. k PROVE Q[n] = Rule(v, n, Q)
  <2>1. n \in Ids
    BY <1>0, <1>5
  <2>2. \A i \in 1 .. Len(graph[n].args) : graph[n].args[i] \in 1 .. j
    <3>1. \A i \in 1 .. Len(graph[n].args) :
            graph[n].args[i] \in 1 .. Root /\ graph[n].args[i] < n /\ graph[n].args[i] \in Nat
      BY <1>0, <2>1, NodeFacts
    <3> QED BY <1>4, <3>1
  <2>3. \A i \in 1 .. Len(graph[n].args) : Q[graph[n].args[i]] = R[graph[n].args[i]]
    BY <1>7, <2>2
  <2> HIDE DEF Q
  <2>4. Rule(v, n, Q) = Rule(v, n, R)
    BY <2>1, <2>3, RuleAgrees
  <2>5. CASE n = k
    BY <2>4, <2>5 DEF Q
  <2>6. CASE n \in 1 .. j
    <3>1. R[n] = Rule(v, n, R)
      BY <1>6, <2>6
    <3> QED BY <1>7, <2>4, <2>6, <3>1
  <2> QED BY <1>4, <2>5, <2>6
<1>9. Q = [n \in 1 .. k |-> Q[n]]
  OBVIOUS
<1> HIDE DEF Q
<1>10. Q = [n \in 1 .. k |-> Rule(v, n, Q)]
  BY <1>8, <1>9
<1> QED BY <1>10

LEMMA DerivativeIs ==
  ASSUME GraphOK, GraphMeant, NEW v
  PROVE  \E d : IsD(v, d) /\ Derivative(v) = d[Root]
<1> DEFINE c == CHOOSE d : IsD(v, d)
<1>1. \E d : IsD(v, d)
  <2>1. Root \in 0 .. Root /\ Ids = 1 .. Root
    BY DEF GraphOK, Root, Ids
  <2>2. PICK d : d = [n \in 1 .. Root |-> Rule(v, n, d)]
    BY <2>1, PrefixExists
  <2>3. IsD(v, d)
    BY <2>1, <2>2 DEF IsD
  <2> QED BY <2>3
<1>2. IsD(v, c)
  BY <1>1
<1>3. Derivative(v) = c[Root]
  BY DEF Derivative, IsD, Rule
<1> QED BY <1>2, <1>3

\* The rule of each operation.
LEMMA RuleIs ==
  ASSUME GraphOK, GraphMeant, NEW v, NEW n \in Ids, NEW d, n # v
  PROVE  LET op == graph[n].op
             a == graph[n].args
         IN  /\ op \in {"leaf", "detach", "step", "cmp", "to_int", "custom_none"} =>
                  Rule(v, n, d) = 0
             /\ op \in {"add", "scatter_add"} => Rule(v, n, d) = d[a[1]] + d[a[2]]
             /\ op = "sub" => Rule(v, n, d) = d[a[1]] - d[a[2]]
             /\ op = "mul" => Rule(v, n, d) = d[a[1]] * Val(a[2]) + d[a[2]] * Val(a[1])
             /\ op = "scatter" => Rule(v, n, d) = d[a[2]]
             /\ op = "neg" => Rule(v, n, d) = -d[a[1]]
             /\ op = "sqr" => Rule(v, n, d) = 2 * Val(a[1]) * d[a[1]]
             /\ op = "affine" => Rule(v, n, d) = graph[n].mul * d[a[1]]
             /\ op = "where_cond" =>
                  Rule(v, n, d) = IF Val(a[1]) # 0 THEN d[a[2]] ELSE d[a[3]]
             /\ op \in {"view", "upsample", "unsupported", "to_float"} =>
                  Rule(v, n, d) = d[a[1]]
<1> DEFINE op == graph[n].op
           a == graph[n].args
<1>1. /\ Len(a) \in Nat
      /\ op \in BinaryKinds => Len(a) >= 1 /\ Len(a) >= 2
      /\ op \in {"neg", "sqr", "affine", "view", "upsample", "unsupported", "to_float",
                 "where_cond"} => Len(a) >= 1
      /\ op = "where_cond" => Len(a) >= 2
  BY NodeFacts DEF Arity, BinaryKinds
<1>2. CASE op \in {"leaf", "detach", "step", "cmp", "to_int", "custom_none"}
  BY <1>1, <1>2 DEF Rule, BinaryKinds
<1>3. CASE op \in {"add", "scatter_add"}
  BY <1>1, <1>3 DEF Rule, BinaryKinds
<1>4. CASE op = "sub"
  BY <1>1, <1>4 DEF Rule, BinaryKinds
<1>5. CASE op = "mul"
  BY <1>1, <1>5 DEF Rule, BinaryKinds
<1>6. CASE op = "scatter"
  BY <1>1, <1>6 DEF Rule, BinaryKinds
<1>7. CASE op = "neg"
  BY <1>1, <1>7 DEF Rule, BinaryKinds
<1>8. CASE op = "sqr"
  BY <1>1, <1>8 DEF Rule, BinaryKinds
<1>9. CASE op = "affine"
  BY <1>1, <1>9 DEF Rule, BinaryKinds
<1>10. CASE op = "where_cond"
  BY <1>1, <1>10 DEF Rule, BinaryKinds
<1>11. CASE op \in {"view", "upsample", "unsupported", "to_float"}
  BY <1>1, <1>11 DEF Rule, BinaryKinds
<1> QED BY <1>2, <1>3, <1>4, <1>5, <1>6, <1>7, <1>8, <1>9, <1>10, <1>11

LEMMA RuleSelf ==
  ASSUME GraphOK, GraphMeant, NEW v \in Variables, NEW d
  PROVE  Rule(v, v, d) = 1
<1>1. graph[v].op = "leaf"
  BY NodeFacts DEF Variables
<1> QED BY <1>1 DEF Rule

LEMMA ArityTwo == \A op \in BinaryKinds : Arity(op) = 2
BY DEF Arity, BinaryKinds

LEMMA RuleTyped ==
  ASSUME GraphOK, GraphMeant, NEW v \in Variables, NEW n \in Ids, NEW d,
         \A i \in 1 .. Len(graph[n].args) : d[graph[n].args[i]] \in Int
  PROVE  Rule(v, n, d) \in Int
<1> DEFINE op == graph[n].op
           a == graph[n].args
<1>1. /\ Len(a) \in 0 .. 3 /\ Len(a) = Arity(op) /\ op \in AllOps /\ graph[n].mul \in Int
      /\ \A i \in 1 .. Len(a) : Val(a[i]) \in Int
  BY NodeFacts DEF Val
<1>2. CASE n = v
  <2>1. Rule(v, n, d) = 1
    BY <1>2, RuleSelf
  <2> QED BY <2>1
<1>3. CASE n # v /\ op \in BinaryKinds
  <2>0. Len(a) = 2 /\ 1 \in 1 .. Len(a) /\ 2 \in 1 .. Len(a)
    BY <1>1, <1>3, ArityTwo
  <2>1. d[a[1]] \in Int /\ d[a[2]] \in Int /\ Val(a[1]) \in Int /\ Val(a[2]) \in Int
    BY <1>1, <2>0
  <2> DEFINE x == d[a[1]]
             y == d[a[2]]
             p == Val(a[1])
             q == Val(a[2])
  <2>2. Rule(v, n, d) \in {x + y, x - y, x * q + y * p, y}
    BY <1>3, RuleIs DEF BinaryKinds
  <2> HIDE DEF x, y, p, q
  <2>3. x \in Int /\ y \in Int /\ p \in Int /\ q \in Int
    BY <2>1 DEF x, y, p, q
  <2>4. x * q \in Int /\ y * p \in Int
    BY <2>3
  <2> QED BY <2>2, <2>3, <2>4
<1>4. CASE n # v /\ op = "where_cond"
  <2>1. Len(a) = 3
    BY <1>1, <1>4 DEF Arity, BinaryKinds
  <2>2. d[a[2]] \in Int /\ d[a[3]] \in Int
    BY <2>1
  <2>3. Rule(v, n, d) \in {d[a[2]], d[a[3]]}
    BY <1>4, RuleIs
  <2> QED BY <2>2, <2>3
<1>5. CASE n # v /\ op \in {"leaf", "detach", "step", "cmp", "to_int", "custom_none"}
  BY <1>5, RuleIs
<1>6. CASE /\ n # v
           /\ op \in {"neg", "sqr", "affine", "view", "upsample", "unsupported", "to_float"}
  <2>1. Len(a) = 1
    BY <1>1, <1>6 DEF Arity, BinaryKinds
  <2> DEFINE x == d[a[1]]
             p == Val(a[1])
             w == graph[n].mul
  <2>2. x \in Int /\ p \in Int /\ w \in Int
    BY <1>1, <2>1
  <2>3. Rule(v, n, d) \in {-x, 2 * p * x, w * x, x}
    BY <1>6, RuleIs
  <2> HIDE DEF x, p, w
  <2>4. 2 * p * x \in Int /\ w * x \in Int /\ -x \in Int
    BY <2>2
  <2> QED BY <2>2, <2>3, <2>4
<1> QED
  BY <1>1, <1>2, <1>3, <1>4, <1>5, <1>6 DEF AllOps, UnaryKinds, ViewKinds, OtherKinds

LEMMA DerivativeTyped ==
  ASSUME GraphOK, GraphMeant, NEW v \in Variables, NEW d, IsD(v, d)
  PROVE  \A n \in Ids : d[n] \in Int
<1> DEFINE T == {n \in Ids : d[n] \notin Int}
<1> SUFFICES ASSUME T # {} PROVE FALSE
  OBVIOUS
<1>1. T \in SUBSET Nat
  BY DEF Ids
<1>2. PICK n \in T : \A m \in T : n <= m
  BY <1>1, NatMin
<1>3. \A i \in 1 .. Len(graph[n].args) : d[graph[n].args[i]] \in Int
  <2> SUFFICES ASSUME NEW i \in 1 .. Len(graph[n].args), graph[n].args[i] \in T PROVE FALSE
    BY NodeFacts
  <2>1. graph[n].args[i] < n /\ n <= graph[n].args[i] /\ graph[n].args[i] \in Nat /\ n \in Nat
    BY <1>2, NodeFacts
  <2> QED BY <2>1
<1>4. d[n] = Rule(v, n, d)
  BY DEF IsD
<1> QED BY <1>3, <1>4, RuleTyped

LEMMA NegZero ==
  ASSUME NEW z \in Int, z >= 0, z <= 0
  PROVE  -z = 0
OBVIOUS

\* An operation on arguments without influence has none.
LEMMA RuleZero ==
  ASSUME GraphOK, GraphMeant, NEW v, NEW n \in Ids, NEW d, n # v,
         \A i \in 1 .. Len(graph[n].args) : d[graph[n].args[i]] = 0
  PROVE  Rule(v, n, d) = 0
<1> DEFINE op == graph[n].op
           a == graph[n].args
<1>1. /\ Len(a) \in 0 .. 3 /\ Len(a) = Arity(op) /\ op \in AllOps /\ graph[n].mul \in Int
      /\ \A i \in 1 .. Len(a) : Val(a[i]) \in Int
  BY NodeFacts DEF Val
<1>3. CASE op \in BinaryKinds
  <2>0. Len(a) = 2 /\ 1 \in 1 .. Len(a) /\ 2 \in 1 .. Len(a)
    BY <1>1, <1>3, ArityTwo
  <2>1. d[a[1]] = 0 /\ d[a[2]] = 0 /\ Val(a[1]) \in Int /\ Val(a[2]) \in Int
    BY <1>1, <2>0
  <2> DEFINE x == d[a[1]]
             y == d[a[2]]
             p == Val(a[1])
             q == Val(a[2])
  <2>2. Rule(v, n, d) \in {x + y, x - y, x * q + y * p, y}
    BY <1>3, RuleIs DEF BinaryKinds
  <2> HIDE DEF x, y, p, q
  <2>3. x = 0 /\ y = 0 /\ p \in Int /\ q \in Int
    BY <2>1 DEF x, y, p, q
  <2>4. x * q = 0 /\ y * p = 0
    BY <2>3
  <2> QED BY <2>2, <2>3, <2>4
<1>4. CASE op = "where_cond"
  <2>1. Len(a) = 3
    BY <1>1, <1>4 DEF Arity, BinaryKinds
  <2>2. d[a[2]] = 0 /\ d[a[3]] = 0
    BY <2>1
  <2>3. Rule(v, n, d) \in {d[a[2]], d[a[3]]}
    BY <1>4, RuleIs
  <2> QED BY <2>2, <2>3
<1>5. CASE op \in {"leaf", "detach", "step", "cmp", "to_int", "custom_none"}
  BY <1>5, RuleIs
<1>6. CASE op \in {"neg", "sqr", "affine", "view", "upsample", "unsupported", "to_float"}
  <2>1. Len(a) = 1
    BY <1>1, <1>6 DEF Arity, BinaryKinds
  <2> DEFINE x == d[a[1]]
             p == Val(a[1])
             w == graph[n].mul
  <2>2. x = 0 /\ p \in Int /\ w \in Int
    BY <1>1, <2>1
  <2>3. Rule(v, n, d) \in {-x, 2 * p * x, w * x, x}
    BY <1>6, RuleIs
  <2> HIDE DEF x, p, w
  <2>4. -x = 0
    <3>1. x >= 0 /\ x <= 0 /\ x \in Int
      BY <2>2
    <3> QED BY <3>1, NegZero
  <2>5. 2 * p * x = 0 /\ w * x = 0
    <3>1. 2 * p \in Int /\ \A b \in Int : b * 0 = 0
      BY <2>2
    <3>2. (2 * p) * 0 = 0 /\ w * 0 = 0
      BY <2>2, <3>1
    <3> QED BY <2>2, <3>2
  <2>6. \A z : z \in {-x, 2 * p * x, w * x, x} => z = 0
    <3> DEFINE x1 == -x
               x2 == 2 * p * x
               x3 == w * x
    <3> HIDE DEF x1, x2, x3
    <3>1. x1 = 0 /\ x2 = 0 /\ x3 = 0 /\ x = 0
      BY <2>2, <2>4, <2>5 DEF x1, x2, x3
    <3>2. \A z : z \in {x1, x2, x3, x} => z = 0
      BY <3>1
    <3> QED BY <3>2, Zenon DEF x1, x2, x3
  <2> DEFINE r == Rule(v, n, d)
  <2>7. r \in {-x, 2 * p * x, w * x, x}
    BY <2>3
  <2> HIDE DEF r
  <2>8. r = 0
    BY <2>6, <2>7
  <2> QED BY <2>8 DEF r
<1> QED
  BY <1>1, <1>3, <1>4, <1>5, <1>6 DEF AllOps, UnaryKinds, ViewKinds, OtherKinds

\* A tensor whose operation is not tracked has no derivative.
LEMMA UntrackedZero ==
  ASSUME GraphOK, GraphMeant, NEW v \in Variables, NEW d, IsD(v, d)
  PROVE  \A n \in Ids : ~track_op(n) => d[n] = 0
<1> DEFINE T == {n \in Ids : ~track_op(n) /\ d[n] # 0}
<1> SUFFICES ASSUME T # {} PROVE FALSE
  OBVIOUS
<1>1. T \in SUBSET Nat
  BY DEF Ids
<1>2. PICK n \in T : \A m \in T : n <= m
  BY <1>1, NatMin
<1>3. n # v /\ ~graph[n].recorded
  BY DEF track_op, Variables
<1>4. d[n] = Rule(v, n, d)
  BY DEF IsD
<1>5. CASE graph[n].op \in {"leaf", "detach"}
  BY <1>3, <1>4, <1>5 DEF Rule
<1>6. CASE graph[n].op \notin {"leaf", "detach"}
  <2>1. \A i \in 1 .. Len(graph[n].args) : ~track_op(graph[n].args[i])
    BY <1>3, <1>6 DEF GraphMeant, Meant
  <2>2. \A i \in 1 .. Len(graph[n].args) : d[graph[n].args[i]] = 0
    <3> SUFFICES ASSUME NEW i \in 1 .. Len(graph[n].args), graph[n].args[i] \in T PROVE FALSE
      BY <2>1, NodeFacts
    <3>1. graph[n].args[i] < n /\ n <= graph[n].args[i] /\ graph[n].args[i] \in Nat /\ n \in Nat
      BY <1>2, NodeFacts
    <3> QED BY <3>1
  <2> QED BY <1>3, <1>4, <2>2, RuleZero
<1> QED BY <1>5, <1>6

\* Nor has a tensor that the search found not to depend on a variable.
LEMMA UnseenZero ==
  ASSUME IInv, GraphMeant, NEW v \in Variables, NEW d, IsD(v, d)
  PROVE  \A n \in DOMAIN seen : ~seen[n] => d[n] = 0
<1> DEFINE T == {n \in DOMAIN seen : ~seen[n] /\ d[n] # 0}
<1> SUFFICES ASSUME T # {} PROVE FALSE
  OBVIOUS
<1>0. GraphOK /\ DOMAIN seen \subseteq Ids
  BY DEF IInv, SeenOK
<1>1. T \in SUBSET Nat
  BY <1>0 DEF Ids
<1>2. PICK n \in T : \A m \in T : n <= m
  BY <1>1, NatMin
<1>3. /\ n \in Ids /\ n # v /\ ~graph[n].is_variable /\ VisitedArgs(n) \subseteq DOMAIN seen
      /\ \A m \in VisitedArgs(n) : ~seen[m]
  BY <1>0 DEF IInv, SeenOK, Variables
<1>4. d[n] = Rule(v, n, d)
  BY <1>3 DEF IsD
<1>5. CASE ~NotWalked(n)
  <2>1. WalkArgs(n) = graph[n].args
    BY <1>5 DEF WalkArgs
  <2>2. \A i \in 1 .. Len(graph[n].args) : d[graph[n].args[i]] = 0
    <3> SUFFICES ASSUME NEW i \in 1 .. Len(graph[n].args), d[graph[n].args[i]] # 0 PROVE FALSE
      OBVIOUS
    <3>1. graph[n].args[i] \in VisitedArgs(n)
      BY <2>1 DEF VisitedArgs
    <3>2. graph[n].args[i] \in T
      BY <1>3, <3>1
    <3>3. graph[n].args[i] < n /\ n <= graph[n].args[i] /\ graph[n].args[i] \in Nat /\ n \in Nat
      BY <1>0, <1>2, <1>3, <3>2, NodeFacts
    <3> QED BY <3>3
  <2> QED BY <1>0, <1>3, <1>4, <2>2, RuleZero
<1>6. CASE ~graph[n].recorded
  BY <1>0, <1>3, <1>6, UntrackedZero DEF track_op
<1>7. CASE graph[n].int \/ graph[n].op = "step"
  <2>1. graph[n].op \in {"step", "cmp", "to_int"}
    BY <1>0, <1>3, <1>7, NodeFacts
  <2> QED BY <1>3, <1>4, <2>1 DEF Rule
<1>8. CASE graph[n].op = "affine" /\ graph[n].mul = 0
  <2>1. Len(graph[n].args) = 1
    BY <1>0, <1>3, <1>8, NodeFacts DEF Arity, BinaryKinds
  <2>2. d[graph[n].args[1]] \in Int
    BY <1>0, <1>3, <2>1, NodeFacts, DerivativeTyped
  <2>3. Rule(v, n, d) = 0 * d[graph[n].args[1]]
    BY <1>3, <1>8, <2>1 DEF Rule
  <2> QED BY <1>4, <2>2, <2>3
<1>9. CASE graph[n].op = "to_float" /\ graph[graph[n].args[1]].int
  <2> DEFINE m == graph[n].args[1]
  <2>1. Len(graph[n].args) = 1
    BY <1>0, <1>3, <1>9, NodeFacts DEF Arity, BinaryKinds
  <2>2. m \in Ids
    BY <1>0, <1>3, <2>1, NodeFacts
  <2>3. graph[m].op \in {"cmp", "to_int"} /\ m # v
    <3>1. graph[v].is_variable /\ v \in Ids
      BY DEF Variables
    <3>2. graph[v].op = "leaf" /\ (graph[v].int <=> graph[v].op \in {"cmp", "to_int"})
      BY <1>0, <3>1, NodeFacts
    <3>3. graph[m].op \in {"cmp", "to_int"}
      BY <1>0, <1>9, <2>2, NodeFacts
    <3> QED BY <3>2, <3>3
  <2>4. d[m] = 0
    <3>1. d[m] = Rule(v, m, d)
      BY <2>2 DEF IsD
    <3> HIDE DEF m
    <3> QED BY <2>3, <3>1 DEF Rule
  <2> QED BY <1>0, <1>3, <1>4, <2>1, <2>4, RuleZero
<1> QED BY <1>3, <1>5, <1>6, <1>7, <1>8, <1>9 DEF NotWalked

-----------------------------------------------------------------------------
(* Finite sums.                                                            *)

\* S lists the sums of the first elements of f.
IsSum(f, N, S) == S = [j \in 0 .. N |-> IF j = 0 THEN 0 ELSE S[j - 1] + f[j]]

\* The sum of f[1], ..., f[N].
SumTo(f, N) == (CHOOSE S : IsSum(f, N, S))[N]

LEMMA SumExists ==
  ASSUME NEW f
  PROVE  \A N \in Nat : \E S : IsSum(f, N, S)
<1> DEFINE T == {N \in Nat : ~\E S : IsSum(f, N, S)}
<1> SUFFICES ASSUME T # {} PROVE FALSE
  OBVIOUS
<1>1. T \in SUBSET Nat
  OBVIOUS
<1>2. PICK k \in T : \A j \in T : k <= j
  BY <1>1, NatMin
<1>3. k # 0
  <2> DEFINE S == [j \in 0 .. 0 |-> 0]
  <2>1. IsSum(f, 0, S)
    BY DEF IsSum
  <2> QED BY <2>1
<1>4. k - 1 \in Nat /\ k - 1 \notin T /\ k \in Nat
  <2>1. k - 1 \in Nat /\ k \in Nat /\ ~(k <= k - 1)
    BY <1>3
  <2> QED BY <1>2, <2>1
<1>5. PICK R : IsSum(f, k - 1, R)
  BY <1>4
<1> DEFINE S == [j \in 0 .. k |-> IF j = k THEN R[k - 1] + f[k] ELSE R[j]]
<1>6. ASSUME NEW j \in 0 .. k PROVE S[j] = IF j = 0 THEN 0 ELSE S[j - 1] + f[j]
  <2>1. CASE j = k
    <3>1. S[j] = R[k - 1] + f[k] /\ j # 0 /\ S[k - 1] = R[k - 1]
      BY <1>3, <1>4, <2>1
    <3> QED BY <2>1, <3>1
  <2>2. CASE j # k
    <3>1. j \in 0 .. k - 1 /\ S[j] = R[j] /\ (j # 0 => j - 1 \in 0 .. k /\ j - 1 # k)
      BY <1>4, <2>2
    <3>2. R[j] = IF j = 0 THEN 0 ELSE R[j - 1] + f[j]
      BY <1>5, <3>1 DEF IsSum
    <3>3. j # 0 => S[j - 1] = R[j - 1]
      BY <3>1
    <3> HIDE DEF S
    <3> QED BY <3>1, <3>2, <3>3
  <2> QED BY <2>1, <2>2
<1>7. S = [j \in 0 .. k |-> S[j]]
  OBVIOUS
<1> HIDE DEF S
<1>8. IsSum(f, k, S)
  BY <1>6, <1>7 DEF IsSum
<1> QED BY <1>2, <1>8

\* The sums one after the other.
LEMMA SumIs ==
  ASSUME NEW f, NEW N \in Nat
  PROVE  \E S : /\ SumTo(f, N) = S[N] /\ S[0] = 0
                /\ \A j \in 1 .. N : S[j] = S[j - 1] + f[j]
<1> DEFINE S == CHOOSE S : IsSum(f, N, S)
<1>1. IsSum(f, N, S)
  BY SumExists
<1>2. SumTo(f, N) = S[N]
  BY DEF SumTo
<1> HIDE DEF S
<1>3. S[0] = 0
  BY <1>1 DEF IsSum
<1>4. \A j \in 1 .. N : S[j] = S[j - 1] + f[j]
  BY <1>1 DEF IsSum
<1> QED BY <1>2, <1>3, <1>4

\* g is f but for an x more at k.
Bumped(f, g, N, k, x) ==
  \A m \in 1 .. N : f[m] \in Int /\ g[m] = f[m] + (IF m = k THEN x ELSE 0)

\* Changing one element changes the sum as much.
LEMMA SumBump ==
  ASSUME NEW N \in Nat, NEW f, NEW g, NEW k \in 1 .. N, NEW x \in Int, Bumped(f, g, N, k, x)
  PROVE  SumTo(g, N) = SumTo(f, N) + x /\ SumTo(f, N) \in Int
<1>1. PICK S : SumTo(f, N) = S[N] /\ S[0] = 0 /\ \A j \in 1 .. N : S[j] = S[j - 1] + f[j]
  BY SumIs
<1>2. PICK R : SumTo(g, N) = R[N] /\ R[0] = 0 /\ \A j \in 1 .. N : R[j] = R[j - 1] + g[j]
  BY SumIs
<1> DEFINE P(j) == S[j] \in Int /\ R[j] = S[j] + (IF j >= k THEN x ELSE 0)
           T == {j \in 0 .. N : ~P(j)}
<1>3. ASSUME T # {} PROVE FALSE
  <2>1. T \in SUBSET Nat
    OBVIOUS
  <2>2. PICK j \in T : \A i \in T : j <= i
    BY <1>3, <2>1, NatMin
  <2>3. P(0)
    BY <1>1, <1>2
  <2>4. j # 0 /\ j \in 1 .. N
    BY <2>2, <2>3
  <2>5. j - 1 \in 0 .. N /\ ~(j <= j - 1)
    BY <2>4
  <2>6. P(j - 1)
    BY <2>2, <2>5
  <2>7. S[j] = S[j - 1] + f[j] /\ R[j] = R[j - 1] + g[j]
    BY <1>1, <1>2, <2>4
  <2>8. f[j] \in Int /\ g[j] = f[j] + (IF j = k THEN x ELSE 0)
    BY <2>4 DEF Bumped
  <2>9. S[j] \in Int
    BY <2>6, <2>7, <2>8
  <2>10. R[j] = S[j] + (IF j >= k THEN x ELSE 0)
    <3>1. CASE j = k
      <4>1. R[j - 1] = S[j - 1]
        BY <2>4, <2>6, <3>1
      <4> QED BY <2>4, <2>6, <2>7, <2>8, <3>1, <4>1
    <3>2. CASE j # k
      <4>1. j >= k <=> j - 1 >= k
        BY <2>4, <3>2
      <4>2. g[j] = f[j]
        BY <2>8, <3>2
      <4>3. R[j - 1] = S[j - 1] + (IF j >= k THEN x ELSE 0)
        BY <2>6, <4>1
      <4> QED BY <2>6, <2>7, <2>8, <4>2, <4>3
    <3> QED BY <3>1, <3>2
  <2> QED BY <2>2, <2>9, <2>10
<1>4. P(N)
  <2>1. N \in 0 .. N
    OBVIOUS
  <2> QED BY <1>3, <2>1
<1> QED BY <1>1, <1>2, <1>4

\* A sum with one element.
LEMMA SumUnit ==
  ASSUME NEW N \in Nat, NEW f, NEW k \in 1 .. N, NEW x \in Int,
         \A m \in 1 .. N : f[m] = IF m = k THEN x ELSE 0
  PROVE  SumTo(f, N) = x
<1> DEFINE z == [m \in 1 .. N |-> 0]
<1>1. PICK S : SumTo(z, N) = S[N] /\ S[0] = 0 /\ \A j \in 1 .. N : S[j] = S[j - 1] + z[j]
  BY SumIs
<1> DEFINE T == {j \in 0 .. N : S[j] # 0}
<1>2. ASSUME T # {} PROVE FALSE
  <2>1. T \in SUBSET Nat
    OBVIOUS
  <2>2. PICK j \in T : \A i \in T : j <= i
    BY <1>2, <2>1, NatMin
  <2>3. j # 0 /\ j \in 1 .. N
    BY <1>1, <2>2
  <2>4. j - 1 \in 0 .. N /\ ~(j <= j - 1)
    BY <2>3
  <2>5. S[j - 1] = 0 /\ z[j] = 0
    BY <2>2, <2>3, <2>4
  <2>6. S[j] = 0 + 0
    BY <1>1, <2>3, <2>5
  <2> QED BY <2>2, <2>6
<1>3. SumTo(z, N) = 0
  <2>1. N \in 0 .. N
    OBVIOUS
  <2> QED BY <1>1, <1>2, <2>1
<1>4. Bumped(z, f, N, k, x)
  BY DEF Bumped
<1> HIDE DEF z
<1>5. SumTo(f, N) = SumTo(z, N) + x
  BY <1>4, SumBump
<1> QED BY <1>3, <1>5

BumpedFour(f, g, N, k, k1, k2, k3, x, x1, x2, x3) ==
  /\ N \in Nat /\ {k, k1, k2, k3} \subseteq 1 .. N /\ {x, x1, x2, x3} \subseteq Int
  /\ \A m \in 1 .. N :
       /\ f[m] \in Int
       /\ g[m] = f[m] + (IF m = k THEN x ELSE 0) + (IF m = k1 THEN x1 ELSE 0)
                   + (IF m = k2 THEN x2 ELSE 0) + (IF m = k3 THEN x3 ELSE 0)

\* Changing four elements, of which some may be the same.
LEMMA SumFour ==
  ASSUME NEW N, NEW f, NEW g, NEW k, NEW k1, NEW k2, NEW k3, NEW x, NEW x1, NEW x2, NEW x3,
         BumpedFour(f, g, N, k, k1, k2, k3, x, x1, x2, x3)
  PROVE  SumTo(g, N) = SumTo(f, N) + x + x1 + x2 + x3
<1> DEFINE f0 == [m \in 1 .. N |-> f[m] + (IF m = k THEN x ELSE 0)]
           f1 == [m \in 1 .. N |-> f0[m] + (IF m = k1 THEN x1 ELSE 0)]
           f2 == [m \in 1 .. N |-> f1[m] + (IF m = k2 THEN x2 ELSE 0)]
<1>0. /\ N \in Nat /\ k \in 1 .. N /\ k1 \in 1 .. N /\ k2 \in 1 .. N /\ k3 \in 1 .. N
      /\ x \in Int /\ x1 \in Int /\ x2 \in Int /\ x3 \in Int
  BY DEF BumpedFour
<1>1. \A m \in 1 .. N : f[m] \in Int /\ f0[m] = f[m] + (IF m = k THEN x ELSE 0)
  BY DEF BumpedFour
<1>2. \A m \in 1 .. N : f0[m] \in Int
  BY <1>0, <1>1
<1>3. \A m \in 1 .. N : f1[m] = f0[m] + (IF m = k1 THEN x1 ELSE 0)
  OBVIOUS
<1>4. \A m \in 1 .. N : f2[m] = f1[m] + (IF m = k2 THEN x2 ELSE 0)
  OBVIOUS
<1> HIDE DEF f0, f1, f2
<1>5. \A m \in 1 .. N : f1[m] \in Int
  BY <1>0, <1>2, <1>3
<1>6. \A m \in 1 .. N : f2[m] \in Int
  BY <1>0, <1>4, <1>5
<1>7. \A m \in 1 .. N : g[m] = f2[m] + (IF m = k3 THEN x3 ELSE 0)
  BY <1>0, <1>1, <1>3, <1>4 DEF BumpedFour
<1>12. /\ Bumped(f, f0, N, k, x) /\ Bumped(f0, f1, N, k1, x1)
       /\ Bumped(f1, f2, N, k2, x2) /\ Bumped(f2, g, N, k3, x3)
  BY <1>1, <1>2, <1>3, <1>4, <1>5, <1>6, <1>7 DEF Bumped
<1>8. SumTo(f0, N) = SumTo(f, N) + x /\ SumTo(f, N) \in Int
  BY <1>0, <1>12, SumBump
<1>9. SumTo(f1, N) = SumTo(f0, N) + x1
  BY <1>0, <1>12, SumBump
<1>10. SumTo(f2, N) = SumTo(f1, N) + x2
  BY <1>0, <1>12, SumBump
<1>11. SumTo(g, N) = SumTo(f2, N) + x3
  BY <1>0, <1>12, SumBump
<1> QED BY <1>8, <1>9, <1>10, <1>11

-----------------------------------------------------------------------------
(* The arms.                                                               *)

\* What an arm passes on through the i-th argument, per unit of gradient.
Part(n, i, d) == IF i \in Credited(n) THEN Partial(n, i) * d[graph[n].args[i]] ELSE 0

OneArg == {"neg", "sqr", "affine", "view", "upsample", "unsupported", "to_float"}
NoneCredited == {"leaf", "detach", "step", "cmp", "custom_none"}

LEMMA CreditedIs ==
  ASSUME GraphOK, GraphMeant, ExactArms, NEW n \in Ids, graph[n].op # "to_int"
  PROVE  LET op == graph[n].op
         IN  /\ op \in NoneCredited \cup OneArg \cup {"add", "sub", "mul", "where_cond"}
             /\ op \in NoneCredited => Credited(n) = {}
             /\ op \in OneArg => Credited(n) = {1} /\ Len(graph[n].args) = 1
             /\ op \in {"add", "sub", "mul"} => Credited(n) = {1, 2} /\ Len(graph[n].args) = 2
             /\ op = "where_cond" => Credited(n) = {2, 3} /\ Len(graph[n].args) = 3
<1> DEFINE op == graph[n].op
<1>1. op \in AllOps /\ op \in Kinds \cup {"leaf"} /\ Len(graph[n].args) = Arity(op)
  BY NodeFacts DEF GraphMeant, Meant
<1>2. op \notin {"scatter", "scatter_add"}
  BY <1>1 DEF ExactArms
<1>3. op \in NoneCredited \cup OneArg \cup {"add", "sub", "mul", "where_cond"}
  BY <1>1, <1>2 DEF AllOps, BinaryKinds, UnaryKinds, ViewKinds, OtherKinds, NoneCredited, OneArg
<1>4. CASE op \in NoneCredited
  BY <1>4 DEF Credited, NoneCredited, OneArg
<1>5. CASE op \in OneArg
  <2>1. Arity(op) = 1
    BY <1>5 DEF OneArg, Arity, BinaryKinds
  <2>2. Credited(n) = 1 .. 1
    BY <1>1, <1>5, <2>1 DEF Credited, OneArg
  <2>3. 1 .. 1 = {1}
    OBVIOUS
  <2> QED BY <1>1, <1>5, <2>1, <2>2, <2>3 DEF OneArg, NoneCredited
<1>6. CASE op \in {"add", "sub", "mul"}
  <2>1. Arity(op) = 2
    BY <1>6 DEF Arity, BinaryKinds
  <2>2. Credited(n) = 1 .. 2
    BY <1>1, <1>6, <2>1 DEF Credited
  <2>3. 1 .. 2 = {1, 2}
    OBVIOUS
  <2> QED BY <1>1, <1>6, <2>1, <2>2, <2>3 DEF OneArg, NoneCredited
<1>7. CASE op = "where_cond"
  <2>1. Arity(op) = 3
    BY <1>7 DEF Arity, BinaryKinds
  <2>2. Credited(n) = {2, 3}
    BY <1>7 DEF Credited
  <2> QED BY <1>1, <1>7, <2>1, <2>2 DEF OneArg, NoneCredited
<1> QED BY <1>3, <1>4, <1>5, <1>6, <1>7

LEMMA PartialIs ==
  ASSUME NEW n
  PROVE  LET op == graph[n].op
             a == graph[n].args
         IN  /\ op \in {"view", "upsample", "unsupported", "to_float"} => Partial(n, 1) = 1
             /\ op = "neg" => Partial(n, 1) = -1
             /\ op = "sqr" => Partial(n, 1) = 2 * Val(a[1])
             /\ op = "affine" => Partial(n, 1) = graph[n].mul
             /\ op = "add" => Partial(n, 1) = 1 /\ Partial(n, 2) = 1
             /\ op = "sub" => Partial(n, 1) = 1 /\ Partial(n, 2) = -1
             /\ op = "mul" => Partial(n, 1) = Val(a[2]) /\ Partial(n, 2) = Val(a[1])
             /\ op = "where_cond" =>
                  /\ Partial(n, 2) = IF Val(a[1]) # 0 THEN 1 ELSE 0
                  /\ Partial(n, 3) = IF Val(a[1]) # 0 THEN 0 ELSE 1
<1> DEFINE op == graph[n].op
<1>1. CASE op \in {"view", "upsample", "unsupported", "to_float"}
  BY <1>1 DEF Partial
<1>2. CASE op = "neg"
  BY <1>2 DEF Partial
<1>3. CASE op = "sqr"
  BY <1>3 DEF Partial
<1>4. CASE op = "affine"
  BY <1>4 DEF Partial
<1>5. CASE op = "add"
  BY <1>5 DEF Partial
<1>6. CASE op = "sub"
  BY <1>6 DEF Partial
<1>7. CASE op = "mul"
  <2>1. 3 - 1 = 2 /\ 3 - 2 = 1
    OBVIOUS
  <2> QED BY <1>7, <2>1 DEF Partial
<1>8. CASE op = "where_cond"
  BY <1>8 DEF Partial
<1> QED BY <1>1, <1>2, <1>3, <1>4, <1>5, <1>6, <1>7, <1>8

LEMMA PartialTyped ==
  ASSUME GraphOK, GraphMeant, ExactArms, NEW n \in Ids, graph[n].op # "to_int"
  PROVE  \A i \in Credited(n) :
           i \in 1 .. 3 /\ i \in 1 .. Len(graph[n].args) /\ Partial(n, i) \in Int
<1> DEFINE op == graph[n].op
           a == graph[n].args
<1>1. graph[n].mul \in Int /\ \A i \in 1 .. Len(a) : Val(a[i]) \in Int
  BY NodeFacts DEF Val
<1>2. CASE op \in NoneCredited
  BY <1>2, CreditedIs
<1>3. CASE op \in OneArg
  <2>1. Credited(n) = {1} /\ Len(a) = 1 /\ Val(a[1]) \in Int
    BY <1>1, <1>3, CreditedIs
  <2>2. Partial(n, 1) \in {1, -1, 2 * Val(a[1]), graph[n].mul}
    BY <1>3, PartialIs DEF OneArg
  <2> QED BY <1>1, <2>1, <2>2
<1>4. CASE op \in {"add", "sub", "mul"}
  <2>1. Credited(n) = {1, 2} /\ Len(a) = 2 /\ Val(a[1]) \in Int /\ Val(a[2]) \in Int
    BY <1>1, <1>4, CreditedIs
  <2>2. Partial(n, 1) \in {1, Val(a[2])} /\ Partial(n, 2) \in {1, -1, Val(a[1])}
    BY <1>4, PartialIs
  <2> QED BY <2>1, <2>2
<1>5. CASE op = "where_cond"
  <2>1. Credited(n) = {2, 3} /\ Len(a) = 3
    BY <1>5, CreditedIs
  <2>2. Partial(n, 2) \in {0, 1} /\ Partial(n, 3) \in {0, 1}
    BY <1>5, PartialIs
  <2> QED BY <2>1, <2>2
<1> QED BY <1>2, <1>3, <1>4, <1>5, CreditedIs

\* An arm passes on as much as its operation says.
LEMMA RuleIsParts ==
  ASSUME GraphOK, GraphMeant, ExactArms, NEW v \in Variables, NEW d, IsD(v, d),
         NEW n \in Ids, n # v, graph[n].op # "to_int"
  PROVE  /\ d[n] = Part(n, 1, d) + Part(n, 2, d) + Part(n, 3, d)
         /\ \A i \in Credited(n) :
              i \in 1 .. 3 /\ i \in 1 .. Len(graph[n].args) /\ Partial(n, i) \in Int
         /\ Part(n, 1, d) \in Int /\ Part(n, 2, d) \in Int /\ Part(n, 3, d) \in Int
<1> DEFINE op == graph[n].op
           a == graph[n].args
<1>1. d[n] = Rule(v, n, d)
  BY DEF IsD
<1>2. \A m \in Ids : d[m] \in Int /\ Val(m) \in Int
  BY DerivativeTyped, NodeFacts DEF Val
<1>3. /\ Len(a) \in 0 .. 3 /\ graph[n].mul \in Int
      /\ \A i \in 1 .. Len(a) : a[i] \in Ids
  BY NodeFacts
<1>4. CASE op \in NoneCredited
  <2>1. Credited(n) = {}
    BY <1>4, CreditedIs
  <2>2. Rule(v, n, d) = 0
    BY <1>4, RuleIs DEF NoneCredited
  <2> QED BY <1>1, <2>1, <2>2 DEF Part
<1>5. CASE op \in OneArg
  <2>1. Credited(n) = {1} /\ Len(a) = 1
    BY <1>5, CreditedIs
  <2> DEFINE x == d[a[1]]
             p == Val(a[1])
  <2>2. 1 \in 1 .. Len(a) /\ x \in Int /\ p \in Int
    BY <1>2, <1>3, <2>1
  <2>3. Part(n, 1, d) = Partial(n, 1) * x /\ Part(n, 2, d) = 0 /\ Part(n, 3, d) = 0
    BY <2>1 DEF Part
  <2>4. Partial(n, 1) \in Int /\ Rule(v, n, d) = Partial(n, 1) * x
    <3>1. CASE op = "neg"
      <4>1. Partial(n, 1) = -1 /\ Rule(v, n, d) = -x
        BY <3>1, PartialIs, RuleIs
      <4> HIDE DEF x
      <4> QED BY <2>2, <4>1
    <3>2. CASE op = "sqr"
      <4>1. Partial(n, 1) = 2 * p /\ Rule(v, n, d) = 2 * p * x
        BY <3>2, PartialIs, RuleIs
      <4> HIDE DEF x, p
      <4> QED BY <2>2, <4>1
    <3>3. CASE op = "affine"
      <4>1. Partial(n, 1) = graph[n].mul /\ Rule(v, n, d) = graph[n].mul * x
        BY <3>3, PartialIs, RuleIs
      <4> HIDE DEF x
      <4> QED BY <1>3, <2>2, <4>1
    <3>4. CASE op \in {"view", "upsample", "unsupported", "to_float"}
      <4>1. Partial(n, 1) = 1 /\ Rule(v, n, d) = x
        BY <3>4, PartialIs, RuleIs
      <4> HIDE DEF x
      <4> QED BY <2>2, <4>1
    <3> QED BY <1>5, <3>1, <3>2, <3>3, <3>4 DEF OneArg
  <2> HIDE DEF x
  <2>5. Partial(n, 1) * x \in Int
    BY <2>2, <2>4
  <2> QED BY <1>1, <2>1, <2>2, <2>3, <2>4, <2>5
<1>6. CASE op \in {"add", "sub", "mul"}
  <2>1. Credited(n) = {1, 2} /\ Len(a) = 2
    BY <1>6, CreditedIs
  <2> DEFINE x == d[a[1]]
             y == d[a[2]]
             p == Val(a[1])
             q == Val(a[2])
  <2>2. /\ 1 \in 1 .. Len(a) /\ 2 \in 1 .. Len(a)
        /\ x \in Int /\ p \in Int /\ y \in Int /\ q \in Int
    BY <1>2, <1>3, <2>1
  <2>3. /\ Part(n, 1, d) = Partial(n, 1) * x /\ Part(n, 2, d) = Partial(n, 2) * y
        /\ Part(n, 3, d) = 0
    BY <2>1 DEF Part
  <2>4. /\ Partial(n, 1) \in Int /\ Partial(n, 2) \in Int
        /\ Rule(v, n, d) = Partial(n, 1) * x + Partial(n, 2) * y
    <3>1. CASE op = "add"
      <4>1. Partial(n, 1) = 1 /\ Partial(n, 2) = 1 /\ Rule(v, n, d) = x + y
        BY <3>1, PartialIs, RuleIs
      <4> HIDE DEF x, y
      <4> QED BY <2>2, <4>1
    <3>2. CASE op = "sub"
      <4>1. Partial(n, 1) = 1 /\ Partial(n, 2) = -1 /\ Rule(v, n, d) = x - y
        BY <3>2, PartialIs, RuleIs
      <4> HIDE DEF x, y
      <4> QED BY <2>2, <4>1
    <3>3. CASE op = "mul"
      <4>1. Partial(n, 1) = q /\ Partial(n, 2) = p /\ Rule(v, n, d) = x * q + y * p
        BY <3>3, PartialIs, RuleIs
      <4> HIDE DEF x, y, p, q
      <4>2. x * q = q * x /\ y * p = p * y
        BY <2>2
      <4> QED BY <2>2, <4>1, <4>2
    <3> QED BY <1>6, <3>1, <3>2, <3>3
  <2> HIDE DEF x, y
  <2>5. Partial(n, 1) * x \in Int /\ Partial(n, 2) * y \in Int
    BY <2>2, <2>4
  <2> QED BY <1>1, <2>1, <2>2, <2>3, <2>4, <2>5
<1>7. CASE op = "where_cond"
  <2>1. Credited(n) = {2, 3} /\ Len(a) = 3
    BY <1>7, CreditedIs
  <2> DEFINE y == d[a[2]]
             z == d[a[3]]
  <2>2. 2 \in 1 .. Len(a) /\ 3 \in 1 .. Len(a) /\ y \in Int /\ z \in Int
    BY <1>2, <1>3, <2>1
  <2>3. /\ Part(n, 1, d) = 0 /\ Part(n, 2, d) = Partial(n, 2) * y
        /\ Part(n, 3, d) = Partial(n, 3) * z
    BY <2>1 DEF Part
  <2>4. /\ Partial(n, 2) = IF Val(a[1]) # 0 THEN 1 ELSE 0
        /\ Partial(n, 3) = IF Val(a[1]) # 0 THEN 0 ELSE 1
        /\ Rule(v, n, d) = IF Val(a[1]) # 0 THEN y ELSE z
    BY <1>7, PartialIs, RuleIs
  <2> HIDE DEF y, z
  <2>5. CASE Val(a[1]) # 0
    BY <1>1, <2>1, <2>2, <2>3, <2>4, <2>5
  <2>6. CASE ~(Val(a[1]) # 0)
    BY <1>1, <2>1, <2>2, <2>3, <2>4, <2>6
  <2> QED BY <2>5, <2>6
<1> QED BY <1>4, <1>5, <1>6, <1>7, CreditedIs

-----------------------------------------------------------------------------
(* The sweep keeps the derivative.                                         *)

Held(gs, n) == IF n \in DOMAIN gs THEN gs[n] ELSE 0

\* What the gradients in the store amount to, each through the paths that the
\* sweep has yet to follow from its tensor to v.
Weighted(gs, d) == [n \in Ids |-> Held(gs, n) * d[n]]
Total(gs, d) == SumTo(Weighted(gs, d), Root)

StoreOK(gs) == DOMAIN gs \subseteq DOMAIN seen /\ \A n \in DOMAIN gs : gs[n] \in Int

\* What the sweep knows of an element of nodes that is not a variable.
LEMMA InnerFacts ==
  ASSUME IInv, GraphMeant, NEW i \in 1 .. Len(nodes), ~graph[nodes[i]].is_variable
  PROVE  LET c == nodes[i]
         IN  /\ c \in Ids /\ c \in DOMAIN seen /\ VisitedArgs(c) # {}
             /\ VisitedArgs(c) \subseteq DOMAIN seen /\ graph[c].op # "to_int"
             /\ CreditedArgs(c) \subseteq VisitedArgs(c) /\ c \notin CreditedArgs(c)
<1> DEFINE c == nodes[i]
<1>1. c \in DOMAIN seen /\ seen[c] /\ c \in Ids /\ GraphOK
  BY DEF IInv, SeenOK
<1>2. VisitedArgs(c) # {} /\ VisitedArgs(c) \subseteq DOMAIN seen
  BY <1>1 DEF IInv, SeenOK
<1>3. ~graph[c].int
  BY <1>1, <1>2, VisitedOlder
<1>4. graph[c].op # "to_int"
  BY <1>1, <1>3, NodeFacts
<1>5. CreditedArgs(c) \subseteq VisitedArgs(c)
  BY <1>1, <1>2, CreditedAreVisited
<1>6. c \notin VisitedArgs(c)
  <2>1. VisitedArgs(c) \subseteq 1 .. c - 1 /\ c \in Nat
    BY <1>1, VisitedOlder DEF Ids
  <2> QED BY <2>1
<1> QED BY <1>1, <1>2, <1>4, <1>5, <1>6

LEMMA Distribute ==
  ASSUME NEW h \in Int, NEW s1 \in Int, NEW s2 \in Int, NEW s3 \in Int, NEW x \in Int
  PROVE  (h + (s1 + s2 + s3)) * x = h * x + s1 * x + s2 * x + s3 * x
OBVIOUS

\* An arm gives gradients to tensors the search has met.
LEMMA ArmStoreOK ==
  ASSUME IInv, GraphMeant, ExactArms, NEW gs, StoreOK(gs), NEW i \in 1 .. Len(nodes),
         ~graph[nodes[i]].is_variable, nodes[i] \in DOMAIN gs
  PROVE  LET c == nodes[i]
             g == gs[c]
         IN  /\ StoreOK(Accumulate(Without(gs, c), c, g))
             /\ \A m : \A j \in 1 .. 3 : Share(c, g, m, j) \in Int
<1> DEFINE c == nodes[i]
           g == gs[c]
           new == Accumulate(Without(gs, c), c, g)
<1>1. GraphOK /\ g \in Int
  BY DEF IInv, StoreOK
<1>2. /\ c \in Ids /\ graph[c].op # "to_int" /\ VisitedArgs(c) \subseteq DOMAIN seen
      /\ CreditedArgs(c) \subseteq VisitedArgs(c)
  BY InnerFacts
<1>3. \A j \in Credited(c) : Partial(c, j) \in Int
  BY <1>1, <1>2, PartialTyped
<1>4. ASSUME NEW m, NEW j \in 1 .. 3 PROVE Share(c, g, m, j) \in Int
  <2>1. CASE j \in Credited(c)
    <3>1. g * Partial(c, j) \in Int
      BY <1>1, <1>3, <2>1
    <3> QED BY <3>1 DEF Share
  <2>2. CASE j \notin Credited(c)
    BY <2>2 DEF Share
  <2> QED BY <2>1, <2>2
<1>5. DOMAIN new = (DOMAIN gs \ {c}) \cup CreditedArgs(c)
  BY DEF Accumulate, Without
<1>6. ASSUME NEW m \in DOMAIN new PROVE new[m] \in Int
  <2>1. CASE m \in CreditedArgs(c)
    <3>1. Base(Without(gs, c), c, m) \in Int
      BY DEF Base, Without, StoreOK
    <3>2. Shares(c, g, m) \in Int
      BY <1>4 DEF Shares
    <3>3. new[m] = Base(Without(gs, c), c, m) + Shares(c, g, m)
      BY <1>5, <2>1 DEF Accumulate
    <3> QED BY <3>1, <3>2, <3>3
  <2>2. CASE m \notin CreditedArgs(c)
    BY <1>5, <2>2 DEF Accumulate, Without, StoreOK
  <2> QED BY <2>1, <2>2
<1>7. StoreOK(new)
  BY <1>2, <1>5, <1>6 DEF StoreOK
<1> QED BY <1>4, <1>7

\* An arm moves what the gradient of its tensor amounts to onto the arguments.
LEMMA ArmKeepsTotal ==
  ASSUME IInv, GraphMeant, ExactArms, NEW v \in Variables, NEW d, IsD(v, d),
         NEW gs, StoreOK(gs), NEW i \in 1 .. Len(nodes),
         ~graph[nodes[i]].is_variable, nodes[i] \in DOMAIN gs
  PROVE  LET c == nodes[i]
             new == Accumulate(Without(gs, c), c, gs[c])
         IN  Total(new, d) = Total(gs, d)
<1> DEFINE c == nodes[i]
           g == gs[c]
           a == graph[c].args
           new == Accumulate(Without(gs, c), c, g)
           K(j) == IF j \in Credited(c) THEN a[j] ELSE 1
           X(j) == g * Part(c, j, d)
<1>1. GraphOK /\ Root \in Nat /\ Ids = 1 .. Root /\ DOMAIN seen \subseteq Ids
  BY DEF IInv, SeenOK, GraphOK, Ids, Root
<1>2. /\ c \in Ids /\ c \in DOMAIN seen /\ graph[c].op # "to_int" /\ c # v
      /\ VisitedArgs(c) \subseteq DOMAIN seen
      /\ CreditedArgs(c) \subseteq VisitedArgs(c) /\ c \notin CreditedArgs(c)
  BY InnerFacts DEF Variables
<1>3. graph[c].op # "upsample"
  <2>1. graph[c].op \in Kinds \cup {"leaf"}
    BY <1>2 DEF GraphMeant, Meant
  <2> QED BY <2>1 DEF ExactArms
<1>4. \A m \in Ids : d[m] \in Int /\ Held(gs, m) \in Int
  BY <1>1, DerivativeTyped DEF StoreOK, Held
<1>5. g \in Int /\ Held(gs, c) = g
  BY DEF StoreOK, Held
<1>6. /\ d[c] = Part(c, 1, d) + Part(c, 2, d) + Part(c, 3, d)
      /\ \A j \in Credited(c) : j \in 1 .. 3 /\ j \in 1 .. Len(a) /\ Partial(c, j) \in Int
      /\ Part(c, 1, d) \in Int /\ Part(c, 2, d) \in Int /\ Part(c, 3, d) \in Int
  BY <1>1, <1>2, RuleIsParts
<1>7. \A j \in 1 .. 3 : K(j) \in Ids /\ (j \in Credited(c) => a[j] = K(j) /\ a[j] \in Ids)
  <2>1. 1 \in Ids
    BY <1>1, <1>2
  <2>2. \A j \in Credited(c) : a[j] \in Ids
    BY <1>1, <1>2, <1>6, NodeFacts
  <2> QED BY <2>1, <2>2
<1>8. \A m : \A j \in 1 .. 3 : Share(c, g, m, j) \in Int
  BY ArmStoreOK
<1>9. \A m \in Ids :
        Held(new, m) = (IF m = c THEN 0 ELSE Held(gs, m)) + Shares(c, g, m)
  <2> SUFFICES ASSUME NEW m \in Ids
               PROVE  Held(new, m) = (IF m = c THEN 0 ELSE Held(gs, m)) + Shares(c, g, m)
     OBVIOUS
  <2>1. DOMAIN new = (DOMAIN gs \ {c}) \cup CreditedArgs(c)
    BY DEF Accumulate, Without
  <2>2. CASE m \in CreditedArgs(c)
    <3>1. m # c /\ m \in DOMAIN new
      BY <1>2, <2>1, <2>2
    <3>2. Base(Without(gs, c), c, m) = Held(gs, m)
      BY <1>3, <3>1 DEF Base, Without, Held
    <3>3. new[m] = Held(gs, m) + Shares(c, g, m)
      BY <2>1, <2>2, <3>1, <3>2 DEF Accumulate, Without
    <3> HIDE DEF new
    <3> QED BY <2>1, <2>2, <3>1, <3>3 DEF Held
  <2>3. CASE m \notin CreditedArgs(c)
    <3>1. Share(c, g, m, 1) = 0 /\ Share(c, g, m, 2) = 0 /\ Share(c, g, m, 3) = 0
      BY <2>3 DEF Share, CreditedArgs
    <3>2. Shares(c, g, m) = 0
      BY <3>1 DEF Shares
    <3>3. m \in DOMAIN new => m \in DOMAIN gs /\ m # c /\ new[m] = gs[m]
      BY <2>1, <2>3 DEF Accumulate, Without
    <3> HIDE DEF new
    <3> QED BY <1>4, <2>1, <2>3, <3>2, <3>3 DEF Held
  <2> QED BY <2>2, <2>3
<1> HIDE DEF new
<1>10. \A m \in Ids : \A j \in 1 .. 3 : Share(c, g, m, j) * d[m] = IF m = K(j) THEN X(j) ELSE 0
  <2> SUFFICES ASSUME NEW m \in Ids, NEW j \in 1 .. 3
               PROVE  Share(c, g, m, j) * d[m] = IF m = K(j) THEN X(j) ELSE 0
    OBVIOUS
  <2>1. d[m] \in Int
    BY <1>4
  <2>2. 0 * d[m] = 0 /\ g * 0 = 0
    BY <1>5, <2>1
  <2>3. CASE j \in Credited(c) /\ a[j] = m
    <3> DEFINE x == d[m]
               p == Partial(c, j)
    <3>1. Share(c, g, m, j) = g * p /\ X(j) = g * (p * x) /\ m = K(j)
      BY <2>3 DEF Share, Part
    <3>2. x \in Int /\ p \in Int
      BY <1>6, <2>1, <2>3
    <3> HIDE DEF x, p, g, X, K
    <3>3. (g * p) * x = g * (p * x)
      BY <1>5, <3>2
    <3> QED BY <3>1, <3>3 DEF x
  <2>4. CASE j \in Credited(c) /\ a[j] # m
    <3>1. Share(c, g, m, j) = 0 /\ m # K(j)
      BY <2>4 DEF Share
    <3> HIDE DEF X, K
    <3> QED BY <2>2, <3>1
  <2>5. CASE j \notin Credited(c)
    <3>1. Share(c, g, m, j) = 0 /\ X(j) = g * 0
      BY <2>5 DEF Share, Part
    <3> HIDE DEF X, K
    <3> QED BY <2>2, <3>1
  <2> QED BY <2>3, <2>4, <2>5
<1>11. X(1) \in Int /\ X(2) \in Int /\ X(3) \in Int /\ -(g * d[c]) \in Int /\ g * d[c] \in Int
  BY <1>2, <1>4, <1>5, <1>6
<1>12. -(g * d[c]) + X(1) + X(2) + X(3) = 0
  <2> DEFINE p == Part(c, 1, d)
             q == Part(c, 2, d)
             r == Part(c, 3, d)
  <2>1. p \in Int /\ q \in Int /\ r \in Int /\ d[c] = p + q + r
    BY <1>6
  <2> HIDE DEF p, q, r, g
  <2>2. /\ g * (p + q + r) = g * p + g * q + g * r
        /\ g * p \in Int /\ g * q \in Int /\ g * r \in Int
    BY <1>5, <2>1
  <2>3. -(g * p + g * q + g * r) + g * p + g * q + g * r = 0
    BY <2>2
  <2> QED BY <2>1, <2>2, <2>3 DEF p, q, r
<1> HIDE DEF X, K
<1>13. \A m \in Ids :
         /\ Weighted(gs, d)[m] \in Int
         /\ Weighted(new, d)[m] =
              Weighted(gs, d)[m] + (IF m = c THEN -(g * d[c]) ELSE 0)
                + (IF m = K(1) THEN X(1) ELSE 0) + (IF m = K(2) THEN X(2) ELSE 0)
                + (IF m = K(3) THEN X(3) ELSE 0)
  <2> SUFFICES ASSUME NEW m \in Ids
               PROVE  /\ Weighted(gs, d)[m] \in Int
                      /\ Weighted(new, d)[m] =
                           Weighted(gs, d)[m] + (IF m = c THEN -(g * d[c]) ELSE 0)
                             + (IF m = K(1) THEN X(1) ELSE 0) + (IF m = K(2) THEN X(2) ELSE 0)
                             + (IF m = K(3) THEN X(3) ELSE 0)
    OBVIOUS
  <2> DEFINE h == Held(gs, m)
             h0 == IF m = c THEN 0 ELSE h
             x == d[m]
             s1 == Share(c, g, m, 1)
             s2 == Share(c, g, m, 2)
             s3 == Share(c, g, m, 3)
  <2>1. h \in Int /\ x \in Int /\ s1 \in Int /\ s2 \in Int /\ s3 \in Int
    BY <1>4, <1>8
  <2>2. Weighted(gs, d)[m] = h * x /\ Weighted(new, d)[m] = Held(new, m) * x
    BY DEF Weighted
  <2>3. Held(new, m) = h0 + (s1 + s2 + s3)
    BY <1>9 DEF Shares
  <2>4. h0 \in Int /\ (m # c => h0 = h) /\ (m = c => h0 = 0)
    BY <2>1
  <2>5. /\ s1 * x = IF m = K(1) THEN X(1) ELSE 0
        /\ s2 * x = IF m = K(2) THEN X(2) ELSE 0
        /\ s3 * x = IF m = K(3) THEN X(3) ELSE 0
    BY <1>10
  <2>6. h0 * x = h * x + (IF m = c THEN -(g * d[c]) ELSE 0) /\ h * x \in Int /\ h0 * x \in Int
    <3>1. CASE m = c
      <4>1. h = g /\ x = d[c] /\ h0 = 0
        BY <1>5, <3>1
      <4> HIDE DEF h, x, h0, g
      <4>2. h0 * x = 0 /\ h * x + (-(h * x)) = 0 /\ h * x \in Int
        BY <2>1, <4>1
      <4> QED BY <3>1, <4>1, <4>2
    <3>2. CASE m # c
      <4> HIDE DEF h, x, h0
      <4> QED BY <2>1, <2>4, <3>2
    <3> QED BY <3>1, <3>2
  <2> HIDE DEF h, h0, x, s1, s2, s3
  <2>7. (h0 + (s1 + s2 + s3)) * x = h0 * x + s1 * x + s2 * x + s3 * x
    BY <2>1, <2>4, Distribute
  <2> QED BY <2>2, <2>3, <2>5, <2>6, <2>7
<1>14. Total(new, d) = Total(gs, d) + (-(g * d[c])) + X(1) + X(2) + X(3)
  <2>1. c \in 1 .. Root /\ K(1) \in 1 .. Root /\ K(2) \in 1 .. Root /\ K(3) \in 1 .. Root
    BY <1>1, <1>2, <1>7
  <2>2. BumpedFour(Weighted(gs, d), Weighted(new, d), Root, c, K(1), K(2), K(3),
                   -(g * d[c]), X(1), X(2), X(3))
    BY <1>1, <1>11, <1>13, <2>1 DEF BumpedFour
  <2> DEFINE x0 == -(g * d[c])
             x1 == X(1)
             x2 == X(2)
             x3 == X(3)
             k1 == K(1)
             k2 == K(2)
             k3 == K(3)
             w == Weighted(gs, d)
             u == Weighted(new, d)
  <2>3. BumpedFour(w, u, Root, c, k1, k2, k3, x0, x1, x2, x3)
    BY <2>2
  <2> HIDE DEF c, x0, x1, x2, x3, k1, k2, k3, w, u
  <2>4. SumTo(u, Root) = SumTo(w, Root) + x0 + x1 + x2 + x3
    BY <2>3, SumFour
  <2> QED BY <2>4, Zenon DEF Total, x0, x1, x2, x3, w, u
<1>15. Total(gs, d) \in Int
  <2>1. Bumped(Weighted(gs, d), Weighted(gs, d), Root, c, 0)
    BY <1>1, <1>13 DEF Bumped
  <2> DEFINE w == Weighted(gs, d)
  <2>2. Bumped(w, w, Root, c, 0) /\ Root \in Nat /\ c \in 1 .. Root /\ 0 \in Int
    BY <1>1, <1>2, <2>1
  <2> HIDE DEF c, w
  <2>3. SumTo(w, Root) \in Int
    BY <2>2, SumBump
  <2> QED BY <2>3, Zenon DEF Total, w
<1>16. Total(new, d) = Total(gs, d)
  <2> DEFINE x0 == -(g * d[c])
             x1 == X(1)
             x2 == X(2)
             x3 == X(3)
             s == Total(gs, d)
             r == Total(new, d)
  <2>1. /\ x0 \in Int /\ x1 \in Int /\ x2 \in Int /\ x3 \in Int /\ s \in Int
        /\ x0 + x1 + x2 + x3 = 0 /\ r = s + x0 + x1 + x2 + x3
    BY <1>11, <1>12, <1>14, <1>15, Zenon
  <2> HIDE DEF x0, x1, x2, x3, s, r
  <2>2. r = s
    BY <2>1
  <2> QED BY <2>2 DEF r, s
<1> QED BY <1>16 DEF new

-----------------------------------------------------------------------------
(* The gradients that backward returns.                                    *)

InSweep == phase \in {"sweep", "done"}

\* The gradients in the store are those of tensors the search has met.
Stored == InSweep => StoreOK(grads)

\* Of the tensors that the sweep has passed only variables have a gradient.
Settled ==
  /\ InSweep => \A i \in 1 .. Len(nodes) :
                  i < idx => graph[nodes[i]].is_variable \/ nodes[i] \notin DOMAIN grads
  /\ phase = "done" => idx > Len(nodes)

\* The gradients in the store, followed to v, add up to the derivative.
Balanced ==
  InSweep => \A v \in Variables : \A d : IsD(v, d) => Total(grads, d) = d[Root]

GInv == Stored /\ Settled /\ Balanced

LEMMA SameGraph ==
  ASSUME graph' = graph
  PROVE  /\ Root' = Root /\ Variables' = Variables
         /\ \A v, d : IsD(v, d)' <=> IsD(v, d)
         /\ \A d : Total(grads, d)' = Total(grads', d)
<1>1. Root' = Root /\ Variables' = Variables /\ Ids' = Ids
  BY DEF Root, Variables, Ids
<1>2. ASSUME NEW v, NEW n, NEW d PROVE Rule(v, n, d)' = Rule(v, n, d)
  BY DEF Rule, Val
<1>3. ASSUME NEW v, NEW d PROVE IsD(v, d)' <=> IsD(v, d)
  BY <1>1, <1>2 DEF IsD
<1>4. ASSUME NEW d PROVE Total(grads, d)' = Total(grads', d)
  BY <1>1 DEF Total, Weighted, Held
<1> QED BY <1>1, <1>3, <1>4

LEMMA StartGInv ==
  ASSUME IInv, GraphMeant, RootSeen, StartSweep
  PROVE  GInv'
<1>1. /\ phase = "walk" /\ stack = <<>> /\ phase' = "sweep" /\ idx' = 1
      /\ grads' = [n \in {Root} |-> 1] /\ UNCHANGED <<graph, seen>>
  BY DEF StartSweep
<1>2. Root \in DOMAIN seen /\ DOMAIN seen \subseteq Ids /\ GraphOK
  BY <1>1 DEF RootSeen, IInv, SeenOK
<1>3. Root \in Nat /\ Ids = 1 .. Root /\ Root \in 1 .. Root
  BY <1>2 DEF GraphOK, Root, Ids
<1>4. Stored'
  BY <1>1, <1>2 DEF Stored, StoreOK
<1>5. Settled'
  <2>1. \A i \in 1 .. Len(nodes') : ~(i < idx')
    <3>1. Len(nodes') \in Nat
      BY StartSweepPreserves DEF IInv, Types
    <3> QED BY <1>1, <3>1
  <2> QED BY <1>1, <2>1 DEF Settled
<1>6. ASSUME NEW v \in Variables, NEW d, IsD(v, d) PROVE Total(grads', d) = d[Root]
  <2>1. \A m \in Ids : d[m] \in Int
    BY <1>2, <1>6, DerivativeTyped
  <2>2. \A m \in Ids : Weighted(grads', d)[m] = IF m = Root THEN d[Root] ELSE 0
    <3> SUFFICES ASSUME NEW m \in Ids
                 PROVE  Weighted(grads', d)[m] = IF m = Root THEN d[Root] ELSE 0
      OBVIOUS
    <3>1. Held(grads', m) = IF m = Root THEN 1 ELSE 0
      BY <1>1 DEF Held
    <3>2. Weighted(grads', d)[m] = Held(grads', m) * d[m]
      BY DEF Weighted
    <3>3. d[m] \in Int /\ 1 * d[m] = d[m] /\ 0 * d[m] = 0
      BY <2>1
    <3> QED BY <3>1, <3>2, <3>3
  <2>3. SumTo(Weighted(grads', d), Root) = d[Root]
    BY <1>2, <1>3, <2>1, <2>2, SumUnit
  <2> QED BY <2>3 DEF Total
<1>7. Balanced'
  BY <1>1, <1>6, SameGraph DEF Balanced
<1> QED BY <1>4, <1>5, <1>7 DEF GInv

LEMMA PropagateGInv ==
  ASSUME IInv, GraphMeant, ExactArms, GInv, Propagate
  PROVE  GInv'
<1> DEFINE c == nodes[idx]
<1>1. /\ phase = "sweep" /\ phase' = "sweep" /\ idx' = idx + 1
      /\ UNCHANGED <<graph, seen, nodes>>
      /\ idx \in 1 .. Len(nodes) /\ Len(nodes) \in Nat /\ idx \in Nat
      /\ ~graph[c].is_variable /\ c \in DOMAIN grads
      /\ grads' = Accumulate(Without(grads, c), c, grads[c])
  BY DEF Propagate, Current, IInv, Types
<1>2. StoreOK(grads) /\ Swept /\ InSweep
  BY <1>1 DEF GInv, Stored, InSweep, Swept
<1>3. ASSUME NEW v \in Variables, NEW d, IsD(v, d)
      PROVE  Total(grads', d) = Total(grads, d)
  BY <1>1, <1>2, <1>3, ArmKeepsTotal
<1>4. Stored'
  <2>1. StoreOK(grads')
    BY <1>1, <1>2, ArmStoreOK
  <2> QED BY <1>1, <2>1 DEF Stored, StoreOK
<1>5. Settled'
  <2>1. ASSUME NEW i \in 1 .. Len(nodes), i < idx + 1, ~graph[nodes[i]].is_variable
        PROVE  nodes[i] \notin DOMAIN grads'
    <3>1. DOMAIN grads' = (DOMAIN grads \ {c}) \cup CreditedArgs(c)
      BY <1>1 DEF Accumulate, Without
    <3>2. ~(idx < i)
      BY <1>1, <2>1
    <3>3. nodes[i] \notin CreditedArgs(c)
      BY <1>1, <1>2, <3>2, CreditsLater
    <3>4. i = idx \/ i < idx
      BY <1>1, <2>1
    <3>5. i < idx => nodes[i] \notin DOMAIN grads
      BY <1>2, <2>1 DEF GInv, Settled
    <3> QED BY <3>1, <3>3, <3>4, <3>5
  <2> QED BY <1>1, <2>1 DEF Settled, InSweep
<1>6. Balanced'
  <2>1. \A v \in Variables : \A d : IsD(v, d) => Total(grads, d) = d[Root]
    BY <1>2 DEF GInv, Balanced
  <2> QED BY <1>1, <1>3, <2>1, SameGraph DEF Balanced
<1> QED BY <1>4, <1>5, <1>6 DEF GInv

LEMMA NextGInv ==
  ASSUME IInv, GraphMeant, RootSeen, ExactArms, GInv, [Next]_vars
  PROVE  GInv'
<1>1. CASE Build \/ WalkDown \/ WalkNext \/ WalkUp \/ NotSupported \/ Panic
  <2>1. phase' \in {"build", "walk", "failed", "panic"}
    <3>1. CASE Build
      <4>1. CASE Backward
        BY <4>1 DEF Backward
      <4>2. CASE ~Backward
        BY <3>1, <4>2 DEF Build, NewLeaf, Binary, Unary, Affine, Cmp, ToDType, WhereCond,
                          Detach, Create
      <4> QED BY <4>1, <4>2
    <3>2. CASE WalkDown \/ WalkNext \/ WalkUp \/ NotSupported \/ Panic
      BY <3>2 DEF WalkDown, WalkNext, WalkUp, NotSupported, Panic
    <3> QED BY <1>1, <3>1, <3>2
  <2> QED BY <2>1 DEF GInv, Stored, Settled, Balanced, InSweep
<1>2. CASE StartSweep
  BY <1>2, StartGInv
<1>3. CASE Propagate
  BY <1>3, PropagateGInv
<1>4. CASE SkipVariable \/ Finish \/ UNCHANGED vars
  <2>1. /\ UNCHANGED <<graph, seen, nodes, grads>> /\ Len(nodes) \in Nat /\ idx \in Nat
        /\ phase' \in {"sweep", "done"} => InSweep
        /\ \/ SkipVariable /\ phase' = "sweep" /\ idx' = idx + 1
           \/ idx' = idx
    BY <1>4 DEF SkipVariable, Finish, vars, IInv, Types, InSweep
  <2>2. Stored'
    BY <2>1 DEF GInv, Stored, InSweep, StoreOK
  <2>3. Balanced'
    <3>1. \A d : Total(grads', d) = Total(grads, d)
      BY <2>1
    <3> QED BY <2>1, <3>1, SameGraph DEF GInv, Balanced, InSweep
  <2>4. Settled'
    <3>1. CASE idx' = idx
      <4>1. phase' = "done" => idx > Len(nodes)
        BY <1>4, <3>1, <2>1 DEF SkipVariable, Finish, vars, GInv, Settled
      <4> QED BY <2>1, <3>1, <4>1 DEF GInv, Settled, InSweep
    <3>2. CASE SkipVariable /\ phase' = "sweep" /\ idx' = idx + 1
      <4>1. graph[nodes[idx]].is_variable /\ InSweep
        BY <3>2 DEF SkipVariable, Current, InSweep
      <4>2. \A i \in 1 .. Len(nodes) : i < idx + 1 => i < idx \/ i = idx
        BY <2>1
      <4> QED BY <2>1, <3>2, <4>1, <4>2 DEF GInv, Settled, InSweep
    <3> QED BY <2>1, <3>1, <3>2
  <2> QED BY <2>2, <2>3, <2>4 DEF GInv
<1> QED BY <1>1, <1>2, <1>3, <1>4 DEF Next, Run

\* At the end only the gradient of v counts for v.
LEMMA DoneCorrect ==
  ASSUME IInv, GraphMeant, GInv, phase = "done", NEW v \in Variables
  PROVE  Derivative(v) = IF v \in DOMAIN grads THEN grads[v] ELSE 0
<1>1. GraphOK /\ DOMAIN seen \subseteq Ids /\ InSweep /\ Len(nodes) \in Nat /\ idx \in Nat
      /\ idx > Len(nodes) /\ StoreOK(grads) /\ Root \in Nat /\ Ids = 1 .. Root
  BY DEF IInv, SeenOK, InSweep, GInv, Stored, Settled, Types, GraphOK, Root, Ids
<1>2. PICK d : IsD(v, d) /\ Derivative(v) = d[Root]
  BY <1>1, DerivativeIs
<1>3. Total(grads, d) = d[Root]
  BY <1>1, <1>2 DEF GInv, Balanced
<1>4. v \in 1 .. Root /\ v \in Ids /\ graph[v].is_variable
  BY <1>1 DEF Variables
<1>5. \A m \in Ids : d[m] \in Int /\ Held(grads, m) \in Int
  BY <1>1, <1>2, DerivativeTyped DEF StoreOK, Held
<1>6. d[v] = 1
  BY <1>1, <1>2, <1>4, RuleSelf DEF IsD
<1>7. ASSUME NEW m \in DOMAIN grads, m # v PROVE d[m] = 0
  <2>1. m \in DOMAIN seen /\ m \in Ids
    BY <1>1 DEF StoreOK
  <2>2. CASE ~seen[m]
    BY <1>2, <2>1, <2>2, UnseenZero
  <2>3. CASE seen[m]
    <3>1. PICK i \in 1 .. Len(nodes) : nodes[i] = m
      BY <2>1, <2>3 DEF IInv, SeenOK
    <3>2. i < idx
      BY <1>1, <3>1
    <3>3. graph[m].is_variable
      BY <1>1, <3>1, <3>2 DEF GInv, Settled
    <3>4. graph[m].op = "leaf"
      BY <1>1, <2>1, <3>3, NodeFacts
    <3>5. Rule(v, m, d) = 0
      BY <1>1, <1>7, <2>1, <3>4, RuleIs
    <3> QED BY <1>2, <2>1, <3>5 DEF IsD
  <2> QED BY <1>1, <2>1, <2>2, <2>3 DEF IInv, SeenOK
<1>8. ASSUME NEW m \in 1 .. Root
      PROVE  Weighted(grads, d)[m] = IF m = v THEN Held(grads, v) ELSE 0
  <2>0. m \in Ids /\ d[m] \in Int /\ Held(grads, m) \in Int
    BY <1>1, <1>5
  <2>1. Weighted(grads, d)[m] = Held(grads, m) * d[m]
    BY <2>0 DEF Weighted
  <2>2. CASE m = v
    <3>1. Held(grads, m) * 1 = Held(grads, m)
      BY <2>0
    <3> QED BY <1>6, <2>1, <2>2, <3>1
  <2>3. CASE m # v
    <3>1. Held(grads, m) = 0 \/ d[m] = 0
      BY <1>7, <2>3 DEF Held
    <3>2. Held(grads, m) * 0 = 0 /\ 0 * d[m] = 0
      BY <2>0
    <3> QED BY <2>1, <2>3, <3>1, <3>2
  <2> QED BY <2>2, <2>3
<1>9. SumTo(Weighted(grads, d), Root) = Held(grads, v)
  BY <1>1, <1>4, <1>5, <1>8, SumUnit
<1> QED BY <1>2, <1>3, <1>9 DEF Total, Held

\* backward returns, for every variable, the derivative of the result by it:
\* on every graph of the operations whose arms are exact, however many paths
\* lead from the result to the variable and in whatever order they share
\* tensors; and it leaves no gradient of an intermediate tensor in the store.
THEOREM GradientsAreDerivatives ==
  ASSUME ExactArms
  PROVE  Spec => []GradientsCorrect
<1>1. Init => RootSeen /\ GraphMeant /\ GInv
  <2> SUFFICES ASSUME Init PROVE RootSeen /\ GraphMeant /\ GInv
    OBVIOUS
  <2>1. phase = "build" /\ Ids = {}
    BY DEF Init, Ids
  <2> QED
    BY <2>1 DEF RootSeen, Swept, GraphMeant, GInv, Stored, Settled, Balanced, InSweep
<1>2. IInv /\ (RootSeen /\ GraphMeant /\ GInv) /\ [Next]_vars =>
        (RootSeen /\ GraphMeant /\ GInv)'
  <2> SUFFICES ASSUME IInv, RootSeen, GraphMeant, GInv, [Next]_vars
               PROVE  (RootSeen /\ GraphMeant /\ GInv)'
    OBVIOUS
  <2> QED BY RootSeenStep, GraphMeantStep, NextGInv
<1>3. IInv /\ GraphMeant /\ GInv => GradientsCorrect
  <2> SUFFICES ASSUME IInv, GraphMeant, GInv, phase = "done"
               PROVE  GradientsCorrect
    BY DEF GradientsCorrect
  <2>1. \A v \in Variables : Derivative(v) = IF v \in DOMAIN grads THEN grads[v] ELSE 0
    BY DoneCorrect
  <2>2. ASSUME NEW i \in 1 .. Len(nodes)
        PROVE  graph[nodes[i]].is_variable \/ nodes[i] \notin DOMAIN grads
    <3>1. i < idx
      BY DEF GInv, Settled, IInv, Types
    <3> QED BY <3>1 DEF GInv, Settled, InSweep
  <2> QED BY <2>1, <2>2 DEF GradientsCorrect
<1> QED BY <1>1, <1>2, <1>3, Invariance, PTL DEF Spec
=============================================================================
