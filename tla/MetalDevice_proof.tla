------------------------- MODULE MetalDevice_proof -------------------------
(***************************************************************************)
(* Proofs about MetalDevice, for any number of threads, buffers, storages  *)
(* and calls: the reference counts hand a buffer to one owner at a time.   *)
(***************************************************************************)
EXTENDS MetalDevice, SequenceTheorems, WellFoundedInduction, TLAPS

Elements == Values \cup {Garbage}

StorageType == [buf : Buffers \cup {NoBuffer}, count : Nat, val : Elements, shared : BOOLEAN]

CallType ==
  [op : {"none", "zeros", "draw", "unary", "binary", "copy"}, args : Seq(Slots),
   to : Buffers \cup {NoBuffer}, count : Nat]

\* The arguments of a call are those of its operation.
Complete(call) ==
  /\ call.op \in {"unary", "copy"} => Len(call.args) = 1
  /\ call.op = "binary" => Len(call.args) = 2

Types ==
  /\ size = [b \in Buffers |-> size[b]]
  /\ seed \in Values
  /\ storages \in [Slots -> StorageType]
  /\ pc \in [Threads -> {"idle", "encode", "wait", "waiting", "read"}]
  /\ local \in [Threads -> CallType]
  /\ \A t \in Threads : Complete(local[t])

\* Storages have buffers, and so has a call that is about to encode.
HaveBuffers ==
  /\ \A s \in Live : storages[s].buf \in Buffers
  /\ \A t \in Threads : pc[t] = "encode" => local[t].to \in Buffers /\ local[t].op # "none"

RoomToFill ==
  \A t \in Threads : pc[t] = "encode" /\ buf_size(local[t].count) >= local[t].count =>
    size[local[t].to] >= local[t].count

IInv == Types /\ HaveBuffers /\ RoomToFill /\ Exclusive

\* What a kernel computes is an element, given elements.
LEMMA ValueType ==
  ASSUME NEW op \in {"zeros", "draw", "unary", "binary", "copy"}, NEW vals \in Seq(Elements), NEW s \in Values,
         op \in {"unary", "copy"} => Len(vals) = 1,
         op = "binary" => Len(vals) = 2
  PROVE  Value(op, vals, s) \in Elements
  <1>1. CASE op \in {"zeros", "draw"}
    BY <1>1 DEF Value, Elements, Values, Garbage
  <1>2. CASE op \in {"unary", "copy"}
    <2>1. vals[1] \in Elements /\ vals[1] \in Range(vals)
      BY <1>2 DEF Range
    <2>2. QED
      BY <1>2, <2>1 DEF Value, Elements, Values, Garbage
  <1>3. CASE op = "binary"
    <2>1. vals[1] \in Elements /\ vals[2] \in Elements /\ {vals[1], vals[2]} \subseteq Range(vals)
      BY <1>3 DEF Range
    <2>2. QED
      BY <1>3, <2>1 DEF Value, Elements, Values, Garbage
  <1>4. QED
    BY <1>1, <1>2, <1>3

\* A buffer that allocate_buffer gives has no owner, is as long as buf_size
\* makes it, and the others stay as they are.
LEMMA AllocatedIsFree ==
  ASSUME NEW b \in Buffers, NEW n \in Nat, Types, Allocated(b, n)
  PROVE  /\ ~Held(b)
         /\ size' = [c \in Buffers |-> size'[c]]
         /\ \A c \in Buffers \ {b} : size'[c] = size[c]
         /\ buf_size(n) >= n => size'[b] >= n
  <1>1. CASE Available(n) # {}
    BY <1>1 DEF Types, Allocated, Best, Available, pool
  <1>2. CASE Available(n) = {}
    <2>1. b \in Unused /\ size' = [size EXCEPT ![b] = buf_size(n)]
      BY <1>2 DEF Allocated
    <2>2. QED
      BY <2>1 DEF Types, Unused
  <1>3. QED
    BY <1>1, <1>2

LEMMA InitIInv == Init => IInv
  BY MetalAssumption
  DEF Init, IInv, Types, HaveBuffers, RoomToFill, Exclusive, Live, NoStorage, Idle, StorageType, CallType,
      Complete, Elements, Values

\* The first half of a call.
LEMMA AllocStep ==
  ASSUME NEW t \in Threads, NEW b \in Buffers, NEW n \in Nat,
         NEW op \in {"zeros", "draw", "unary", "binary", "copy"}, NEW args \in Seq(Slots),
         Complete([op |-> op, args |-> args, to |-> b, count |-> n]),
         IInv, Alloc(t, op, args, b, n)
  PROVE  IInv'
  <1> DEFINE call == [op |-> op, args |-> args, to |-> b, count |-> n]
  <1>1. /\ ~Held(b)
        /\ size' = [c \in Buffers |-> size'[c]]
        /\ \A c \in Buffers \ {b} : size'[c] = size[c]
        /\ buf_size(n) >= n => size'[b] >= n
    BY AllocatedIsFree DEF Alloc, IInv
  <1>2. /\ storages' = storages /\ seed' = seed
        /\ pc' = [pc EXCEPT ![t] = "encode"]
        /\ local' = [local EXCEPT ![t] = call]
    BY DEF Alloc, seeds
  <1>3. Live' = Live
    BY <1>2 DEF Live
  <1>4. Types'
    BY <1>1, <1>2 DEF IInv, Types, CallType
  <1>5. HaveBuffers'
    BY <1>2, <1>3 DEF IInv, Types, HaveBuffers
  <1>6. RoomToFill'
    <2> SUFFICES ASSUME NEW u \in Threads, pc'[u] = "encode", buf_size(local'[u].count) >= local'[u].count
                 PROVE  size'[local'[u].to] >= local'[u].count
      BY DEF RoomToFill
    <2>1. CASE u = t
      BY <1>1, <1>2, <2>1 DEF IInv, Types
    <2>2. CASE u # t
      <3>1. pc[u] = "encode" /\ local'[u] = local[u] /\ local[u].to \in Buffers \ {b}
        BY <1>1, <1>2, <2>2 DEF IInv, Types, HaveBuffers, Held
      <3>2. QED
        BY <1>1, <3>1 DEF IInv, RoomToFill
    <2>3. QED
      BY <2>1, <2>2
  <1>7. Exclusive'
    <2>1. \A r, s \in Live : r # s /\ storages[r].buf = storages[s].buf => storages[r].shared /\ storages[s].shared
      BY DEF IInv, Exclusive
    <2>2. \A u \in Threads : local'[u].to # NoBuffer =>
            /\ \A s \in Slots : storages[s].buf # local'[u].to
            /\ \A w \in Threads \ {u} : local'[w].to # local'[u].to
      <3> SUFFICES ASSUME NEW u \in Threads, local'[u].to # NoBuffer
                   PROVE  /\ \A s \in Slots : storages[s].buf # local'[u].to
                          /\ \A w \in Threads \ {u} : local'[w].to # local'[u].to
        OBVIOUS
      <3>1. CASE u = t
        BY <1>1, <1>2, <3>1 DEF IInv, Types, Held
      <3>2. CASE u # t
        BY <1>1, <1>2, <3>2 DEF IInv, Types, Held, Exclusive
      <3>3. QED
        BY <3>1, <3>2
    <2>3. \A s \in Live : buf_size(storages[s].count) >= storages[s].count =>
            size'[storages[s].buf] >= storages[s].count
      <3>1. \A s \in Live : storages[s].buf \in Buffers \ {b}
        BY <1>1 DEF IInv, HaveBuffers, Held, Live
      <3>2. QED
        BY <1>1, <3>1 DEF IInv, Exclusive
    <2>4. QED
      BY <1>2, <1>3, <2>1, <2>2, <2>3 DEF Exclusive
  <1>8. QED
    BY <1>4, <1>5, <1>6, <1>7 DEF IInv

\* A call that goes on without a change of storages, or ends without one.
LEMMA WaitStep ==
  ASSUME IInv, UNCHANGED <<size, storages>>, seed' \in Values,
         NEW t \in Threads,
         NEW where \in {"idle", "wait", "waiting", "read"},
         pc' = [pc EXCEPT ![t] = where] \/ pc' = pc,
         (local' = [local EXCEPT ![t] = Idle] /\ pc' # pc) \/ local' = local
  PROVE  IInv'
  <1>1. Idle \in CallType /\ Complete(Idle)
    BY DEF Idle, CallType, Complete
  <1>2. Types'
    BY <1>1 DEF IInv, Types
  <1>3. Live' = Live
    BY DEF Live
  <1>4. \A u \in Threads : \/ local'[u] = local[u]
                           \/ u = t /\ local'[u] = Idle /\ pc'[u] # "encode"
    BY DEF IInv, Types
  <1>5. \A u \in Threads : pc'[u] = "encode" => pc[u] = "encode" /\ local'[u] = local[u]
    BY <1>4 DEF IInv, Types
  <1>6. HaveBuffers' /\ RoomToFill'
    BY <1>3, <1>5 DEF IInv, HaveBuffers, RoomToFill
  <1>7. \A u \in Threads : local'[u].to # NoBuffer => local'[u].to = local[u].to
    BY <1>4 DEF Idle
  <1>8. Exclusive'
    BY <1>3, <1>7 DEF IInv, Exclusive
  <1>9. QED
    BY <1>2, <1>6, <1>8 DEF IInv

\* A storage in a free slot, with a buffer that is no one's, or that only the
\* call had whose result it is.
LEMMA NewStorage ==
  ASSUME IInv,
         NEW s \in Free, NEW b \in Buffers, NEW n \in Nat, NEW v \in Elements, NEW shared \in BOOLEAN,
         storages' = [storages EXCEPT ![s] = [buf |-> b, count |-> n, val |-> v, shared |-> shared]],
         \A r \in Slots : storages[r].buf # b,
         \A u \in Threads : local'[u].to # b /\ (local'[u] = local[u] \/ (local'[u] = Idle /\ pc'[u] # "encode")),
         \A u \in Threads : pc'[u] = "encode" => pc[u] = "encode",
         Types',
         \A c \in Buffers \ {b} : size'[c] = size[c],
         buf_size(n) >= n => size'[b] >= n
  PROVE  IInv'
  <1>1. s \in Slots /\ s \notin Live
    BY DEF Free
  <1>2. Live' \subseteq Live \cup {s}
    BY <1>1 DEF Live, IInv, Types
  <1>3. \A r \in Slots \ {s} : storages'[r] = storages[r]
    BY <1>1 DEF IInv, Types
  <1>4. storages'[s] = [buf |-> b, count |-> n, val |-> v, shared |-> shared]
    BY <1>1 DEF IInv, Types
  <1>5. \A u \in Threads : pc'[u] = "encode" => pc[u] = "encode" /\ local'[u] = local[u]
    OBVIOUS
  <1>6. HaveBuffers'
    BY <1>2, <1>3, <1>4, <1>5 DEF IInv, HaveBuffers, Live
  <1>7. RoomToFill'
    BY <1>5 DEF IInv, HaveBuffers, RoomToFill
  <1>8. Exclusive'
    <2>1. \A q, r \in Live' : q # r /\ storages'[q].buf = storages'[r].buf => storages'[q].shared /\ storages'[r].shared
      BY <1>1, <1>2, <1>3, <1>4 DEF IInv, Exclusive, Live
    <2>2. \A u \in Threads : local'[u].to # NoBuffer =>
            /\ \A r \in Slots : storages'[r].buf # local'[u].to
            /\ \A w \in Threads \ {u} : local'[w].to # local'[u].to
      <3>1. \A u \in Threads : local'[u].to # NoBuffer => local'[u].to = local[u].to
        BY DEF Idle
      <3>2. \A u \in Threads : local'[u].to # NoBuffer => \A r \in Slots : storages'[r].buf # local'[u].to
        BY <1>3, <1>4, <3>1 DEF IInv, Exclusive
      <3>3. QED
        BY <3>1, <3>2 DEF IInv, Exclusive
    <2>3. \A r \in Live' : buf_size(storages'[r].count) >= storages'[r].count =>
            size'[storages'[r].buf] >= storages'[r].count
      <3>1. \A r \in Live : storages[r].buf \in Buffers \ {b}
        BY DEF IInv, HaveBuffers, Live
      <3>2. \A r \in Live \ {s} : storages'[r] = storages[r]
        BY <1>3 DEF Live
      <3>3. QED
        BY <1>2, <1>4, <3>1, <3>2 DEF IInv, Exclusive
    <2>4. QED
      BY <2>1, <2>2, <2>3 DEF Exclusive
  <1>9. QED
    BY <1>6, <1>7, <1>8 DEF IInv

LEMMA FromSliceStep ==
  ASSUME NEW t \in Threads, NEW s \in Slots, NEW b \in Buffers, NEW n \in Sizes,
         IInv, FromSlice(t, s, b, n)
  PROVE  IInv'
  <1>1. n \in Nat /\ 1 \in Elements
    BY MetalAssumption DEF Elements, Values
  <1>2. /\ storages' = [storages EXCEPT ![s] = [buf |-> b, count |-> n, val |-> 1, shared |-> FALSE]]
        /\ size' = [size EXCEPT ![b] = n]
        /\ s \in Free /\ ~Held(b) /\ UNCHANGED <<pc, local, seed>>
    BY DEF FromSlice, Unused, seeds
  <1>3. Types'
    BY <1>1, <1>2 DEF IInv, Types, StorageType
  <1>4. /\ \A r \in Slots : storages[r].buf # b
        /\ \A u \in Threads : local'[u].to # b /\ local'[u] = local[u]
    BY <1>2 DEF Held
  <1>5. size'[b] >= n /\ \A c \in Buffers \ {b} : size'[c] = size[c]
    BY <1>1, <1>2 DEF IInv, Types
  <1>6. \A u \in Threads : /\ local'[u].to # b
                           /\ local'[u] = local[u] \/ (local'[u] = Idle /\ pc'[u] # "encode")
    BY <1>4
  <1>7. (\A u \in Threads : pc'[u] = "encode" => pc[u] = "encode") /\ (buf_size(n) >= n => size'[b] >= n)
    BY <1>2, <1>5
  <1>8. \A c \in Buffers \ {b} : size'[c] = size[c]
    BY <1>5
  <1>9. QED
    BY <1>1, <1>2, <1>3, <1>4, <1>6, <1>7, <1>8, NewStorage

LEMMA EncodeStep ==
  ASSUME NEW t \in Threads, NEW s \in Slots, NEW flush \in BOOLEAN, IInv, Encode(t, s, flush)
  PROVE  IInv'
  <1> DEFINE call == local[t]
             shared == \E i \in DOMAIN call.args : storages[call.args[i]].shared
             v == Value(call.op, Vals(call.args), seed)
  <1>1. /\ call \in CallType /\ Complete(call) /\ call.to \in Buffers
        /\ call.op \in {"zeros", "draw", "unary", "binary", "copy"} /\ call.count \in Nat
    BY DEF Encode, IInv, Types, HaveBuffers, CallType
  <1>2. Vals(call.args) \in Seq(Elements) /\ Len(Vals(call.args)) = Len(call.args)
    BY <1>1 DEF IInv, Types, Vals, StorageType, CallType
  <1>3. v \in Elements
    BY <1>1, <1>2, ValueType DEF IInv, Types, Complete
  <1>4. /\ storages' = [storages EXCEPT ![s] = [buf |-> call.to, count |-> call.count, val |-> v, shared |-> shared]]
        /\ pc' = [pc EXCEPT ![t] = "idle"] /\ local' = [local EXCEPT ![t] = Idle]
        /\ s \in Free /\ UNCHANGED <<size, seed>> /\ pc[t] = "encode"
    BY DEF Encode, seeds
  <1>5. Types'
    <2>1. [buf |-> call.to, count |-> call.count, val |-> v, shared |-> shared] \in StorageType
      BY <1>1, <1>3 DEF StorageType
    <2>2. Idle \in CallType /\ Complete(Idle)
      BY DEF Idle, CallType, Complete
    <2>3. storages' \in [Slots -> StorageType]
      BY <1>4, <2>1 DEF IInv, Types
    <2>4. QED
      BY <1>4, <2>2, <2>3 DEF IInv, Types
  <1>6. /\ call.to # NoBuffer
        /\ \A r \in Slots : storages[r].buf # call.to
        /\ \A w \in Threads \ {t} : local[w].to # call.to
    BY <1>1, MetalAssumption DEF IInv, Exclusive
  <1>7. \A u \in Threads : /\ local'[u].to # call.to
                           /\ local'[u] = local[u] \/ (local'[u] = Idle /\ pc'[u] # "encode")
    <2>1. local'[t] = Idle /\ pc'[t] # "encode" /\ Idle.to # call.to
      BY <1>4, <1>6 DEF IInv, Types, Idle
    <2>2. \A u \in Threads \ {t} : local'[u] = local[u] /\ local[u].to # call.to
      BY <1>4, <1>6 DEF IInv, Types
    <2>3. QED
      BY <2>1, <2>2
  <1>8. \A u \in Threads : pc'[u] = "encode" => pc[u] = "encode"
    BY <1>4 DEF IInv, Types
  <1>9. buf_size(call.count) >= call.count => size'[call.to] >= call.count
    BY <1>4 DEF IInv, RoomToFill
  <1>10. shared \in BOOLEAN
    OBVIOUS
  <1> HIDE DEF call, v, shared
  <1>11. QED
    BY <1>1, <1>3, <1>4, <1>5, <1>6, <1>7, <1>8, <1>9, <1>10, NewStorage

\* Writing into a storage, copying one, and dropping one.
LEMMA StorageStep ==
  ASSUME IInv, UNCHANGED <<size, seed, pc, local>>,
         NEW r \in Slots, NEW s \in Slots, NEW v \in Elements,
         \/ r \in Live /\ storages' = [storages EXCEPT ![r].val = v]
         \/ r \in Live /\ s \in Free /\ storages' = [storages EXCEPT ![r].shared = TRUE, ![s] = [storages[r] EXCEPT !.shared = TRUE]]
         \/ r \in Live /\ storages' = [storages EXCEPT ![r] = NoStorage]
  PROVE  IInv'
  <1>1. CASE r \in Live /\ storages' = [storages EXCEPT ![r].val = v]
    <2>1. /\ storages' \in [Slots -> StorageType]
          /\ \A q \in Slots : /\ storages'[q].buf = storages[q].buf /\ storages'[q].count = storages[q].count
                              /\ storages'[q].shared = storages[q].shared
      BY <1>1 DEF IInv, Types, StorageType
    <2>2. \A q \in Live' : q \in Slots /\ (q \in Live)
      BY <1>1 DEF Live, IInv, Types
    <2>3. QED
      BY <2>1, <2>2 DEF IInv, Types, HaveBuffers, RoomToFill, Exclusive
  <1>2. CASE r \in Live /\ s \in Free /\ storages' = [storages EXCEPT ![r].shared = TRUE, ![s] = [storages[r] EXCEPT !.shared = TRUE]]
    <2>1. r \in Live /\ s \in Slots /\ s \notin Live /\ r # s
      BY <1>2 DEF Free
    <2>2. /\ storages' \in [Slots -> StorageType]
          /\ \A q \in Slots \ {s} : /\ storages'[q].buf = storages[q].buf /\ storages'[q].count = storages[q].count
                                    /\ storages[q].shared => storages'[q].shared
          /\ storages'[s].buf = storages[r].buf /\ storages'[s].count = storages[r].count
          /\ storages'[s].shared /\ storages'[r].shared
      BY <1>2, <2>1 DEF IInv, Types, StorageType
    <2>3. Live' \subseteq Live \cup {s}
      BY <1>2, <2>1 DEF Live, IInv, Types
    <2>4. Types' /\ HaveBuffers' /\ RoomToFill'
      BY <2>1, <2>2, <2>3 DEF IInv, Types, HaveBuffers, RoomToFill, Live
    <2>5. \A p, q \in Live' : p # q /\ storages'[p].buf = storages'[q].buf => storages'[p].shared /\ storages'[q].shared
      <3> SUFFICES ASSUME NEW p \in Live', NEW q \in Live', p # q, storages'[p].buf = storages'[q].buf
                   PROVE  storages'[p].shared
        OBVIOUS
      <3>1. CASE p \in {r, s}
        BY <3>1, <2>2
      <3>2. CASE p \notin {r, s} /\ q \in {r, s}
        BY <3>2, <2>1, <2>2, <2>3 DEF IInv, Exclusive, Live
      <3>3. CASE p \notin {r, s} /\ q \notin {r, s}
        BY <3>3, <2>1, <2>2, <2>3 DEF IInv, Exclusive, Live
      <3>4. QED
        BY <3>1, <3>2, <3>3
    <2>6. Exclusive'
      BY <2>1, <2>2, <2>3, <2>5 DEF IInv, Exclusive, Live
    <2>7. QED
      BY <2>4, <2>6 DEF IInv
  <1>3. CASE r \in Live /\ storages' = [storages EXCEPT ![r] = NoStorage]
    <2>1. /\ storages' \in [Slots -> StorageType]
          /\ \A q \in Slots : storages'[q] = storages[q] \/ storages'[q] = NoStorage
      BY <1>3 DEF IInv, Types, StorageType, NoStorage, Elements, Values
    <2>2. \A q \in Live' : q \in Live /\ storages'[q] = storages[q]
      BY <2>1 DEF Live
    <2>3. Types' /\ HaveBuffers' /\ RoomToFill'
      BY <2>1, <2>2 DEF IInv, Types, HaveBuffers, RoomToFill
    <2>4. \A q \in Slots, b \in Buffers : storages'[q].buf = b => storages[q].buf = b
      BY <2>1, MetalAssumption DEF NoStorage
    <2>5. \A u \in Threads : local[u].to # NoBuffer => local[u].to \in Buffers
      BY DEF IInv, Types, CallType
    <2>6. Exclusive'
      BY <2>2, <2>4, <2>5 DEF IInv, Exclusive
    <2>7. QED
      BY <2>3, <2>6 DEF IInv
  <1>4. QED
    BY <1>1, <1>2, <1>3

LEMMA StepIInv == IInv /\ [Next]_vars => IInv'
  <1> SUFFICES ASSUME IInv, [Next]_vars PROVE IInv'
    OBVIOUS
  <1>1. CASE UNCHANGED vars
    BY <1>1 DEF vars, pool, seeds, IInv, Types, HaveBuffers, RoomToFill, Exclusive, Live
  <1>2. CASE Run
    BY <1>2 DEF Run, pool, seeds, IInv, Types, HaveBuffers, RoomToFill, Exclusive, Live
  <1>3. ASSUME NEW t \in Threads, Call(t) PROVE IInv'
    <2>0. \A n \in Sizes : n \in Nat
      BY MetalAssumption
    <2>00. \A s \in Slots : storages[s].count \in Nat
      BY DEF IInv, Types, StorageType
    <2>1. ASSUME NEW s \in Slots, NEW b \in Buffers, NEW n \in Sizes, FromSlice(t, s, b, n) PROVE IInv'
      BY <2>1, FromSliceStep
    <2>2. ASSUME NEW op \in {"zeros", "draw"}, NEW b \in Buffers, NEW n \in Sizes, Create(t, op, b, n) PROVE IInv'
      <3>1. Complete([op |-> op, args |-> <<>>, to |-> b, count |-> n])
        BY DEF Complete
      <3>2. <<>> \in Seq(Slots) /\ n \in Nat /\ Alloc(t, op, <<>>, b, n)
        BY <2>0, <2>2 DEF Create
      <3>3. QED
        BY <3>1, <3>2, AllocStep
    <2>3. ASSUME NEW s \in Slots, NEW b \in Buffers, Unary(t, s, b) PROVE IInv'
      <3>1. Complete([op |-> "unary", args |-> <<s>>, to |-> b, count |-> storages[s].count])
        BY DEF Complete
      <3>2. <<s>> \in Seq(Slots) /\ storages[s].count \in Nat /\ Alloc(t, "unary", <<s>>, b, storages[s].count)
        BY <2>00, <2>3 DEF Unary
      <3>3. QED
        BY <3>1, <3>2, AllocStep
    <2>4. ASSUME NEW r \in Slots, NEW s \in Slots, NEW b \in Buffers, Binary(t, r, s, b) PROVE IInv'
      <3>1. Complete([op |-> "binary", args |-> <<r, s>>, to |-> b, count |-> storages[s].count])
        BY DEF Complete
      <3>2. <<r, s>> \in Seq(Slots) /\ storages[s].count \in Nat /\ Alloc(t, "binary", <<r, s>>, b, storages[s].count)
        BY <2>00, <2>4 DEF Binary
      <3>3. QED
        BY <3>1, <3>2, AllocStep
    <2>5. ASSUME NEW s \in Slots, NEW b \in Buffers, ToCpu(t, s, b) PROVE IInv'
      <3>1. Complete([op |-> "copy", args |-> <<s>>, to |-> b, count |-> storages[s].count])
        BY DEF Complete
      <3>2. <<s>> \in Seq(Slots) /\ storages[s].count \in Nat /\ Alloc(t, "copy", <<s>>, b, storages[s].count)
        BY <2>00, <2>5 DEF ToCpu
      <3>3. QED
        BY <3>1, <3>2, AllocStep
    <2>6. ASSUME NEW s \in Slots, NEW flush \in BOOLEAN, ConstSet(t, s, flush) PROVE IInv'
      <3>1. 3 \in Elements
        BY DEF Elements, Values
      <3>2. s \in Live /\ storages' = [storages EXCEPT ![s].val = 3] /\ UNCHANGED <<size, seed, pc, local>>
        BY <2>6 DEF ConstSet, seeds
      <3>3. QED
        BY <3>1, <3>2, StorageStep
    <2>7. ASSUME NEW r \in Slots, NEW s \in Slots, TryClone(t, r, s) PROVE IInv'
      <3>1. 0 \in Elements
        BY DEF Elements, Values
      <3>2. QED
        BY <2>7, <3>1, StorageStep DEF TryClone, seeds, pool
    <2>8. ASSUME NEW s \in Slots, Drop(t, s) PROVE IInv'
      <3>1. 0 \in Elements
        BY DEF Elements, Values
      <3>2. QED
        BY <2>8, <3>1, StorageStep DEF Drop, seeds, pool
    <2>9. ASSUME NEW v \in Seeds, SetSeed(t, v) \/ SetSeedBusy(t, v) PROVE IInv'
      <3>1. UNCHANGED <<size, storages, pc, local>> /\ seed' \in Values
        BY <2>9, MetalAssumption DEF SetSeed, SetSeedBusy, pool, IInv, Types
      <3>2. QED
        BY <3>1, WaitStep
    <2>10. CASE Synchronize(t)
      BY <2>10, WaitStep DEF Synchronize, pool, seeds, IInv, Types
    <2>11. QED
      BY <1>3, <2>1, <2>2, <2>3, <2>4, <2>5, <2>6, <2>7, <2>8, <2>9, <2>10 DEF Call
  <1>4. ASSUME NEW t \in Threads, Step(t) PROVE IInv'
    <2>1. ASSUME NEW s \in Slots, NEW flush \in BOOLEAN, Encode(t, s, flush) PROVE IInv'
      BY <2>1, EncodeStep
    <2>2. ASSUME NEW flush \in BOOLEAN, EncodeToCpu(t, flush) PROVE IInv'
      BY <2>2, WaitStep DEF EncodeToCpu, seeds, IInv, Types
    <2>3. CASE EncodeFails(t)
      <3>1. pc' # pc
        BY <2>3 DEF EncodeFails, IInv, Types
      <3>2. QED
        BY <2>3, <3>1, WaitStep DEF EncodeFails, pool, seeds, IInv, Types
    <2>4. CASE WaitUntilCompleted(t)
      BY <2>4, WaitStep DEF WaitUntilCompleted, pool, seeds, IInv, Types
    <2>5. CASE Waited(t)
      BY <2>5, WaitStep DEF Waited, pool, seeds, IInv, Types
    <2>6. CASE Read(t)
      <3>1. pc' # pc
        BY <2>6 DEF Read, IInv, Types
      <3>2. QED
        BY <2>6, <3>1, WaitStep DEF Read, pool, seeds, IInv, Types
    <2>7. QED
      BY <1>4, <2>1, <2>2, <2>3, <2>4, <2>5, <2>6 DEF Step
  <1>5. QED
    BY <1>1, <1>2, <1>3, <1>4 DEF Next

\* Whatever threads allocate, copy, write and drop, and whenever the GPU runs
\* what they encoded, a buffer has one owner, apart from the copies that
\* try_clone makes, and room for its storage: find_available_buffer takes a
\* buffer only when the pool has the last reference to it.
THEOREM OneOwner == Spec => []Exclusive
  <1>1. IInv => Exclusive
    BY DEF IInv
  <1>2. QED
    BY InitIInv, StepIInv, <1>1, PTL DEF Spec

-----------------------------------------------------------------------------
(* The queue.                                                              *)

\* Performed, with the seed as a parameter.
Perf(s, c, cmd) ==
  [c EXCEPT ![cmd.to] = Value(cmd.op, [i \in DOMAIN cmd.from |-> c[cmd.from[i]]], s)]

\* R lists the contents of the buffers after each of the commands of q.
IsRun(s, c, q, N, R) == R = [i \in 0 .. N |-> IF i = 0 THEN c ELSE Perf(s, R[i - 1], q[i])]

Ran(s, c, q) == (CHOOSE R : IsRun(s, c, q, Len(q), R))[Len(q)]

LEMMA AfterIs ==
  /\ After = Ran(seed, contents, queue)
  /\ After' = Ran(seed', contents', queue')
BY DEF After, Ran, IsRun, Perf, Performed

\* A set of numbers has a least element.
LEMMA NatMin ==
  ASSUME NEW T \in SUBSET Nat, T # {}
  PROVE  \E n \in T : \A m \in T : n <= m
<1>1. IsWellFoundedOn(OpToRel(<, Nat), Nat)
  BY NatLessThanWellFounded
<1>2. PICK n \in T : \A m \in Nat : <<m, n>> \in OpToRel(<, Nat) => ~(m \in T)
  BY <1>1, WFMin
<1>3. \A m \in T : ~(m < n)
  BY <1>2 DEF OpToRel
<1> QED BY <1>3

LEMMA RunExists ==
  ASSUME NEW s, NEW c, NEW q
  PROVE  \A N \in Nat : \E R : IsRun(s, c, q, N, R)
<1> DEFINE T == {N \in Nat : ~\E R : IsRun(s, c, q, N, R)}
<1> SUFFICES ASSUME T # {} PROVE FALSE
  OBVIOUS
<1>1. T \in SUBSET Nat
  OBVIOUS
<1>2. PICK k \in T : \A j \in T : k <= j
  BY <1>1, NatMin
<1>3. k # 0
  <2> DEFINE R == [j \in 0 .. 0 |-> c]
  <2>1. IsRun(s, c, q, 0, R)
    BY DEF IsRun
  <2> QED BY <2>1
<1>4. k - 1 \in Nat /\ k - 1 \notin T /\ k \in Nat
  <2>1. k - 1 \in Nat /\ k \in Nat /\ ~(k <= k - 1)
    BY <1>3
  <2> QED BY <1>2, <2>1
<1>5. PICK Q : IsRun(s, c, q, k - 1, Q)
  BY <1>4
<1> DEFINE R == [j \in 0 .. k |-> IF j = k THEN Perf(s, Q[k - 1], q[k]) ELSE Q[j]]
<1>6. ASSUME NEW j \in 0 .. k PROVE R[j] = IF j = 0 THEN c ELSE Perf(s, R[j - 1], q[j])
  <2>1. CASE j = k
    <3>1. R[j] = Perf(s, Q[k - 1], q[k]) /\ j # 0 /\ R[k - 1] = Q[k - 1]
      BY <1>3, <1>4, <2>1
    <3> QED BY <2>1, <3>1
  <2>2. CASE j # k
    <3>1. j \in 0 .. k - 1 /\ R[j] = Q[j] /\ (j # 0 => j - 1 \in 0 .. k /\ j - 1 # k)
      BY <1>4, <2>2
    <3>2. Q[j] = IF j = 0 THEN c ELSE Perf(s, Q[j - 1], q[j])
      BY <1>5, <3>1 DEF IsRun
    <3>3. j # 0 => R[j - 1] = Q[j - 1]
      BY <3>1
    <3> HIDE DEF R
    <3> QED BY <3>1, <3>2, <3>3
  <2> QED BY <2>1, <2>2
<1>7. R = [j \in 0 .. k |-> R[j]]
  OBVIOUS
<1> HIDE DEF R
<1>8. IsRun(s, c, q, k, R)
  BY <1>6, <1>7 DEF IsRun
<1> QED BY <1>2, <1>8

\* The contents after each command.
LEMMA RunIs ==
  ASSUME NEW s, NEW c, NEW q, Len(q) \in Nat
  PROVE  \E R : /\ Ran(s, c, q) = R[Len(q)] /\ R[0] = c
                /\ \A i \in 1 .. Len(q) : R[i] = Perf(s, R[i - 1], q[i])
<1> DEFINE R == CHOOSE R : IsRun(s, c, q, Len(q), R)
<1>1. IsRun(s, c, q, Len(q), R)
  BY RunExists
<1>2. Ran(s, c, q) = R[Len(q)]
  BY DEF Ran
<1> HIDE DEF R
<1>3. R[0] = c
  BY <1>1 DEF IsRun
<1>4. \A i \in 1 .. Len(q) : R[i] = Perf(s, R[i - 1], q[i])
  BY <1>1 DEF IsRun
<1> QED BY <1>2, <1>3, <1>4

Ops == {"zeros", "draw", "unary", "binary", "copy", "const_set"}
CommandType == [op : Ops, from : Seq(Buffers), to : Buffers]

\* A function on the buffers.
IsMem(c) == c = [b \in Buffers |-> c[b]]

LEMMA PerfIs ==
  ASSUME NEW s, NEW c, IsMem(c), NEW cmd \in CommandType
  PROVE  /\ IsMem(Perf(s, c, cmd))
         /\ Perf(s, c, cmd)[cmd.to] =
              Value(cmd.op, [i \in DOMAIN cmd.from |-> c[cmd.from[i]]], s)
         /\ \A b \in Buffers : b # cmd.to => Perf(s, c, cmd)[b] = c[b]
<1>1. cmd.to \in Buffers /\ DOMAIN c = Buffers
  BY DEF CommandType, IsMem
<1> QED BY <1>1 DEF Perf, IsMem

\* Two runs of the same commands from contents that agree except at b, if no
\* command has to do with b and the draws find the same seed.
Alike(s, r, c, d, q, b) ==
  /\ IsMem(c) /\ IsMem(d) /\ q \in Seq(CommandType)
  /\ \A i \in 1 .. Len(q) : q[i].op = "draw" => s = r
  /\ \A i \in 1 .. Len(q) : b # q[i].to /\ b \notin Range(q[i].from)
  /\ \A a \in Buffers : a # b => c[a] = d[a]

LEMMA RunsAgree ==
  ASSUME NEW s, NEW r, NEW c, NEW d, NEW q, NEW b, Alike(s, r, c, d, q, b)
  PROVE  \A a \in Buffers : Ran(s, c, q)[a] = IF a = b THEN c[a] ELSE Ran(r, d, q)[a]
<1>01. q \in Seq(CommandType)
  BY DEF Alike
<1>0. Len(q) \in Nat /\ \A i \in 1 .. Len(q) : q[i] \in CommandType
  BY <1>01
<1>1. PICK R : Ran(s, c, q) = R[Len(q)] /\ R[0] = c
                /\ \A i \in 1 .. Len(q) : R[i] = Perf(s, R[i - 1], q[i])
  BY <1>0, <1>01, RunIs
<1>2. PICK S : Ran(r, d, q) = S[Len(q)] /\ S[0] = d
                /\ \A i \in 1 .. Len(q) : S[i] = Perf(r, S[i - 1], q[i])
  BY <1>0, <1>01, RunIs
<1> DEFINE P(i) == /\ IsMem(R[i]) /\ IsMem(S[i])
                   /\ \A a \in Buffers : R[i][a] = IF a = b THEN c[a] ELSE S[i][a]
           T == {i \in 0 .. Len(q) : ~P(i)}
<1>3. ASSUME T # {} PROVE FALSE
  <2>1. T \in SUBSET Nat
    OBVIOUS
  <2>2. PICK k \in T : \A j \in T : k <= j
    BY <1>3, <2>1, NatMin
  <2>3. P(0)
    BY <1>1, <1>2 DEF Alike
  <2>4. k # 0 /\ k \in 1 .. Len(q)
    BY <1>0, <2>2, <2>3
  <2>5. k - 1 \in 0 .. Len(q) /\ ~(k <= k - 1)
    BY <1>0, <2>4
  <2>6. P(k - 1)
    BY <2>2, <2>5
  <2> DEFINE cmd == q[k]
             C == R[k - 1]
             D == S[k - 1]
  <2>7. R[k] = Perf(s, C, cmd) /\ S[k] = Perf(r, D, cmd) /\ cmd \in CommandType
    BY <1>0, <1>1, <1>2, <2>4
  <2>8. IsMem(C) /\ IsMem(D) /\ \A a \in Buffers : C[a] = IF a = b THEN c[a] ELSE D[a]
    BY <2>6
  <2>9. b # cmd.to /\ b \notin Range(cmd.from) /\ (cmd.op = "draw" => s = r)
    BY <2>4 DEF Alike
  <2> HIDE DEF cmd, C, D
  <2>10. [i \in DOMAIN cmd.from |-> C[cmd.from[i]]] = [i \in DOMAIN cmd.from |-> D[cmd.from[i]]]
    <3> SUFFICES ASSUME NEW i \in DOMAIN cmd.from PROVE C[cmd.from[i]] = D[cmd.from[i]]
      OBVIOUS
    <3>1. cmd.from[i] \in Buffers /\ cmd.from[i] # b
      BY <2>7, <2>9 DEF CommandType, Range
    <3> QED BY <2>8, <3>1
  <2> DEFINE vals == [i \in DOMAIN cmd.from |-> D[cmd.from[i]]]
  <2>11. Value(cmd.op, vals, s) = Value(cmd.op, vals, r)
    <3>1. CASE cmd.op = "draw"
      BY <2>9, <3>1
    <3>2. CASE cmd.op # "draw"
      <4>1. cmd.op \in {"zeros", "unary", "binary", "copy", "const_set"}
        BY <2>7, <3>2 DEF CommandType, Ops
      <4> HIDE DEF vals
      <4> QED BY <4>1 DEF Value
    <3> QED BY <3>1, <3>2
  <2> DEFINE PC == Perf(s, C, cmd)
             PD == Perf(r, D, cmd)
  <2>120. /\ IsMem(PC)
          /\ PC[cmd.to] = Value(cmd.op, [i \in DOMAIN cmd.from |-> C[cmd.from[i]]], s)
          /\ \A a \in Buffers : a # cmd.to => PC[a] = C[a]
    BY <2>7, <2>8 DEF Perf, IsMem, CommandType
  <2>121. /\ IsMem(PD)
          /\ PD[cmd.to] = Value(cmd.op, [i \in DOMAIN cmd.from |-> D[cmd.from[i]]], r)
          /\ \A a \in Buffers : a # cmd.to => PD[a] = D[a]
    BY <2>7, <2>8 DEF Perf, IsMem, CommandType
  <2>122. R[k] = PC /\ S[k] = PD
    BY <2>7
  <2> HIDE DEF PC, PD
  <2>12. IsMem(R[k]) /\ IsMem(S[k])
    BY <2>120, <2>121, <2>122
  <2>13. ASSUME NEW a \in Buffers PROVE R[k][a] = IF a = b THEN c[a] ELSE S[k][a]
    <3>1. CASE a = cmd.to
      <4>1. R[k][a] = Value(cmd.op, vals, s) /\ S[k][a] = Value(cmd.op, vals, r)
        BY <2>10, <2>120, <2>121, <2>122, <3>1
      <4> QED BY <2>9, <2>11, <3>1, <4>1
    <3>2. CASE a # cmd.to
      <4>1. R[k][a] = C[a] /\ S[k][a] = D[a]
        BY <2>120, <2>121, <2>122, <3>2
      <4> QED BY <2>8, <4>1
    <3> QED BY <3>1, <3>2
  <2> QED BY <2>2, <2>12, <2>13
<1>4. P(Len(q))
  <2>1. Len(q) \in 0 .. Len(q)
    BY <1>0
  <2> QED BY <1>3, <2>1
<1> QED BY <1>1, <1>2, <1>4

LEMMA RanMem ==
  ASSUME NEW s, NEW c, IsMem(c), NEW q \in Seq(CommandType)
  PROVE  IsMem(Ran(s, c, q))
<1>0. Len(q) \in Nat /\ \A i \in 1 .. Len(q) : q[i] \in CommandType
  OBVIOUS
<1>1. PICK R : Ran(s, c, q) = R[Len(q)] /\ R[0] = c
                /\ \A i \in 1 .. Len(q) : R[i] = Perf(s, R[i - 1], q[i])
  BY <1>0, RunIs
<1> DEFINE T == {i \in 0 .. Len(q) : ~IsMem(R[i])}
<1>2. ASSUME T # {} PROVE FALSE
  <2>1. T \in SUBSET Nat
    OBVIOUS
  <2>2. PICK k \in T : \A j \in T : k <= j
    BY <1>2, <2>1, NatMin
  <2>3. k # 0 /\ k \in 1 .. Len(q)
    BY <1>0, <1>1, <2>2
  <2>4. k - 1 \in 0 .. Len(q) /\ ~(k <= k - 1)
    BY <1>0, <2>3
  <2>5. IsMem(R[k - 1])
    BY <2>2, <2>4
  <2>6. q[k] \in CommandType /\ R[k] = Perf(s, R[k - 1], q[k])
    BY <1>0, <1>1, <2>3
  <2>7. IsMem(Perf(s, R[k - 1], q[k]))
    BY <2>5, <2>6, PerfIs
  <2> QED BY <2>2, <2>6, <2>7
<1>3. Len(q) \in 0 .. Len(q)
  BY <1>0
<1> QED BY <1>1, <1>2, <1>3

LEMMA RanEmpty ==
  ASSUME NEW s, NEW c, NEW q, Len(q) = 0
  PROVE  Ran(s, c, q) = c
BY RunIs

\* A command more.
LEMMA RanAppend ==
  ASSUME NEW s, NEW c, NEW q \in Seq(CommandType), NEW cmd \in CommandType
  PROVE  Ran(s, c, Append(q, cmd)) = Perf(s, Ran(s, c, q), cmd)
<1> DEFINE p == Append(q, cmd)
<1>0. /\ Len(q) \in Nat /\ Len(p) = Len(q) + 1 /\ p[Len(q) + 1] = cmd
      /\ \A i \in 1 .. Len(q) : p[i] = q[i]
  OBVIOUS
<1> HIDE DEF p
<1>1. PICK R : Ran(s, c, q) = R[Len(q)] /\ R[0] = c
                /\ \A i \in 1 .. Len(q) : R[i] = Perf(s, R[i - 1], q[i])
  BY <1>0, RunIs
<1>2. PICK S : Ran(s, c, p) = S[Len(p)] /\ S[0] = c
                /\ \A i \in 1 .. Len(p) : S[i] = Perf(s, S[i - 1], p[i])
  <2>1. Len(p) \in Nat
    BY <1>0
  <2> QED BY <2>1, RunIs
<1> DEFINE T == {i \in 0 .. Len(q) : R[i] # S[i]}
<1>3. ASSUME T # {} PROVE FALSE
  <2>1. T \in SUBSET Nat
    OBVIOUS
  <2>2. PICK k \in T : \A j \in T : k <= j
    BY <1>3, <2>1, NatMin
  <2>3. k # 0 /\ k \in 1 .. Len(q) /\ k \in 1 .. Len(p)
    BY <1>0, <1>1, <1>2, <2>2
  <2>4. k - 1 \in 0 .. Len(q) /\ ~(k <= k - 1)
    BY <1>0, <2>3
  <2>5. R[k - 1] = S[k - 1] /\ p[k] = q[k]
    BY <1>0, <2>2, <2>3, <2>4
  <2> QED BY <1>1, <1>2, <2>2, <2>3, <2>5
<1>4. R[Len(q)] = S[Len(q)]
  <2>1. Len(q) \in 0 .. Len(q)
    BY <1>0
  <2> QED BY <1>3, <2>1
<1>5. S[Len(p)] = Perf(s, S[Len(q)], cmd)
  <2>1. Len(p) \in 1 .. Len(p) /\ Len(p) - 1 = Len(q)
    BY <1>0
  <2> QED BY <1>0, <1>2, <2>1
<1> QED BY <1>1, <1>2, <1>4, <1>5 DEF p

\* The first command first.
LEMMA RanHead ==
  ASSUME NEW s, NEW c, NEW q \in Seq(CommandType), q # <<>>
  PROVE  Ran(s, Perf(s, c, Head(q)), Tail(q)) = Ran(s, c, q)
<1> DEFINE p == Tail(q)
<1>0. /\ Len(q) \in Nat /\ Len(q) >= 1 /\ Len(p) = Len(q) - 1 /\ Head(q) = q[1] /\ p \in Seq(CommandType)
      /\ \A i \in 1 .. Len(p) : p[i] = q[i + 1]
  OBVIOUS
<1> HIDE DEF p
<1>1. PICK R : Ran(s, c, q) = R[Len(q)] /\ R[0] = c
                /\ \A i \in 1 .. Len(q) : R[i] = Perf(s, R[i - 1], q[i])
  BY <1>0, RunIs
<1>2. PICK S : Ran(s, Perf(s, c, Head(q)), p) = S[Len(p)] /\ S[0] = Perf(s, c, Head(q))
                /\ \A i \in 1 .. Len(p) : S[i] = Perf(s, S[i - 1], p[i])
  <2>1. Len(p) \in Nat
    BY <1>0
  <2> QED BY <2>1, RunIs
<1> DEFINE T == {i \in 0 .. Len(p) : S[i] # R[i + 1]}
<1>3. ASSUME T # {} PROVE FALSE
  <2>1. T \in SUBSET Nat
    OBVIOUS
  <2>2. PICK k \in T : \A j \in T : k <= j
    BY <1>3, <2>1, NatMin
  <2>3. k # 0
    <3>1. 1 \in 1 .. Len(q) /\ 1 - 1 = 0 /\ 0 + 1 = 1
      BY <1>0
    <3>2. R[1] = Perf(s, R[0], q[1])
      BY <1>1, <3>1
    <3> QED BY <1>0, <1>1, <1>2, <2>2, <3>1, <3>2
  <2>4. k \in 1 .. Len(p) /\ k + 1 \in 1 .. Len(q) /\ k \in Nat
    BY <1>0, <2>2, <2>3
  <2>5. k - 1 \in 0 .. Len(p) /\ ~(k <= k - 1) /\ (k - 1) + 1 = k /\ (k + 1) - 1 = k
    BY <1>0, <2>4
  <2>6. S[k - 1] = R[k] /\ p[k] = q[k + 1]
    BY <1>0, <2>2, <2>4, <2>5
  <2>7. S[k] = Perf(s, S[k - 1], p[k])
    BY <1>2, <2>4
  <2>8. R[k + 1] = Perf(s, R[k], q[k + 1])
    BY <1>1, <2>4, <2>5
  <2> QED BY <2>2, <2>6, <2>7, <2>8
<1>4. S[Len(p)] = R[Len(q)]
  <2>1. Len(p) \in 0 .. Len(p) /\ Len(p) + 1 = Len(q)
    BY <1>0
  <2> QED BY <1>3, <2>1
<1> QED BY <1>1, <1>2, <1>4 DEF p

-----------------------------------------------------------------------------
(* What the queue makes of the buffers.                                    *)

Source(t) == local[t].args[1]

\* Where a call is and what it has; its arguments are alive.
Placed ==
  \A t \in Threads :
    /\ pc[t] = "idle" => local[t] = Idle
    /\ pc[t] \in {"wait", "waiting"} => local[t] = Idle \/ (local[t].op = "copy" /\ local[t].to \in Buffers)
    /\ pc[t] = "read" => local[t].op = "copy" /\ local[t].to \in Buffers
    /\ Range(local[t].args) \subseteq Live

\* What a storage that is not a copy will hold.
Kept == \A s \in Live : ~storages[s].shared => After[storages[s].buf] = storages[s].val

\* What to_cpu will have copied, once it has encoded.
Copied ==
  \A t \in Threads :
    pc[t] \in {"wait", "waiting"} /\ local[t].op = "copy" /\ ~storages[Source(t)].shared =>
      After[local[t].to] = storages[Source(t)].val

\* What to_cpu has copied, when it reads: no command will change it.
Fetched ==
  \A t \in Threads : pc[t] = "read" =>
    /\ ~storages[Source(t)].shared => contents[local[t].to] = storages[Source(t)].val
    /\ \A i \in 1 .. Len(queue) : queue[i].to # local[t].to

RInv ==
  /\ queue \in Seq(CommandType) /\ IsMem(contents)
  /\ Placed /\ Kept /\ Copied /\ Fetched

LEMMA InitRInv == Init => RInv
<1> SUFFICES ASSUME Init PROVE RInv
  OBVIOUS
<1>1. Live = {}
  BY DEF Init, Live
<1>2. queue \in Seq(CommandType) /\ IsMem(contents)
  BY DEF Init, IsMem
<1>3. \A t \in Threads : pc[t] = "idle" /\ local[t] = Idle /\ Range(local[t].args) = {}
  BY DEF Init, Idle, Range
<1> QED BY <1>1, <1>2, <1>3 DEF RInv, Placed, Kept, Copied, Fetched

LEMMA SourceLives ==
  IInv /\ Placed => \A t \in Threads : local[t].op = "copy" => Source(t) \in Live
<1> SUFFICES ASSUME IInv, Placed, NEW t \in Threads, local[t].op = "copy" PROVE Source(t) \in Live
  OBVIOUS
<1>1. local[t].args \in Seq(Slots) /\ Len(local[t].args) = 1
  BY DEF IInv, Types, CallType, Complete
<1>2. Source(t) \in Range(local[t].args)
  BY <1>1 DEF Source, Range
<1> QED BY <1>2 DEF Placed

\* A step after which a storage is what it was, or shared, and the queue and
\* what it will make of the buffers too, and one thread has gone on.
LEMMA Quiet ==
  ASSUME IInv, RInv, UNCHANGED <<contents, queue>>,
         \A b \in Buffers : After'[b] = After[b],
         \A s \in Live' : storages'[s].shared \/ (s \in Live /\ storages'[s] = storages[s]),
         \A t \in Threads : Range(local'[t].args) \subseteq Live',
         \A t \in Threads :
           \/ pc'[t] = pc[t] /\ local'[t] = local[t]
           \/ pc'[t] = "idle" /\ local'[t] = Idle
           \/ pc'[t] = "encode"
           \/ pc[t] \in {"idle", "wait"} /\ pc'[t] \in {"wait", "waiting"} /\ local'[t] = local[t]
           \/ /\ pc[t] = "waiting" /\ pc'[t] = "read" /\ local'[t] = local[t] /\ local[t] # Idle
              /\ queue = <<>> /\ After = contents,
         IInv'
  PROVE  RInv'
<1>1. Placed'
  <2> SUFFICES ASSUME NEW t \in Threads
               PROVE  /\ pc'[t] = "idle" => local'[t] = Idle
                      /\ pc'[t] \in {"wait", "waiting"} =>
                           local'[t] = Idle \/ (local'[t].op = "copy" /\ local'[t].to \in Buffers)
                      /\ pc'[t] = "read" => local'[t].op = "copy" /\ local'[t].to \in Buffers
    BY DEF Placed
  <2> QED BY DEF RInv, Placed
<1>2. Kept'
  <2> SUFFICES ASSUME NEW s \in Live', ~storages'[s].shared
               PROVE  After'[storages'[s].buf] = storages'[s].val
    BY DEF Kept
  <2>1. s \in Live /\ storages'[s] = storages[s] /\ storages[s].buf \in Buffers
    BY DEF IInv, HaveBuffers
  <2> QED BY <2>1 DEF RInv, Kept
<1>0. (\A t \in Threads : local[t].op = "copy" => Source(t) \in Live)'
  <2>1. (IInv /\ Placed)'
    BY <1>1
  <2> QED BY <2>1, SourceLives, PTL
<1>3. ASSUME NEW t \in Threads, local'[t].op = "copy", ~storages'[Source(t)'].shared,
             local'[t] = local[t]
      PROVE  Source(t)' = Source(t) /\ storages'[Source(t)] = storages[Source(t)]
  <2>1. Source(t)' = Source(t)
    BY <1>3 DEF Source
  <2>2. Source(t)' \in Live'
    BY <1>0, <1>3
  <2> QED BY <1>3, <2>1, <2>2
<1>4. Copied'
  <2> SUFFICES ASSUME NEW t \in Threads, pc'[t] \in {"wait", "waiting"}, local'[t].op = "copy",
                      ~storages'[Source(t)'].shared
               PROVE  After'[local'[t].to] = storages'[Source(t)'].val
    BY DEF Copied
  <2>1. local'[t] = local[t] /\ pc[t] \in {"idle", "wait", "waiting"}
    OBVIOUS
  <2>2. pc[t] # "idle" /\ local[t].to \in Buffers
    BY <2>1 DEF RInv, Placed, Idle
  <2>3. Source(t)' = Source(t) /\ storages'[Source(t)] = storages[Source(t)]
    BY <1>3, <2>1
  <2>4. After[local[t].to] = storages[Source(t)].val
    BY <2>1, <2>2, <2>3 DEF RInv, Copied
  <2> QED BY <2>1, <2>2, <2>3, <2>4
<1>5. Fetched'
  <2> SUFFICES ASSUME NEW t \in Threads, pc'[t] = "read"
               PROVE  /\ ~storages'[Source(t)'].shared => contents[local'[t].to] = storages'[Source(t)'].val
                      /\ \A i \in 1 .. Len(queue) : queue[i].to # local'[t].to
    BY DEF Fetched
  <2>1. local'[t] = local[t] /\ local[t].op = "copy"
    BY DEF RInv, Placed
  <2>2. ~storages'[Source(t)'].shared =>
          Source(t)' = Source(t) /\ storages'[Source(t)] = storages[Source(t)]
    BY <1>3, <2>1
  <2>3. CASE pc[t] = "read"
    BY <2>1, <2>2, <2>3 DEF RInv, Fetched
  <2>4. CASE pc[t] # "read"
    <3>1. pc[t] = "waiting" /\ queue = <<>> /\ After = contents
      BY <2>4
    <3>2. ~storages'[Source(t)'].shared => After[local[t].to] = storages[Source(t)].val
      BY <2>1, <2>2, <3>1 DEF RInv, Copied
    <3> QED BY <2>1, <2>2, <3>1, <3>2
  <2> QED BY <2>3, <2>4
<1> QED BY <1>1, <1>2, <1>4, <1>5 DEF RInv

\* A command more in the queue, which writes a buffer that no call reads from.
LEMMA Appended ==
  ASSUME IInv, RInv, NEW cmd \in CommandType, queue' = Append(queue, cmd), UNCHANGED <<contents, seed>>
  PROVE  /\ queue' \in Seq(CommandType)
         /\ After'[cmd.to] = Value(cmd.op, [i \in DOMAIN cmd.from |-> After[cmd.from[i]]], seed)
         /\ \A b \in Buffers : b # cmd.to => After'[b] = After[b]
         /\ \A b : b # cmd.to /\ (\A i \in 1 .. Len(queue) : queue[i].to # b) =>
              \A i \in 1 .. Len(queue') : queue'[i].to # b
<1>1. queue \in Seq(CommandType) /\ IsMem(contents)
  BY DEF RInv
<1>2. After = Ran(seed, contents, queue) /\ After' = Ran(seed, contents, Append(queue, cmd))
  BY AfterIs
<1>3. After' = Perf(seed, After, cmd) /\ IsMem(After)
  BY <1>1, <1>2, RanAppend, RanMem
<1>4. /\ After'[cmd.to] = Value(cmd.op, [i \in DOMAIN cmd.from |-> After[cmd.from[i]]], seed)
      /\ \A b \in Buffers : b # cmd.to => After'[b] = After[b]
  <2> DEFINE A == After
  <2> HIDE DEF A
  <2>1. IsMem(A)
    BY <1>3 DEF A
  <2>2. /\ Perf(seed, A, cmd)[cmd.to] = Value(cmd.op, [i \in DOMAIN cmd.from |-> A[cmd.from[i]]], seed)
        /\ \A b \in Buffers : b # cmd.to => Perf(seed, A, cmd)[b] = A[b]
    BY <2>1 DEF Perf, IsMem, CommandType
  <2> QED BY <1>3, <2>2 DEF A
<1>5. /\ queue' \in Seq(CommandType) /\ Len(queue') = Len(queue) + 1 /\ queue'[Len(queue) + 1] = cmd
      /\ Len(queue) \in Nat /\ \A i \in 1 .. Len(queue) : queue'[i] = queue[i]
  BY <1>1
<1>6. ASSUME NEW b, b # cmd.to, \A i \in 1 .. Len(queue) : queue[i].to # b,
             NEW i \in 1 .. Len(queue')
      PROVE  queue'[i].to # b
  <2>1. i = Len(queue) + 1 \/ i \in 1 .. Len(queue)
    BY <1>5
  <2> QED BY <1>5, <1>6, <2>1
<1> QED BY <1>3, <1>4, <1>5, <1>6

LEMMA EncodeResult ==
  ASSUME NEW t \in Threads, NEW s \in Slots, NEW flush \in BOOLEAN, IInv, RInv, Encode(t, s, flush)
  PROVE  RInv'
<1> DEFINE call == local[t]
           shared == \E i \in DOMAIN call.args : storages[call.args[i]].shared
           v == Value(call.op, Vals(call.args), seed)
           cmd == Command(call.op, Bufs(call.args), call.to)
<1>1. /\ call \in CallType /\ call.to \in Buffers /\ call.args \in Seq(Slots)
      /\ call.op \in {"zeros", "draw", "unary", "binary", "copy"} /\ Range(call.args) \subseteq Live
  BY DEF Encode, IInv, Types, HaveBuffers, CallType, RInv, Placed
<1>2. /\ storages' = [storages EXCEPT ![s] = [buf |-> call.to, count |-> call.count, val |-> v, shared |-> shared]]
      /\ pc' = [pc EXCEPT ![t] = "idle"] /\ local' = [local EXCEPT ![t] = Idle]
      /\ s \in Free /\ UNCHANGED <<contents, seed>> /\ queue' = Append(queue, cmd)
  BY DEF Encode, seeds
<1>3. \A i \in DOMAIN call.args : call.args[i] \in Live /\ storages[call.args[i]].buf \in Buffers
  BY <1>1 DEF Range, IInv, HaveBuffers
<1>4. cmd \in CommandType /\ cmd.to = call.to /\ cmd.op = call.op /\ cmd.from = Bufs(call.args)
  <2>1. Bufs(call.args) \in Seq(Buffers)
    BY <1>1, <1>3 DEF Bufs
  <2> QED BY <1>1, <2>1 DEF Command, CommandType, Ops
<1>5. /\ queue' \in Seq(CommandType)
      /\ After'[cmd.to] = Value(cmd.op, [i \in DOMAIN cmd.from |-> After[cmd.from[i]]], seed)
      /\ \A b \in Buffers : b # cmd.to => After'[b] = After[b]
      /\ \A b : b # cmd.to /\ (\A i \in 1 .. Len(queue) : queue[i].to # b) =>
           \A i \in 1 .. Len(queue') : queue'[i].to # b
  BY <1>2, <1>4, Appended
<1>6. ~shared => After'[call.to] = v
  <2> SUFFICES ASSUME ~shared PROVE After'[call.to] = v
    OBVIOUS
  <2>1. DOMAIN cmd.from = DOMAIN call.args /\ \A i \in DOMAIN call.args : cmd.from[i] = storages[call.args[i]].buf
    BY <1>4 DEF Bufs
  <2>2. \A i \in DOMAIN call.args : After[storages[call.args[i]].buf] = storages[call.args[i]].val
    BY <1>3 DEF RInv, Kept
  <2>3. [i \in DOMAIN cmd.from |-> After[cmd.from[i]]] = Vals(call.args)
    BY <2>1, <2>2 DEF Vals
  <2> QED BY <1>4, <1>5, <2>3
<1>7. /\ call.to # NoBuffer
      /\ \A r \in Slots : storages[r].buf # call.to
      /\ \A w \in Threads \ {t} : local[w].to # call.to
  BY <1>1, MetalAssumption DEF IInv, Exclusive
<1>8. s \in Slots /\ s \notin Live
  BY <1>2 DEF Free
<1>9. /\ \A r \in Slots \ {s} : storages'[r] = storages[r]
      /\ storages'[s] = [buf |-> call.to, count |-> call.count, val |-> v, shared |-> shared]
      /\ \A u \in Threads \ {t} : local'[u] = local[u] /\ pc'[u] = pc[u]
      /\ local'[t] = Idle /\ pc'[t] = "idle"
  BY <1>2, <1>8 DEF IInv, Types
<1>10. Live' \subseteq Live \cup {s} /\ Live \subseteq Live'
  BY <1>8, <1>9 DEF Live
<1>11. Idle.op # "copy" /\ Range(Idle.args) = {}
  BY DEF Idle, Range
<1>12. IsMem(contents')
  BY <1>2 DEF RInv
<1> HIDE DEF call, shared, v, cmd
<1>13. Placed'
  <2>1. ASSUME NEW u \in Threads
        PROVE  /\ pc'[u] = "idle" => local'[u] = Idle
               /\ pc'[u] \in {"wait", "waiting"} =>
                    local'[u] = Idle \/ (local'[u].op = "copy" /\ local'[u].to \in Buffers)
               /\ pc'[u] = "read" => local'[u].op = "copy" /\ local'[u].to \in Buffers
               /\ Range(local'[u].args) \subseteq Live'
    BY <1>9, <1>10, <1>11 DEF RInv, Placed
  <2> QED BY <2>1 DEF Placed
<1>14. Kept'
  <2>1. ASSUME NEW r \in Live', ~storages'[r].shared
        PROVE  After'[storages'[r].buf] = storages'[r].val
    <3>1. CASE r = s
      BY <1>6, <1>9, <2>1, <3>1
    <3>2. CASE r # s
      <4>1. r \in Live /\ storages'[r] = storages[r] /\ r \in Slots
        BY <1>9, <1>10, <3>2 DEF Live
      <4>2. storages[r].buf \in Buffers /\ storages[r].buf # cmd.to
        BY <1>4, <1>7, <4>1 DEF IInv, HaveBuffers
      <4> QED BY <1>5, <2>1, <4>1, <4>2 DEF RInv, Kept
    <3> QED BY <3>1, <3>2
  <2> QED BY <2>1 DEF Kept
<1>15. ASSUME NEW u \in Threads, local'[u].op = "copy"
       PROVE  /\ u # t /\ local'[u] = local[u] /\ pc'[u] = pc[u] /\ Source(u)' = Source(u)
              /\ storages'[Source(u)] = storages[Source(u)]
              /\ local[u].to # cmd.to
  <2>1. u # t /\ local'[u] = local[u] /\ pc'[u] = pc[u] /\ local[u].to # cmd.to
    BY <1>4, <1>7, <1>9, <1>11, <1>15
  <2>2. Source(u)' = Source(u)
    BY <2>1 DEF Source
  <2>3. Source(u) \in Live
    BY <1>15, <2>1, SourceLives DEF RInv
  <2>4. Source(u) \in Slots \ {s}
    BY <1>8, <2>3 DEF Live
  <2> QED BY <1>9, <2>1, <2>2, <2>4
<1>16. Copied'
  <2>1. ASSUME NEW u \in Threads, pc'[u] \in {"wait", "waiting"}, local'[u].op = "copy",
               ~storages'[Source(u)'].shared
        PROVE  After'[local'[u].to] = storages'[Source(u)'].val
    <3>1. local[u].to \in Buffers
      BY <1>15, <2>1 DEF RInv, Placed, Idle
    <3>2. After[local[u].to] = storages[Source(u)].val
      BY <1>15, <2>1 DEF RInv, Copied
    <3> QED BY <1>5, <1>15, <2>1, <3>1, <3>2
  <2> QED BY <2>1 DEF Copied
<1>17. Fetched'
  <2>1. ASSUME NEW u \in Threads, pc'[u] = "read"
        PROVE  /\ ~storages'[Source(u)'].shared => contents'[local'[u].to] = storages'[Source(u)'].val
               /\ \A i \in 1 .. Len(queue') : queue'[i].to # local'[u].to
    <3>1. local'[u].op = "copy"
      BY <1>9, <2>1 DEF RInv, Placed
    <3> QED BY <1>2, <1>5, <1>15, <2>1, <3>1 DEF RInv, Fetched
  <2> QED BY <2>1 DEF Fetched
<1> QED BY <1>5, <1>12, <1>13, <1>14, <1>16, <1>17 DEF RInv

LEMMA EncodeToCpuResult ==
  ASSUME NEW t \in Threads, NEW flush \in BOOLEAN, IInv, RInv, EncodeToCpu(t, flush)
  PROVE  RInv'
<1> DEFINE call == local[t]
           cmd == Command("copy", Bufs(call.args), call.to)
<1>1. /\ call.op = "copy" /\ call.to \in Buffers /\ call.args \in Seq(Slots) /\ Len(call.args) = 1
      /\ Range(call.args) \subseteq Live
  BY DEF EncodeToCpu, IInv, Types, HaveBuffers, CallType, Complete, RInv, Placed
<1>2. /\ UNCHANGED <<storages, local, contents, seed>> /\ queue' = Append(queue, cmd)
      /\ pc' = [pc EXCEPT ![t] = "wait"]
  BY DEF EncodeToCpu, seeds
<1>3. Source(t) \in Live /\ storages[Source(t)].buf \in Buffers /\ Source(t) = call.args[1]
  BY <1>1, SourceLives DEF RInv, IInv, HaveBuffers, Source
<1>4. cmd \in CommandType /\ cmd.to = call.to /\ cmd.op = "copy" /\ cmd.from = Bufs(call.args)
  <2>1. Bufs(call.args) \in Seq(Buffers)
    BY <1>1, <1>3 DEF Bufs
  <2> QED BY <1>1, <2>1 DEF Command, CommandType, Ops
<1>5. /\ queue' \in Seq(CommandType)
      /\ After'[cmd.to] = Value(cmd.op, [i \in DOMAIN cmd.from |-> After[cmd.from[i]]], seed)
      /\ \A b \in Buffers : b # cmd.to => After'[b] = After[b]
      /\ \A b : b # cmd.to /\ (\A i \in 1 .. Len(queue) : queue[i].to # b) =>
           \A i \in 1 .. Len(queue') : queue'[i].to # b
  BY <1>2, <1>4, Appended
<1>6. After'[call.to] = After[storages[Source(t)].buf]
  <2>0. 1 \in DOMAIN call.args
    BY <1>1
  <2>1. 1 \in DOMAIN cmd.from /\ cmd.from[1] = storages[Source(t)].buf
    BY <1>3, <1>4, <2>0 DEF Bufs
  <2> DEFINE vals == [i \in DOMAIN cmd.from |-> After[cmd.from[i]]]
  <2>2. vals[1] = After[storages[Source(t)].buf]
    BY <2>1
  <2>3. Value(cmd.op, vals, seed) = vals[1]
    <3> HIDE DEF vals
    <3> QED BY <1>4 DEF Value
  <2> QED BY <1>4, <1>5, <2>2, <2>3
<1>7. /\ \A r \in Slots : storages[r].buf # call.to
      /\ \A w \in Threads \ {t} : local[w].to # call.to
  BY <1>1, MetalAssumption DEF IInv, Exclusive
<1>8. Live' = Live
  BY <1>2 DEF Live
<1>9. pc'[t] = "wait" /\ \A u \in Threads \ {t} : pc'[u] = pc[u]
  BY <1>2 DEF IInv, Types
<1> HIDE DEF call, cmd
<1>10. Placed'
  <2>1. ASSUME NEW u \in Threads
        PROVE  /\ pc'[u] = "idle" => local[u] = Idle
               /\ pc'[u] \in {"wait", "waiting"} =>
                    local[u] = Idle \/ (local[u].op = "copy" /\ local[u].to \in Buffers)
               /\ pc'[u] = "read" => local[u].op = "copy" /\ local[u].to \in Buffers
               /\ Range(local[u].args) \subseteq Live'
    BY <1>1, <1>8, <1>9 DEF RInv, Placed, call
  <2> QED BY <1>2, <2>1 DEF Placed
<1>11. Kept'
  <2>1. ASSUME NEW r \in Live, ~storages[r].shared PROVE After'[storages[r].buf] = storages[r].val
    <3>1. storages[r].buf \in Buffers /\ storages[r].buf # cmd.to
      BY <1>4, <1>7 DEF IInv, HaveBuffers, Live
    <3> QED BY <1>5, <2>1, <3>1 DEF RInv, Kept
  <2> QED BY <1>2, <1>8, <2>1 DEF Kept
<1>12. \A u \in Threads : Source(u)' = Source(u)
  BY <1>2 DEF Source
<1>13. Copied'
  <2>1. ASSUME NEW u \in Threads, pc'[u] \in {"wait", "waiting"}, local[u].op = "copy",
               ~storages[Source(u)].shared
        PROVE  After'[local[u].to] = storages[Source(u)].val
    <3>1. CASE u = t
      BY <1>3, <1>6, <2>1, <3>1 DEF RInv, Kept, call
    <3>2. CASE u # t
      <4>1. local[u].to \in Buffers /\ local[u].to # cmd.to /\ pc[u] \in {"wait", "waiting"}
        BY <1>4, <1>7, <1>9, <2>1, <3>2 DEF RInv, Placed, Idle
      <4> QED BY <1>5, <2>1, <4>1 DEF RInv, Copied
    <3> QED BY <3>1, <3>2
  <2> QED BY <1>2, <1>12, <2>1 DEF Copied
<1>14. Fetched'
  <2>1. ASSUME NEW u \in Threads, pc'[u] = "read"
        PROVE  /\ ~storages[Source(u)].shared => contents[local[u].to] = storages[Source(u)].val
               /\ \A i \in 1 .. Len(queue') : queue'[i].to # local[u].to
    <3>1. u # t /\ pc[u] = "read" /\ local[u].to # cmd.to
      BY <1>4, <1>7, <1>9, <2>1
    <3> QED BY <1>5, <3>1 DEF RInv, Fetched
  <2> QED BY <1>2, <1>12, <2>1 DEF Fetched
<1> QED BY <1>2, <1>5, <1>10, <1>11, <1>13, <1>14 DEF RInv

LEMMA ConstSetResult ==
  ASSUME NEW t \in Threads, NEW s \in Slots, NEW flush \in BOOLEAN, IInv, RInv, ConstSet(t, s, flush)
  PROVE  RInv'
<1> DEFINE cmd == Command("const_set", <<>>, storages[s].buf)
<1>1. /\ UNCHANGED <<pc, local, contents, seed>> /\ queue' = Append(queue, cmd)
      /\ storages' = [storages EXCEPT ![s].val = 3] /\ s \in Live /\ ~InUse(s)
  BY DEF ConstSet, seeds
<1>2. cmd \in CommandType /\ cmd.to = storages[s].buf /\ cmd.op = "const_set" /\ cmd.to \in Buffers
  BY <1>1 DEF Command, CommandType, Ops, IInv, HaveBuffers
<1>3. /\ queue' \in Seq(CommandType)
      /\ After'[cmd.to] = Value(cmd.op, [i \in DOMAIN cmd.from |-> After[cmd.from[i]]], seed)
      /\ \A b \in Buffers : b # cmd.to => After'[b] = After[b]
      /\ \A b : b # cmd.to /\ (\A i \in 1 .. Len(queue) : queue[i].to # b) =>
           \A i \in 1 .. Len(queue') : queue'[i].to # b
  BY <1>1, <1>2, Appended
<1>4. After'[cmd.to] = 3
  <2> DEFINE vals == [i \in DOMAIN cmd.from |-> After[cmd.from[i]]]
  <2> HIDE DEF vals
  <2>1. Value(cmd.op, vals, seed) = 3
    BY <1>2 DEF Value
  <2> QED BY <1>3, <2>1 DEF vals
<1>5. /\ \A r \in Slots \ {s} : storages'[r] = storages[r]
      /\ storages'[s].buf = storages[s].buf /\ storages'[s].shared = storages[s].shared /\ storages'[s].val = 3
      /\ storages'[s] # NoStorage /\ storages[s] # NoStorage
  <2>1. storages[s].buf \in Buffers /\ storages[s] # NoStorage
    BY <1>1 DEF IInv, HaveBuffers, Live
  <2> QED BY <1>1, <2>1 DEF IInv, Types, StorageType, NoStorage
<1>6. Live' = Live
  BY <1>5 DEF Live
<1>7. \A u \in Threads : local[u].op = "copy" => Source(u) \in Live /\ Source(u) # s
  <2> SUFFICES ASSUME NEW u \in Threads, local[u].op = "copy" PROVE Source(u) \in Live /\ Source(u) # s
    OBVIOUS
  <2>1. Source(u) \in Live
    BY SourceLives DEF RInv
  <2>2. Source(u) \in Range(local[u].args)
    BY DEF Source, Range, IInv, Types, CallType, Complete
  <2> QED BY <1>1, <2>1, <2>2 DEF InUse
<1>8. \A u \in Threads : Source(u)' = Source(u)
  BY <1>1 DEF Source
<1>9. \A u \in Threads : local[u].op = "copy" => storages'[Source(u)] = storages[Source(u)]
  BY <1>5, <1>7 DEF Live
<1>10. \A u \in Threads : local[u].to # NoBuffer => local[u].to # cmd.to
  BY <1>2 DEF IInv, Exclusive
<1> HIDE DEF cmd
<1>11. Placed'
  <2>1. ASSUME NEW u \in Threads
        PROVE  /\ pc[u] = "idle" => local[u] = Idle
               /\ pc[u] \in {"wait", "waiting"} =>
                    local[u] = Idle \/ (local[u].op = "copy" /\ local[u].to \in Buffers)
               /\ pc[u] = "read" => local[u].op = "copy" /\ local[u].to \in Buffers
               /\ Range(local[u].args) \subseteq Live'
    BY <1>6 DEF RInv, Placed
  <2> QED BY <1>1, <2>1 DEF Placed
<1>12. Kept'
  <2>1. ASSUME NEW r \in Live, ~storages'[r].shared PROVE After'[storages'[r].buf] = storages'[r].val
    <3>1. CASE r = s
      BY <1>2, <1>4, <1>5, <3>1
    <3>2. CASE r # s
      <4>1. storages'[r] = storages[r] /\ storages[r].buf \in Buffers
        BY <1>5, <3>2 DEF IInv, HaveBuffers, Live
      <4>2. storages[r].buf # cmd.to
        BY <1>1, <1>2, <2>1, <3>2, <4>1 DEF IInv, Exclusive
      <4> QED BY <1>3, <2>1, <4>1, <4>2 DEF RInv, Kept
    <3> QED BY <3>1, <3>2
  <2> QED BY <1>6, <2>1 DEF Kept
<1>13. Copied'
  <2>1. ASSUME NEW u \in Threads, pc[u] \in {"wait", "waiting"}, local[u].op = "copy",
               ~storages'[Source(u)].shared
        PROVE  After'[local[u].to] = storages'[Source(u)].val
    <3>1. local[u].to \in Buffers
      BY <2>1 DEF RInv, Placed, Idle
    <3>2. local[u].to # cmd.to
      BY <1>10, <3>1, MetalAssumption
    <3> QED BY <1>3, <1>9, <2>1, <3>1, <3>2 DEF RInv, Copied
  <2> QED BY <1>1, <1>8, <2>1 DEF Copied
<1>14. Fetched'
  <2>1. ASSUME NEW u \in Threads, pc[u] = "read"
        PROVE  /\ ~storages'[Source(u)].shared => contents[local[u].to] = storages'[Source(u)].val
               /\ \A i \in 1 .. Len(queue') : queue'[i].to # local[u].to
    <3>1. local[u].op = "copy" /\ local[u].to \in Buffers
      BY <2>1 DEF RInv, Placed
    <3>2. local[u].to # cmd.to
      BY <1>10, <3>1, MetalAssumption
    <3> QED BY <1>3, <1>9, <2>1, <3>1, <3>2 DEF RInv, Fetched
  <2> QED BY <1>1, <1>8, <2>1 DEF Fetched
<1> QED BY <1>1, <1>3, <1>11, <1>12, <1>13, <1>14 DEF RInv

LEMMA FromSliceResult ==
  ASSUME NEW t \in Threads, NEW s \in Slots, NEW b \in Buffers, NEW n \in Sizes,
         IInv, RInv, FromSlice(t, s, b, n)
  PROVE  RInv'
<1>1. /\ UNCHANGED <<pc, local, queue, seed>> /\ contents' = [contents EXCEPT ![b] = 1]
      /\ storages' = [storages EXCEPT ![s] = [buf |-> b, count |-> n, val |-> 1, shared |-> FALSE]]
      /\ s \in Free /\ ~Held(b)
      /\ \A i \in 1 .. Len(queue) : b # queue[i].to /\ b \notin Range(queue[i].from)
  BY DEF FromSlice, Unused, seeds
<1>2. /\ \A r \in Slots : storages[r].buf # b
      /\ \A u \in Threads : local[u].to # b
  BY <1>1 DEF Held
<1>3. /\ \A r \in Slots \ {s} : storages'[r] = storages[r]
      /\ storages'[s] = [buf |-> b, count |-> n, val |-> 1, shared |-> FALSE]
      /\ s \in Slots /\ s \notin Live
  BY <1>1 DEF Free, IInv, Types
<1>4. Live' \subseteq Live \cup {s} /\ Live \subseteq Live'
  BY <1>3 DEF Live
<1>5. /\ IsMem(contents) /\ IsMem(contents') /\ contents'[b] = 1
      /\ \A a \in Buffers : a # b => contents'[a] = contents[a]
  BY <1>1 DEF RInv, IsMem
<1>6. \A a \in Buffers : After'[a] = IF a = b THEN 1 ELSE After[a]
  <2>1. After = Ran(seed, contents, queue) /\ After' = Ran(seed, contents', queue)
    BY <1>1, AfterIs
  <2> DEFINE c == contents'
             d == contents
             s0 == seed
             q == queue
  <2>2. Alike(s0, s0, c, d, q, b)
    BY <1>1, <1>5 DEF RInv, Alike
  <2> HIDE DEF c, d, s0, q
  <2>3. \A a \in Buffers : Ran(s0, c, q)[a] = IF a = b THEN c[a] ELSE Ran(s0, d, q)[a]
    BY <2>2, RunsAgree
  <2> QED BY <1>5, <2>1, <2>3 DEF c, d, s0, q
<1>7. \A u \in Threads : Source(u)' = Source(u)
  BY <1>1 DEF Source
<1>8. \A u \in Threads : local[u].op = "copy" => storages'[Source(u)] = storages[Source(u)]
  <2>1. \A u \in Threads : local[u].op = "copy" => Source(u) \in Live
    BY SourceLives DEF RInv
  <2> QED BY <1>3, <2>1 DEF Live
<1>9. Placed'
  <2>1. ASSUME NEW u \in Threads
        PROVE  /\ pc[u] = "idle" => local[u] = Idle
               /\ pc[u] \in {"wait", "waiting"} =>
                    local[u] = Idle \/ (local[u].op = "copy" /\ local[u].to \in Buffers)
               /\ pc[u] = "read" => local[u].op = "copy" /\ local[u].to \in Buffers
               /\ Range(local[u].args) \subseteq Live'
    BY <1>4 DEF RInv, Placed
  <2> QED BY <1>1, <2>1 DEF Placed
<1>10. Kept'
  <2>1. ASSUME NEW r \in Live', ~storages'[r].shared PROVE After'[storages'[r].buf] = storages'[r].val
    <3>1. CASE r = s
      BY <1>3, <1>6, <3>1
    <3>2. CASE r # s
      <4>1. r \in Live /\ storages'[r] = storages[r] /\ storages[r].buf \in Buffers /\ storages[r].buf # b
        BY <1>2, <1>3, <1>4, <3>2 DEF IInv, HaveBuffers, Live
      <4> QED BY <1>6, <2>1, <4>1 DEF RInv, Kept
    <3> QED BY <3>1, <3>2
  <2> QED BY <2>1 DEF Kept
<1>11. Copied'
  <2>1. ASSUME NEW u \in Threads, pc[u] \in {"wait", "waiting"}, local[u].op = "copy",
               ~storages'[Source(u)].shared
        PROVE  After'[local[u].to] = storages'[Source(u)].val
    <3>1. local[u].to \in Buffers /\ local[u].to # b
      BY <1>2, <2>1 DEF RInv, Placed, Idle
    <3> QED BY <1>6, <1>8, <2>1, <3>1 DEF RInv, Copied
  <2> QED BY <1>1, <1>7, <2>1 DEF Copied
<1>12. Fetched'
  <2>1. ASSUME NEW u \in Threads, pc[u] = "read"
        PROVE  /\ ~storages'[Source(u)].shared => contents'[local[u].to] = storages'[Source(u)].val
               /\ \A i \in 1 .. Len(queue) : queue[i].to # local[u].to
    <3>1. local[u].op = "copy" /\ local[u].to \in Buffers /\ local[u].to # b
      BY <1>2, <2>1 DEF RInv, Placed
    <3> QED BY <1>5, <1>8, <2>1, <3>1 DEF RInv, Fetched
  <2> QED BY <1>1, <1>7, <2>1 DEF Fetched
<1> QED BY <1>1, <1>5, <1>9, <1>10, <1>11, <1>12 DEF RInv

\* The GPU runs the first command: what the rest will make of the buffers was to
\* be expected.
LEMMA RunResult ==
  ASSUME IInv, RInv, Run
  PROVE  RInv'
<1>1. /\ UNCHANGED <<seed, storages, pc, local>> /\ queue # <<>>
      /\ contents' = Performed(contents, Head(queue)) /\ queue' = Tail(queue)
  BY DEF Run, seeds
<1> DEFINE cmd == Head(queue)
<1>2. /\ cmd \in CommandType /\ cmd = queue[1] /\ Len(queue) \in Nat /\ Len(queue) >= 1
      /\ queue' \in Seq(CommandType) /\ Len(queue') = Len(queue) - 1
      /\ \A i \in 1 .. Len(queue') : queue'[i] = queue[i + 1]
  BY <1>1 DEF RInv
<1>3. contents' = Perf(seed, contents, cmd)
  BY <1>1 DEF Performed, Perf
<1>4. IsMem(contents') /\ \A b \in Buffers : b # cmd.to => contents'[b] = contents[b]
  <2> HIDE DEF cmd
  <2> QED BY <1>2, <1>3 DEF RInv, Perf, IsMem, CommandType
<1>5. After' = After
  <2>1. After = Ran(seed, contents, queue) /\ After' = Ran(seed, contents', Tail(queue))
    BY <1>1, AfterIs
  <2>2. queue \in Seq(CommandType)
    BY DEF RInv
  <2> QED BY <1>1, <1>3, <2>1, <2>2, RanHead
<1> HIDE DEF cmd
<1>6. Placed' /\ Kept' /\ Copied'
  BY <1>1, <1>5 DEF RInv, Placed, Kept, Copied, Source, Live
<1>7. Fetched'
  <2>1. ASSUME NEW u \in Threads, pc[u] = "read"
        PROVE  /\ ~storages[Source(u)].shared => contents'[local[u].to] = storages[Source(u)].val
               /\ \A i \in 1 .. Len(queue') : queue'[i].to # local[u].to
    <3>1. local[u].to \in Buffers /\ \A i \in 1 .. Len(queue) : queue[i].to # local[u].to
      BY <2>1 DEF RInv, Placed, Fetched
    <3>2. cmd.to # local[u].to
      BY <1>2, <3>1
    <3>3. \A i \in 1 .. Len(queue') : i + 1 \in 1 .. Len(queue)
      BY <1>2
    <3> QED BY <1>2, <1>4, <2>1, <3>1, <3>2, <3>3 DEF RInv, Fetched
  <2>2. \A u \in Threads : Source(u)' = Source(u)
    BY <1>1 DEF Source
  <2> QED BY <1>1, <2>1, <2>2 DEF Fetched
<1> QED BY <1>2, <1>4, <1>6, <1>7 DEF RInv

LEMMA SetSeedResult ==
  ASSUME NEW t \in Threads, NEW v \in Seeds, ~SeedAnyTime, IInv, RInv, SetSeed(t, v)
  PROVE  \A b \in Buffers : After'[b] = After[b]
<1>1. UNCHANGED <<contents, queue>> /\ \A i \in 1 .. Len(queue) : queue[i].op # "draw"
  BY DEF SetSeed, gpu, DrawsQueued
<1>2. After = Ran(seed, contents, queue) /\ After' = Ran(seed', contents, queue)
  BY <1>1, AfterIs
<1> DEFINE c == contents
           q == queue
           r == seed
           s == seed'
<1>3. IsMem(c) /\ q \in Seq(CommandType)
  BY DEF RInv
<1>4. Alike(r, s, c, c, q, NoBuffer)
  <2>1. \A i \in 1 .. Len(q) : q[i].to \in Buffers /\ q[i].from \in Seq(Buffers)
    <3> HIDE DEF q
    <3>1. \A i \in 1 .. Len(q) : q[i] \in CommandType
      BY <1>3
    <3> QED BY <3>1 DEF CommandType
  <2>2. \A i \in 1 .. Len(q) : q[i].to # NoBuffer /\ NoBuffer \notin Range(q[i].from)
    <3> HIDE DEF q
    <3> QED BY <2>1, MetalAssumption DEF Range
  <2> QED BY <1>1, <1>3, <2>2 DEF Alike
<1> HIDE DEF c, q, r, s
<1>5. \A b \in Buffers : Ran(r, c, q)[b] = IF b = NoBuffer THEN c[b] ELSE Ran(s, c, q)[b]
  BY <1>4, RunsAgree
<1> QED BY <1>2, <1>5, MetalAssumption DEF c, q, r, s

\* Nothing becomes of an empty queue.
LEMMA AfterEmpty == queue = <<>> => After = contents
<1> SUFFICES ASSUME queue = <<>> PROVE After = contents
  OBVIOUS
<1>1. After = Ran(seed, contents, queue) /\ Len(queue) = 0
  BY AfterIs
<1> QED BY <1>1, RanEmpty

LEMMA AfterSame == UNCHANGED <<contents, queue, seed>> => After' = After
<1> QED BY AfterIs

\* The steps of one thread that leave the queue and the storages alone.
LEMMA ThreadStep ==
  ASSUME IInv, RInv, IInv', UNCHANGED <<contents, queue, storages>>,
         \A b \in Buffers : After'[b] = After[b],
         NEW t \in Threads, \A u \in Threads \ {t} : pc'[u] = pc[u] /\ local'[u] = local[u],
         \/ pc'[t] = pc[t] /\ local'[t] = local[t]
         \/ pc'[t] = "idle" /\ local'[t] = Idle
         \/ pc'[t] = "encode" /\ Range(local'[t].args) \subseteq Live
         \/ pc[t] \in {"idle", "wait"} /\ pc'[t] \in {"wait", "waiting"} /\ local'[t] = local[t]
         \/ /\ pc[t] = "waiting" /\ pc'[t] = "read" /\ local'[t] = local[t] /\ local[t] # Idle
            /\ queue = <<>>
  PROVE  RInv'
<1>1. Live' = Live
  BY DEF Live
<1>2. \A s \in Live' : s \in Live /\ storages'[s] = storages[s]
  BY <1>1
<1>3. Range(Idle.args) = {}
  BY DEF Idle, Range
<1>4. \A u \in Threads : Range(local'[u].args) \subseteq Live'
  BY <1>1, <1>3 DEF RInv, Placed
<1>5. queue = <<>> => After = contents
  BY AfterEmpty
<1> QED BY <1>2, <1>4, <1>5, Quiet

\* The steps that leave the queue and the calls alone.
LEMMA StorageResult ==
  ASSUME IInv, RInv, IInv', UNCHANGED <<contents, queue, seed, pc, local>>,
         \A s \in Live' : storages'[s].shared \/ (s \in Live /\ storages'[s] = storages[s]),
         \A s \in Live : InUse(s) => s \in Live'
  PROVE  RInv'
<1>1. \A b \in Buffers : After'[b] = After[b]
  BY AfterSame
<1>2. \A t \in Threads : Range(local'[t].args) \subseteq Live'
  BY DEF RInv, Placed, InUse
<1> QED BY <1>1, <1>2, Quiet

LEMMA AllocResult ==
  ASSUME NEW t \in Threads, NEW op, NEW args, NEW b, NEW n, IInv, RInv, IInv',
         Alloc(t, op, args, b, n), Range(args) \subseteq Live
  PROVE  RInv'
<1>1. /\ UNCHANGED <<contents, queue, storages, seed>> /\ pc' = [pc EXCEPT ![t] = "encode"]
      /\ local' = [local EXCEPT ![t] = [op |-> op, args |-> args, to |-> b, count |-> n]]
  BY DEF Alloc, gpu, seeds
<1>2. pc'[t] = "encode" /\ local'[t].args = args /\ \A u \in Threads \ {t} : pc'[u] = pc[u] /\ local'[u] = local[u]
  BY <1>1 DEF IInv, Types
<1>3. \A c \in Buffers : After'[c] = After[c]
  BY <1>1, AfterSame
<1> QED BY <1>1, <1>2, <1>3, ThreadStep

LEMMA StepRInv == ~SeedAnyTime => (IInv /\ RInv /\ IInv' /\ [Next]_vars => RInv')
<1> SUFFICES ASSUME ~SeedAnyTime, IInv, RInv, IInv', [Next]_vars PROVE RInv'
  OBVIOUS
<1>0. UNCHANGED <<contents, queue, seed>> => \A b \in Buffers : After'[b] = After[b]
  BY AfterSame
<1>1. CASE UNCHANGED vars
  <2>1. UNCHANGED <<contents, queue, seed, pc, local, storages>>
    BY <1>1 DEF vars, gpu, seeds
  <2>2. Live' = Live
    BY <2>1 DEF Live
  <2> QED BY <2>1, <2>2, StorageResult
<1>2. CASE Run
  BY <1>2, RunResult
<1>3. ASSUME NEW t \in Threads, Call(t) PROVE RInv'
  <2>1. ASSUME NEW s \in Slots, NEW b \in Buffers, NEW n \in Sizes, FromSlice(t, s, b, n) PROVE RInv'
    BY <2>1, FromSliceResult
  <2>2. ASSUME NEW op \in {"zeros", "draw"}, NEW b \in Buffers, NEW n \in Sizes, Create(t, op, b, n) PROVE RInv'
    <3>1. Alloc(t, op, <<>>, b, n) /\ Range(<<>>) \subseteq Live
      BY <2>2 DEF Create, Range
    <3> QED BY <3>1, AllocResult
  <2>3. ASSUME NEW s \in Slots, NEW b \in Buffers, Unary(t, s, b) PROVE RInv'
    <3>1. Alloc(t, "unary", <<s>>, b, storages[s].count) /\ Range(<<s>>) \subseteq Live
      BY <2>3 DEF Unary, Range
    <3> QED BY <3>1, AllocResult
  <2>4. ASSUME NEW r \in Slots, NEW s \in Slots, NEW b \in Buffers, Binary(t, r, s, b) PROVE RInv'
    <3>1. Alloc(t, "binary", <<r, s>>, b, storages[s].count) /\ Range(<<r, s>>) \subseteq Live
      BY <2>4 DEF Binary, Range
    <3> QED BY <3>1, AllocResult
  <2>5. ASSUME NEW s \in Slots, NEW b \in Buffers, ToCpu(t, s, b) PROVE RInv'
    <3>1. Alloc(t, "copy", <<s>>, b, storages[s].count) /\ Range(<<s>>) \subseteq Live
      BY <2>5 DEF ToCpu, Range
    <3> QED BY <3>1, AllocResult
  <2>6. ASSUME NEW s \in Slots, NEW flush \in BOOLEAN, ConstSet(t, s, flush) PROVE RInv'
    BY <2>6, ConstSetResult
  <2>7. ASSUME NEW r \in Slots, NEW s \in Slots, TryClone(t, r, s) PROVE RInv'
    <3>1. /\ UNCHANGED <<contents, queue, seed, pc, local>> /\ r \in Live /\ s \in Free
          /\ storages' = [storages EXCEPT ![r].shared = TRUE, ![s] = [storages[r] EXCEPT !.shared = TRUE]]
      BY <2>7 DEF TryClone, gpu, seeds
    <3>2. /\ storages'[r].shared /\ storages'[s].shared
          /\ \A q \in Slots \ {r, s} : storages'[q] = storages[q]
          /\ storages'[r].buf = storages[r].buf
      BY <3>1 DEF Free, IInv, Types, StorageType
    <3>3. \A q \in Live' : storages'[q].shared \/ (q \in Live /\ storages'[q] = storages[q])
      BY <3>2 DEF Live
    <3>4. \A q \in Live : q \in Live'
      <4>1. storages'[r] # NoStorage /\ storages'[s] # NoStorage
        BY <3>2 DEF NoStorage
      <4> QED BY <3>2, <4>1 DEF Live
    <3> QED BY <3>1, <3>3, <3>4, StorageResult
  <2>8. ASSUME NEW s \in Slots, Drop(t, s) PROVE RInv'
    <3>1. /\ UNCHANGED <<contents, queue, seed, pc, local>> /\ ~InUse(s)
          /\ storages' = [storages EXCEPT ![s] = NoStorage]
      BY <2>8 DEF Drop, gpu, seeds
    <3>2. storages'[s] = NoStorage /\ \A q \in Slots \ {s} : storages'[q] = storages[q]
      BY <3>1 DEF IInv, Types
    <3>3. \A q \in Live' : q \in Live /\ storages'[q] = storages[q]
      BY <3>2 DEF Live
    <3>4. \A q \in Live : InUse(q) => q \in Live'
      BY <3>1, <3>2 DEF Live
    <3> QED BY <3>1, <3>3, <3>4, StorageResult
  <2>9. ASSUME NEW v \in Seeds, SetSeed(t, v) PROVE RInv'
    <3>1. UNCHANGED <<contents, queue, storages, pc, local>>
      BY <2>9 DEF SetSeed, gpu
    <3>2. \A b \in Buffers : After'[b] = After[b]
      BY <2>9, SetSeedResult
    <3>3. \A u \in Threads : pc'[u] = pc[u] /\ local'[u] = local[u]
      BY <3>1
    <3> QED BY <3>1, <3>2, <3>3, ThreadStep
  <2>10. ASSUME NEW v \in Seeds, SetSeedBusy(t, v) PROVE RInv'
    <3>1. UNCHANGED <<contents, queue, seed, storages, pc, local>>
      BY <2>10 DEF SetSeedBusy, gpu
    <3>2. \A u \in Threads : pc'[u] = pc[u] /\ local'[u] = local[u]
      BY <3>1
    <3> QED BY <1>0, <3>1, <3>2, ThreadStep
  <2>11. CASE Synchronize(t)
    <3>1. UNCHANGED <<contents, queue, seed, storages, local>> /\ pc[t] = "idle" /\ pc' = [pc EXCEPT ![t] = "wait"]
      BY <2>11 DEF Synchronize, Begin, gpu, seeds
    <3>2. pc'[t] = "wait" /\ local'[t] = local[t] /\ \A u \in Threads \ {t} : pc'[u] = pc[u] /\ local'[u] = local[u]
      BY <3>1 DEF IInv, Types
    <3> QED BY <1>0, <3>1, <3>2, ThreadStep
  <2> QED BY <1>3, <2>1, <2>2, <2>3, <2>4, <2>5, <2>6, <2>7, <2>8, <2>9, <2>10, <2>11 DEF Call
<1>4. ASSUME NEW t \in Threads, Step(t) PROVE RInv'
  <2>1. ASSUME NEW s \in Slots, NEW flush \in BOOLEAN, Encode(t, s, flush) PROVE RInv'
    BY <2>1, EncodeResult
  <2>2. ASSUME NEW flush \in BOOLEAN, EncodeToCpu(t, flush) PROVE RInv'
    BY <2>2, EncodeToCpuResult
  <2>3. CASE EncodeFails(t) \/ Read(t)
    <3>1. /\ UNCHANGED <<contents, queue, seed, storages>> /\ pc' = [pc EXCEPT ![t] = "idle"]
          /\ local' = [local EXCEPT ![t] = Idle]
      BY <2>3 DEF EncodeFails, Read, gpu, seeds
    <3>2. pc'[t] = "idle" /\ local'[t] = Idle /\ \A u \in Threads \ {t} : pc'[u] = pc[u] /\ local'[u] = local[u]
      BY <3>1 DEF IInv, Types
    <3> QED BY <1>0, <3>1, <3>2, ThreadStep
  <2>4. CASE WaitUntilCompleted(t)
    <3>1. /\ UNCHANGED <<contents, queue, seed, storages, local>> /\ pc[t] = "wait"
          /\ pc' = [pc EXCEPT ![t] = "waiting"]
      BY <2>4 DEF WaitUntilCompleted, gpu, seeds
    <3>2. /\ pc'[t] = "waiting" /\ local'[t] = local[t]
          /\ \A u \in Threads \ {t} : pc'[u] = pc[u] /\ local'[u] = local[u]
      BY <3>1 DEF IInv, Types
    <3> QED BY <1>0, <3>1, <3>2, ThreadStep
  <2>5. CASE Waited(t)
    <3>1. /\ UNCHANGED <<contents, queue, seed, storages, local>> /\ pc[t] = "waiting" /\ queue = <<>>
          /\ pc' = [pc EXCEPT ![t] = IF local[t] = Idle THEN "idle" ELSE "read"]
      BY <2>5 DEF Waited, Completed, gpu, seeds
    <3>2. /\ pc'[t] = (IF local[t] = Idle THEN "idle" ELSE "read") /\ local'[t] = local[t]
          /\ \A u \in Threads \ {t} : pc'[u] = pc[u] /\ local'[u] = local[u]
      BY <3>1 DEF IInv, Types
    <3>3. CASE local[t] = Idle
      BY <1>0, <3>1, <3>2, <3>3, ThreadStep
    <3>4. CASE local[t] # Idle
      BY <1>0, <3>1, <3>2, <3>4, ThreadStep
    <3> QED BY <3>3, <3>4
  <2> QED BY <1>4, <2>1, <2>2, <2>3, <2>4, <2>5 DEF Step
<1> QED BY <1>1, <1>2, <1>3, <1>4 DEF Next

\* However the calls of the threads interleave with the GPU, which runs what
\* they encoded later, and whoever a buffer is handed on to meanwhile, a storage
\* that is not a copy will hold what its call computed, and to_cpu reads it, if
\* no seed is set while a draw is in the queue.
THEOREM ResultsAreRight ==
  ASSUME ~SeedAnyTime
  PROVE  Spec => []ResultsRight
<1>1. RInv => ResultsRight
  BY DEF RInv, Kept, Fetched, Source, ResultsRight
<1>2. IInv /\ RInv /\ IInv' /\ [Next]_vars => RInv'
  BY StepRInv
<1> QED BY InitIInv, StepIInv, InitRInv, <1>1, <1>2, PTL DEF Spec
=============================================================================
