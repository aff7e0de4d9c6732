------------------------- MODULE QuantMatMul_proof -------------------------
(***************************************************************************)
(* Proofs about QuantMatMul, for any number of threads, QMatMuls, devices  *)
(* and calls: the weights are never lost, and when a call may panic.       *)
(***************************************************************************)
EXTENDS QuantMatMul, SequenceTheorems, TLAPS

CallType ==
  [op : {"none", "forward", "forward_via_f16", "dequantize_f16", "clone"},
   mat : Mats, dev : Devices, batch : Batches \cup {<<>>}]

MatsTyped ==
  /\ variant \in [Mats -> {"none", "QTensor", "Tensor"}]
  /\ bytes \in [Mats -> BOOLEAN] /\ poisoned \in [Mats -> BOOLEAN]
  /\ cache = [m \in Mats |-> cache[m]] /\ once = [m \in Mats |-> once[m]]

ThreadsTyped ==
  /\ pc \in [Threads -> Labels]
  /\ call \in [Threads -> CallType]
  /\ answer = [t \in Threads |-> answer[t]]

HistoryTyped ==
  /\ hollow \subseteq Mats /\ failed \subseteq Mats
  /\ used \in [Mats -> SUBSET {"cpu", "gpu"}]

Typed ==
  /\ dims \in Seq(Nat) /\ Len(dims) = 2
  /\ MatsTyped /\ ThreadsTyped /\ HistoryTyped

Making == {"locking", "weights", "upload"}

\* Where a thread is says what it works on: a mat that exists, a QTensor where
\* it locks, and one where it has counted its device among the uses.
Place(t) ==
  LET m == call[t].mat
  IN  /\ pc[t] # "idle" => variant[m] # "none"
      /\ pc[t] \in {"locking", "weights", "drop", "locked"} => variant[m] = "QTensor"
      /\ pc[t] = "upload" => variant[m] = "Tensor"
      /\ pc[t] = "lock" /\ call[t].op # "clone" => variant[m] = "QTensor" /\ "cpu" \in used[m]
      /\ pc[t] \in {"init", "locking", "weights", "drop"} => "gpu" \in used[m]

\* The copy is made by the thread that the OnceLock let in, and there is none
\* before it has; DropBytes comes after.
CopyFirst(t) ==
  LET m == call[t].mat
  IN  /\ pc[t] \in Making => once[m] = t /\ cache[m] = NoWeight
      /\ pc[t] = "drop" => cache[m] # NoWeight

\* A copy of a QTensor was made for a device; a Mutex is poisoned for a reason.
Reason(m) ==
  /\ variant[m] = "QTensor" /\ cache[m] # NoWeight => "gpu" \in used[m]
  /\ variant[m] = "none" => cache[m] = NoWeight
  /\ poisoned[m] => Misused(m)

Kept(m) ==
  variant[m] = "QTensor" /\ m \notin hollow => bytes[m] \/ cache[m] # NoWeight
Explained(t) == answer[t] = "panic" => Misused(call[t].mat)

IInv ==
  /\ Typed
  /\ \A t \in Threads : Place(t) /\ CopyFirst(t) /\ Explained(t)
  /\ \A m \in Mats : Reason(m) /\ Kept(m)

\* What InitWeights leaves in the OnceLock is a weight.
LEMMA WeightIsMade ==
  ASSUME NEW t \in Threads, Typed, DequantToGpu(t) \/ DequantOnCpu(t)
  PROVE  \E w \in Weights : cache' = [cache EXCEPT ![Mat(t)] = w]
  <1>1. call[t].dev \in Devices
    BY DEF Typed, ThreadsTyped, CallType
  <1>2. dims[1] \in Nat /\ dims[2] \in Nat
    <2>1. dims \in Seq(Nat) /\ Len(dims) = 2
      BY DEF Typed
    <2>2. QED
      BY <2>1
  <1>3. CASE DequantToGpu(t)
    <2> DEFINE w == [dev |-> call[t].dev, dims |-> <<dims[1] * dims[2]>>, reads |-> "flat"]
    <2>1. dims[1] * dims[2] \in Nat
      BY <1>2
    <2>2. w \in Weights
      BY <1>1, <2>1 DEF Weights
    <2>3. QED
      BY <1>3, <2>2 DEF DequantToGpu
  <1>4. CASE DequantOnCpu(t)
    <2> DEFINE d == Dense(call[t].dev)
               f == [i \in 1 .. 2 |-> dims[IF i = 2 THEN 2 - 1 ELSE IF i = 2 - 1 THEN 2 ELSE i]]
    <2>1. /\ d.dims = dims /\ d.reads = "rows" /\ d.dev = call[t].dev /\ Len(d.dims) = 2
      BY DEF Dense, Typed
    <2> HIDE DEF d
    <2>2. f \in Seq(Nat)
      BY <1>2
    <2> HIDE DEF f
    <2>3. T(d) = [dev |-> call[t].dev, dims |-> f, reads |-> "columns"]
      BY <2>1, Zenon DEF T, f
    <2>4. T(d) \in Weights
      BY <1>1, <2>2, <2>3 DEF Weights
    <2>5. QED
      BY <1>4, <2>4 DEF DequantOnCpu, d
  <1>5. QED
    BY <1>3, <1>4

LEMMA InitIInv == Init => IInv
  <1> SUFFICES ASSUME Init PROVE IInv
    OBVIOUS
  <1>1. NoCall \in CallType
    BY QuantAssumption DEF NoCall, CallType, Devices
  <1>2. Typed
    BY <1>1, QuantAssumption
    DEF Init, Typed, MatsTyped, ThreadsTyped, HistoryTyped, Labels
  <1>3. QED
    BY <1>2 DEF Init, IInv, Place, CopyFirst, Reason, Kept, Explained, Making

-----------------------------------------------------------------------------
(* What no step of t does to the others: it leaves them where they are, and *)
(* a mat that exists keeps its variant, its copy, and what was recorded.    *)

Frame(t) ==
  /\ \A u \in Threads \ {t} : pc'[u] = pc[u] /\ call'[u] = call[u] /\ answer'[u] = answer[u]
  /\ \A m \in Mats :
       /\ variant[m] # "none" => variant'[m] = variant[m]
       /\ cache[m] # NoWeight => cache'[m] = cache[m]
       /\ once[m] \in Threads \ {t} => once'[m] = once[m] /\ cache'[m] = cache[m]
       /\ used[m] \subseteq used'[m]
  /\ hollow \subseteq hollow' /\ failed \subseteq failed'

LEMMA MisusedStays ==
  ASSUME NEW t \in Threads, NEW m \in Mats, Frame(t), HistoryTyped', Misused(m)
  PROVE  Misused(m)'
  BY DEF Frame, HistoryTyped, Misused

LEMMA Others ==
  ASSUME NEW t \in Threads, NEW u \in Threads \ {t}, Frame(t), Typed, Typed',
         Place(u), CopyFirst(u), Explained(u)
  PROVE  Place(u)' /\ CopyFirst(u)' /\ Explained(u)'
  <1> DEFINE m == call[u].mat
  <1>1. m \in Mats
    BY DEF Typed, ThreadsTyped, CallType
  <1>2. pc'[u] = pc[u] /\ call'[u] = call[u] /\ answer'[u] = answer[u]
    BY DEF Frame
  <1>3. used[m] \subseteq used'[m] /\ (variant[m] # "none" => variant'[m] = variant[m])
    BY <1>1 DEF Frame
  <1>4. Place(u)'
    <2>1. pc[u] \in Labels
      BY DEF Typed, ThreadsTyped
    <2>2. QED
      BY <1>2, <1>3, <2>1 DEF Place, Labels
  <1>5. CopyFirst(u)'
    <2>1. /\ once[m] = u => once'[m] = u /\ cache'[m] = cache[m]
          /\ cache[m] # NoWeight => cache'[m] = cache[m]
      BY <1>1 DEF Frame
    <2>2. QED
      BY <1>2, <2>1 DEF CopyFirst
  <1>6. Explained(u)'
    BY <1>1, <1>2, MisusedStays DEF Explained, Typed
  <1>7. QED
    BY <1>4, <1>5, <1>6

\* So a step keeps the invariant if it keeps the types, and what is said of t
\* and of the mats.
LEMMA StepIInv ==
  ASSUME NEW t \in Threads, IInv, Frame(t), Typed',
         Place(t)', CopyFirst(t)', Explained(t)',
         \A m \in Mats : Reason(m)' /\ Kept(m)'
  PROVE  IInv'
  <1>1. ASSUME NEW u \in Threads
        PROVE  Place(u)' /\ CopyFirst(u)' /\ Explained(u)'
    <2>1. CASE u = t
      BY <2>1
    <2>2. CASE u # t
      BY <2>2, Others DEF IInv
    <2>3. QED
      BY <2>1, <2>2
  <1>2. QED
    BY <1>1 DEF IInv

LEMMA FromArcStep ==
  ASSUME IInv, NEW t \in Threads, NEW m \in Mats, NEW v \in {"QTensor", "Tensor"}, FromArc(t, m, v)
  PROVE  IInv' /\ Frame(t)
  <1>0. /\ call[t].mat \in Mats /\ Place(t) /\ CopyFirst(t) /\ Explained(t)
        /\ Reason(call[t].mat) /\ Kept(call[t].mat) /\ Typed
    BY DEF IInv, Typed, ThreadsTyped, CallType
  <1>1. MatsTyped'
    BY <1>0 DEF FromArc, Alive, tensor, lazy, threads, Typed, MatsTyped
  <1>2. ThreadsTyped'
    BY <1>0 DEF FromArc, Alive, tensor, lazy, threads, Typed, ThreadsTyped, Labels
  <1>3. HistoryTyped' /\ dims' = dims
    BY <1>0 DEF FromArc, Alive, tensor, lazy, threads, Typed, HistoryTyped
  <1>4. Typed'
    BY <1>0, <1>1, <1>2, <1>3 DEF Typed
  <1>5. Frame(t)
    BY <1>0 DEF FromArc, Alive, tensor, lazy, threads, Frame, Typed, MatsTyped, ThreadsTyped, HistoryTyped, CopyFirst, Making
  <1>6. Place(t)' /\ CopyFirst(t)'
    BY <1>0 DEF FromArc, Alive, tensor, lazy, threads, Place, CopyFirst, Typed, MatsTyped, ThreadsTyped, HistoryTyped, Making
  <1>7. Explained(t)'
    BY <1>0 DEF FromArc, Alive, tensor, lazy, threads, Place, CopyFirst, Explained, Reason, Kept, Typed, MatsTyped, ThreadsTyped, HistoryTyped, Making, Misused
  <1>8. ASSUME NEW k \in Mats PROVE Reason(k)' /\ Kept(k)'
    <2>1. Reason(k) /\ Kept(k)
      BY DEF IInv
    <2>2. Reason(k)'
      BY <1>0, <2>1 DEF FromArc, Alive, tensor, lazy, threads, Reason, Kept, Misused, Place, CopyFirst, Making, Typed, MatsTyped, HistoryTyped
    <2>3. Kept(k)'
      BY <1>0, <2>1 DEF FromArc, Alive, tensor, lazy, threads, Kept, Place, CopyFirst, Making, Typed, MatsTyped, HistoryTyped
    <2>4. QED
      BY <2>2, <2>3
  <1>9. QED
    BY <1>4, <1>5, <1>6, <1>7, <1>8, StepIInv

LEMMA BeginStep ==
  ASSUME IInv, NEW t \in Threads, NEW c \in Calls, Begin(t, c)
  PROVE  IInv' /\ Frame(t)
  <1>0. /\ call[t].mat \in Mats /\ Place(t) /\ CopyFirst(t) /\ Explained(t)
        /\ Reason(call[t].mat) /\ Kept(call[t].mat) /\ Typed
    BY DEF IInv, Typed, ThreadsTyped, CallType
  <1>a. /\ c \in CallType /\ c.mat \in Mats
        /\ call' = [call EXCEPT ![t] = c] /\ pc' = [pc EXCEPT ![t] = Entry(c)]
        /\ answer' = [answer EXCEPT ![t] = "none"]
        /\ used' = [used EXCEPT ![c.mat] = @ \cup Needs(c)]
        /\ variant[c.mat] # "none"
    <2>1. c \in CallType
      BY DEF Calls, CallType, Devices
    <2>2. c.mat \in Mats
      BY <2>1 DEF CallType
    <2>3. QED
      BY <1>0, <2>1, <2>2 DEF Begin, Alive
  <1>b. /\ Entry(c) \in {"init", "lock", "product"}
        /\ Entry(c) = "lock" /\ c.op # "clone" => variant[c.mat] = "QTensor" /\ "cpu" \in Needs(c)
        /\ Entry(c) = "init" => "gpu" \in Needs(c)
        /\ Needs(c) \subseteq {"cpu", "gpu"}
    BY DEF Entry, Needs
  <1>1. MatsTyped'
    BY <1>0 DEF Begin, mutex, lazy, Typed, MatsTyped
  <1>2. ThreadsTyped'
    BY <1>0, <1>a, <1>b DEF Typed, ThreadsTyped, Labels
  <1>3. HistoryTyped' /\ dims' = dims
    BY <1>0 DEF Begin, Alive, tensor, mutex, lazy, Typed, HistoryTyped, Needs, Calls
  <1>4. Typed'
    BY <1>0, <1>1, <1>2, <1>3 DEF Typed
  <1>5. Frame(t)
    BY <1>0 DEF Begin, Alive, tensor, mutex, lazy, Frame, Typed, MatsTyped, ThreadsTyped, HistoryTyped, CopyFirst, Making
  <1>6. Place(t)' /\ CopyFirst(t)'
    <2>1. pc'[t] = Entry(c) /\ call'[t] = c /\ Needs(c) \subseteq used'[c.mat]
      BY <1>0, <1>a DEF Typed, ThreadsTyped, HistoryTyped
    <2>2. variant' = variant
      BY <1>0 DEF Begin
    <2>3. QED
      BY <1>a, <1>b, <2>1, <2>2 DEF Place, CopyFirst, Making
  <1>7. Explained(t)'
    BY <1>0 DEF Begin, Alive, tensor, mutex, lazy, Place, CopyFirst, Explained, Reason, Kept, Typed, MatsTyped, ThreadsTyped, HistoryTyped, Making, Misused
  <1>8. ASSUME NEW k \in Mats PROVE Reason(k)' /\ Kept(k)'
    <2>1. Reason(k) /\ Kept(k)
      BY DEF IInv
    <2>2. Reason(k)'
      <3>1. UNCHANGED <<variant, cache, poisoned>>
        BY <1>0 DEF Begin, mutex, lazy
      <3>2. used[k] \subseteq used'[k]
        BY <1>5 DEF Frame
      <3>3. Misused(k) => Misused(k)'
        BY <1>3, <1>5, MisusedStays
      <3>4. QED
        BY <2>1, <3>1, <3>2, <3>3 DEF Reason
    <2>3. Kept(k)'
      BY <1>0, <2>1 DEF Begin, Alive, tensor, mutex, lazy, Kept, Place, CopyFirst, Making, Typed, MatsTyped, HistoryTyped
    <2>4. QED
      BY <2>2, <2>3
  <1>9. QED
    BY <1>4, <1>5, <1>6, <1>7, <1>8, StepIInv

LEMMA GetOrInitStep ==
  ASSUME IInv, NEW t \in Threads, GetOrInit(t)
  PROVE  IInv' /\ Frame(t)
  <1>0. /\ call[t].mat \in Mats /\ Place(t) /\ CopyFirst(t) /\ Explained(t)
        /\ Reason(call[t].mat) /\ Kept(call[t].mat) /\ Typed
    BY DEF IInv, Typed, ThreadsTyped, CallType
  <1>1. MatsTyped'
    BY <1>0 DEF GetOrInit, Go, Mat, tensor, mutex, history, Typed, MatsTyped
  <1>2. ThreadsTyped'
    BY <1>0 DEF GetOrInit, Go, Mat, tensor, mutex, history, Typed, ThreadsTyped, Labels
  <1>3. HistoryTyped' /\ dims' = dims
    BY <1>0 DEF GetOrInit, Go, Mat, tensor, mutex, history, Typed, HistoryTyped
  <1>4. Typed'
    BY <1>0, <1>1, <1>2, <1>3 DEF Typed
  <1>5. Frame(t)
    BY <1>0, QuantAssumption
    DEF GetOrInit, Go, Mat, tensor, mutex, history, Frame, Typed, MatsTyped, ThreadsTyped
  <1>6. Place(t)' /\ CopyFirst(t)'
    BY <1>0 DEF GetOrInit, Go, Mat, tensor, mutex, history, Place, CopyFirst, Typed, MatsTyped, ThreadsTyped, HistoryTyped, Making
  <1>7. Explained(t)'
    BY <1>0 DEF GetOrInit, Go, Mat, tensor, mutex, history, Place, CopyFirst, Explained, Reason, Kept, Typed, MatsTyped, ThreadsTyped, HistoryTyped, Making, Misused
  <1>8. ASSUME NEW k \in Mats PROVE Reason(k)' /\ Kept(k)'
    <2>1. Reason(k) /\ Kept(k)
      BY DEF IInv
    <2>2. Reason(k)'
      BY <1>0, <2>1 DEF GetOrInit, Go, Mat, tensor, mutex, history, Reason, Kept, Misused, Place, CopyFirst, Making, Typed, MatsTyped, HistoryTyped
    <2>3. Kept(k)'
      BY <1>0, <2>1 DEF GetOrInit, Go, Mat, tensor, mutex, history, Kept, Place, CopyFirst, Making, Typed, MatsTyped, HistoryTyped
    <2>4. QED
      BY <2>2, <2>3
  <1>9. QED
    BY <1>4, <1>5, <1>6, <1>7, <1>8, StepIInv

LEMMA InitLockStep ==
  ASSUME IInv, NEW t \in Threads, InitLock(t)
  PROVE  IInv' /\ Frame(t)
  <1>0. /\ call[t].mat \in Mats /\ Place(t) /\ CopyFirst(t) /\ Explained(t)
        /\ Reason(call[t].mat) /\ Kept(call[t].mat) /\ Typed
    BY DEF IInv, Typed, ThreadsTyped, CallType
  <1>1. MatsTyped'
    BY <1>0 DEF InitLock, Go, Return, Mat, tensor, history, Typed, MatsTyped
  <1>2. ThreadsTyped'
    BY <1>0 DEF InitLock, Go, Return, Mat, tensor, history, Typed, ThreadsTyped, Labels
  <1>3. HistoryTyped' /\ dims' = dims
    BY <1>0 DEF InitLock, Go, Return, Mat, tensor, history, Typed, HistoryTyped
  <1>4. Typed'
    BY <1>0, <1>1, <1>2, <1>3 DEF Typed
  <1>5. Frame(t)
    BY <1>0 DEF InitLock, Go, Return, Mat, tensor, history, Frame, Typed, MatsTyped, ThreadsTyped, HistoryTyped, CopyFirst, Making
  <1>6. Place(t)' /\ CopyFirst(t)'
    BY <1>0 DEF InitLock, Go, Return, Mat, tensor, history, Place, CopyFirst, Typed, MatsTyped, ThreadsTyped, HistoryTyped, Making
  <1>7. Explained(t)'
    BY <1>0 DEF InitLock, Go, Return, Mat, tensor, history, Place, CopyFirst, Explained, Reason, Kept, Typed, MatsTyped, ThreadsTyped, HistoryTyped, Making, Misused
  <1>8. ASSUME NEW k \in Mats PROVE Reason(k)' /\ Kept(k)'
    <2>1. Reason(k) /\ Kept(k)
      BY DEF IInv
    <2>2. Reason(k)'
      BY <1>0, <2>1 DEF InitLock, Go, Return, Mat, tensor, history, Reason, Kept, Misused, Place, CopyFirst, Making, Typed, MatsTyped, HistoryTyped
    <2>3. Kept(k)'
      BY <1>0, <2>1 DEF InitLock, Go, Return, Mat, tensor, history, Kept, Place, CopyFirst, Making, Typed, MatsTyped, HistoryTyped
    <2>4. QED
      BY <2>2, <2>3
  <1>9. QED
    BY <1>4, <1>5, <1>6, <1>7, <1>8, StepIInv

LEMMA InitWeightsStep ==
  ASSUME IInv, NEW t \in Threads, InitWeights(t)
  PROVE  IInv' /\ Frame(t)
  <1>0. /\ call[t].mat \in Mats /\ Place(t) /\ CopyFirst(t) /\ Explained(t)
        /\ Reason(call[t].mat) /\ Kept(call[t].mat) /\ Typed
    BY DEF IInv, Typed, ThreadsTyped, CallType
  <1>a. \/ /\ \E w \in Weights : cache' = [cache EXCEPT ![call[t].mat] = w]
           /\ pc' = [pc EXCEPT ![t] = "drop"] /\ UNCHANGED <<answer, poisoned, failed>>
        \/ /\ poisoned' = [poisoned EXCEPT ![call[t].mat] = TRUE]
           /\ failed' = failed \cup {call[t].mat}
           /\ pc' = [pc EXCEPT ![t] = "idle"] /\ UNCHANGED cache
    BY <1>0, WeightIsMade DEF InitWeights, Go, Return, Mat
  <1>b. /\ pc[t] = "weights" /\ once' = [once EXCEPT ![call[t].mat] = NoThread]
        /\ UNCHANGED <<variant, bytes, call, hollow, used>>
    BY <1>0 DEF InitWeights, Go, Return, Mat, tensor
  <1>c. once[call[t].mat] = t /\ cache[call[t].mat] = NoWeight /\ variant[call[t].mat] = "QTensor"
        /\ "gpu" \in used[call[t].mat]
    BY <1>0, <1>b DEF CopyFirst, Making, Place
  <1>1. MatsTyped'
    BY <1>0, <1>a, <1>b DEF Typed, MatsTyped
  <1>2. ThreadsTyped'
    BY <1>0 DEF InitWeights, Go, Return, Mat, tensor, Typed, ThreadsTyped, Labels
  <1>3. HistoryTyped' /\ dims' = dims
    BY <1>0 DEF InitWeights, Go, Return, Mat, tensor, Typed, HistoryTyped
  <1>4. Typed'
    BY <1>0, <1>1, <1>2, <1>3 DEF Typed
  <1>5. Frame(t)
    <2>1. \A u \in Threads \ {t} : pc'[u] = pc[u] /\ call'[u] = call[u] /\ answer'[u] = answer[u]
      BY <1>0 DEF InitWeights, Go, Return, Typed, ThreadsTyped
    <2>2. failed \subseteq failed'
      BY <1>a
    <2>3. QED
      BY <1>0, <1>a, <1>b, <1>c, <2>1, <2>2 DEF Frame, Typed, MatsTyped
  <1>6. Place(t)' /\ CopyFirst(t)'
    <2>1. CASE pc' = [pc EXCEPT ![t] = "idle"]
      BY <1>0, <1>b, <2>1 DEF Place, CopyFirst, Making, Typed, ThreadsTyped
    <2>2. CASE \E w \in Weights : cache' = [cache EXCEPT ![call[t].mat] = w]
                                  /\ pc' = [pc EXCEPT ![t] = "drop"]
      BY <1>0, <1>b, <1>c, <2>2, QuantAssumption
      DEF Place, CopyFirst, Making, Typed, ThreadsTyped, MatsTyped
    <2>3. QED
      BY <1>a, <2>1, <2>2
  <1>7. Explained(t)'
    BY <1>0 DEF InitWeights, Go, Return, Mat, tensor, Place, CopyFirst, Explained, Reason, Kept, Typed, MatsTyped, ThreadsTyped, HistoryTyped, Making, Misused
  <1>8. ASSUME NEW k \in Mats PROVE Reason(k)' /\ Kept(k)'
    <2>1. Reason(k) /\ Kept(k)
      BY DEF IInv
    <2>2. Reason(k)'
      <3>1. CASE k = call[t].mat
        BY <1>0, <1>a, <1>b, <1>c, <2>1, <3>1 DEF Reason, Misused, Typed, MatsTyped
      <3>2. CASE k # call[t].mat
        <4>1. cache'[k] = cache[k] /\ poisoned'[k] = poisoned[k] /\ (Misused(k) => Misused(k)')
          BY <1>0, <1>a, <1>b, <3>2 DEF Misused, Typed, MatsTyped
        <4>2. QED
          BY <1>b, <2>1, <4>1 DEF Reason
      <3>3. QED
        BY <3>1, <3>2
    <2>3. Kept(k)'
      <3>1. cache[k] # NoWeight => cache'[k] # NoWeight
        BY <1>5 DEF Frame
      <3>2. QED
        BY <1>b, <2>1, <3>1 DEF Kept
    <2>4. QED
      BY <2>2, <2>3
  <1>9. QED
    BY <1>4, <1>5, <1>6, <1>7, <1>8, StepIInv

LEMMA DropBytesStep ==
  ASSUME IInv, NEW t \in Threads, DropBytes(t)
  PROVE  IInv' /\ Frame(t)
  <1>0. /\ call[t].mat \in Mats /\ Place(t) /\ CopyFirst(t) /\ Explained(t)
        /\ Reason(call[t].mat) /\ Kept(call[t].mat) /\ Typed
    BY DEF IInv, Typed, ThreadsTyped, CallType
  <1>1. MatsTyped'
    BY <1>0 DEF DropBytes, Go, Return, Mat, tensor, lazy, history, Typed, MatsTyped
  <1>2. ThreadsTyped'
    BY <1>0 DEF DropBytes, Go, Return, Mat, tensor, lazy, history, Typed, ThreadsTyped, Labels
  <1>3. HistoryTyped' /\ dims' = dims
    BY <1>0 DEF DropBytes, Go, Return, Mat, tensor, lazy, history, Typed, HistoryTyped
  <1>4. Typed'
    BY <1>0, <1>1, <1>2, <1>3 DEF Typed
  <1>5. Frame(t)
    BY <1>0 DEF DropBytes, Go, Return, Mat, tensor, lazy, history, Frame, Typed, MatsTyped, ThreadsTyped, HistoryTyped, CopyFirst, Making
  <1>6. Place(t)' /\ CopyFirst(t)'
    BY <1>0 DEF DropBytes, Go, Return, Mat, tensor, lazy, history, Place, CopyFirst, Typed, MatsTyped, ThreadsTyped, HistoryTyped, Making
  <1>7. Explained(t)'
    BY <1>0 DEF DropBytes, Go, Return, Mat, tensor, lazy, history, Place, CopyFirst, Explained, Reason, Kept, Typed, MatsTyped, ThreadsTyped, HistoryTyped, Making, Misused
  <1>8. ASSUME NEW k \in Mats PROVE Reason(k)' /\ Kept(k)'
    <2>1. Reason(k) /\ Kept(k)
      BY DEF IInv
    <2>2. Reason(k)'
      BY <1>0, <2>1 DEF DropBytes, Go, Return, Mat, tensor, lazy, history, Reason, Kept, Misused, Place, CopyFirst, Making, Typed, MatsTyped, HistoryTyped
    <2>3. Kept(k)'
      BY <1>0, <2>1 DEF DropBytes, Go, Return, Mat, tensor, lazy, history, Kept, Place, CopyFirst, Making, Typed, MatsTyped, HistoryTyped
    <2>4. QED
      BY <2>2, <2>3
  <1>9. QED
    BY <1>4, <1>5, <1>6, <1>7, <1>8, StepIInv

LEMMA UploadStep ==
  ASSUME IInv, NEW t \in Threads, Upload(t)
  PROVE  IInv' /\ Frame(t)
  <1>0. /\ call[t].mat \in Mats /\ Place(t) /\ CopyFirst(t) /\ Explained(t)
        /\ Reason(call[t].mat) /\ Kept(call[t].mat) /\ Typed
    BY DEF IInv, Typed, ThreadsTyped, CallType
  <1>1. MatsTyped'
    BY <1>0 DEF Upload, Go, Return, Mat, tensor, mutex, Typed, MatsTyped
  <1>2. ThreadsTyped'
    BY <1>0 DEF Upload, Go, Return, Mat, tensor, mutex, Typed, ThreadsTyped, Labels
  <1>3. HistoryTyped' /\ dims' = dims
    BY <1>0 DEF Upload, Go, Return, Mat, tensor, mutex, Typed, HistoryTyped
  <1>4. Typed'
    BY <1>0, <1>1, <1>2, <1>3 DEF Typed
  <1>5. Frame(t)
    BY <1>0 DEF Upload, Go, Return, Mat, tensor, mutex, Frame, Typed, MatsTyped, ThreadsTyped, HistoryTyped, CopyFirst, Making
  <1>6. Place(t)' /\ CopyFirst(t)'
    BY <1>0 DEF Upload, Go, Return, Mat, tensor, mutex, Place, CopyFirst, Typed, MatsTyped, ThreadsTyped, HistoryTyped, Making
  <1>7. Explained(t)'
    BY <1>0 DEF Upload, Go, Return, Mat, tensor, mutex, Place, CopyFirst, Explained, Reason, Kept, Typed, MatsTyped, ThreadsTyped, HistoryTyped, Making, Misused
  <1>8. ASSUME NEW k \in Mats PROVE Reason(k)' /\ Kept(k)'
    <2>1. Reason(k) /\ Kept(k)
      BY DEF IInv
    <2>2. Reason(k)'
      BY <1>0, <2>1 DEF Upload, Go, Return, Mat, tensor, mutex, Reason, Kept, Misused, Place, CopyFirst, Making, Typed, MatsTyped, HistoryTyped
    <2>3. Kept(k)'
      BY <1>0, <2>1 DEF Upload, Go, Return, Mat, tensor, mutex, Kept, Place, CopyFirst, Making, Typed, MatsTyped, HistoryTyped
    <2>4. QED
      BY <2>2, <2>3
  <1>9. QED
    BY <1>4, <1>5, <1>6, <1>7, <1>8, StepIInv

LEMMA MultiplyStep ==
  ASSUME IInv, NEW t \in Threads, Multiply(t)
  PROVE  IInv' /\ Frame(t)
  <1>0. /\ call[t].mat \in Mats /\ Place(t) /\ CopyFirst(t) /\ Explained(t)
        /\ Reason(call[t].mat) /\ Kept(call[t].mat) /\ Typed
    BY DEF IInv, Typed, ThreadsTyped, CallType
  <1>1. MatsTyped'
    BY <1>0 DEF Multiply, Return, tensor, mutex, lazy, history, Typed, MatsTyped
  <1>2. ThreadsTyped'
    BY <1>0 DEF Multiply, Return, tensor, mutex, lazy, history, Typed, ThreadsTyped, Labels
  <1>3. HistoryTyped' /\ dims' = dims
    BY <1>0 DEF Multiply, Return, tensor, mutex, lazy, history, Typed, HistoryTyped
  <1>4. Typed'
    BY <1>0, <1>1, <1>2, <1>3 DEF Typed
  <1>5. Frame(t)
    BY <1>0 DEF Multiply, Return, tensor, mutex, lazy, history, Frame, Typed, MatsTyped, ThreadsTyped, HistoryTyped, CopyFirst, Making
  <1>6. Place(t)' /\ CopyFirst(t)'
    BY <1>0 DEF Multiply, Return, tensor, mutex, lazy, history, Place, CopyFirst, Typed, MatsTyped, ThreadsTyped, HistoryTyped, Making
  <1>7. Explained(t)'
    <2>1. \A x, w : MatMul(x, w) # "panic"
      BY DEF MatMul
    <2>2. answer'[t] # "panic"
      BY <1>0, <2>1 DEF Multiply, Return, Typed, ThreadsTyped
    <2>3. QED
      BY <2>2 DEF Explained
  <1>8. ASSUME NEW k \in Mats PROVE Reason(k)' /\ Kept(k)'
    <2>1. Reason(k) /\ Kept(k)
      BY DEF IInv
    <2>2. Reason(k)'
      BY <1>0, <2>1 DEF Multiply, Return, tensor, mutex, lazy, history, Reason, Kept, Misused, Place, CopyFirst, Making, Typed, MatsTyped, HistoryTyped
    <2>3. Kept(k)'
      BY <1>0, <2>1 DEF Multiply, Return, tensor, mutex, lazy, history, Kept, Place, CopyFirst, Making, Typed, MatsTyped, HistoryTyped
    <2>4. QED
      BY <2>2, <2>3
  <1>9. QED
    BY <1>4, <1>5, <1>6, <1>7, <1>8, StepIInv

LEMMA LockStep ==
  ASSUME IInv, NEW t \in Threads, Lock(t)
  PROVE  IInv' /\ Frame(t)
  <1>0. /\ call[t].mat \in Mats /\ Place(t) /\ CopyFirst(t) /\ Explained(t)
        /\ Reason(call[t].mat) /\ Kept(call[t].mat) /\ Typed
    BY DEF IInv, Typed, ThreadsTyped, CallType
  <1>1. MatsTyped'
    BY <1>0 DEF Lock, Go, Return, Mat, tensor, lazy, history, Typed, MatsTyped
  <1>2. ThreadsTyped'
    BY <1>0 DEF Lock, Go, Return, Mat, tensor, lazy, history, Typed, ThreadsTyped, Labels
  <1>3. HistoryTyped' /\ dims' = dims
    BY <1>0 DEF Lock, Go, Return, Mat, tensor, lazy, history, Typed, HistoryTyped
  <1>4. Typed'
    BY <1>0, <1>1, <1>2, <1>3 DEF Typed
  <1>5. Frame(t)
    BY <1>0 DEF Lock, Go, Return, Mat, tensor, lazy, history, Frame, Typed, MatsTyped, ThreadsTyped, HistoryTyped, CopyFirst, Making
  <1>6. Place(t)' /\ CopyFirst(t)'
    BY <1>0 DEF Lock, Go, Return, Mat, tensor, lazy, history, Place, CopyFirst, Typed, MatsTyped, ThreadsTyped, HistoryTyped, Making
  <1>7. Explained(t)'
    BY <1>0 DEF Lock, Go, Return, Mat, tensor, lazy, history, Place, CopyFirst, Explained, Reason, Kept, Typed, MatsTyped, ThreadsTyped, HistoryTyped, Making, Misused
  <1>8. ASSUME NEW k \in Mats PROVE Reason(k)' /\ Kept(k)'
    <2>1. Reason(k) /\ Kept(k)
      BY DEF IInv
    <2>2. Reason(k)'
      <3>1. /\ UNCHANGED <<variant, cache, used, hollow, failed>>
            /\ poisoned'[k] = poisoned[k] \/ (k = call[t].mat /\ (poisoned[k] \/ ~bytes[k]))
        BY <1>0 DEF Lock, Mat, lazy, history, Typed, MatsTyped
      <3>2. k = call[t].mat => variant[k] = "QTensor" /\ "cpu" \in used[k]
        BY <1>0 DEF Lock, Place
      <3>3. poisoned'[k] => Misused(k)
        BY <1>0, <2>1, <3>1, <3>2 DEF Reason, Kept, Misused, Typed, HistoryTyped
      <3>4. QED
        BY <2>1, <3>1, <3>3 DEF Reason, Misused
    <2>3. Kept(k)'
      BY <1>0, <2>1 DEF Lock, Go, Return, Mat, tensor, lazy, history, Kept, Place, CopyFirst, Making, Typed, MatsTyped, HistoryTyped
    <2>4. QED
      BY <2>2, <2>3
  <1>9. QED
    BY <1>4, <1>5, <1>6, <1>7, <1>8, StepIInv

LEMMA UnlockStep ==
  ASSUME IInv, NEW t \in Threads, Unlock(t)
  PROVE  IInv' /\ Frame(t)
  <1>0. /\ call[t].mat \in Mats /\ Place(t) /\ CopyFirst(t) /\ Explained(t)
        /\ Reason(call[t].mat) /\ Kept(call[t].mat) /\ Typed
    BY DEF IInv, Typed, ThreadsTyped, CallType
  <1>1. MatsTyped'
    BY <1>0 DEF Unlock, Go, Return, Mat, tensor, lazy, history, Typed, MatsTyped
  <1>2. ThreadsTyped'
    BY <1>0 DEF Unlock, Go, Return, Mat, tensor, lazy, history, Typed, ThreadsTyped, Labels
  <1>3. HistoryTyped' /\ dims' = dims
    BY <1>0 DEF Unlock, Go, Return, Mat, tensor, lazy, history, Typed, HistoryTyped
  <1>4. Typed'
    BY <1>0, <1>1, <1>2, <1>3 DEF Typed
  <1>5. Frame(t)
    BY <1>0 DEF Unlock, Go, Return, Mat, tensor, lazy, history, Frame, Typed, MatsTyped, ThreadsTyped, HistoryTyped, CopyFirst, Making
  <1>6. Place(t)' /\ CopyFirst(t)'
    BY <1>0 DEF Unlock, Go, Return, Mat, tensor, lazy, history, Place, CopyFirst, Typed, MatsTyped, ThreadsTyped, HistoryTyped, Making
  <1>7. Explained(t)'
    BY <1>0 DEF Unlock, Go, Return, Mat, tensor, lazy, history, Place, CopyFirst, Explained, Reason, Kept, Typed, MatsTyped, ThreadsTyped, HistoryTyped, Making, Misused
  <1>8. ASSUME NEW k \in Mats PROVE Reason(k)' /\ Kept(k)'
    <2>1. Reason(k) /\ Kept(k)
      BY DEF IInv
    <2>2. Reason(k)'
      BY <1>0, <2>1 DEF Unlock, Go, Return, Mat, tensor, lazy, history, Reason, Kept, Misused, Place, CopyFirst, Making, Typed, MatsTyped, HistoryTyped
    <2>3. Kept(k)'
      BY <1>0, <2>1 DEF Unlock, Go, Return, Mat, tensor, lazy, history, Kept, Place, CopyFirst, Making, Typed, MatsTyped, HistoryTyped
    <2>4. QED
      BY <2>2, <2>3
  <1>9. QED
    BY <1>4, <1>5, <1>6, <1>7, <1>8, StepIInv

LEMMA CloneStep ==
  ASSUME IInv, NEW t \in Threads, NEW m2 \in Mats, Clone(t, m2)
  PROVE  IInv' /\ Frame(t)
  <1>0. /\ call[t].mat \in Mats /\ Place(t) /\ CopyFirst(t) /\ Explained(t)
        /\ Reason(call[t].mat) /\ Kept(call[t].mat) /\ Typed
    BY DEF IInv, Typed, ThreadsTyped, CallType
  <1>1. MatsTyped'
    <2>1. variant[call[t].mat] \in {"none", "QTensor", "Tensor"} /\ bytes[call[t].mat] \in BOOLEAN
      BY <1>0 DEF Typed, MatsTyped
    <2>2. CASE UNCHANGED <<variant, bytes>>
      BY <1>0, <2>2 DEF Clone, lazy, Typed, MatsTyped
    <2>3. CASE /\ variant' = [variant EXCEPT ![m2] = variant[call[t].mat]]
               /\ bytes' = [bytes EXCEPT ![m2] = bytes[call[t].mat]]
      <3>1. variant' \in [Mats -> {"none", "QTensor", "Tensor"}]
        BY <1>0, <2>1, <2>3 DEF Typed, MatsTyped
      <3>2. bytes' \in [Mats -> BOOLEAN]
        BY <1>0, <2>1, <2>3 DEF Typed, MatsTyped
      <3>3. QED
        BY <1>0, <3>1, <3>2 DEF Clone, lazy, Typed, MatsTyped
    <2>4. QED
      BY <1>0, <2>2, <2>3 DEF Clone, Mat
  <1>2. ThreadsTyped'
    BY <1>0 DEF Clone, Return, Mat, Alive, tensor, lazy, Typed, ThreadsTyped, Labels
  <1>3. HistoryTyped' /\ dims' = dims
    BY <1>0 DEF Clone, Return, Mat, Alive, tensor, lazy, Typed, HistoryTyped
  <1>4. Typed'
    BY <1>0, <1>1, <1>2, <1>3 DEF Typed
  <1>5. Frame(t)
    BY <1>0 DEF Clone, Return, Mat, Alive, tensor, lazy, Frame, Typed, MatsTyped, ThreadsTyped, HistoryTyped, CopyFirst, Making
  <1>6. Place(t)' /\ CopyFirst(t)'
    BY <1>0 DEF Clone, Return, Mat, Alive, tensor, lazy, Place, CopyFirst, Typed, MatsTyped, ThreadsTyped, HistoryTyped, Making
  <1>7. Explained(t)'
    BY <1>0 DEF Clone, Return, Mat, Alive, tensor, lazy, Place, CopyFirst, Explained, Reason, Kept, Typed, MatsTyped, ThreadsTyped, HistoryTyped, Making, Misused
  <1>8. ASSUME NEW k \in Mats PROVE Reason(k)' /\ Kept(k)'
    <2>1. Reason(k) /\ Kept(k)
      BY DEF IInv
    <2>2. Reason(k)'
      BY <1>0, <2>1 DEF Clone, Return, Mat, Alive, tensor, lazy, Reason, Kept, Misused, Place, CopyFirst, Making, Typed, MatsTyped, HistoryTyped
    <2>3. Kept(k)'
      BY <1>0, <2>1 DEF Clone, Return, Mat, Alive, tensor, lazy, Kept, Place, CopyFirst, Making, Typed, MatsTyped, HistoryTyped
    <2>4. QED
      BY <2>2, <2>3
  <1>9. QED
    BY <1>4, <1>5, <1>6, <1>7, <1>8, StepIInv

LEMMA NextIInv == IInv /\ [Next]_vars => IInv'
  <1> SUFFICES ASSUME IInv, [Next]_vars PROVE IInv'
    OBVIOUS
  <1>1. CASE Next
    <2>1. PICK t \in Threads :
            \/ Step(t)
            \/ \E c \in Calls : Begin(t, c)
            \/ \E m \in Mats, v \in {"QTensor", "Tensor"} : FromArc(t, m, v)
      BY <1>1 DEF Next
    <2>2. CASE Step(t)
      BY <2>2, GetOrInitStep, InitLockStep, InitWeightsStep, DropBytesStep, UploadStep,
         MultiplyStep, LockStep, UnlockStep, CloneStep DEF Step
    <2>3. CASE \E c \in Calls : Begin(t, c)
      BY <2>3, BeginStep
    <2>4. CASE \E m \in Mats, v \in {"QTensor", "Tensor"} : FromArc(t, m, v)
      BY <2>4, FromArcStep
    <2>5. QED
      BY <2>1, <2>2, <2>3, <2>4
  <1>2. CASE UNCHANGED vars
    BY <1>2 DEF vars, tensor, mutex, lazy, threads, history, IInv, Typed, MatsTyped, ThreadsTyped,
                HistoryTyped, Place, CopyFirst, Explained, Reason, Kept, Misused
  <1>3. QED
    BY <1>1, <1>2

\* The bytes of a QTensor go only when the dense copy is there, whoever drops
\* them and however many threads raced for the copy (QMatMul::forward).
THEOREM NeverLost == Spec => []WeightsKept
  <1>1. IInv => WeightsKept
    BY DEF IInv, Kept, WeightsKept, Alive
  <1>2. QED
    BY <1>1, InitIInv, NextIInv, PTL DEF Spec

\* A call panics only after a failed upload, on a clone of a QMatMul without
\* bytes, or where a QMatMul was used on the CPU and on a device: no order of
\* calls and threads makes "QTensor already consumed" or a poisoned Mutex of a
\* QMatMul that is used on devices alone, or on the CPU alone.
THEOREM PanicsHaveReasons == Spec => []PanicsExplained
  <1>1. IInv => PanicsExplained
    BY DEF IInv, Explained, PanicsExplained, Mat
  <1>2. QED
    BY <1>1, InitIInv, NextIInv, PTL DEF Spec

-----------------------------------------------------------------------------
(* The weights that calls multiply with.                                   *)

\* w is the plain transpose of the weight.
Plain(w) == w.dims = <<dims[2], dims[1]>>

\* What a weight must be for an input with the leading dimensions b: it is read
\* by columns, and its matrices are k by n.
Fits(w, b) ==
  /\ w.reads = "columns" /\ Len(w.dims) = Len(b) + 2 /\ w.dims[Len(b) + 1] = dims[2]
  /\ SubSeq(w.dims, 1, Len(b)) = b

LEMMA FittingIsRight ==
  ASSUME NEW x, NEW w, x.batch \in Seq(Nat), Fits(w, x.batch), w.dev = x.dev
  PROVE  MatMul(x, w) = "right"
<1>1. Len(x.batch) \in Nat
  OBVIOUS
<1>2. /\ Len(w.dims) = Len(x.batch) + 2 /\ Len(w.dims) - 1 = Len(x.batch) + 1
      /\ Len(w.dims) - 2 = Len(x.batch)
  BY <1>1 DEF Fits
<1> QED BY <1>2 DEF MatMul, Fits

LEMMA ColumnsAreNotWrong ==
  ASSUME NEW x, NEW w, w.reads = "columns"
  PROVE  MatMul(x, w) \in {"right", "error"}
BY DEF MatMul

LEMMA DimsAre == Typed => dims \in Seq(Nat) /\ Len(dims) = 2 /\ dims[1] \in Nat /\ dims[2] \in Nat
<1> SUFFICES ASSUME Typed PROVE dims \in Seq(Nat) /\ Len(dims) = 2 /\ dims[1] \in Nat /\ dims[2] \in Nat
  OBVIOUS
<1>1. dims \in Seq(Nat) /\ Len(dims) = 2
  BY DEF Typed
<1>2. \A i \in 1 .. 2 : dims[i] \in Nat
  BY <1>1, LenProperties
<1> QED BY <1>1, <1>2

LEMMA ConcatTwo ==
  ASSUME NEW b \in Seq(Nat), NEW d \in Seq(Nat), Len(d) = 2
  PROVE  /\ b \o d \in Seq(Nat) /\ Len(b \o d) = Len(b) + 2 /\ Len(b) \in Nat
         /\ (b \o d)[Len(b) + 1] = d[1] /\ (b \o d)[Len(b) + 2] = d[2]
         /\ \A i \in 1 .. Len(b) : (b \o d)[i] = b[i]
<1>1. b \o d \in Seq(Nat) /\ Len(b \o d) = Len(b) + Len(d) /\ Len(b) \in Nat
  BY ConcatProperties, LenProperties
<1>2. \A i \in 1 .. Len(b) + Len(d) : (b \o d)[i] = IF i <= Len(b) THEN b[i] ELSE d[i - Len(b)]
  BY ConcatProperties
<1> QED BY <1>1, <1>2

LEMMA PrefixIs ==
  ASSUME NEW f \in Seq(Nat), NEW b \in Seq(Nat), Len(b) <= Len(f), \A i \in 1 .. Len(b) : f[i] = b[i]
  PROVE  SubSeq(f, 1, Len(b)) = b
<1> DEFINE s == SubSeq(f, 1, Len(b))
<1>1. s \in Seq(Nat) /\ Len(s) = Len(b) /\ \A i \in 1 .. Len(b) : s[i] = f[i]
  OBVIOUS
<1> HIDE DEF s
<1>2. s = b
  BY <1>1, SeqEqual
<1> QED BY <1>2 DEF s

LEMMA SeqTwo ==
  ASSUME NEW f \in Seq(Nat), Len(f) = 2, NEW x \in Nat, NEW y \in Nat, f[1] = x, f[2] = y
  PROVE  f = <<x, y>>
OBVIOUS

\* w.t() of the weights in any number of copies.
LEMMA TransposeIs ==
  ASSUME Typed, NEW dev \in Devices, NEW b \in Seq(Nat), NEW w,
         w = [dev |-> dev, dims |-> b \o dims, reads |-> "rows"]
  PROVE  T(w) \in Weights /\ T(w).dev = dev /\ Fits(T(w), b) /\ (b = <<>> => Plain(T(w)))
<1>1. dims \in Seq(Nat) /\ Len(dims) = 2 /\ dims[1] \in Nat /\ dims[2] \in Nat
  BY DimsAre
<1> DEFINE d == b \o dims
           r == Len(b) + 2
           swap(i) == IF i = r THEN r - 1 ELSE IF i = r - 1 THEN r ELSE i
           f == [i \in 1 .. r |-> d[swap(i)]]
<1>2. /\ d \in Seq(Nat) /\ Len(d) = r /\ Len(b) \in Nat
      /\ d[Len(b) + 1] = dims[1] /\ d[Len(b) + 2] = dims[2]
      /\ \A i \in 1 .. Len(b) : d[i] = b[i]
  BY <1>1, ConcatTwo
<1>3. T(w) = [dev |-> dev, dims |-> f, reads |-> "columns"]
  <2>1. Len(w.dims) = r /\ w.dims = d /\ w.reads = "rows" /\ w.dev = dev
    BY <1>2
  <2> HIDE DEF d, r
  <2> QED BY <2>1, Zenon DEF T
<1> HIDE DEF d
<1>4. \A i \in 1 .. r : swap(i) \in 1 .. r
  BY <1>2
<1>5. /\ swap(Len(b) + 1) = Len(b) + 2 /\ swap(Len(b) + 2) = Len(b) + 1
      /\ \A i \in 1 .. Len(b) : swap(i) = i
      /\ r \in Nat /\ Len(b) + 1 \in 1 .. r /\ Len(b) + 2 \in 1 .. r /\ 1 .. Len(b) \subseteq 1 .. r
  BY <1>2
<1>6. \A i \in 1 .. r : d[i] \in Nat
  BY <1>2
<1> HIDE DEF r, swap
<1>7. f \in Seq(Nat) /\ Len(f) = r
  BY <1>4, <1>5, <1>6
<1>8. f[Len(b) + 1] = dims[2] /\ f[Len(b) + 2] = dims[1] /\ \A i \in 1 .. Len(b) : f[i] = b[i]
  BY <1>2, <1>5
<1> HIDE DEF f
<1>9. Len(f) = Len(b) + 2 /\ Len(b) <= Len(f) /\ Len(b) \in Nat
  BY <1>2, <1>7 DEF r
<1>10. SubSeq(f, 1, Len(b)) = b
  BY <1>7, <1>8, <1>9, PrefixIs
<1>11. b = <<>> => f = <<dims[2], dims[1]>>
  <2> SUFFICES ASSUME b = <<>> PROVE f = <<dims[2], dims[1]>>
    OBVIOUS
  <2>1. Len(f) = 2 /\ f[1] = dims[2] /\ f[2] = dims[1]
    BY <1>8, <1>9
  <2> QED BY <1>1, <1>7, <2>1, SeqTwo
<1>12. T(w).dims = f /\ T(w).dev = dev /\ T(w).reads = "columns" /\ T(w) \in Weights
  BY <1>3, <1>7 DEF Weights
<1> QED BY <1>8, <1>9, <1>10, <1>11, <1>12 DEF Fits, Plain

LEMMA ShortBatch ==
  ASSUME NEW b \in Seq(Nat)
  PROVE  /\ Len(b) \notin {1, 2} /\ Len(b) <= 2 => b = <<>>
         /\ b # <<>> /\ Len(b) <= 2 => Len(b) \in {1, 2}
<1>1. Len(b) \in Nat /\ (b # <<>> => Len(b) \in Nat \ {0})
  BY EmptySeq, LenProperties
<1> DEFINE n == Len(b)
<1>2. n \in Nat /\ (n = 0 => b = <<>>) /\ (b = <<>> => n = 0)
  BY <1>1
<1> HIDE DEF n
<1>3. /\ n \notin {1, 2} /\ n <= 2 => b = <<>>
      /\ b # <<>> /\ n <= 2 => n \in {1, 2}
  BY <1>2
<1> QED BY <1>3 DEF n

LEMMA BroadcastIs ==
  ASSUME Typed, NEW dev \in Devices, NEW b \in Seq(Nat)
  PROVE  /\ T(BroadcastLeft(Dense(dev), b)) \in Weights /\ T(BroadcastLeft(Dense(dev), b)).dev = dev
         /\ T(BroadcastLeft(Dense(dev), b)).reads = "columns"
         /\ Len(b) <= 2 => Fits(T(BroadcastLeft(Dense(dev), b)), b)
<1> DEFINE x == BroadcastLeft(Dense(dev), b)
<1>1. dims \in Seq(Nat) /\ <<>> \in Seq(Nat) /\ <<>> \o dims = dims
  BY DimsAre
<1>2. CASE Len(b) \in {1, 2}
  <2>1. x = [Dense(dev) EXCEPT !.dims = b \o @]
    BY <1>2 DEF BroadcastLeft
  <2>2. x = [dev |-> dev, dims |-> b \o dims, reads |-> "rows"]
    BY <2>1 DEF Dense
  <2> HIDE DEF x
  <2>3. T(x) \in Weights /\ T(x).dev = dev /\ Fits(T(x), b)
    BY <2>2, TransposeIs
  <2> QED BY <2>3 DEF Fits, x
<1>3. CASE Len(b) \notin {1, 2}
  <2>1. x = [Dense(dev) EXCEPT !.dims = dims]
    BY <1>3 DEF BroadcastLeft, Dense
  <2>2. x = [dev |-> dev, dims |-> <<>> \o dims, reads |-> "rows"]
    BY <1>1, <2>1 DEF Dense
  <2> HIDE DEF x
  <2>3. T(x) \in Weights /\ T(x).dev = dev /\ Fits(T(x), <<>>)
    BY <1>1, <2>2, TransposeIs
  <2>4. Len(b) <= 2 => b = <<>>
    BY <1>3, ShortBatch
  <2> QED BY <2>3, <2>4 DEF Fits, x
<1> QED BY <1>2, <1>3

\* The copy of a QTensor fits every input of at most two leading dimensions.
LEMMA CopyFits ==
  ASSUME Typed, NEW w \in Weights, w.reads = "columns", w.dims = <<dims[2], dims[1]>>,
         NEW b \in Seq(Nat), Len(b) <= 2
  PROVE  Fits(BroadcastLeft(w, b), b) /\ BroadcastLeft(w, b).dev = w.dev
<1> DEFINE d == <<dims[2], dims[1]>>
           e == b \o d
<1>1. d \in Seq(Nat) /\ Len(d) = 2 /\ d[1] = dims[2]
  BY DimsAre
<1> HIDE DEF d
<1>2. /\ e \in Seq(Nat) /\ Len(e) = Len(b) + 2 /\ Len(b) \in Nat /\ e[Len(b) + 1] = dims[2]
      /\ \A i \in 1 .. Len(b) : e[i] = b[i]
  BY <1>1, ConcatTwo
<1>3. BroadcastLeft(w, b) = [w EXCEPT !.dims = e]
  <2>1. CASE b = <<>>
    <3>1. e = w.dims
      BY <1>1, <2>1 DEF d
    <3>2. Len(b) \notin {1, 2}
      BY <2>1
    <3> HIDE DEF e
    <3> QED BY <3>1, <3>2 DEF BroadcastLeft, Weights
  <2>2. CASE b # <<>>
    <3>1. Len(b) \in {1, 2}
      BY <2>2, ShortBatch
    <3> QED BY <3>1 DEF BroadcastLeft, d
  <2> QED BY <2>1, <2>2
<1> HIDE DEF e
<1>4. SubSeq(e, 1, Len(b)) = b
  <2>1. Len(b) <= Len(e)
    BY <1>2
  <2> QED BY <1>2, <2>1, PrefixIs
<1>5. /\ BroadcastLeft(w, b).dims = e /\ BroadcastLeft(w, b).reads = "columns"
      /\ BroadcastLeft(w, b).dev = w.dev
  BY <1>3 DEF Weights
<1> QED BY <1>2, <1>4, <1>5 DEF Fits

\* A flat weight fits none.
LEMMA FlatFails ==
  ASSUME NEW w \in Weights, Len(w.dims) = 1, NEW x, x.batch \in Seq(Nat)
  PROVE  MatMul(x, BroadcastLeft(w, x.batch)) = "error"
<1> DEFINE b == x.batch
           d == w.dims
<1>1. BroadcastLeft(w, b).dims = IF Len(b) \in {1, 2} THEN b \o d ELSE d
  BY DEF BroadcastLeft, Weights
<1>2. d \in Seq(Nat) /\ b \in Seq(Nat) /\ Len(d) = 1
  BY DEF Weights
<1> HIDE DEF b, d
<1>3. Len(b \o d) = Len(b) + 1 /\ Len(b) \in Nat
  <2>1. Len(b \o d) = Len(b) + Len(d) /\ Len(b) \in Nat
    BY <1>2, ConcatProperties, LenProperties
  <2> QED BY <1>2, <2>1
<1>4. Len(BroadcastLeft(w, b).dims) # Len(b) + 2
  BY <1>1, <1>2, <1>3
<1> QED BY <1>4 DEF MatMul, b

-----------------------------------------------------------------------------
(* What calls answer.                                                      *)

\* The copy is read by columns, or it was left flat by the kernel; that of a
\* QTensor has no leading dimensions.
CacheRight(m) ==
  cache[m] # NoWeight =>
    /\ cache[m] \in Weights /\ variant[m] # "none"
    /\ variant[m] = "QTensor" =>
         \/ cache[m].reads = "columns" /\ cache[m].dims = <<dims[2], dims[1]>>
         \/ cache[m].reads = "flat" /\ Len(cache[m].dims) = 1
    /\ variant[m] = "Tensor" => cache[m].reads = "columns"

\* A forward on a device goes by the copy, the other calls do not.
ByCopy(c) == c.op = "forward" /\ c.dev # Cpu /\ (variant[c.mat] = "QTensor" \/ home = Cpu)

Way(t) ==
  LET c == call[t]
  IN  /\ pc[t] \in {"init", "locking", "weights", "drop", "upload"} => ByCopy(c)
      /\ pc[t] \in {"lock", "locked"} /\ c.op = "forward" => c.dev = Cpu
      /\ pc[t] = "product" /\ c.op = "forward" /\ variant[c.mat] = "QTensor" => c.dev # Cpu
      /\ pc[t] = "product" /\ ByCopy(c) => cache[c.mat] # NoWeight

Answered(t) ==
  LET c == call[t]
  IN  /\ answer[t] # "wrong"
      /\ answer[t] # "none" => variant[c.mat] # "none"
      /\ answer[t] = "error" /\ variant[c.mat] = "QTensor" /\ Len(c.batch) <= 2 =>
           IF c.op = "forward" /\ c.dev # Cpu
           THEN cache[c.mat] # NoWeight /\ (cache[c.mat].reads = "flat" \/ cache[c.mat].dev # c.dev)
           ELSE c.dev # Cpu \/ home # Cpu

AInv ==
  /\ home \in Devices
  /\ \A t \in Threads : Way(t) /\ Answered(t)
  /\ \A m \in Mats : CacheRight(m)

LEMMA InitAInv == Init => AInv
  BY QuantAssumption DEF Init, AInv, Way, Answered, CacheRight, Devices

\* What holds of a thread that does not move goes on to hold.
LEMMA WayStays ==
  ASSUME IInv, NEW t \in Threads, Frame(t), home' = home, NEW u \in Threads,
         pc'[u] = pc[u], call'[u] = call[u], answer'[u] = answer[u],
         Way(u), Answered(u)
  PROVE  Way(u)' /\ Answered(u)'
<1> DEFINE m == call[u].mat
<1>1. m \in Mats /\ pc[u] \in Labels
  BY DEF IInv, Typed, ThreadsTyped, CallType
<1>2. /\ variant[m] # "none" => variant'[m] = variant[m]
      /\ cache[m] # NoWeight => cache'[m] = cache[m]
  BY <1>1 DEF Frame
<1>3. pc[u] # "idle" => variant[m] # "none"
  BY DEF IInv, Place
<1>4. Way(u)'
  BY <1>1, <1>2, <1>3 DEF Way, ByCopy, Labels
<1>5. Answered(u)'
  BY <1>2 DEF Answered
<1> QED BY <1>4, <1>5

\* So a step keeps AInv if it does for the thread that moves and for the mats.
LEMMA StepAInv ==
  ASSUME IInv, AInv, NEW t \in Threads, Frame(t), home' = home,
         (Way(t)' /\ Answered(t)') \/ UNCHANGED <<pc[t], call[t], answer[t]>>,
         \A m \in Mats : CacheRight(m)'
  PROVE  AInv'
<1>1. ASSUME NEW u \in Threads PROVE Way(u)' /\ Answered(u)'
  <2>1. CASE u # t
    <3>1. pc'[u] = pc[u] /\ call'[u] = call[u] /\ answer'[u] = answer[u]
      BY <2>1 DEF Frame
    <3> QED BY <3>1, WayStays DEF AInv
  <2>2. CASE u = t
    BY <2>2, WayStays DEF AInv
  <2> QED BY <2>1, <2>2
<1> QED BY <1>1 DEF AInv

\* A mat whose variant and copy stay.
LEMMA CacheStays ==
  ASSUME NEW m \in Mats, CacheRight(m), dims' = dims, cache'[m] = cache[m],
         variant'[m] = variant[m] \/ variant[m] = "none"
  PROVE  CacheRight(m)'
BY DEF CacheRight

\* A batch of the instance is a sequence of sizes.
LEMMA BatchIsSeq == \A b \in Batches \cup {<<>>} : b \in Seq(Nat)
<1>1. <<>> \in Seq(Nat)
  BY EmptySeq
<1>2. \A b \in Batches : b \in Seq(Nat)
  BY QuantAssumption
<1> QED BY <1>1, <1>2, Zenon

\* What a product gives.
LEMMA ProductAnswer ==
  ASSUME IInv, AInv, NEW t \in Threads, pc[t] = "product", call[t].op # "dequantize_f16"
  PROVE  LET c == call[t]
             got == MatMul(c, Weight(t))
         IN  /\ got \in {"right", "error"}
             /\ got = "error" /\ variant[c.mat] = "QTensor" /\ Len(c.batch) <= 2 =>
                  IF c.op = "forward" /\ c.dev # Cpu
                  THEN cache[c.mat] # NoWeight /\ (cache[c.mat].reads = "flat" \/ cache[c.mat].dev # c.dev)
                  ELSE c.dev # Cpu \/ home # Cpu
<1> DEFINE c == call[t]
           w == cache[c.mat]
           b == c.batch
<1>1. /\ c.mat \in Mats /\ Typed /\ home \in Devices /\ Cpu \in Devices /\ Way(t) /\ CacheRight(c.mat)
      /\ b \in Seq(Nat) /\ variant[c.mat] \in {"QTensor", "Tensor"}
  <2>1. b \in Seq(Nat)
    <3>1. b \in Batches \cup {<<>>}
      BY DEF IInv, Typed, ThreadsTyped, CallType
    <3> QED BY <3>1, BatchIsSeq
  <2> QED BY <2>1 DEF IInv, AInv, Typed, ThreadsTyped, MatsTyped, CallType, Devices, Place
<1>2. CASE c.op = "forward" /\ variant[c.mat] = "QTensor"
  <2>1. c.dev # Cpu /\ w # NoWeight /\ w \in Weights
    BY <1>1, <1>2 DEF Way, ByCopy, CacheRight
  <2>2. Weight(t) = BroadcastLeft(w, b)
    BY <1>2 DEF Weight
  <2>3. CASE w.reads = "flat" /\ Len(w.dims) = 1
    <3>1. MatMul(c, Weight(t)) = "error"
      BY <1>1, <2>1, <2>2, <2>3, FlatFails
    <3> QED BY <1>2, <2>1, <2>3, <3>1
  <2>4. CASE w.reads = "columns" /\ w.dims = <<dims[2], dims[1]>>
    <3>1. BroadcastLeft(w, b).reads = "columns"
      BY <2>1, <2>4 DEF BroadcastLeft, Weights
    <3>2. MatMul(c, Weight(t)) \in {"right", "error"}
      BY <2>2, <3>1, ColumnsAreNotWrong
    <3>3. ASSUME Len(b) <= 2, w.dev = c.dev PROVE MatMul(c, Weight(t)) = "right"
      <4>1. Fits(BroadcastLeft(w, b), b) /\ BroadcastLeft(w, b).dev = c.dev
        BY <1>1, <2>1, <2>4, <3>3, CopyFits
      <4> QED BY <1>1, <2>2, <4>1, FittingIsRight
    <3> QED BY <1>2, <2>1, <3>2, <3>3
  <2> QED BY <1>1, <1>2, <2>1, <2>3, <2>4 DEF CacheRight
<1>3. CASE c.op = "forward" /\ c.dev # Cpu /\ home = Cpu /\ variant[c.mat] = "Tensor"
  <2>1. Weight(t) = w /\ w.reads = "columns"
    BY <1>1, <1>3 DEF Weight, Way, ByCopy, CacheRight
  <2> QED BY <1>3, <2>1, ColumnsAreNotWrong
<1>4. CASE ~(c.op = "forward" /\ variant[c.mat] = "QTensor") /\ ~(c.op = "forward" /\ c.dev # Cpu /\ home = Cpu)
  <2> DEFINE dev == IF variant[c.mat] = "QTensor" THEN Cpu ELSE home
             x == T(BroadcastLeft(Dense(dev), b))
  <2>1. Weight(t) = x
    BY <1>4 DEF Weight
  <2>2. dev \in Devices
    BY <1>1
  <2>3. x.reads = "columns" /\ x.dev = dev /\ (Len(b) <= 2 => Fits(x, b))
    <3> HIDE DEF dev
    <3> QED BY <1>1, <2>2, BroadcastIs
  <2> HIDE DEF x
  <2>4. MatMul(c, x) \in {"right", "error"}
    BY <2>3, ColumnsAreNotWrong
  <2>5. ASSUME Len(b) <= 2, variant[c.mat] = "QTensor", c.dev = Cpu
        PROVE  MatMul(c, x) = "right"
    BY <1>1, <2>3, <2>5, FittingIsRight
  <2> QED BY <1>4, <2>1, <2>4, <2>5
<1> QED BY <1>1, <1>2, <1>3, <1>4


LEMMA FromArcAnswer ==
  ASSUME IInv, AInv, NEW t \in Threads, NEW m \in Mats, NEW v \in {"QTensor", "Tensor"}, FromArc(t, m, v), Frame(t)
  PROVE  AInv'
<1>1. UNCHANGED <<dims, home, cache, pc, call, answer>>
  BY DEF FromArc, tensor, lazy, threads
<1>2. \A k \in Mats : variant'[k] = variant[k] \/ variant[k] = "none"
  BY DEF FromArc, Alive, IInv, Typed, MatsTyped
<1>3. ASSUME NEW k \in Mats PROVE CacheRight(k)'
  <2>1. CacheRight(k)
    BY DEF AInv
  <2> QED BY <1>1, <1>2, <2>1, CacheStays
<1> QED BY <1>1, <1>3, StepAInv

LEMMA BeginAnswer ==
  ASSUME IInv, AInv, NEW t \in Threads, NEW c \in Calls, Begin(t, c), Frame(t)
  PROVE  AInv'
<1>1. UNCHANGED <<dims, home, cache, variant>>
  BY DEF Begin, tensor, lazy
<1>2. pc'[t] = Entry(c) /\ call'[t] = c /\ answer'[t] = "none"
  BY DEF Begin, IInv, Typed, ThreadsTyped
<1>3. ASSUME NEW k \in Mats PROVE CacheRight(k)'
  BY <1>1, CacheStays DEF AInv
<1>4. c.mat \in Mats /\ variant[c.mat] \in {"QTensor", "Tensor"}
  BY DEF Begin, Calls, Alive, IInv, Typed, MatsTyped
<1>5. /\ Entry(c) \in {"init", "lock", "product"}
      /\ Entry(c) = "init" => ByCopy(c)
      /\ Entry(c) = "lock" /\ c.op = "forward" => c.dev = Cpu
      /\ Entry(c) = "product" => ~ByCopy(c) /\ variant[c.mat] = "Tensor"
  BY <1>4 DEF Entry, ByCopy
<1>6. Way(t)' /\ Answered(t)'
  BY <1>1, <1>2, <1>5 DEF Way, ByCopy, Answered
<1> QED BY <1>1, <1>3, <1>6, StepAInv

LEMMA GetOrInitAnswer ==
  ASSUME IInv, AInv, NEW t \in Threads, GetOrInit(t), Frame(t)
  PROVE  AInv'
<1>1. UNCHANGED <<dims, home, cache, variant, call, answer>>
  BY DEF GetOrInit, Go, tensor
<1>2. ASSUME NEW k \in Mats PROVE CacheRight(k)'
  BY <1>1, CacheStays DEF AInv
<1>3. /\ pc[t] = "init" /\ variant[call[t].mat] \in {"QTensor", "Tensor"}
      /\ \/ cache[call[t].mat] # NoWeight /\ pc'[t] \in {"drop", "product"}
         \/ pc'[t] \in {"locking", "upload"}
  BY DEF GetOrInit, Go, Mat, IInv, Typed, ThreadsTyped, MatsTyped, Place, CallType
<1>4. Way(t)' /\ Answered(t)'
  BY <1>1, <1>3 DEF AInv, Way, ByCopy, Answered
<1> QED BY <1>1, <1>2, <1>4, StepAInv

LEMMA InitLockAnswer ==
  ASSUME IInv, AInv, NEW t \in Threads, InitLock(t), Frame(t)
  PROVE  AInv'
<1>1. UNCHANGED <<dims, home, cache, variant, call>>
  BY DEF InitLock, Go, Return, tensor
<1>2. ASSUME NEW k \in Mats PROVE CacheRight(k)'
  BY <1>1, CacheStays DEF AInv
<1>3. /\ pc[t] = "locking"
      /\ \/ pc'[t] = "weights" /\ answer'[t] = answer[t]
         \/ pc'[t] = "idle" /\ answer'[t] = "panic"
  BY DEF InitLock, Go, Return, Mat, IInv, Typed, ThreadsTyped
<1>4. Way(t)' /\ Answered(t)'
  BY <1>1, <1>3 DEF AInv, Way, ByCopy, Answered, IInv, Place
<1> QED BY <1>1, <1>2, <1>4, StepAInv

LEMMA InitWeightsAnswer ==
  ASSUME IInv, AInv, NEW t \in Threads, InitWeights(t), Frame(t)
  PROVE  AInv'
<1> DEFINE m == call[t].mat
           dev == call[t].dev
           flat == [dev |-> dev, dims |-> <<dims[1] * dims[2]>>, reads |-> "flat"]
           wide == T(Dense(dev))
<1>0. m \in Mats /\ dev \in Devices /\ Typed /\ variant[m] = "QTensor" /\ pc[t] = "weights"
  BY DEF InitWeights, IInv, Typed, ThreadsTyped, CallType, Place
<1>1. UNCHANGED <<dims, home, variant, call>>
  BY DEF InitWeights, Go, Return, tensor
<1>2. flat \in Weights /\ flat.reads = "flat" /\ Len(flat.dims) = 1
  <2>1. dims[1] * dims[2] \in Nat
    BY <1>0, DimsAre
  <2> QED BY <1>0, <2>1 DEF Weights
<1>3. wide \in Weights /\ wide.reads = "columns" /\ wide.dims = <<dims[2], dims[1]>>
  <2>1. dims \in Seq(Nat) /\ <<>> \o dims = dims
    BY <1>0, DimsAre
  <2>2. Dense(dev) = [dev |-> dev, dims |-> <<>> \o dims, reads |-> "rows"]
    BY <2>1 DEF Dense
  <2>3. <<>> \in Seq(Nat)
    BY EmptySeq
  <2> DEFINE x == Dense(dev)
  <2> HIDE DEF x
  <2>4. x = [dev |-> dev, dims |-> <<>> \o dims, reads |-> "rows"]
    BY <2>2 DEF x
  <2> HIDE DEF dev
  <2>5. T(x) \in Weights /\ Fits(T(x), <<>>)
    BY <1>0, <2>3, <2>4, TransposeIs
  <2>6. Plain(T(x))
    BY <1>0, <2>3, <2>4, TransposeIs
  <2> QED BY <2>5, <2>6, Zenon DEF Fits, Plain, x
<1> HIDE DEF flat, wide
<1>4. \/ \E w \in {flat, wide} : cache' = [cache EXCEPT ![m] = w] /\ pc'[t] = "drop" /\ answer'[t] = answer[t]
      \/ cache' = cache /\ pc'[t] = "idle" /\ answer'[t] = "panic"
  BY DEF InitWeights, DequantToGpu, DequantOnCpu, Go, Return, Mat, IInv, Typed, ThreadsTyped, flat, wide
<1>5. ASSUME NEW k \in Mats PROVE CacheRight(k)'
  <2>1. CASE cache'[k] = cache[k]
    BY <1>1, <2>1, CacheStays DEF AInv
  <2>2. CASE k = m /\ (cache'[k] = flat \/ cache'[k] = wide)
    BY <1>0, <1>1, <1>2, <1>3, <2>2 DEF CacheRight
  <2> QED BY <1>0, <1>4, <2>1, <2>2 DEF Typed, MatsTyped
<1>6. cache[m] # NoWeight => cache'[m] = cache[m]
  BY <1>0 DEF Frame
<1>7. Way(t)' /\ Answered(t)'
  BY <1>0, <1>1, <1>4, <1>6 DEF AInv, Way, ByCopy, Answered
<1> QED BY <1>1, <1>5, <1>7, StepAInv

LEMMA DropBytesAnswer ==
  ASSUME IInv, AInv, NEW t \in Threads, DropBytes(t), Frame(t)
  PROVE  AInv'
<1>1. UNCHANGED <<dims, home, cache, variant, call>>
  BY DEF DropBytes, Go, Return, tensor, lazy
<1>2. ASSUME NEW k \in Mats PROVE CacheRight(k)'
  BY <1>1, CacheStays DEF AInv
<1>3. /\ pc[t] = "drop" /\ cache[call[t].mat] # NoWeight /\ variant[call[t].mat] # "none"
      /\ \/ pc'[t] = "product" /\ answer'[t] = answer[t]
         \/ pc'[t] = "idle" /\ answer'[t] = "panic"
  BY DEF DropBytes, Go, Return, Mat, IInv, Typed, ThreadsTyped, CopyFirst, Place
<1>4. Way(t)' /\ Answered(t)'
  BY <1>1, <1>3 DEF AInv, Way, ByCopy, Answered
<1> QED BY <1>1, <1>2, <1>4, StepAInv

LEMMA UploadAnswer ==
  ASSUME IInv, AInv, NEW t \in Threads, Upload(t), Frame(t)
  PROVE  AInv'
<1> DEFINE m == call[t].mat
           w == T(BroadcastLeft(Dense(call[t].dev), call[t].batch))
<1>0. m \in Mats /\ call[t].dev \in Devices /\ Typed /\ variant[m] = "Tensor" /\ pc[t] = "upload"
      /\ call[t].batch \in Batches \cup {<<>>}
  BY DEF Upload, IInv, Typed, ThreadsTyped, CallType, Place
<1>1. UNCHANGED <<dims, home, variant, call>>
  BY DEF Upload, Go, Return, tensor
<1>2. w \in Weights /\ w.reads = "columns"
  <2>1. call[t].batch \in Seq(Nat)
    BY <1>0, BatchIsSeq
  <2> QED BY <1>0, <2>1, BroadcastIs
<1> HIDE DEF w
<1>3. \/ cache' = [cache EXCEPT ![m] = w] /\ pc'[t] = "product" /\ answer'[t] = answer[t]
      \/ cache' = cache /\ pc'[t] = "idle" /\ answer'[t] = "panic"
  BY DEF Upload, Go, Return, Mat, IInv, Typed, ThreadsTyped, w
<1>4. ASSUME NEW k \in Mats PROVE CacheRight(k)'
  <2>1. CASE cache'[k] = cache[k]
    BY <1>1, <2>1, CacheStays DEF AInv
  <2>2. CASE k = m /\ cache'[k] = w
    BY <1>0, <1>1, <1>2, <2>2 DEF CacheRight
  <2> QED BY <1>0, <1>3, <2>1, <2>2 DEF Typed, MatsTyped
<1>5. cache[m] # NoWeight => cache'[m] = cache[m]
  BY <1>0 DEF Frame
<1>6. w # NoWeight
  BY <1>2, QuantAssumption
<1>7. Way(t)' /\ Answered(t)'
  <2>1. CASE cache' = [cache EXCEPT ![m] = w] /\ pc'[t] = "product" /\ answer'[t] = answer[t]
    <3>1. cache'[m] = w
      BY <1>0, <2>1 DEF Typed, MatsTyped
    <3> QED BY <1>0, <1>1, <1>5, <1>6, <2>1, <3>1 DEF AInv, Way, ByCopy, Answered
  <2>2. CASE cache' = cache /\ pc'[t] = "idle" /\ answer'[t] = "panic"
    BY <1>0, <1>1, <2>2 DEF Way, ByCopy, Answered
  <2> QED BY <1>3, <2>1, <2>2
<1> QED BY <1>1, <1>4, <1>7, StepAInv

LEMMA MultiplyAnswer ==
  ASSUME IInv, AInv, NEW t \in Threads, Multiply(t), Frame(t)
  PROVE  AInv'
<1> DEFINE c == call[t]
           got == MatMul(c, Weight(t))
<1>1. UNCHANGED <<dims, home, cache, variant, call>> /\ pc[t] = "product" /\ pc'[t] = "idle"
  BY DEF Multiply, Return, tensor, mutex, lazy, IInv, Typed, ThreadsTyped
<1>2. ASSUME NEW k \in Mats PROVE CacheRight(k)'
  BY <1>1, CacheStays DEF AInv
<1>3. answer'[t] = IF c.op = "dequantize_f16" THEN "done" ELSE got
  BY DEF Multiply, Return, IInv, Typed, ThreadsTyped
<1>4. variant[c.mat] # "none"
  BY <1>1 DEF IInv, Place
<1>5. c.op # "dequantize_f16" =>
        /\ got \in {"right", "error"}
        /\ got = "error" /\ variant[c.mat] = "QTensor" /\ Len(c.batch) <= 2 =>
             IF c.op = "forward" /\ c.dev # Cpu
             THEN cache[c.mat] # NoWeight /\ (cache[c.mat].reads = "flat" \/ cache[c.mat].dev # c.dev)
             ELSE c.dev # Cpu \/ home # Cpu
  BY <1>1, ProductAnswer
<1> HIDE DEF got
<1>6. Way(t)' /\ Answered(t)'
  BY <1>1, <1>3, <1>4, <1>5 DEF Way, ByCopy, Answered
<1> QED BY <1>1, <1>2, <1>6, StepAInv

LEMMA LockAnswer ==
  ASSUME IInv, AInv, NEW t \in Threads, Lock(t) \/ Unlock(t), Frame(t)
  PROVE  AInv'
<1>1. UNCHANGED <<dims, home, cache, variant, call>>
  BY DEF Lock, Unlock, Go, Return, tensor, lazy
<1>2. ASSUME NEW k \in Mats PROVE CacheRight(k)'
  BY <1>1, CacheStays DEF AInv
<1>3. variant[call[t].mat] # "none" /\ Way(t) /\ Answered(t)
  BY DEF Lock, Unlock, IInv, AInv, Place
<1>4. CASE Lock(t)
  <2>1. /\ pc[t] = "lock"
        /\ \/ pc'[t] = "locked" /\ answer'[t] = answer[t]
           \/ pc'[t] = "idle" /\ answer'[t] = "panic"
    BY <1>4 DEF Lock, Go, Return, Mat, IInv, Typed, ThreadsTyped
  <2>2. Way(t)' /\ Answered(t)'
    BY <1>1, <1>3, <2>1 DEF Way, ByCopy, Answered
  <2> QED BY <1>1, <1>2, <2>2, StepAInv
<1>5. CASE Unlock(t)
  <2>1. /\ pc[t] = "locked"
        /\ IF call[t].op = "forward"
           THEN pc'[t] = "idle" /\ answer'[t] = IF home # Cpu THEN "error" ELSE "right"
           ELSE pc'[t] = "product" /\ answer'[t] = answer[t]
    BY <1>5 DEF Unlock, Go, Return, Mat, IInv, Typed, ThreadsTyped
  <2>2. Way(t)' /\ Answered(t)'
    BY <1>1, <1>3, <2>1 DEF Way, ByCopy, Answered
  <2> QED BY <1>1, <1>2, <2>2, StepAInv
<1> QED BY <1>4, <1>5

LEMMA CloneAnswer ==
  ASSUME IInv, AInv, NEW t \in Threads, NEW m2 \in Mats, Clone(t, m2), Frame(t)
  PROVE  AInv'
<1>1. UNCHANGED <<dims, home, cache, call>> /\ pc[t] = "lock"
  BY DEF Clone, Return, tensor, lazy
<1>2. \A k \in Mats : variant'[k] = variant[k] \/ variant[k] = "none"
  BY DEF Clone, Alive, IInv, Typed, MatsTyped
<1>3. ASSUME NEW k \in Mats PROVE CacheRight(k)'
  <2>1. CacheRight(k)
    BY DEF AInv
  <2> QED BY <1>1, <1>2, <2>1, CacheStays
<1>4. pc'[t] = "idle" /\ answer'[t] \in {"panic", "done"}
  BY DEF Clone, Return, IInv, Typed, ThreadsTyped
<1>5. variant[call[t].mat] # "none" /\ call[t].mat \in Mats
  BY <1>1 DEF IInv, Place, Typed, ThreadsTyped, CallType
<1>6. variant'[call[t].mat] # "none"
  BY <1>5 DEF Frame
<1>7. Way(t)' /\ Answered(t)'
  BY <1>1, <1>4, <1>6 DEF Way, ByCopy, Answered
<1> QED BY <1>1, <1>3, <1>7, StepAInv

LEMMA NextAInv == IInv /\ AInv /\ [Next]_vars => AInv'
<1> SUFFICES ASSUME IInv, AInv, [Next]_vars PROVE AInv'
  OBVIOUS
<1>1. CASE Next
  <2>1. PICK t \in Threads :
          \/ Step(t)
          \/ \E c \in Calls : Begin(t, c)
          \/ \E m \in Mats, v \in {"QTensor", "Tensor"} : FromArc(t, m, v)
    BY <1>1 DEF Next
  <2>2. CASE Step(t)
    <3>1. CASE GetOrInit(t)
      BY <3>1, GetOrInitStep, GetOrInitAnswer
    <3>2. CASE InitLock(t)
      BY <3>2, InitLockStep, InitLockAnswer
    <3>3. CASE InitWeights(t)
      BY <3>3, InitWeightsStep, InitWeightsAnswer
    <3>4. CASE DropBytes(t)
      BY <3>4, DropBytesStep, DropBytesAnswer
    <3>5. CASE Upload(t)
      BY <3>5, UploadStep, UploadAnswer
    <3>6. CASE Multiply(t)
      BY <3>6, MultiplyStep, MultiplyAnswer
    <3>7. CASE Lock(t)
      BY <3>7, LockStep, LockAnswer
    <3>8. CASE Unlock(t)
      BY <3>8, UnlockStep, LockAnswer
    <3>9. ASSUME NEW m2 \in Mats, Clone(t, m2) PROVE AInv'
      BY <3>9, CloneStep, CloneAnswer
    <3> QED BY <2>2, <3>1, <3>2, <3>3, <3>4, <3>5, <3>6, <3>7, <3>8, <3>9 DEF Step
  <2>3. CASE \E c \in Calls : Begin(t, c)
    BY <2>3, BeginStep, BeginAnswer
  <2>4. CASE \E m \in Mats, v \in {"QTensor", "Tensor"} : FromArc(t, m, v)
    BY <2>4, FromArcStep, FromArcAnswer
  <2> QED BY <2>1, <2>2, <2>3, <2>4
<1>2. CASE UNCHANGED vars
  BY <1>2 DEF vars, tensor, mutex, lazy, threads, history, AInv, Way, ByCopy, Answered, CacheRight
<1> QED BY <1>1, <1>2

\* Whichever thread made the copy and for whichever input, no call multiplies
\* with the weights in the wrong order, and a call on a QTensor fails only where
\* its copy is flat or the devices differ.
THEOREM AnswersAreRight == Spec => []AnswersRight
<1>1. AInv => AnswersRight
  BY DEF AInv, Answered, AnswersRight
<1> QED BY InitIInv, NextIInv, InitAInv, NextAInv, <1>1, PTL DEF Spec
=============================================================================
