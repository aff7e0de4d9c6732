---------------------------- MODULE QuantMatMul ----------------------------
(***************************************************************************)
(* Quantized weights in use (quantized/mod.rs): QMatMul keeps the quantized *)
(* bytes behind a Mutex and, once it was used on a device, a dense copy in *)
(* a OnceLock; the bytes are dropped when the copy is there.  Any number of *)
(* threads call it.  Its QTensor is a matrix of n rows by k; what a dense  *)
(* weight is, is its device, its dimensions and the order it is read in.   *)
(***************************************************************************)
EXTENDS QuantBlocks, FiniteSets, SequencesExt

CONSTANTS
  Threads, NoThread,
  Mats,        \* bound: QMatMuls alive
  Cpu, Gpus,   \* devices
  Rocm,        \* the devices among Gpus that are Device::Rocm
  Batches,     \* leading dimensions of the inputs, at most three of them
  Shapes,      \* <<n, k>> of the weights
  Dtypes,      \* dtypes of the weights
  NoWeight,
  MaxCalls     \* bound: calls made

Devices == {Cpu} \cup Gpus
Weights == [dev : Devices, dims : Seq(Nat), reads : {"rows", "columns", "flat"}]

ASSUME QuantAssumption ==
  /\ NoThread \notin Threads /\ Cpu \notin Gpus /\ Rocm \subseteq Gpus
  /\ NoWeight \notin Weights /\ Mats # {}
  /\ \A s \in Shapes : s \in Seq(Nat) /\ Len(s) = 2
  /\ \A b \in Batches : b \in Seq(Nat)
  /\ Dtypes \subseteq Types
  /\ MaxCalls \in Nat

VARIABLES
  dtype, home, dims,  \* the QTensor: its dtype, its device, <<n, k>>
  variant,            \* mat -> how it holds the weights, "none" if it does not exist
  bytes,              \* mat -> QTensor: the Option is Some
  lock, poisoned,     \* mat -> the Mutex: its owner; an owner panicked
  cache, once,        \* mat -> the OnceLock: its value; the thread that computes it
  pc, call, answer,   \* thread -> where it is, what it asks, what its last call gave
  hollow,             \* history: mats cloned from one without bytes
  used,               \* history: mat -> where its bytes were asked for
  failed,             \* history: mats of which an upload or the expect of the device failed
  calls

tensor == <<dtype, home, dims>>
mutex == <<bytes, lock, poisoned>>
lazy == <<cache, once>>
threads == <<pc, call, answer>>
history == <<hollow, used, failed, calls>>
vars == <<tensor, variant, mutex, lazy, threads, history>>

Alive == {m \in Mats : variant[m] # "none"}
Clones == {t \in Threads : pc[t] # "idle" /\ call[t].op = "clone"}

\* There is room for one more than the clones under way.
Room == Cardinality(Mats \ Alive) > Cardinality(Clones)

NoCall == [op |-> "none", mat |-> CHOOSE m \in Mats : TRUE, dev |-> Cpu, batch |-> <<>>]

Init ==
  /\ dtype \in Dtypes /\ dims \in Shapes
  /\ home \in {Cpu} \cup (Gpus \ Rocm)
  /\ variant = [m \in Mats |-> "none"]
  /\ bytes = [m \in Mats |-> FALSE]
  /\ lock = [m \in Mats |-> NoThread] /\ poisoned = [m \in Mats |-> FALSE]
  /\ cache = [m \in Mats |-> NoWeight] /\ once = [m \in Mats |-> NoThread]
  /\ pc = [t \in Threads |-> "idle"]
  /\ call = [t \in Threads |-> NoCall]
  /\ answer = [t \in Threads |-> "none"]
  /\ hollow = {} /\ used = [m \in Mats |-> {}] /\ failed = {}
  /\ calls = 0

-----------------------------------------------------------------------------
(* Dense weights.                                                          *)

Prod(s) == FoldLeft(LAMBDA a, b : a * b, 1, s)

\* W[row][column], on the device of the QTensor.
Dense(dev) == [dev |-> dev, dims |-> dims, reads |-> "rows"]

T(w) ==
  LET r == Len(w.dims)
      Swap(i) == IF i = r THEN r - 1 ELSE IF i = r - 1 THEN r ELSE i
  IN  [dev |-> w.dev, dims |-> [i \in 1 .. r |-> w.dims[Swap(i)]],
       reads |-> IF w.reads = "rows" THEN "columns" ELSE "rows"]

\* broadcast_left; inputs of rank 3 and 4 only.
BroadcastLeft(w, batch) ==
  [w EXCEPT !.dims = IF Len(batch) \in {1, 2} THEN batch \o @ ELSE @]

\* xs.matmul(w) for xs of dimensions batch, m, k; right if it is xs times the
\* transpose of W.
MatMul(x, w) ==
  LET r == Len(w.dims)
  IN  IF \/ r # Len(x.batch) + 2 \/ w.dev # x.dev
         \/ w.dims[r - 1] # dims[2] \/ Prod(SubSeq(w.dims, 1, r - 2)) # Prod(x.batch)
      THEN "error"
      ELSE IF w.reads = "columns" THEN "right" ELSE "wrong"

-----------------------------------------------------------------------------
(* Calls.                                                                  *)

Mat(t) == call[t].mat

Go(t, label) == pc' = [pc EXCEPT ![t] = label] /\ UNCHANGED <<call, answer>>

Return(t, got) ==
  /\ pc' = [pc EXCEPT ![t] = "idle"]
  /\ answer' = [answer EXCEPT ![t] = got]
  /\ UNCHANGED call

\* from_arc: the weights are kept as they are, or dequantized right away for
\* CANDLE_DEQUANTIZE_ALL and CANDLE_DEQUANTIZE_ALL_F16 (TensorF16, which goes
\* the way of Tensor).
FromArc(t, m, v) ==
  /\ pc[t] = "idle" /\ calls < MaxCalls /\ m \notin Alive /\ Room
  /\ variant' = [variant EXCEPT ![m] = v]
  /\ bytes' = [bytes EXCEPT ![m] = (v = "QTensor")]
  /\ calls' = calls + 1
  /\ UNCHANGED <<tensor, lock, poisoned, lazy, threads, hollow, used, failed>>

\* Where the call of c on a mat begins.
Entry(c) ==
  CASE variant[c.mat] = "QTensor" -> IF c.op = "forward" /\ c.dev # Cpu THEN "init" ELSE "lock"
    [] c.op = "clone" -> "lock"
    [] c.op = "forward" /\ c.dev # Cpu /\ home = Cpu -> "init"
    [] OTHER -> "product"

\* Which of its devices a call needs the bytes for.
Needs(c) == IF c.op = "clone" THEN {} ELSE {IF Entry(c) = "init" THEN "gpu" ELSE "cpu"}

Begin(t, c) ==
  /\ pc[t] = "idle" /\ calls < MaxCalls /\ c.mat \in Alive
  /\ c.op = "clone" => Room
  /\ pc' = [pc EXCEPT ![t] = Entry(c)]
  /\ call' = [call EXCEPT ![t] = c]
  /\ answer' = [answer EXCEPT ![t] = "none"]
  /\ used' = [used EXCEPT ![c.mat] = @ \cup Needs(c)]
  /\ calls' = calls + 1
  /\ UNCHANGED <<tensor, variant, mutex, lazy, hollow, failed>>

\* Mutant: two threads may both find nothing and make a copy each.
GetOrInit_twice(t) ==
  LET m == Mat(t)
      quantized == variant[m] = "QTensor"
  IN  /\ pc[t] = "init"
      /\ \/ /\ cache[m] # NoWeight
            /\ Go(t, IF quantized THEN "drop" ELSE "product") /\ UNCHANGED once
         \/ /\ cache[m] = NoWeight
            /\ once' = [once EXCEPT ![m] = t]
            /\ Go(t, IF quantized THEN "locking" ELSE "upload")
      /\ UNCHANGED <<tensor, variant, mutex, cache, history>>

\* cache.get_or_init: there is a value, or the thread computes it, or waits
\* for the one that does.
GetOrInit(t) ==
  LET m == Mat(t)
      quantized == variant[m] = "QTensor"
  IN  /\ pc[t] = "init"
      /\ \/ /\ cache[m] # NoWeight
            /\ Go(t, IF quantized THEN "drop" ELSE "product") /\ UNCHANGED once
         \/ /\ cache[m] = NoWeight /\ once[m] = NoThread
            /\ once' = [once EXCEPT ![m] = t]
            /\ Go(t, IF quantized THEN "locking" ELSE "upload")
      /\ UNCHANGED <<tensor, variant, mutex, cache, history>>

\* Mutant: the closure takes the bytes out of the Option.
InitLock_takes(t) ==
  LET m == Mat(t)
  IN  /\ pc[t] = "locking" /\ lock[m] = NoThread
      /\ IF ~poisoned[m] /\ bytes[m]
         THEN /\ lock' = [lock EXCEPT ![m] = t] /\ bytes' = [bytes EXCEPT ![m] = FALSE]
              /\ Go(t, "weights") /\ UNCHANGED <<poisoned, once>>
         ELSE /\ poisoned' = [poisoned EXCEPT ![m] = TRUE]
              /\ once' = [once EXCEPT ![m] = NoThread]
              /\ Return(t, "panic") /\ UNCHANGED <<lock, bytes>>
      /\ UNCHANGED <<tensor, variant, cache, history>>

\* t.lock().unwrap(), and expect("QTensor already consumed") with the guard
\* held: a panic there poisons the Mutex.  The value stays to be computed.
InitLock(t) ==
  LET m == Mat(t)
  IN  /\ pc[t] = "locking" /\ lock[m] = NoThread
      /\ IF ~poisoned[m] /\ bytes[m]
         THEN /\ lock' = [lock EXCEPT ![m] = t]
              /\ Go(t, "weights") /\ UNCHANGED <<poisoned, once>>
         ELSE /\ poisoned' = [poisoned EXCEPT ![m] = TRUE]
              /\ once' = [once EXCEPT ![m] = NoThread]
              /\ Return(t, "panic") /\ UNCHANGED lock
      /\ UNCHANGED <<tensor, variant, bytes, cache, history>>

\* dequant_to_gpu.
DequantToGpu(t) ==
  /\ call[t].dev \in Rocm /\ dtype \in {"Q4_0", "Q8_0"} /\ home = Cpu
  /\ cache' = [cache EXCEPT ![Mat(t)] =
       [dev |-> call[t].dev, dims |-> <<dims[1] * dims[2]>>, reads |-> "flat"]]

\* Mutant: w.t() is forgotten.
DequantOnCpu_rows(t) ==
  /\ Rocm = {} \/ home = Cpu
  /\ cache' = [cache EXCEPT ![Mat(t)] = Dense(call[t].dev)]

\* The fallback: dequantized on the CPU, transposed, copied, uploaded.  A build
\* with ROCm asks for the bytes first, which only the CPU has.
DequantOnCpu(t) ==
  /\ Rocm = {} \/ home = Cpu
  /\ cache' = [cache EXCEPT ![Mat(t)] = T(Dense(call[t].dev))]

\* Mutant: the guard of the closure lives on in forward.
InitWeights_guarded(t) ==
  LET m == Mat(t)
  IN  /\ pc[t] = "weights"
      /\ DequantToGpu(t) \/ DequantOnCpu(t)
      /\ Go(t, "drop")
      /\ once' = [once EXCEPT ![m] = NoThread]
      /\ UNCHANGED <<tensor, variant, mutex, history>>

\* The closure ends with the copy in the OnceLock, or with a panic that poisons
\* the Mutex: an unwrap of an upload or of a QTensor on another device.
InitWeights(t) ==
  LET m == Mat(t)
  IN  /\ pc[t] = "weights"
      /\ \/ /\ DequantToGpu(t) \/ DequantOnCpu(t)
            /\ Go(t, "drop") /\ UNCHANGED <<poisoned, failed>>
         \/ /\ poisoned' = [poisoned EXCEPT ![m] = TRUE]
            /\ failed' = failed \cup {m}
            /\ Return(t, "panic") /\ UNCHANGED cache
      /\ lock' = [lock EXCEPT ![m] = NoThread]
      /\ once' = [once EXCEPT ![m] = NoThread]
      /\ UNCHANGED <<tensor, variant, bytes, hollow, used, calls>>

\* The bytes go after the copy is there; every call locks again.
DropBytes(t) ==
  LET m == Mat(t)
  IN  /\ pc[t] = "drop" /\ lock[m] = NoThread
      /\ IF poisoned[m] THEN Return(t, "panic") /\ UNCHANGED bytes
         ELSE bytes' = [bytes EXCEPT ![m] = FALSE] /\ Go(t, "product")
      /\ UNCHANGED <<tensor, variant, lock, poisoned, lazy, history>>

\* Tensor: the weight as the first input needs it is uploaded.
Upload(t) ==
  LET m == Mat(t)
  IN  /\ pc[t] = "upload"
      /\ \/ /\ cache' = [cache EXCEPT ![m] =
                           T(BroadcastLeft(Dense(call[t].dev), call[t].batch))]
            /\ Go(t, "product") /\ UNCHANGED failed
         \/ failed' = failed \cup {m} /\ Return(t, "panic") /\ UNCHANGED cache
      /\ once' = [once EXCEPT ![m] = NoThread]
      /\ UNCHANGED <<tensor, variant, mutex, hollow, used, calls>>

\* The weight that xs is multiplied with.
Weight(t) ==
  LET c == call[t]
      quantized == variant[c.mat] = "QTensor"
  IN  CASE c.op = "forward" /\ quantized -> BroadcastLeft(cache[c.mat], c.batch)
        [] c.op = "forward" /\ ~quantized /\ c.dev # Cpu /\ home = Cpu -> cache[c.mat]
        [] OTHER -> T(BroadcastLeft(Dense(IF quantized THEN Cpu ELSE home), c.batch))

Multiply(t) ==
  /\ pc[t] = "product"
  /\ Return(t, IF call[t].op = "dequantize_f16" THEN "done" ELSE MatMul(call[t], Weight(t)))
  /\ UNCHANGED <<tensor, variant, mutex, lazy, history>>

\* A forward on the CPU, dequantize_f16 and forward_via_f16: lock and expect.
Lock(t) ==
  LET m == Mat(t)
  IN  /\ pc[t] = "lock" /\ call[t].op # "clone" /\ lock[m] = NoThread
      /\ IF ~poisoned[m] /\ bytes[m]
         THEN lock' = [lock EXCEPT ![m] = t] /\ Go(t, "locked") /\ UNCHANGED poisoned
         ELSE /\ poisoned' = [poisoned EXCEPT ![m] = TRUE]
              /\ Return(t, "panic") /\ UNCHANGED lock
      /\ UNCHANGED <<tensor, variant, bytes, lazy, history>>

\* forward multiplies with the guard held (QTensor::cpu_fwd), the others let go
\* of it before.
Unlock(t) ==
  /\ pc[t] = "locked"
  /\ lock' = [lock EXCEPT ![Mat(t)] = NoThread]
  /\ IF call[t].op = "forward"
     THEN Return(t, IF home # Cpu THEN "error" ELSE "right")
     ELSE Go(t, "product")
  /\ UNCHANGED <<tensor, variant, bytes, poisoned, lazy, history>>

\* The copy shares the bytes, if there are any, and has a cache of its own.
Clone(t, m2) ==
  LET m == Mat(t)
  IN  /\ pc[t] = "lock" /\ call[t].op = "clone" /\ lock[m] = NoThread /\ m2 \notin Alive
      /\ IF variant[m] = "QTensor" /\ poisoned[m]
         THEN Return(t, "panic") /\ UNCHANGED <<variant, bytes, hollow>>
         ELSE /\ variant' = [variant EXCEPT ![m2] = variant[m]]
              /\ bytes' = [bytes EXCEPT ![m2] = bytes[m]]
              /\ hollow' = IF variant[m] = "QTensor" /\ ~bytes[m] THEN hollow \cup {m2} ELSE hollow
              /\ Return(t, "done")
      /\ UNCHANGED <<tensor, lock, poisoned, lazy, used, failed, calls>>

Step(t) ==
  \/ GetOrInit(t) \/ InitLock(t) \/ InitWeights(t) \/ DropBytes(t) \/ Upload(t)
  \/ Multiply(t) \/ Lock(t) \/ Unlock(t)
  \/ \E m2 \in Mats : Clone(t, m2)

\* Only the forwards have an input.
Calls ==
  [op : {"forward", "forward_via_f16"}, mat : Mats, dev : Devices, batch : Batches]
    \cup [op : {"dequantize_f16", "clone"}, mat : Mats, dev : {Cpu}, batch : {<<>>}]

Next ==
  \E t \in Threads :
    \/ Step(t)
    \/ \E c \in Calls : Begin(t, c)
    \/ \E m \in Mats, v \in {"QTensor", "Tensor"} : FromArc(t, m, v)

Spec == Init /\ [][Next]_vars

\* A thread that the Mutex and the OnceLock let go on, goes on.
FairSpec == Spec /\ \A t \in Threads : WF_vars(Step(t))

-----------------------------------------------------------------------------
(* Properties.                                                             *)

Labels == {"idle", "init", "locking", "weights", "drop", "upload", "product", "lock", "locked"}

\* Type invariant.
TypeOK ==
  /\ dtype \in Dtypes /\ home \in Devices /\ dims \in Shapes
  /\ variant \in [Mats -> {"none", "QTensor", "Tensor"}]
  /\ bytes \in [Mats -> BOOLEAN] /\ poisoned \in [Mats -> BOOLEAN]
  /\ lock \in [Mats -> Threads \cup {NoThread}] /\ once \in [Mats -> Threads \cup {NoThread}]
  /\ cache \in [Mats -> Weights \cup {NoWeight}]
  /\ pc \in [Threads -> Labels]
  /\ answer \in [Threads -> {"none", "done", "right", "wrong", "error", "panic"}]
  /\ hollow \subseteq Mats /\ failed \subseteq Mats /\ used \in [Mats -> SUBSET {"cpu", "gpu"}]

\* Whatever the dtype of the QTensor: to_float and vec_dot find the bits of every
\* quant, scale and minimum where from_float stored them, and vec_dot pairs them
\* with the right activations (of no state: looked at in the first).
BlocksExact == calls = 0 => SoundTypes = Types

\* What a call gives is xs times the transpose of the weights, whichever thread
\* made the copy and for whichever input; and the copy that a QTensor makes for
\* one input serves every other on its device, unless the kernel left it flat.
AnswersRight ==
  \A t \in Threads :
    LET c == call[t]   w == cache[c.mat]
    IN  /\ answer[t] # "wrong"
        /\ answer[t] = "error" /\ variant[c.mat] = "QTensor" /\ Len(c.batch) <= 2 =>
             IF c.op = "forward" /\ c.dev # Cpu THEN w.reads = "flat" \/ w.dev # c.dev
             ELSE c.dev # Cpu \/ home # Cpu

\* "Drop Q4 bytes from RAM after successful cache" (mod.rs:588): the weights are
\* there in one form or the other, but for copies made after the bytes went.
WeightsKept ==
  \A m \in Alive \ hollow :
    variant[m] = "QTensor" => bytes[m] \/ cache[m] # NoWeight

\* What it takes to make a call panic: a failed upload, a copy made after the
\* bytes went, or a QMatMul used on the CPU as well as on a device.
Misused(m) == m \in failed \/ m \in hollow \/ used[m] = {"cpu", "gpu"}
PanicsExplained == \A t \in Threads : answer[t] = "panic" => Misused(Mat(t))

\* The Mutex and the OnceLock are taken in one order: every call comes back.
CallsReturn == \A t \in Threads : pc[t] # "idle" ~> pc[t] = "idle"

\* "upload once, reuse forever" (mod.rs:415): what was uploaded for one input
\* serves every input on the same device.
ReusedForever ==
  \A t \in Threads :
    LET c == call[t]
    IN  answer[t] = "error" => c.op # "forward" \/ Len(c.batch) > 2 \/ c.dev = Cpu
                                 \/ home \notin {Cpu, c.dev}
                                 \/ (cache[c.mat] # NoWeight /\ cache[c.mat].dev # c.dev)

\* A clone works like the original.
ClonesWork == \A t \in Threads : answer[t] = "panic" => Mat(t) \notin hollow

\* A QMatMul that has a copy on the device of the input answers.
CachedAnswers ==
  \A t \in Threads :
    answer[t] = "panic" =>
      ~(call[t].op = "forward" /\ call[t].dev # Cpu /\ cache[Mat(t)] # NoWeight)
=============================================================================
