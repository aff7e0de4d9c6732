-------------------------- MODULE RocmDevice_proof --------------------------
(***************************************************************************)
(* Proofs about RocmDevice, for any number of threads, kernels, handles,   *)
(* seeds and calls: types, and that unwrap finds its module, a draw has a  *)
(* seed that was current during the call, and no handle is forgotten.      *)
(***************************************************************************)
EXTENDS RocmDevice, TLAPS

\* What a call has not taken yet, or has given back.
LocalOK ==
  \A t \in Threads :
    /\ pc[t] \in {"idle", "clone", "stream", "panicked"} => local[t].rng = NoRng
    /\ pc[t] = "draw" => local[t].rng # NoRng
    /\ pc[t] \in {"compile", "use"} => local[t].kernel \in Kernels
    /\ pc[t] # "stream" => local[t].stream = NoHandle

\* The generator was made from the seed, which was seen by every call that is
\* about to clone it.
SeedOK ==
  /\ rng # NoRng => rng.seed = rng_seed
  /\ \A t \in Threads : pc[t] = "clone" => rng_seed \in current[t]

IInv == TypeOK /\ LocalOK /\ SeedOK /\ ModuleFound /\ SeedCurrent /\ NoLeak

Locals == [rng : RngType, kernel : Kernels \cup {RngKernel}, stream : Handles \cup {NoHandle}]

LEMMA NoLocalType == NoRng \in RngType /\ NoLocal \in Locals
  BY DEF NoRng, NoLocal, RngType, Locals

\* What loading and unloading do to the handles.
LEMMA LoadLemma ==
  ASSUME NEW h, NEW k, Load(h, k)
  PROVE  /\ DOMAIN loaded' = DOMAIN loaded \cup {h}
         /\ loaded'[h] = k
         /\ \A m \in DOMAIN loaded : m # h => loaded'[m] = loaded[m]
  BY DEF Load

LEMMA UnloadLemma ==
  ASSUME NEW h, Unload(h)
  PROVE  /\ DOMAIN loaded' = DOMAIN loaded \ {h}
         /\ \A m \in DOMAIN loaded' : loaded'[m] = loaded[m]
  BY DEF Unload

\* A record of a thread with another generator, or another kernel.
LEMMA LocalExcept ==
  ASSUME NEW r, NEW k, NEW s, NEW x
  PROVE  /\ [[rng |-> r, kernel |-> k, stream |-> s] EXCEPT !.rng = x] = [rng |-> x, kernel |-> k, stream |-> s]
         /\ [[rng |-> r, kernel |-> k, stream |-> s] EXCEPT !.kernel = x] = [rng |-> r, kernel |-> x, stream |-> s]
  OBVIOUS

\* A step that takes no reference away and gives no handle out.
LEMMA NoLeakFrame ==
  ASSUME TypeOK, NoLeak, UNCHANGED <<rng, modules, default_stream, loaded, streams>>,
         \A u \in Threads : \A h \in Handles :
           /\ local[u].rng.handle = h => local'[u].rng.handle = h
           /\ local[u].stream = h => local'[u].stream = h
  PROVE  NoLeak'
  BY DEF TypeOK, NoLeak

LEMMA InitInv == Init => IInv
  <1> SUFFICES ASSUME Init PROVE IInv
    OBVIOUS
  <1> USE DeviceAssumption DEF Init
  <1>0. DOMAIN <<>> = {}
    OBVIOUS
  <1>1. TypeOK
    <2>1. /\ rng_seed \in Seeds /\ rng \in RngType /\ poisoned \in BOOLEAN
          /\ default_stream \in Handles \cup {NoHandle} /\ streams \subseteq Handles
      BY NoLocalType
    <2>2. /\ pc \in [Threads -> Labels] /\ local \in [Threads -> Locals]
          /\ current \in [Threads -> SUBSET Seeds]
      BY NoLocalType DEF Labels
    <2>3. /\ DOMAIN modules \subseteq Kernels /\ \A k \in DOMAIN modules : modules[k] \in Handles
          /\ DOMAIN loaded \subseteq Handles
          /\ \A h \in DOMAIN loaded : loaded[h] \in Kernels \cup {RngKernel}
      BY <1>0
    <2>4. calls \in 0 .. MaxCalls
      OBVIOUS
    <2> QED
      BY <2>1, <2>2, <2>3, <2>4 DEF TypeOK, Locals
  <1>2. LocalOK /\ SeedOK /\ ModuleFound /\ SeedCurrent /\ NoLeak
    BY <1>0 DEF LocalOK, SeedOK, ModuleFound, SeedCurrent, NoLeak, NoLocal
  <1> QED
    BY <1>1, <1>2 DEF IInv

LEMMA PanicsInv ==
  ASSUME IInv, NEW t \in Threads, Panics(t)
  PROVE  IInv'
  <1> USE DeviceAssumption DEF Panics, Go, Return, Begin, AfterModule, inner, hip
  <1>1. TypeOK'
    <2>1. /\ pc \in [Threads -> Labels] /\ local \in [Threads -> Locals] /\ rng \in RngType
          /\ NoLocal \in Locals /\ NoRng \in RngType
      BY NoLocalType DEF IInv, TypeOK, Locals
    <2>2. pc' \in [Threads -> Labels]
      BY <2>1 DEF Labels
    <2>3. local' \in [Threads -> Locals]
      BY <2>1 DEF IInv, TypeOK, Locals
    <2>4. /\ rng_seed' \in Seeds /\ rng' \in RngType /\ poisoned' \in BOOLEAN
          /\ default_stream' \in Handles \cup {NoHandle} /\ streams' \subseteq Handles
          /\ current' \in [Threads -> SUBSET Seeds] /\ calls' \in 0 .. MaxCalls
      BY <2>1 DEF IInv, TypeOK, FreeStreams
    <2>5. /\ DOMAIN modules' \subseteq Kernels /\ \A m \in DOMAIN modules' : modules'[m] \in Handles
          /\ DOMAIN loaded' \subseteq Handles
          /\ \A h \in DOMAIN loaded' : loaded'[h] \in Kernels \cup {RngKernel}
      BY <2>1 DEF IInv, TypeOK, Load, Unload, FreeModules
    <2> QED
      BY <2>2, <2>3, <2>4, <2>5 DEF TypeOK, Locals
  <1>2. LocalOK'
    BY DEF IInv, TypeOK, LocalOK, RngType, NoLocal, NoRng
  <1>3. SeedOK'
    BY DEF IInv, TypeOK, LocalOK, SeedOK, NoRng
  <1>4. ModuleFound'
    BY DEF IInv, TypeOK, ModuleFound
  <1>5. SeedCurrent'
    BY DEF IInv, TypeOK, LocalOK, SeedOK, SeedCurrent, NoLocal
  <1>6. NoLeak'
    BY DEF IInv, TypeOK, LocalOK, NoLeak, Load, Unload, NoLocal, NoRng
  <1> QED
    BY <1>1, <1>2, <1>3, <1>4, <1>5, <1>6 DEF IInv

LEMMA RandInitInv ==
  ASSUME IInv, NEW t \in Threads, RandInit(t)
  PROVE  IInv'
  <1> USE DeviceAssumption DEF RandInit, Go, Return, Begin, AfterModule, inner, hip
  <1>1. TypeOK'
    <2>1. /\ pc \in [Threads -> Labels] /\ local \in [Threads -> Locals] /\ rng \in RngType
          /\ NoLocal \in Locals /\ NoRng \in RngType
      BY NoLocalType DEF IInv, TypeOK, Locals
    <2>2. pc' \in [Threads -> Labels]
      BY <2>1 DEF Labels
    <2>3. local' \in [Threads -> Locals]
      BY <2>1 DEF IInv, TypeOK, Locals
    <2>4. /\ rng_seed' \in Seeds /\ rng' \in RngType /\ poisoned' \in BOOLEAN
          /\ default_stream' \in Handles \cup {NoHandle} /\ streams' \subseteq Handles
          /\ current' \in [Threads -> SUBSET Seeds] /\ calls' \in 0 .. MaxCalls
      BY <2>1 DEF IInv, TypeOK, FreeModules, RngType
    <2>5. /\ DOMAIN modules' \subseteq Kernels /\ \A m \in DOMAIN modules' : modules'[m] \in Handles
          /\ DOMAIN loaded' \subseteq Handles
          /\ \A h \in DOMAIN loaded' : loaded'[h] \in Kernels \cup {RngKernel}
      BY <2>1 DEF IInv, TypeOK, Load, Unload, FreeModules
    <2> QED
      BY <2>2, <2>3, <2>4, <2>5 DEF TypeOK, Locals
  <1>2. LocalOK'
    BY DEF IInv, TypeOK, LocalOK, RngType, NoLocal, NoRng
  <1>3. SeedOK'
    BY DEF IInv, TypeOK, LocalOK, SeedOK, NoRng
  <1>4. ModuleFound'
    BY DEF IInv, TypeOK, ModuleFound
  <1>5. SeedCurrent'
    BY DEF IInv, TypeOK, LocalOK, SeedOK, SeedCurrent, NoLocal
  <1>6. NoLeak'
    <2>1. UNCHANGED <<modules, default_stream, streams, local>>
      OBVIOUS
    <2>2. CASE UNCHANGED <<rng, loaded>>
      BY <2>1, <2>2 DEF IInv, NoLeak
    <2>3. CASE /\ rng = NoRng
               /\ \E h \in FreeModules :
                    Load(h, RngKernel) /\ rng' = [handle |-> h, seed |-> rng_seed, offset |-> 0]
      <3>1. PICK h \in FreeModules :
              Load(h, RngKernel) /\ rng' = [handle |-> h, seed |-> rng_seed, offset |-> 0]
        BY <2>3
      <3>2. DOMAIN loaded' = DOMAIN loaded \cup {h} /\ rng'.handle = h
        BY <3>1, LoadLemma
      <3>3. \A m \in DOMAIN loaded : rng.handle # m
        BY <2>3 DEF IInv, TypeOK, NoRng
      <3> QED
        BY <2>1, <3>2, <3>3 DEF IInv, NoLeak
    <2> QED
      BY <2>2, <2>3
  <1> QED
    BY <1>1, <1>2, <1>3, <1>4, <1>5, <1>6 DEF IInv

LEMMA RandCloneInv ==
  ASSUME IInv, NEW t \in Threads, RandClone(t)
  PROVE  IInv'
  <1> USE DeviceAssumption DEF RandClone, Go, Return, Begin, AfterModule, inner, hip
  <1>1. TypeOK'
    <2>1. /\ pc \in [Threads -> Labels] /\ local \in [Threads -> Locals] /\ rng \in RngType
          /\ NoLocal \in Locals /\ NoRng \in RngType
      BY NoLocalType DEF IInv, TypeOK, Locals
    <2>2. pc' \in [Threads -> Labels]
      BY <2>1 DEF Labels
    <2>3. local' \in [Threads -> Locals]
      BY <2>1 DEF IInv, TypeOK, Locals
    <2>4. /\ rng_seed' \in Seeds /\ rng' \in RngType /\ poisoned' \in BOOLEAN
          /\ default_stream' \in Handles \cup {NoHandle} /\ streams' \subseteq Handles
          /\ current' \in [Threads -> SUBSET Seeds] /\ calls' \in 0 .. MaxCalls
      BY <2>1 DEF IInv, TypeOK, FreeStreams
    <2>5. /\ DOMAIN modules' \subseteq Kernels /\ \A m \in DOMAIN modules' : modules'[m] \in Handles
          /\ DOMAIN loaded' \subseteq Handles
          /\ \A h \in DOMAIN loaded' : loaded'[h] \in Kernels \cup {RngKernel}
      BY <2>1 DEF IInv, TypeOK, Load, Unload, FreeModules
    <2> QED
      BY <2>2, <2>3, <2>4, <2>5 DEF TypeOK, Locals
  <1>2. LocalOK'
    BY DEF IInv, TypeOK, LocalOK, RngType, NoLocal, NoRng
  <1>3. SeedOK'
    BY DEF IInv, TypeOK, LocalOK, SeedOK, NoRng
  <1>4. ModuleFound'
    BY DEF IInv, TypeOK, ModuleFound
  <1>5. SeedCurrent'
    BY DEF IInv, TypeOK, LocalOK, SeedOK, SeedCurrent, NoLocal
  <1>6. NoLeak'
    <2>1. \A u \in Threads : \A h \in Handles :
            /\ local[u].rng.handle = h => local'[u].rng.handle = h
            /\ local[u].stream = h => local'[u].stream = h
      BY DEF IInv, TypeOK, LocalOK, NoRng
    <2> QED
      BY <2>1, NoLeakFrame DEF IInv
  <1> QED
    BY <1>1, <1>2, <1>3, <1>4, <1>5, <1>6 DEF IInv

LEMMA RandCloneNoneInv ==
  ASSUME IInv, NEW t \in Threads, RandCloneNone(t)
  PROVE  IInv'
  <1> USE DeviceAssumption DEF RandCloneNone, Go, Return, Begin, AfterModule, inner, hip
  <1>1. TypeOK'
    <2>1. /\ pc \in [Threads -> Labels] /\ local \in [Threads -> Locals] /\ rng \in RngType
          /\ NoLocal \in Locals /\ NoRng \in RngType
      BY NoLocalType DEF IInv, TypeOK, Locals
    <2>2. pc' \in [Threads -> Labels]
      BY <2>1 DEF Labels
    <2>3. local' \in [Threads -> Locals]
      BY <2>1 DEF IInv, TypeOK, Locals
    <2>4. /\ rng_seed' \in Seeds /\ rng' \in RngType /\ poisoned' \in BOOLEAN
          /\ default_stream' \in Handles \cup {NoHandle} /\ streams' \subseteq Handles
          /\ current' \in [Threads -> SUBSET Seeds] /\ calls' \in 0 .. MaxCalls
      BY <2>1 DEF IInv, TypeOK, FreeStreams
    <2>5. /\ DOMAIN modules' \subseteq Kernels /\ \A m \in DOMAIN modules' : modules'[m] \in Handles
          /\ DOMAIN loaded' \subseteq Handles
          /\ \A h \in DOMAIN loaded' : loaded'[h] \in Kernels \cup {RngKernel}
      BY <2>1 DEF IInv, TypeOK, Load, Unload, FreeModules
    <2> QED
      BY <2>2, <2>3, <2>4, <2>5 DEF TypeOK, Locals
  <1>2. LocalOK'
    BY DEF IInv, TypeOK, LocalOK, RngType, NoLocal, NoRng
  <1>3. SeedOK'
    BY DEF IInv, TypeOK, LocalOK, SeedOK, NoRng
  <1>4. ModuleFound'
    BY DEF IInv, TypeOK, ModuleFound
  <1>5. SeedCurrent'
    BY DEF IInv, TypeOK, LocalOK, SeedOK, SeedCurrent, NoLocal
  <1>6. NoLeak'
    BY DEF IInv, TypeOK, LocalOK, NoLeak, Load, Unload, NoLocal, NoRng
  <1> QED
    BY <1>1, <1>2, <1>3, <1>4, <1>5, <1>6 DEF IInv

LEMMA RandDrawInv ==
  ASSUME IInv, NEW t \in Threads, RandDraw(t)
  PROVE  IInv'
  <1> USE DeviceAssumption DEF RandDraw, Go, Return, Begin, AfterModule, inner, hip
  <1> DEFINE r == [local[t].rng EXCEPT !.offset = @ + 1]
  <1>a. /\ local[t].rng \in RngType /\ r \in RngType
        /\ r.seed = local[t].rng.seed /\ r.handle = local[t].rng.handle
    <2>1. local[t].rng \in RngType
      BY DEF IInv, TypeOK
    <2> QED
      BY <2>1 DEF RngType
  <1>0. PICK k :
           /\ local' = [local EXCEPT ![t] = [rng |-> r, kernel |-> k, stream |-> local[t].stream]]
           /\ \/ pc' = [pc EXCEPT ![t] = "drop"] /\ k \in Kernels \cup {RngKernel}
              \/ pc' = [pc EXCEPT ![t] = "compile"] /\ k \in Kernels
    <2>1. local[t] = [rng |-> local[t].rng, kernel |-> local[t].kernel, stream |-> local[t].stream]
      BY DEF IInv, TypeOK
    <2>2. t \in DOMAIN local /\ local[t].kernel \in Kernels \cup {RngKernel}
      BY DEF IInv, TypeOK
    <2>3. CASE Go(t, "drop") /\ local' = [local EXCEPT ![t].rng.offset = @ + 1]
      <3>1. local' = [local EXCEPT ![t] = [local[t] EXCEPT !.rng = r]]
        BY <2>2, <2>3
      <3>2. [local[t] EXCEPT !.rng = r] =
              [rng |-> r, kernel |-> local[t].kernel, stream |-> local[t].stream]
        <4> HIDE DEF r
        <4> QED
          BY <2>1, LocalExcept
      <3> QED
        BY <2>2, <2>3, <3>1, <3>2
    <2>4. ASSUME NEW k \in Kernels, Go(t, "compile"),
                 local' = [local EXCEPT ![t].rng.offset = @ + 1, ![t].kernel = k]
          PROVE  local' = [local EXCEPT ![t] = [rng |-> r, kernel |-> k, stream |-> local[t].stream]]
      <3> DEFINE l == [local EXCEPT ![t] = [local[t] EXCEPT !.rng = r]]
      <3>1. local' = [l EXCEPT ![t].kernel = k]
        BY <2>2, <2>4
      <3>2. l[t] = [rng |-> r, kernel |-> local[t].kernel, stream |-> local[t].stream]
        BY <2>1, <2>2
      <3>3. [l[t] EXCEPT !.kernel = k] = [rng |-> r, kernel |-> k, stream |-> local[t].stream]
        <4> HIDE DEF r, l
        <4> QED
          BY <3>2, LocalExcept
      <3>4. local' = [l EXCEPT ![t] = [l[t] EXCEPT !.kernel = k]]
        BY <3>1
      <3> HIDE DEF r
      <3> QED
        BY <2>2, <3>3, <3>4
    <2> QED
      BY <2>3, <2>4
  <1>b. /\ \A u \in Threads \ {t} : local'[u] = local[u] /\ pc'[u] = pc[u]
        /\ local'[t] = [rng |-> r, kernel |-> k, stream |-> local[t].stream]
        /\ pc'[t] = "drop" \/ (pc'[t] = "compile" /\ k \in Kernels)
        /\ UNCHANGED <<inner, hip, current, reseeded, calls>>
    BY <1>0 DEF IInv, TypeOK
  <1> HIDE DEF r
  <1>1. TypeOK'
    <2>1. local[t].stream \in Handles \cup {NoHandle} /\ local \in [Threads -> Locals]
      BY DEF IInv, TypeOK, Locals
    <2>2. local' \in [Threads -> Locals]
      BY <1>0, <1>a, <2>1 DEF Locals
    <2>3. pc' \in [Threads -> Labels]
      BY <1>0 DEF IInv, TypeOK, Labels
    <2> QED
      BY <1>b, <2>2, <2>3 DEF IInv, TypeOK, Locals
  <1>2. LocalOK'
    BY <1>b DEF IInv, LocalOK
  <1>3. SeedOK'
    BY DEF IInv, TypeOK, LocalOK, SeedOK, NoRng
  <1>4. ModuleFound'
    BY DEF IInv, TypeOK, ModuleFound
  <1>5. SeedCurrent'
    BY <1>a, <1>b DEF IInv, LocalOK, SeedCurrent
  <1>6. NoLeak'
    <2>1. \A u \in Threads : \A h \in Handles :
            /\ local[u].rng.handle = h => local'[u].rng.handle = h
            /\ local[u].stream = h => local'[u].stream = h
      BY <1>a, <1>b
    <2> QED
      BY <2>1, NoLeakFrame DEF IInv
  <1> QED
    BY <1>1, <1>2, <1>3, <1>4, <1>5, <1>6 DEF IInv

LEMMA RandFailsInv ==
  ASSUME IInv, NEW t \in Threads, RandFails(t)
  PROVE  IInv'
  <1> USE DeviceAssumption DEF RandFails, Go, Return, Begin, AfterModule, inner, hip
  <1>1. TypeOK'
    <2>1. /\ pc \in [Threads -> Labels] /\ local \in [Threads -> Locals] /\ rng \in RngType
          /\ NoLocal \in Locals /\ NoRng \in RngType
      BY NoLocalType DEF IInv, TypeOK, Locals
    <2>2. pc' \in [Threads -> Labels]
      BY <2>1 DEF Labels
    <2>3. local' \in [Threads -> Locals]
      BY <2>1 DEF IInv, TypeOK, Locals
    <2>4. /\ rng_seed' \in Seeds /\ rng' \in RngType /\ poisoned' \in BOOLEAN
          /\ default_stream' \in Handles \cup {NoHandle} /\ streams' \subseteq Handles
          /\ current' \in [Threads -> SUBSET Seeds] /\ calls' \in 0 .. MaxCalls
      BY <2>1 DEF IInv, TypeOK, FreeStreams
    <2>5. /\ DOMAIN modules' \subseteq Kernels /\ \A m \in DOMAIN modules' : modules'[m] \in Handles
          /\ DOMAIN loaded' \subseteq Handles
          /\ \A h \in DOMAIN loaded' : loaded'[h] \in Kernels \cup {RngKernel}
      BY <2>1 DEF IInv, TypeOK, Load, Unload, FreeModules
    <2> QED
      BY <2>2, <2>3, <2>4, <2>5 DEF TypeOK, Locals
  <1>2. LocalOK'
    BY DEF IInv, TypeOK, LocalOK, RngType, NoLocal, NoRng
  <1>3. SeedOK'
    BY DEF IInv, TypeOK, LocalOK, SeedOK, NoRng
  <1>4. ModuleFound'
    BY DEF IInv, TypeOK, ModuleFound
  <1>5. SeedCurrent'
    BY DEF IInv, TypeOK, LocalOK, SeedOK, SeedCurrent, NoLocal
  <1>6. NoLeak'
    BY DEF IInv, TypeOK, LocalOK, NoLeak, Load, Unload, NoLocal, NoRng
  <1> QED
    BY <1>1, <1>2, <1>3, <1>4, <1>5, <1>6 DEF IInv

LEMMA RandDropInv ==
  ASSUME IInv, NEW t \in Threads, RandDrop(t)
  PROVE  IInv'
  <1> USE DeviceAssumption DEF RandDrop, Go, Return, Begin, AfterModule, inner, hip
  <1>1. TypeOK'
    <2>1. /\ pc \in [Threads -> Labels] /\ local \in [Threads -> Locals] /\ rng \in RngType
          /\ NoLocal \in Locals /\ NoRng \in RngType
      BY NoLocalType DEF IInv, TypeOK, Locals
    <2>2. pc' \in [Threads -> Labels]
      BY <2>1 DEF Labels
    <2>3. local' \in [Threads -> Locals]
      BY <2>1 DEF IInv, TypeOK, Locals
    <2>4. /\ rng_seed' \in Seeds /\ rng' \in RngType /\ poisoned' \in BOOLEAN
          /\ default_stream' \in Handles \cup {NoHandle} /\ streams' \subseteq Handles
          /\ current' \in [Threads -> SUBSET Seeds] /\ calls' \in 0 .. MaxCalls
      BY <2>1 DEF IInv, TypeOK, FreeStreams
    <2>5. /\ DOMAIN modules' \subseteq Kernels /\ \A m \in DOMAIN modules' : modules'[m] \in Handles
          /\ DOMAIN loaded' \subseteq Handles
          /\ \A h \in DOMAIN loaded' : loaded'[h] \in Kernels \cup {RngKernel}
      BY <2>1 DEF IInv, TypeOK, Load, Unload, FreeModules
    <2> QED
      BY <2>2, <2>3, <2>4, <2>5 DEF TypeOK, Locals
  <1>2. LocalOK'
    BY DEF IInv, TypeOK, LocalOK, RngType, NoLocal, NoRng
  <1>3. SeedOK'
    BY DEF IInv, TypeOK, LocalOK, SeedOK, NoRng
  <1>4. ModuleFound'
    BY DEF IInv, TypeOK, ModuleFound
  <1>5. SeedCurrent'
    BY DEF IInv, TypeOK, LocalOK, SeedOK, SeedCurrent, NoLocal
  <1>6. NoLeak'
    BY DEF IInv, TypeOK, LocalOK, NoLeak, Load, Unload, NoLocal, NoRng
  <1> QED
    BY <1>1, <1>2, <1>3, <1>4, <1>5, <1>6 DEF IInv

LEMMA SetSeedInv ==
  ASSUME IInv, NEW t \in Threads, NEW s \in Seeds, SetSeed(t, s)
  PROVE  IInv'
  <1> USE DeviceAssumption DEF SetSeed, Go, Return, Begin, AfterModule, inner, hip
  <1>1. TypeOK'
    <2>1. /\ pc \in [Threads -> Labels] /\ local \in [Threads -> Locals] /\ rng \in RngType
          /\ NoLocal \in Locals /\ NoRng \in RngType
      BY NoLocalType DEF IInv, TypeOK, Locals
    <2>2. pc' \in [Threads -> Labels]
      BY <2>1 DEF Labels
    <2>3. local' \in [Threads -> Locals]
      BY <2>1 DEF IInv, TypeOK, Locals
    <2>4. /\ rng_seed' \in Seeds /\ rng' \in RngType /\ poisoned' \in BOOLEAN
          /\ default_stream' \in Handles \cup {NoHandle} /\ streams' \subseteq Handles
          /\ current' \in [Threads -> SUBSET Seeds] /\ calls' \in 0 .. MaxCalls
      BY <2>1 DEF IInv, TypeOK, FreeStreams
    <2>5. /\ DOMAIN modules' \subseteq Kernels /\ \A m \in DOMAIN modules' : modules'[m] \in Handles
          /\ DOMAIN loaded' \subseteq Handles
          /\ \A h \in DOMAIN loaded' : loaded'[h] \in Kernels \cup {RngKernel}
      BY <2>1 DEF IInv, TypeOK, Load, Unload, FreeModules
    <2> QED
      BY <2>2, <2>3, <2>4, <2>5 DEF TypeOK, Locals
  <1>2. LocalOK'
    BY DEF IInv, TypeOK, LocalOK, RngType, NoLocal, NoRng
  <1>3. SeedOK'
    BY DEF IInv, TypeOK, LocalOK, SeedOK, NoRng
  <1>4. ModuleFound'
    BY DEF IInv, TypeOK, ModuleFound
  <1>5. SeedCurrent'
    BY DEF IInv, TypeOK, LocalOK, SeedOK, SeedCurrent, NoLocal
  <1>6. NoLeak'
    BY DEF IInv, TypeOK, LocalOK, NoLeak, Load, Unload, NoLocal, NoRng
  <1> QED
    BY <1>1, <1>2, <1>3, <1>4, <1>5, <1>6 DEF IInv

LEMMA WithModuleInv ==
  ASSUME IInv, NEW t \in Threads, NEW k \in Kernels, WithModule(t, k)
  PROVE  IInv'
  <1> USE DeviceAssumption DEF WithModule, Go, Return, Begin, AfterModule, inner, hip
  <1>1. TypeOK'
    <2>1. /\ pc \in [Threads -> Labels] /\ local \in [Threads -> Locals] /\ rng \in RngType
          /\ NoLocal \in Locals /\ NoRng \in RngType
      BY NoLocalType DEF IInv, TypeOK, Locals
    <2>2. pc' \in [Threads -> Labels]
      BY <2>1 DEF Labels
    <2>3. local' \in [Threads -> Locals]
      BY <2>1 DEF IInv, TypeOK, Locals
    <2>4. /\ rng_seed' \in Seeds /\ rng' \in RngType /\ poisoned' \in BOOLEAN
          /\ default_stream' \in Handles \cup {NoHandle} /\ streams' \subseteq Handles
          /\ current' \in [Threads -> SUBSET Seeds] /\ calls' \in 0 .. MaxCalls
      BY <2>1 DEF IInv, TypeOK, FreeStreams
    <2>5. /\ DOMAIN modules' \subseteq Kernels /\ \A m \in DOMAIN modules' : modules'[m] \in Handles
          /\ DOMAIN loaded' \subseteq Handles
          /\ \A h \in DOMAIN loaded' : loaded'[h] \in Kernels \cup {RngKernel}
      BY <2>1 DEF IInv, TypeOK, Load, Unload, FreeModules
    <2> QED
      BY <2>2, <2>3, <2>4, <2>5 DEF TypeOK, Locals
  <1>2. LocalOK'
    BY DEF IInv, TypeOK, LocalOK, RngType, NoLocal, NoRng
  <1>3. SeedOK'
    BY DEF IInv, TypeOK, LocalOK, SeedOK, NoRng
  <1>4. ModuleFound'
    BY DEF IInv, TypeOK, ModuleFound
  <1>5. SeedCurrent'
    BY DEF IInv, TypeOK, LocalOK, SeedOK, SeedCurrent, NoLocal
  <1>6. NoLeak'
    BY DEF IInv, TypeOK, LocalOK, NoLeak, Load, Unload, NoLocal, NoRng
  <1> QED
    BY <1>1, <1>2, <1>3, <1>4, <1>5, <1>6 DEF IInv

LEMMA GetOrCompileInv ==
  ASSUME IInv, NEW t \in Threads, GetOrCompile(t)
  PROVE  IInv'
  <1> USE DeviceAssumption DEF GetOrCompile, Go, Return, Begin, AfterModule, inner, hip
  <1>1. TypeOK'
    <2>1. /\ pc \in [Threads -> Labels] /\ local \in [Threads -> Locals] /\ rng \in RngType
          /\ NoLocal \in Locals /\ NoRng \in RngType
      BY NoLocalType DEF IInv, TypeOK, Locals
    <2>2. pc' \in [Threads -> Labels]
      BY <2>1 DEF Labels
    <2>3. local' \in [Threads -> Locals]
      BY <2>1 DEF IInv, TypeOK, Locals
    <2>4. /\ rng_seed' \in Seeds /\ rng' \in RngType /\ poisoned' \in BOOLEAN
          /\ default_stream' \in Handles \cup {NoHandle} /\ streams' \subseteq Handles
          /\ current' \in [Threads -> SUBSET Seeds] /\ calls' \in 0 .. MaxCalls
      BY <2>1 DEF IInv, TypeOK, FreeStreams
    <2>5. /\ DOMAIN modules' \subseteq Kernels /\ \A m \in DOMAIN modules' : modules'[m] \in Handles
          /\ DOMAIN loaded' \subseteq Handles
          /\ \A h \in DOMAIN loaded' : loaded'[h] \in Kernels \cup {RngKernel}
      <3>1. CASE UNCHANGED <<modules, loaded>>
        BY <3>1 DEF IInv, TypeOK
      <3>2. CASE \E h \in FreeModules :
                   /\ Load(h, local[t].kernel)
                   /\ modules' = [m \in DOMAIN modules \cup {local[t].kernel} |->
                                    IF m = local[t].kernel THEN h ELSE modules[m]]
        <4>1. local[t].kernel \in Kernels
          BY DEF IInv, LocalOK
        <4> QED
          BY <3>2, <4>1 DEF IInv, TypeOK, Load, FreeModules
      <3> QED
        BY <3>1, <3>2
    <2> QED
      BY <2>2, <2>3, <2>4, <2>5 DEF TypeOK, Locals
  <1>2. LocalOK'
    BY DEF IInv, TypeOK, LocalOK, RngType, NoLocal, NoRng
  <1>3. SeedOK'
    BY DEF IInv, TypeOK, LocalOK, SeedOK, NoRng
  <1>4. ModuleFound'
    BY DEF IInv, TypeOK, ModuleFound
  <1>5. SeedCurrent'
    BY DEF IInv, TypeOK, LocalOK, SeedOK, SeedCurrent, NoLocal
  <1>6. NoLeak'
    <2>1. \A u \in Threads : \A h \in Handles :
            /\ local[u].rng.handle = h => local'[u].rng.handle = h
            /\ local[u].stream = h => local'[u].stream = h
      BY DEF IInv, TypeOK, LocalOK, NoRng, NoLocal
    <2>2. CASE UNCHANGED <<modules, loaded>>
      BY <2>1, <2>2, NoLeakFrame DEF IInv
    <2>3. CASE /\ local[t].kernel \notin DOMAIN modules
               /\ \E h \in FreeModules :
                    /\ Load(h, local[t].kernel)
                    /\ modules' = [m \in DOMAIN modules \cup {local[t].kernel} |->
                                     IF m = local[t].kernel THEN h ELSE modules[m]]
      <3>1. PICK h \in FreeModules :
              /\ Load(h, local[t].kernel)
              /\ modules' = [m \in DOMAIN modules \cup {local[t].kernel} |->
                               IF m = local[t].kernel THEN h ELSE modules[m]]
        BY <2>3
      <3>2. DOMAIN loaded' = DOMAIN loaded \cup {h} /\ DOMAIN loaded \subseteq Handles
        BY <3>1 DEF IInv, TypeOK, Load
      <3>3. /\ \A k \in DOMAIN modules : k \in DOMAIN modules' /\ modules'[k] = modules[k]
            /\ local[t].kernel \in DOMAIN modules' /\ modules'[local[t].kernel] = h
        BY <2>3, <3>1
      <3>4. \A m \in DOMAIN loaded' :
              \/ rng'.handle = m
              \/ \E k \in DOMAIN modules' : modules'[k] = m
              \/ \E u \in Threads : local'[u].rng.handle = m
        BY <2>1, <3>2, <3>3 DEF IInv, NoLeak
      <3>5. \A m \in streams' : default_stream' = m \/ \E u \in Threads : local'[u].stream = m
        BY <2>1 DEF IInv, TypeOK, NoLeak
      <3> QED
        BY <3>4, <3>5 DEF NoLeak
    <2> QED
      BY <2>2, <2>3
  <1> QED
    BY <1>1, <1>2, <1>3, <1>4, <1>5, <1>6 DEF IInv

LEMMA UseModuleInv ==
  ASSUME IInv, NEW t \in Threads, UseModule(t)
  PROVE  IInv'
  <1> USE DeviceAssumption DEF UseModule, Go, Return, Begin, AfterModule, inner, hip
  <1>1. TypeOK'
    <2>1. /\ pc \in [Threads -> Labels] /\ local \in [Threads -> Locals] /\ rng \in RngType
          /\ NoLocal \in Locals /\ NoRng \in RngType
      BY NoLocalType DEF IInv, TypeOK, Locals
    <2>2. pc' \in [Threads -> Labels]
      BY <2>1 DEF Labels
    <2>3. local' \in [Threads -> Locals]
      BY <2>1 DEF IInv, TypeOK, Locals
    <2>4. /\ rng_seed' \in Seeds /\ rng' \in RngType /\ poisoned' \in BOOLEAN
          /\ default_stream' \in Handles \cup {NoHandle} /\ streams' \subseteq Handles
          /\ current' \in [Threads -> SUBSET Seeds] /\ calls' \in 0 .. MaxCalls
      BY <2>1 DEF IInv, TypeOK, FreeStreams
    <2>5. /\ DOMAIN modules' \subseteq Kernels /\ \A m \in DOMAIN modules' : modules'[m] \in Handles
          /\ DOMAIN loaded' \subseteq Handles
          /\ \A h \in DOMAIN loaded' : loaded'[h] \in Kernels \cup {RngKernel}
      BY <2>1 DEF IInv, TypeOK, Load, Unload, FreeModules
    <2> QED
      BY <2>2, <2>3, <2>4, <2>5 DEF TypeOK, Locals
  <1>2. LocalOK'
    BY DEF IInv, TypeOK, LocalOK, RngType, NoLocal, NoRng
  <1>3. SeedOK'
    BY DEF IInv, TypeOK, LocalOK, SeedOK, NoRng
  <1>4. ModuleFound'
    BY DEF IInv, TypeOK, ModuleFound
  <1>5. SeedCurrent'
    BY DEF IInv, TypeOK, LocalOK, SeedOK, SeedCurrent, NoLocal
  <1>6. NoLeak'
    <2>1. \A u \in Threads : \A h \in Handles :
            /\ local[u].rng.handle = h => local'[u].rng.handle = h
            /\ local[u].stream = h => local'[u].stream = h
      BY DEF IInv, TypeOK, LocalOK, NoRng, NoLocal
    <2> QED
      BY <2>1, NoLeakFrame DEF IInv
  <1> QED
    BY <1>1, <1>2, <1>3, <1>4, <1>5, <1>6 DEF IInv

LEMMA StreamInv ==
  ASSUME IInv, NEW t \in Threads, Stream(t)
  PROVE  IInv'
  <1> USE DeviceAssumption DEF Stream, Go, Return, Begin, AfterModule, inner, hip
  <1>1. TypeOK'
    <2>1. /\ pc \in [Threads -> Labels] /\ local \in [Threads -> Locals] /\ rng \in RngType
          /\ NoLocal \in Locals /\ NoRng \in RngType
      BY NoLocalType DEF IInv, TypeOK, Locals
    <2>2. pc' \in [Threads -> Labels]
      BY <2>1 DEF Labels
    <2>3. local' \in [Threads -> Locals]
      <3>1. PICK h \in Handles \cup {NoHandle} : local' = [local EXCEPT ![t].stream = h]
        BY DEF IInv, TypeOK, FreeStreams
      <3> QED
        BY <2>1, <3>1 DEF Locals
    <2>4. /\ rng_seed' \in Seeds /\ rng' \in RngType /\ poisoned' \in BOOLEAN
          /\ default_stream' \in Handles \cup {NoHandle} /\ streams' \subseteq Handles
          /\ current' \in [Threads -> SUBSET Seeds] /\ calls' \in 0 .. MaxCalls
      BY <2>1 DEF IInv, TypeOK, FreeStreams
    <2>5. /\ DOMAIN modules' \subseteq Kernels /\ \A m \in DOMAIN modules' : modules'[m] \in Handles
          /\ DOMAIN loaded' \subseteq Handles
          /\ \A h \in DOMAIN loaded' : loaded'[h] \in Kernels \cup {RngKernel}
      BY <2>1 DEF IInv, TypeOK, Load, Unload, FreeModules
    <2> QED
      BY <2>2, <2>3, <2>4, <2>5 DEF TypeOK, Locals
  <1>2. LocalOK'
    BY DEF IInv, TypeOK, LocalOK, RngType, NoLocal, NoRng
  <1>3. SeedOK'
    BY DEF IInv, TypeOK, LocalOK, SeedOK, NoRng
  <1>4. ModuleFound'
    BY DEF IInv, TypeOK, ModuleFound
  <1>5. SeedCurrent'
    BY DEF IInv, TypeOK, LocalOK, SeedOK, SeedCurrent, NoLocal
  <1>6. NoLeak'
    <2>1. PICK h : /\ local' = [local EXCEPT ![t].stream = h]
                   /\ \/ UNCHANGED streams
                      \/ streams' = streams \cup {h} /\ default_stream = NoHandle
      OBVIOUS
    <2>2. /\ \A u \in Threads : local'[u].rng = local[u].rng
          /\ \A u \in Threads \ {t} : local'[u].stream = local[u].stream
          /\ local'[t].stream = h /\ local[t].stream = NoHandle
      BY <2>1 DEF IInv, TypeOK, LocalOK
    <2>3. \A m \in streams' : default_stream' = m \/ \E u \in Threads : local'[u].stream = m
      BY <2>1, <2>2 DEF IInv, TypeOK, NoLeak
    <2>4. UNCHANGED <<rng, modules, loaded>>
      OBVIOUS
    <2> QED
      BY <2>2, <2>3, <2>4 DEF IInv, NoLeak
  <1> QED
    BY <1>1, <1>2, <1>3, <1>4, <1>5, <1>6 DEF IInv

LEMMA DropStreamInv ==
  ASSUME IInv, NEW t \in Threads, DropStream(t)
  PROVE  IInv'
  <1> USE DeviceAssumption DEF DropStream, Go, Return, Begin, AfterModule, inner, hip
  <1>1. TypeOK'
    <2>1. /\ pc \in [Threads -> Labels] /\ local \in [Threads -> Locals] /\ rng \in RngType
          /\ NoLocal \in Locals /\ NoRng \in RngType
      BY NoLocalType DEF IInv, TypeOK, Locals
    <2>2. pc' \in [Threads -> Labels]
      BY <2>1 DEF Labels
    <2>3. local' \in [Threads -> Locals]
      BY <2>1 DEF IInv, TypeOK, Locals
    <2>4. /\ rng_seed' \in Seeds /\ rng' \in RngType /\ poisoned' \in BOOLEAN
          /\ default_stream' \in Handles \cup {NoHandle} /\ streams' \subseteq Handles
          /\ current' \in [Threads -> SUBSET Seeds] /\ calls' \in 0 .. MaxCalls
      BY <2>1 DEF IInv, TypeOK, FreeStreams
    <2>5. /\ DOMAIN modules' \subseteq Kernels /\ \A m \in DOMAIN modules' : modules'[m] \in Handles
          /\ DOMAIN loaded' \subseteq Handles
          /\ \A h \in DOMAIN loaded' : loaded'[h] \in Kernels \cup {RngKernel}
      BY <2>1 DEF IInv, TypeOK, Load, Unload, FreeModules
    <2> QED
      BY <2>2, <2>3, <2>4, <2>5 DEF TypeOK, Locals
  <1>2. LocalOK'
    BY DEF IInv, TypeOK, LocalOK, RngType, NoLocal, NoRng
  <1>3. SeedOK'
    BY DEF IInv, TypeOK, LocalOK, SeedOK, NoRng
  <1>4. ModuleFound'
    BY DEF IInv, TypeOK, ModuleFound
  <1>5. SeedCurrent'
    BY DEF IInv, TypeOK, LocalOK, SeedOK, SeedCurrent, NoLocal
  <1>6. NoLeak'
    BY DEF IInv, TypeOK, LocalOK, NoLeak, Load, Unload, NoLocal, NoRng
  <1> QED
    BY <1>1, <1>2, <1>3, <1>4, <1>5, <1>6 DEF IInv

LEMMA StepInv == IInv /\ [Next]_vars => IInv'
  <1> SUFFICES ASSUME IInv, [Next]_vars PROVE IInv'
    OBVIOUS
  <1>1. ASSUME NEW t \in Threads, Step(t) PROVE IInv'
    <2>1. CASE Panics(t)
      BY <2>1, PanicsInv
    <2>2. CASE RandInit(t) \/ RandClone(t) \/ RandCloneNone(t)
      BY <2>2, RandInitInv, RandCloneInv, RandCloneNoneInv
    <2>3. CASE RandDraw(t) \/ RandFails(t) \/ RandDrop(t)
      BY <2>3, RandDrawInv, RandFailsInv, RandDropInv
    <2>4. CASE \E s \in Seeds : SetSeed(t, s)
      BY <2>4, SetSeedInv
    <2>5. CASE \E k \in Kernels : WithModule(t, k)
      BY <2>5, WithModuleInv
    <2>6. CASE GetOrCompile(t) \/ UseModule(t)
      BY <2>6, GetOrCompileInv, UseModuleInv
    <2>7. CASE Stream(t) \/ DropStream(t)
      BY <2>7, StreamInv, DropStreamInv
    <2> QED
      BY <1>1, <2>1, <2>2, <2>3, <2>4, <2>5, <2>6, <2>7 DEF Step
  <1>2. CASE UNCHANGED vars
    BY <1>2 DEF vars, inner, hip, IInv, TypeOK, LocalOK, SeedOK, ModuleFound, SeedCurrent, NoLeak
  <1> QED
    BY <1>1, <1>2 DEF Next

LEMMA Inductive == Spec => []IInv
  <1>1. Init => IInv
    BY InitInv
  <1>2. IInv /\ [Next]_vars => IInv'
    BY StepInv
  <1> QED
    BY <1>1, <1>2, PTL DEF Spec

\* The types of the state, among them that HIP has only handles it gave out.
THEOREM TypeCorrect == Spec => []TypeOK
  <1>1. IInv => TypeOK
    BY DEF IInv
  <1> QED
    BY <1>1, Inductive, PTL

\* with_module (rocm_backend/mod.rs): get_mut(kernel_file).unwrap() finds the
\* module that get_or_compile put there in an earlier critical section.
THEOREM ModulesAreFound == Spec => []ModuleFound
  <1>1. IInv => ModuleFound
    BY DEF IInv
  <1> QED
    BY <1>1, Inductive, PTL

\* rand_uniform and rand_normal: the generator a call draws from was made of a
\* seed that was the device's during the call.
THEOREM SeedsAreCurrent == Spec => []SeedCurrent
  <1>1. IInv => SeedCurrent
    BY DEF IInv
  <1> QED
    BY <1>1, Inductive, PTL

\* The handles of HIP are all referred to, after every error and every panic.
THEOREM NothingLeaks == Spec => []NoLeak
  <1>1. IInv => NoLeak
    BY DEF IInv
  <1> QED
    BY <1>1, Inductive, PTL
=============================================================================
