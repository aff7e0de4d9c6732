----------------------------- MODULE RocmDevice -----------------------------
(***************************************************************************)
(* The state of a ROCm device shared by its clones: RocmDeviceInner behind *)
(* a mutex (rocm_backend/mod.rs), and the HIP handles that hip-runtime     *)
(* wraps (HipModule, HipRng and HipStream derive Clone and release their   *)
(* handle in Drop).  A handle that was released may be given out again.    *)
(***************************************************************************)
EXTENDS Naturals, Sequences, FiniteSets

CONSTANTS
  Threads,
  Seeds,
  Kernels,     \* the kernel files of with_module
  Handles,     \* the values of HIP handles
  NoHandle,
  MaxCalls     \* bound: calls made on the device

RngKernel == "rng"

ASSUME DeviceAssumption ==
  /\ NoHandle \notin Handles /\ RngKernel \notin Kernels
  /\ Seeds # {} /\ MaxCalls \in Nat

VARIABLES
  rng_seed,
  rng,             \* the cached HipRng: [handle, seed, offset]
  modules,         \* the cached modules: [kernel -> handle]
  default_stream,  \* the cached stream, a handle or NoHandle
  poisoned,        \* a thread panicked while it held the mutex
  loaded,          \* HIP: [handle -> the code loaded under it]
  streams,         \* HIP: the stream handles that exist
  pc,              \* where the call of a thread is
  local,           \* its clone of rng, its kernel file, its clone of a stream
  current,         \* history: the seeds current during the call of a thread
  draws,           \* history: the state of the generator of every draw
  reseeded,        \* history: set_seed was called
  calls            \* history: the number of calls made

inner == <<rng_seed, rng, modules, default_stream, poisoned>>
hip == <<loaded, streams>>
vars == <<inner, hip, pc, local, current, draws, reseeded, calls>>

NoRng == [handle |-> NoHandle, seed |-> 0, offset |-> 0]
NoLocal == [rng |-> NoRng, kernel |-> RngKernel, stream |-> NoHandle]

Init ==
  /\ rng_seed \in Seeds
  /\ rng = NoRng
  /\ modules = <<>>
  /\ default_stream = NoHandle
  /\ poisoned = FALSE
  /\ loaded = <<>>
  /\ streams = {}
  /\ pc = [t \in Threads |-> "idle"]
  /\ local = [t \in Threads |-> NoLocal]
  /\ current = [t \in Threads |-> {}]
  /\ draws = <<>>
  /\ reseeded = FALSE
  /\ calls = 0

-----------------------------------------------------------------------------
(* HIP.                                                                    *)

FreeModules == Handles \ DOMAIN loaded
FreeStreams == Handles \ streams

Load(h, k) == loaded' = [m \in DOMAIN loaded \cup {h} |-> IF m = h THEN k ELSE loaded[m]]

\* Drop for HipModule.  Unloading what is not loaded is an error that is ignored.
Unload(h) == loaded' = [m \in DOMAIN loaded \ {h} |-> loaded[m]]

HasCode(h, k) == h \in DOMAIN loaded /\ loaded[h] = k

-----------------------------------------------------------------------------
(* Calls.  lock().unwrap() panics once the mutex is poisoned.              *)

Begin(t) ==
  /\ pc[t] = "idle" /\ calls < MaxCalls
  /\ calls' = calls + 1
  /\ current' = [current EXCEPT ![t] = {rng_seed}]

Go(t, label) == pc' = [pc EXCEPT ![t] = label]

Return(t) == Go(t, "idle") /\ local' = [local EXCEPT ![t] = NoLocal]

\* A step that takes the mutex once it is poisoned: the thread's call ends.
\* What the unwinding drops is the clone the thread holds.
Panics(t) ==
  /\ poisoned /\ pc[t] \in {"idle", "clone", "compile", "use"}
  /\ Go(t, "panicked") /\ local' = [local EXCEPT ![t] = NoLocal]
  /\ Unload(local[t].rng.handle)
  /\ UNCHANGED <<inner, streams, current, draws, reseeded, calls>>

\* rand_uniform, rand_normal: the section that creates the generator.
RandInit(t) ==
  /\ Begin(t) /\ ~poisoned
  /\ \/ /\ rng # NoRng
        /\ Go(t, "clone") /\ UNCHANGED <<rng, loaded>>
     \/ /\ rng = NoRng
        /\ \E h \in FreeModules :
             Load(h, RngKernel) /\ rng' = [handle |-> h, seed |-> rng_seed, offset |-> 0]
        /\ Go(t, "clone")
     \/ rng = NoRng /\ UNCHANGED <<rng, loaded, pc>>    \* HipRng::new fails
  /\ UNCHANGED <<rng_seed, modules, default_stream, poisoned, streams, local, draws, reseeded>>

\* The section that clones it.
RandClone(t) ==
  /\ pc[t] = "clone" /\ ~poisoned /\ rng # NoRng
  /\ local' = [local EXCEPT ![t].rng = rng]
  /\ Go(t, "draw")
  /\ UNCHANGED <<inner, hip, current, draws, reseeded, calls>>

\* inner.rng.clone().unwrap() on None, with the mutex held.
RandCloneNone(t) ==
  /\ pc[t] = "clone" /\ ~poisoned /\ rng = NoRng
  /\ poisoned' = TRUE
  /\ Go(t, "panicked") /\ local' = [local EXCEPT ![t] = NoLocal]
  /\ UNCHANGED <<rng_seed, rng, modules, default_stream, hip, current, draws, reseeded, calls>>

\* HipRng::uniform_f32, normal_f32 on the clone, then the scaling kernel if
\* the bounds are not 0 and 1.
RandDraw(t) ==
  /\ pc[t] = "draw" /\ HasCode(local[t].rng.handle, RngKernel)
  /\ draws' = Append(draws, [seed |-> local[t].rng.seed, offset |-> local[t].rng.offset])
  /\ \/ Go(t, "drop") /\ local' = [local EXCEPT ![t].rng.offset = @ + 1]
     \/ \E k \in Kernels :
          /\ Go(t, "compile")
          /\ local' = [local EXCEPT ![t].rng.offset = @ + 1, ![t].kernel = k]
  /\ UNCHANGED <<inner, hip, current, reseeded, calls>>

\* get_function does not find the function in what the handle stands for, or
\* an allocation or the launch fails.
RandFails(t) ==
  /\ pc[t] = "draw"
  /\ Go(t, "drop")
  /\ UNCHANGED <<inner, hip, local, current, draws, reseeded, calls>>

\* The clone is dropped.
RandDrop(t) ==
  /\ pc[t] = "drop"
  /\ Unload(local[t].rng.handle)
  /\ Return(t)
  /\ UNCHANGED <<inner, streams, current, draws, reseeded, calls>>

\* Mutant: the generator survives a change of the seed.
SetSeedKeepsRng(t, s) ==
  /\ pc[t] = "idle" /\ calls < MaxCalls /\ ~poisoned
  /\ calls' = calls + 1
  /\ rng_seed' = s /\ reseeded' = TRUE
  /\ current' = [u \in Threads |-> current[u] \cup {s}]
  /\ UNCHANGED <<rng, modules, default_stream, poisoned, hip, pc, local, draws>>

\* Mutant: the old generator is forgotten instead of dropped.
SetSeedForgets(t, s) ==
  /\ pc[t] = "idle" /\ calls < MaxCalls /\ ~poisoned
  /\ calls' = calls + 1
  /\ rng_seed' = s /\ reseeded' = TRUE
  /\ rng' = NoRng
  /\ current' = [u \in Threads |-> current[u] \cup {s}]
  /\ UNCHANGED <<modules, default_stream, poisoned, hip, pc, local, draws>>

\* The old generator is dropped with the mutex held.
SetSeed(t, s) ==
  /\ pc[t] = "idle" /\ calls < MaxCalls /\ ~poisoned
  /\ calls' = calls + 1
  /\ rng_seed' = s /\ reseeded' = TRUE
  /\ rng' = NoRng
  /\ Unload(rng.handle)
  /\ current' = [u \in Threads |-> current[u] \cup {s}]
  /\ UNCHANGED <<modules, default_stream, poisoned, streams, pc, local, draws>>

\* with_module: any operation that launches a kernel.
WithModule(t, k) ==
  /\ Begin(t)
  /\ Go(t, "compile")
  /\ local' = [local EXCEPT ![t].kernel = k]
  /\ UNCHANGED <<inner, hip, draws, reseeded>>

\* Where a call continues after with_module: rand_uniform drops its clone.
AfterModule(t) ==
  IF local[t].rng = NoRng THEN Return(t) ELSE Go(t, "drop") /\ UNCHANGED local

\* Mutant: a failed compilation or load is not reported.
GetOrCompileSilent(t) ==
  /\ pc[t] = "compile" /\ ~poisoned
  /\ \/ Go(t, "use") /\ UNCHANGED <<modules, loaded, local>>
     \/ \E h \in FreeModules, k \in {local[t].kernel} :
          /\ Load(h, k)
          /\ modules' = [m \in DOMAIN modules \cup {k} |-> IF m = k THEN h ELSE modules[m]]
          /\ Go(t, "use") /\ UNCHANGED local
  /\ UNCHANGED <<rng_seed, rng, default_stream, poisoned, streams, current, draws, reseeded, calls>>

\* get_or_compile.
GetOrCompile(t) ==
  /\ pc[t] = "compile" /\ ~poisoned
  /\ LET k == local[t].kernel
     IN  \/ /\ k \in DOMAIN modules
            /\ Go(t, "use") /\ UNCHANGED <<modules, loaded, local>>
         \/ /\ k \notin DOMAIN modules
            /\ \E h \in FreeModules :
                 /\ Load(h, k)
                 /\ modules' = [m \in DOMAIN modules \cup {k} |-> IF m = k THEN h ELSE modules[m]]
            /\ Go(t, "use") /\ UNCHANGED local
         \/ /\ k \notin DOMAIN modules                   \* compile or load fails
            /\ AfterModule(t) /\ UNCHANGED <<modules, loaded>>
  /\ UNCHANGED <<rng_seed, rng, default_stream, poisoned, streams, current, draws, reseeded, calls>>

\* modules.get_mut(kernel_file).unwrap(), which ModuleFound shows to succeed,
\* and the launch, which may fail.
UseModule(t) ==
  /\ pc[t] = "use" /\ ~poisoned
  /\ AfterModule(t)
  /\ UNCHANGED <<inner, hip, current, draws, reseeded, calls>>

\* RocmDevice::stream.
Stream(t) ==
  /\ Begin(t) /\ ~poisoned
  /\ \/ /\ default_stream # NoHandle
        /\ local' = [local EXCEPT ![t].stream = default_stream]
        /\ UNCHANGED <<default_stream, streams>>
     \/ /\ default_stream = NoHandle
        /\ \E h \in FreeStreams :
             /\ streams' = streams \cup {h}
             /\ default_stream' = h
             /\ local' = [local EXCEPT ![t].stream = h]
  /\ Go(t, "stream")
  /\ UNCHANGED <<rng_seed, rng, modules, poisoned, loaded, draws, reseeded>>

\* The caller, record_event or stream_synchronize drops its clone.
DropStream(t) ==
  /\ pc[t] = "stream"
  /\ streams' = streams \ {local[t].stream}
  /\ Return(t)
  /\ UNCHANGED <<inner, loaded, current, draws, reseeded, calls>>

Step(t) ==
  \/ Panics(t)
  \/ RandInit(t) \/ RandClone(t) \/ RandCloneNone(t) \/ RandDraw(t) \/ RandFails(t) \/ RandDrop(t)
  \/ \E s \in Seeds : SetSeed(t, s)
  \/ \E k \in Kernels : WithModule(t, k)
  \/ GetOrCompile(t) \/ UseModule(t)
  \/ Stream(t) \/ DropStream(t)

Next == \E t \in Threads : Step(t)

Spec == Init /\ [][Next]_vars

-----------------------------------------------------------------------------
(* Properties.                                                             *)

RngType == [handle : Handles \cup {NoHandle}, seed : Seeds \cup {0}, offset : Nat]
Labels == {"idle", "clone", "draw", "compile", "use", "drop", "stream", "panicked"}

\* Type invariant.  HIP only ever has handles that it gave out.
TypeOK ==
  /\ rng_seed \in Seeds /\ rng \in RngType /\ poisoned \in BOOLEAN
  /\ DOMAIN modules \subseteq Kernels /\ \A k \in DOMAIN modules : modules[k] \in Handles
  /\ default_stream \in Handles \cup {NoHandle}
  /\ DOMAIN loaded \subseteq Handles
  /\ \A h \in DOMAIN loaded : loaded[h] \in Kernels \cup {RngKernel}
  /\ streams \subseteq Handles
  /\ pc \in [Threads -> Labels]
  /\ local \in [Threads -> [rng : RngType, kernel : Kernels \cup {RngKernel},
                            stream : Handles \cup {NoHandle}]]
  /\ current \in [Threads -> SUBSET Seeds] /\ calls \in 0 .. MaxCalls

\* with_module releases the mutex between get_or_compile and get_mut().unwrap()
\* (mod.rs:170): whatever the other threads do, the module is still there.
ModuleFound ==
  \A t \in Threads : pc[t] = "use" => local[t].kernel \in DOMAIN modules

\* rand_uniform and rand_normal read the seed, create the generator and clone
\* it in sections of their own: the seed they end up with was current at some
\* moment of the call, however set_seed calls fall between the sections.
SeedCurrent ==
  \A t \in Threads : local[t].rng # NoRng => local[t].rng.seed \in current[t]

\* Nothing that HIP gave out is forgotten: a loaded module is referred to by
\* the device or by the call of a thread, and so is a stream, after every
\* error path and every panic.
NoLeak ==
  /\ \A h \in DOMAIN loaded :
       \/ rng.handle = h
       \/ \E k \in DOMAIN modules : modules[k] = h
       \/ \E t \in Threads : local[t].rng.handle = h
  /\ \A h \in streams : default_stream = h \/ \E t \in Threads : local[t].stream = h

\* The generator that "Lazy-init RNG" (mod.rs:352) left behind is there when
\* the next section unwraps it.
RandFindsRng ==
  \A t \in Threads : pc[t] = "clone" /\ ~poisoned => rng # NoRng

\* "GPU random number generator (Philox 4x32-10). Initialized lazily on first
\* RNG call." (mod.rs:41): once initialized it can be used.
RngUsable == rng # NoRng => HasCode(rng.handle, RngKernel)

\* "Advance offset so subsequent calls produce different values" (rng.rs:69):
\* two draws without a set_seed are not made from the same state.
DrawsDiffer ==
  ~reseeded => \A i, j \in 1 .. Len(draws) : draws[i] = draws[j] => i = j

\* "Returns the device's default async stream" (mod.rs:502): the handle that
\* a caller of stream() holds is a stream.
StreamUsable ==
  \A t \in Threads : pc[t] = "stream" => local[t].stream \in streams

\* Both handles are kept in the device and handed out as clones: dropping a
\* clone leaves what the device keeps usable.
CachedHandlesUsable == RngUsable /\ StreamUsable
=============================================================================
