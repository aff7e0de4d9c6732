---------------------------- MODULE KernelCache ----------------------------
(***************************************************************************)
(* The on-disk cache of compiled kernels that the processes of a machine   *)
(* share (rocm_backend/mod.rs, get_or_compile; hip-runtime/src/module.rs): *)
(* next to <kernel>.hip, the code <kernel>.hsaco and the hash of the source *)
(* it was compiled from, <kernel>.src_hash.  One kernel; a process holds   *)
(* the mutex of its device for the whole of get_or_compile.                *)
(***************************************************************************)
EXTENDS Naturals, FiniteSets

CONSTANTS
  Procs,
  Texts,       \* the texts of the source; their hashes are distinct
  Archs,       \* the architectures a process may compile for (HIP_ARCH)
  Nothing,     \* no file, no module
  MaxEdits,    \* bound: edits of the source
  MaxStarts    \* bound: processes started

ASSUME KernelCacheAssumption ==
  /\ Nothing \notin Texts /\ Nothing \notin [src : Texts, arch : Archs]
  /\ MaxEdits \in Nat /\ MaxStarts \in Nat

VARIABLES
  src,         \* <kernel>.hip
  out,         \* <kernel>.hsaco: what it was compiled from and for
  hash_file,   \* <kernel>.src_hash: the text it is the hash of
  pc,
  arch,
  src_hash,    \* the process's locals
  cached_hash,
  building,    \* what its hipcc has read
  module,      \* the module it loaded
  seen,        \* history: the texts the source had during the call
  texts,       \* history: the texts the source ever had
  orderly,     \* history: edits were new texts, outside of overlapping calls
  starts, edits

files == <<src, out, hash_file>>
locals == <<arch, src_hash, cached_hash, building, module>>
history == <<seen, texts, orderly, starts, edits>>
vars == <<files, pc, locals, history>>

Code == [src : Texts, arch : Archs]

Init ==
  /\ src \in Texts
  /\ out = Nothing /\ hash_file = Nothing
  /\ pc = [p \in Procs |-> "off"]
  /\ arch \in [Procs -> Archs]
  /\ src_hash = [p \in Procs |-> Nothing]
  /\ cached_hash = [p \in Procs |-> Nothing]
  /\ building = [p \in Procs |-> Nothing]
  /\ module = [p \in Procs |-> Nothing]
  /\ seen = [p \in Procs |-> {}]
  /\ texts = {src} /\ orderly = TRUE
  /\ starts = 0 /\ edits = 0

-----------------------------------------------------------------------------
(* The world around the cache.                                             *)

Busy == {p \in Procs : pc[p] \notin {"off", "idle"}}

\* The calls of two processes overlap, and the source changed during one.
Overlap == \E p, q \in Busy : p # q /\ Cardinality(seen[p]) > 1

Edit(text) ==
  /\ edits < MaxEdits /\ text # src
  /\ src' = text
  /\ seen' = [p \in Procs |-> IF p \in Busy THEN seen[p] \cup {text} ELSE seen[p]]
  /\ texts' = texts \cup {text}
  /\ edits' = edits + 1
  /\ UNCHANGED <<out, hash_file, pc, locals, starts>>
  /\ orderly' = (orderly /\ text \notin texts /\ ~Overlap')

\* Compiled kernels are not kept in the repository (.gitignore).
Clean ==
  /\ out # Nothing /\ out' = Nothing
  /\ hash_file' \in {hash_file, Nothing}
  /\ UNCHANGED <<src, pc, locals, history>>

Start(p, a) ==
  /\ pc[p] = "off" /\ starts < MaxStarts
  /\ pc' = [pc EXCEPT ![p] = "idle"]
  /\ arch' = [arch EXCEPT ![p] = a]
  /\ module' = [module EXCEPT ![p] = Nothing]
  /\ starts' = starts + 1
  /\ UNCHANGED <<files, src_hash, cached_hash, building, seen, texts, orderly, edits>>

\* A hipcc that was started goes on when its process has ended.
Crash(p) ==
  /\ pc[p] \notin {"off", "orphan"}
  /\ pc' = [pc EXCEPT ![p] = IF pc[p] = "hipcc" THEN "orphan" ELSE "off"]
  /\ UNCHANGED <<files, locals, history>>

OrphanWrites(p) ==
  /\ pc[p] = "orphan"
  /\ out' \in {building[p], out}
  /\ pc' = [pc EXCEPT ![p] = "off"]
  /\ UNCHANGED <<src, hash_file, locals, history>>

-----------------------------------------------------------------------------
(* get_or_compile.                                                         *)

Go(p, label) == pc' = [pc EXCEPT ![p] = label]

\* The module is not loaded: the source is read and hashed.
ReadSource(p) ==
  /\ pc[p] = "idle" /\ module[p] = Nothing
  /\ src_hash' = [src_hash EXCEPT ![p] = src]
  /\ seen' = [seen EXCEPT ![p] = {src}]
  /\ Go(p, "hashed")
  /\ orderly' = (orderly /\ ~Overlap')
  /\ UNCHANGED <<files, arch, cached_hash, building, module, texts, starts, edits>>

ReadHash(p) ==
  /\ pc[p] = "hashed"
  /\ cached_hash' = [cached_hash EXCEPT ![p] = hash_file]
  /\ Go(p, "decide")
  /\ UNCHANGED <<files, arch, src_hash, building, module, history>>

\* Mutant: any code there is will do.
NeedsCompileMissing(p) == out = Nothing

NeedsCompile(p) == out = Nothing \/ cached_hash[p] # src_hash[p]

Decide(p) ==
  /\ pc[p] = "decide"
  /\ Go(p, IF NeedsCompile(p) THEN "compile" ELSE "load")
  /\ UNCHANGED <<files, locals, history>>

\* hipcc reads the source, ...
CompileReads(p) ==
  /\ pc[p] = "compile"
  /\ building' = [building EXCEPT ![p] = [src |-> src, arch |-> arch[p]]]
  /\ Go(p, "hipcc")
  /\ UNCHANGED <<files, arch, src_hash, cached_hash, module, history>>

\* ... and replaces the code,
CompileWrites(p) ==
  /\ pc[p] = "hipcc"
  /\ out' = building[p]
  /\ Go(p, "truncate")
  /\ UNCHANGED <<src, hash_file, locals, history>>

\* ... or does not, and get_or_compile returns an error.
CompileFails(p) ==
  /\ pc[p] \in {"compile", "hipcc"}
  /\ Go(p, "idle")
  /\ UNCHANGED <<files, locals, history>>

\* fs::write empties the file and writes it; what fails here is ignored.
TruncateHash(p) ==
  /\ pc[p] = "truncate"
  /\ \/ hash_file' = Nothing /\ Go(p, "write")
     \/ UNCHANGED hash_file /\ Go(p, "load")
  /\ UNCHANGED <<src, out, locals, history>>

WriteHash(p) ==
  /\ pc[p] = "write"
  /\ hash_file' \in {src_hash[p], Nothing}
  /\ Go(p, "load")
  /\ UNCHANGED <<src, out, locals, history>>

\* HipModule::load, on whatever the file is by now.
Load(p) ==
  /\ pc[p] = "load"
  /\ module' = [module EXCEPT ![p] = out]
  /\ Go(p, "idle")
  /\ UNCHANGED <<files, arch, src_hash, cached_hash, building, history>>

LoadFails(p) ==
  /\ pc[p] = "load"
  /\ Go(p, "idle")
  /\ UNCHANGED <<files, locals, history>>

Next ==
  \/ \E text \in Texts : Edit(text)
  \/ Clean
  \/ \E p \in Procs :
       \/ \E a \in Archs : Start(p, a)
       \/ Crash(p) \/ OrphanWrites(p)
       \/ ReadSource(p) \/ ReadHash(p) \/ Decide(p)
       \/ CompileReads(p) \/ CompileWrites(p) \/ CompileFails(p)
       \/ TruncateHash(p) \/ WriteHash(p)
       \/ Load(p) \/ LoadFails(p)

Spec == Init /\ [][Next]_vars

-----------------------------------------------------------------------------
(* Properties.                                                             *)

\* Type invariant.
TypeOK ==
  /\ src \in Texts
  /\ out \in Code \cup {Nothing}
  /\ hash_file \in Texts \cup {Nothing}
  /\ pc \in [Procs -> {"off", "idle", "hashed", "decide", "compile", "hipcc", "orphan",
                       "truncate", "write", "load"}]
  /\ arch \in [Procs -> Archs]
  /\ src_hash \in [Procs -> Texts \cup {Nothing}]
  /\ cached_hash \in [Procs -> Texts \cup {Nothing}]
  /\ building \in [Procs -> Code \cup {Nothing}]
  /\ module \in [Procs -> Code \cup {Nothing}]
  /\ \A p \in Procs : pc[p] \in {"hipcc", "orphan", "truncate", "write"} => building[p] # Nothing
  /\ seen \in [Procs -> SUBSET Texts] /\ texts \subseteq Texts
  /\ orderly \in BOOLEAN

\* A process runs the kernel as its source was at some time during the call
\* that loaded it, whatever crashes, fails and runs at the same time, as long
\* as every edit is a new text and none falls into overlapping calls.
ModuleIsCurrent ==
  orderly => \A p \in Procs : module[p] # Nothing => module[p].src \in seen[p]

\* rocm_backend/mod.rs:131 says the hash "includes arch": what a process is
\* about to load was then compiled for the architecture it compiles for.
CodeIsForArch ==
  \A p \in Procs : pc[p] = "load" /\ out # Nothing => out.arch = arch[p]
=============================================================================
