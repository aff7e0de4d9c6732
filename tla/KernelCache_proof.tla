-------------------------- MODULE KernelCache_proof --------------------------
(***************************************************************************)
(* Proofs about KernelCache, for any number of processes, texts, edits and *)
(* starts: a process never runs code of a text that the source did not     *)
(* have during its call, as long as the edits are orderly.                 *)
(***************************************************************************)
EXTENDS KernelCache, FiniteSetTheorems, TLAPS

\* What a call has read and built is from a text that the source had since the
\* call began; every text is on record.
Recorded ==
  /\ src \in texts /\ hash_file \in texts \cup {Nothing}
  /\ \A p \in Procs : seen[p] \subseteq texts /\ IsFiniteSet(seen[p])
  /\ \A p \in Busy :
       /\ src \in seen[p] /\ src_hash[p] \in seen[p]
       /\ pc[p] \in {"hipcc", "orphan", "truncate", "write"} => building[p].src \in seen[p]

\* Two calls at the same time have both seen one text, that of the source.
Apart == \A p, q \in Busy : p # q => seen[p] = {src}

\* The hash of the current text was written by a call that saw no other: no
\* code of another text is there, and none will come.
HashIsFresh ==
  /\ hash_file = src =>
       /\ out # Nothing => out.src = src
       /\ \A p \in Busy : seen[p] = {src}
  /\ \A p \in Busy : src_hash[p] = src => seen[p] = {src}

\* Where the code is about to be loaded, or would be after the next test.
CodeIsSeen ==
  out # Nothing =>
    \A p \in Busy :
      \/ pc[p] \in {"truncate", "write", "load"}
      \/ pc[p] = "hashed" /\ hash_file = src_hash[p]
      \/ pc[p] = "decide" /\ cached_hash[p] = src_hash[p]
      => out.src \in seen[p]

IInv ==
  /\ TypeOK /\ Recorded
  /\ orderly => Apart /\ HashIsFresh /\ CodeIsSeen
  /\ ModuleIsCurrent

Labels == {"off", "idle", "hashed", "decide", "compile", "hipcc", "orphan", "truncate", "write", "load"}

LEMMA TwoElements ==
  ASSUME NEW S, IsFiniteSet(S), NEW x \in S, ~(Cardinality(S) > 1)
  PROVE  S = {x}
  <1> SUFFICES ASSUME NEW y \in S, y # x PROVE FALSE
    OBVIOUS
  <1>1. IsFiniteSet({x}) /\ Cardinality({x}) = 1
    BY FS_Singleton
  <1>2. IsFiniteSet({x} \cup {y}) /\ Cardinality({x} \cup {y}) = 2
    BY <1>1, FS_AddElement
  <1>3. Cardinality({x} \cup {y}) <= Cardinality(S)
    BY FS_Subset
  <1>4. Cardinality(S) \in Nat
    BY FS_CardinalityType
  <1> QED
    BY <1>2, <1>3, <1>4

LEMMA InitInv == Init => IInv
  <1> SUFFICES ASSUME Init PROVE IInv
    OBVIOUS
  <1> USE KernelCacheAssumption DEF Init
  <1>1. TypeOK
    BY DEF TypeOK
  <1>2. Busy = {}
    BY DEF Busy
  <1>3. Recorded
    BY <1>2, FS_EmptySet DEF Recorded
  <1>4. Apart /\ HashIsFresh /\ CodeIsSeen /\ ModuleIsCurrent
    BY <1>2 DEF Apart, HashIsFresh, CodeIsSeen, ModuleIsCurrent
  <1> QED
    BY <1>1, <1>3, <1>4 DEF IInv

LEMMA EditInv ==
  ASSUME IInv, NEW text \in Texts, Edit(text)
  PROVE  IInv'
  <1> USE KernelCacheAssumption DEF Edit, Go, files, locals, history
  <1>1. TypeOK'
    BY DEF IInv, TypeOK, Code, Labels
  <1>2. Recorded'
    BY FS_AddElement, <1>1 DEF IInv, TypeOK, Recorded, Busy
  <1>3. ASSUME orderly' PROVE orderly /\ Apart'
    <2>1. orderly
      BY <1>3
    <2>2. ~Overlap'
      BY <1>3
    <2> QED
      BY <1>2, <2>1, <2>2, TwoElements DEF Recorded, Overlap, Apart, Busy
  <1>4. ASSUME orderly' PROVE HashIsFresh'
    <2>1. text \notin texts
      BY <1>4
    <2>2. hash_file' # src' /\ \A p \in Busy' : src_hash'[p] # src'
      BY <2>1 DEF IInv, TypeOK, Recorded, Busy
    <2> QED
      BY <2>2 DEF HashIsFresh
  <1>5. ASSUME orderly' PROVE CodeIsSeen'
    BY <1>3, <1>5 DEF IInv, TypeOK, Recorded, Apart, HashIsFresh, CodeIsSeen, Busy
  <1>6. ModuleIsCurrent'
    BY <1>3 DEF IInv, TypeOK, Recorded, CodeIsSeen, ModuleIsCurrent, Busy
  <1> QED
    BY <1>1, <1>2, <1>3, <1>4, <1>5, <1>6 DEF IInv

LEMMA CleanInv ==
  ASSUME IInv, Clean
  PROVE  IInv'
  <1> USE KernelCacheAssumption DEF Clean, Go, files, locals, history
  <1>1. TypeOK'
    BY DEF IInv, TypeOK, Code, Labels
  <1>2. Recorded'
    BY <1>1 DEF IInv, TypeOK, Recorded, Busy
  <1>3. ASSUME orderly' PROVE orderly /\ Apart'
    <2>1. orderly
      BY <1>3
    <2> QED
      BY <1>2, <1>3, <2>1 DEF IInv, TypeOK, Apart, Busy
  <1>4. ASSUME orderly' PROVE HashIsFresh'
    BY <1>3, <1>4 DEF IInv, TypeOK, Recorded, Apart, HashIsFresh, CodeIsSeen, Busy
  <1>5. ASSUME orderly' PROVE CodeIsSeen'
    BY <1>3, <1>5 DEF IInv, TypeOK, Recorded, Apart, HashIsFresh, CodeIsSeen, Busy
  <1>6. ModuleIsCurrent'
    BY <1>3 DEF IInv, TypeOK, Recorded, CodeIsSeen, ModuleIsCurrent, Busy
  <1> QED
    BY <1>1, <1>2, <1>3, <1>4, <1>5, <1>6 DEF IInv

LEMMA StartInv ==
  ASSUME IInv, NEW p \in Procs, NEW a \in Archs, Start(p, a)
  PROVE  IInv'
  <1> USE KernelCacheAssumption DEF Start, Go, files, locals, history
  <1>1. TypeOK'
    BY DEF IInv, TypeOK, Code, Labels
  <1>2. Recorded'
    BY <1>1 DEF IInv, TypeOK, Recorded, Busy
  <1>3. ASSUME orderly' PROVE orderly /\ Apart'
    <2>1. orderly
      BY <1>3
    <2> QED
      BY <1>2, <1>3, <2>1 DEF IInv, TypeOK, Apart, Busy
  <1>4. ASSUME orderly' PROVE HashIsFresh'
    BY <1>3, <1>4 DEF IInv, TypeOK, Recorded, Apart, HashIsFresh, CodeIsSeen, Busy
  <1>5. ASSUME orderly' PROVE CodeIsSeen'
    BY <1>3, <1>5 DEF IInv, TypeOK, Recorded, Apart, HashIsFresh, CodeIsSeen, Busy
  <1>6. ModuleIsCurrent'
    BY <1>3 DEF IInv, TypeOK, Recorded, CodeIsSeen, ModuleIsCurrent, Busy
  <1> QED
    BY <1>1, <1>2, <1>3, <1>4, <1>5, <1>6 DEF IInv

LEMMA CrashInv ==
  ASSUME IInv, NEW p \in Procs, Crash(p)
  PROVE  IInv'
  <1> USE KernelCacheAssumption DEF Crash, Go, files, locals, history
  <1>1. TypeOK'
    BY DEF IInv, TypeOK, Code, Labels
  <1>2. Recorded'
    BY <1>1 DEF IInv, TypeOK, Recorded, Busy
  <1>3. ASSUME orderly' PROVE orderly /\ Apart'
    <2>1. orderly
      BY <1>3
    <2> QED
      BY <1>2, <1>3, <2>1 DEF IInv, TypeOK, Apart, Busy
  <1>4. ASSUME orderly' PROVE HashIsFresh'
    BY <1>3, <1>4 DEF IInv, TypeOK, Recorded, Apart, HashIsFresh, CodeIsSeen, Busy
  <1>5. ASSUME orderly' PROVE CodeIsSeen'
    BY <1>3, <1>5 DEF IInv, TypeOK, Recorded, Apart, HashIsFresh, CodeIsSeen, Busy
  <1>6. ModuleIsCurrent'
    BY <1>3 DEF IInv, TypeOK, Recorded, CodeIsSeen, ModuleIsCurrent, Busy
  <1> QED
    BY <1>1, <1>2, <1>3, <1>4, <1>5, <1>6 DEF IInv

LEMMA OrphanWritesInv ==
  ASSUME IInv, NEW p \in Procs, OrphanWrites(p)
  PROVE  IInv'
  <1> USE KernelCacheAssumption DEF OrphanWrites, Go, files, locals, history
  <1>1. TypeOK'
    BY DEF IInv, TypeOK, Code, Labels
  <1>2. Recorded'
    BY <1>1 DEF IInv, TypeOK, Recorded, Busy
  <1>3. ASSUME orderly' PROVE orderly /\ Apart'
    <2>1. orderly
      BY <1>3
    <2> QED
      BY <1>2, <1>3, <2>1 DEF IInv, TypeOK, Apart, Busy
  <1>4. ASSUME orderly' PROVE HashIsFresh'
    BY <1>3, <1>4 DEF IInv, TypeOK, Recorded, Apart, HashIsFresh, CodeIsSeen, Busy
  <1>5. ASSUME orderly' PROVE CodeIsSeen'
    BY <1>3, <1>5 DEF IInv, TypeOK, Recorded, Apart, HashIsFresh, CodeIsSeen, Busy
  <1>6. ModuleIsCurrent'
    BY <1>3 DEF IInv, TypeOK, Recorded, CodeIsSeen, ModuleIsCurrent, Busy
  <1> QED
    BY <1>1, <1>2, <1>3, <1>4, <1>5, <1>6 DEF IInv

LEMMA ReadSourceInv ==
  ASSUME IInv, NEW p \in Procs, ReadSource(p)
  PROVE  IInv'
  <1> USE KernelCacheAssumption DEF ReadSource, Go, files, locals, history
  <1>1. TypeOK'
    BY DEF IInv, TypeOK, Code, Labels
  <1>2. Recorded'
    BY FS_Singleton, <1>1 DEF IInv, TypeOK, Recorded, Busy
  <1>3. ASSUME orderly' PROVE orderly /\ Apart'
    <2>1. orderly
      BY <1>3
    <2>2. ~Overlap'
      BY <1>3
    <2> QED
      BY <1>2, <2>1, <2>2, TwoElements DEF Recorded, Overlap, Apart, Busy
  <1>4. ASSUME orderly' PROVE HashIsFresh'
    BY <1>3, <1>4 DEF IInv, TypeOK, Recorded, Apart, HashIsFresh, CodeIsSeen, Busy
  <1>5. ASSUME orderly' PROVE CodeIsSeen'
    BY <1>3, <1>5 DEF IInv, TypeOK, Recorded, Apart, HashIsFresh, CodeIsSeen, Busy
  <1>6. ModuleIsCurrent'
    BY <1>3 DEF IInv, TypeOK, Recorded, CodeIsSeen, ModuleIsCurrent, Busy
  <1> QED
    BY <1>1, <1>2, <1>3, <1>4, <1>5, <1>6 DEF IInv

LEMMA ReadHashInv ==
  ASSUME IInv, NEW p \in Procs, ReadHash(p)
  PROVE  IInv'
  <1> USE KernelCacheAssumption DEF ReadHash, Go, files, locals, history
  <1>1. TypeOK'
    BY DEF IInv, TypeOK, Code, Labels
  <1>2. Recorded'
    BY <1>1 DEF IInv, TypeOK, Recorded, Busy
  <1>3. ASSUME orderly' PROVE orderly /\ Apart'
    <2>1. orderly
      BY <1>3
    <2> QED
      BY <1>2, <1>3, <2>1 DEF IInv, TypeOK, Apart, Busy
  <1>4. ASSUME orderly' PROVE HashIsFresh'
    BY <1>3, <1>4 DEF IInv, TypeOK, Recorded, Apart, HashIsFresh, CodeIsSeen, Busy
  <1>5. ASSUME orderly' PROVE CodeIsSeen'
    BY <1>3, <1>5 DEF IInv, TypeOK, Recorded, Apart, HashIsFresh, CodeIsSeen, Busy
  <1>6. ModuleIsCurrent'
    BY <1>3 DEF IInv, TypeOK, Recorded, CodeIsSeen, ModuleIsCurrent, Busy
  <1> QED
    BY <1>1, <1>2, <1>3, <1>4, <1>5, <1>6 DEF IInv

LEMMA DecideInv ==
  ASSUME IInv, NEW p \in Procs, Decide(p)
  PROVE  IInv'
  <1> USE KernelCacheAssumption DEF Decide, Go, files, locals, history
  <1>1. TypeOK'
    BY DEF IInv, TypeOK, Code, Labels
  <1>2. Recorded'
    BY <1>1 DEF IInv, TypeOK, Recorded, Busy
  <1>3. ASSUME orderly' PROVE orderly /\ Apart'
    <2>1. orderly
      BY <1>3
    <2> QED
      BY <1>2, <1>3, <2>1 DEF IInv, TypeOK, Apart, Busy
  <1>4. ASSUME orderly' PROVE HashIsFresh'
    BY <1>3, <1>4 DEF IInv, TypeOK, Recorded, Apart, HashIsFresh, CodeIsSeen, Busy
  <1>5. ASSUME orderly' PROVE CodeIsSeen'
    <2>1. CodeIsSeen /\ p \in Busy
      BY <1>3, <1>5 DEF IInv, Busy
    <2>2. pc'[p] \in {"compile", "load"} /\ (pc'[p] = "load" => ~NeedsCompile(p))
      BY DEF IInv, TypeOK
    <2>3. \A q \in Procs \ {p} : pc'[q] = pc[q]
      BY DEF IInv, TypeOK
    <2> QED
      BY <2>1, <2>2, <2>3 DEF CodeIsSeen, Busy, NeedsCompile
  <1>6. ModuleIsCurrent'
    BY <1>3 DEF IInv, TypeOK, Recorded, CodeIsSeen, ModuleIsCurrent, Busy
  <1> QED
    BY <1>1, <1>2, <1>3, <1>4, <1>5, <1>6 DEF IInv

LEMMA CompileReadsInv ==
  ASSUME IInv, NEW p \in Procs, CompileReads(p)
  PROVE  IInv'
  <1> USE KernelCacheAssumption DEF CompileReads, Go, files, locals, history
  <1>1. TypeOK'
    <2>1. [src |-> src, arch |-> arch[p]] \in Code
      BY DEF IInv, TypeOK, Code
    <2> DEFINE b == [src |-> src, arch |-> arch[p]]
    <2>2. b \in Code /\ b # Nothing
      BY <2>1 DEF Code
    <2>3. /\ pc[p] = "compile"
          /\ building' = [building EXCEPT ![p] = b]
          /\ pc' = [pc EXCEPT ![p] = "hipcc"]
          /\ UNCHANGED <<src, out, hash_file, arch, src_hash, cached_hash, module, seen,
                         texts, orderly>>
      OBVIOUS
    <2> HIDE DEF b, CompileReads
    <2>4. building' \in [Procs -> Code \cup {Nothing}]
      BY <2>2, <2>3 DEF IInv, TypeOK
    <2>5. pc' \in [Procs -> Labels]
      BY <2>3 DEF IInv, TypeOK, Labels
    <2>6. \A q \in Procs :
            pc'[q] \in {"hipcc", "orphan", "truncate", "write"} => building'[q] # Nothing
      BY <2>2, <2>3 DEF IInv, TypeOK
    <2> QED
      BY <2>3, <2>4, <2>5, <2>6 DEF IInv, TypeOK, Labels
  <1>2. Recorded'
    BY <1>1 DEF IInv, TypeOK, Recorded, Busy
  <1>3. ASSUME orderly' PROVE orderly /\ Apart'
    <2>1. orderly
      BY <1>3
    <2> QED
      BY <1>2, <1>3, <2>1 DEF IInv, TypeOK, Apart, Busy
  <1>4. ASSUME orderly' PROVE HashIsFresh'
    BY <1>3, <1>4 DEF IInv, TypeOK, Recorded, Apart, HashIsFresh, CodeIsSeen, Busy
  <1>5. ASSUME orderly' PROVE CodeIsSeen'
    BY <1>3, <1>5 DEF IInv, TypeOK, Recorded, Apart, HashIsFresh, CodeIsSeen, Busy
  <1>6. ModuleIsCurrent'
    BY <1>3 DEF IInv, TypeOK, Recorded, CodeIsSeen, ModuleIsCurrent, Busy
  <1> QED
    BY <1>1, <1>2, <1>3, <1>4, <1>5, <1>6 DEF IInv

LEMMA CompileWritesInv ==
  ASSUME IInv, NEW p \in Procs, CompileWrites(p)
  PROVE  IInv'
  <1> USE KernelCacheAssumption DEF CompileWrites, Go, files, locals, history
  <1>1. TypeOK'
    BY DEF IInv, TypeOK, Code, Labels
  <1>2. Recorded'
    BY <1>1 DEF IInv, TypeOK, Recorded, Busy
  <1>3. ASSUME orderly' PROVE orderly /\ Apart'
    <2>1. orderly
      BY <1>3
    <2> QED
      BY <1>2, <1>3, <2>1 DEF IInv, TypeOK, Apart, Busy
  <1>4. ASSUME orderly' PROVE HashIsFresh'
    BY <1>3, <1>4 DEF IInv, TypeOK, Recorded, Apart, HashIsFresh, CodeIsSeen, Busy
  <1>5. ASSUME orderly' PROVE CodeIsSeen'
    BY <1>3, <1>5 DEF IInv, TypeOK, Recorded, Apart, HashIsFresh, CodeIsSeen, Busy
  <1>6. ModuleIsCurrent'
    BY <1>3 DEF IInv, TypeOK, Recorded, CodeIsSeen, ModuleIsCurrent, Busy
  <1> QED
    BY <1>1, <1>2, <1>3, <1>4, <1>5, <1>6 DEF IInv

LEMMA CompileFailsInv ==
  ASSUME IInv, NEW p \in Procs, CompileFails(p)
  PROVE  IInv'
  <1> USE KernelCacheAssumption DEF CompileFails, Go, files, locals, history
  <1>1. TypeOK'
    BY DEF IInv, TypeOK, Code, Labels
  <1>2. Recorded'
    BY <1>1 DEF IInv, TypeOK, Recorded, Busy
  <1>3. ASSUME orderly' PROVE orderly /\ Apart'
    <2>1. orderly
      BY <1>3
    <2> QED
      BY <1>2, <1>3, <2>1 DEF IInv, TypeOK, Apart, Busy
  <1>4. ASSUME orderly' PROVE HashIsFresh'
    BY <1>3, <1>4 DEF IInv, TypeOK, Recorded, Apart, HashIsFresh, CodeIsSeen, Busy
  <1>5. ASSUME orderly' PROVE CodeIsSeen'
    BY <1>3, <1>5 DEF IInv, TypeOK, Recorded, Apart, HashIsFresh, CodeIsSeen, Busy
  <1>6. ModuleIsCurrent'
    BY <1>3 DEF IInv, TypeOK, Recorded, CodeIsSeen, ModuleIsCurrent, Busy
  <1> QED
    BY <1>1, <1>2, <1>3, <1>4, <1>5, <1>6 DEF IInv

LEMMA TruncateHashInv ==
  ASSUME IInv, NEW p \in Procs, TruncateHash(p)
  PROVE  IInv'
  <1> USE KernelCacheAssumption DEF TruncateHash, Go, files, locals, history
  <1>1. TypeOK'
    BY DEF IInv, TypeOK, Code, Labels
  <1>2. Recorded'
    BY <1>1 DEF IInv, TypeOK, Recorded, Busy
  <1>3. ASSUME orderly' PROVE orderly /\ Apart'
    <2>1. orderly
      BY <1>3
    <2> QED
      BY <1>2, <1>3, <2>1 DEF IInv, TypeOK, Apart, Busy
  <1>4. ASSUME orderly' PROVE HashIsFresh'
    BY <1>3, <1>4 DEF IInv, TypeOK, Recorded, Apart, HashIsFresh, CodeIsSeen, Busy
  <1>5. ASSUME orderly' PROVE CodeIsSeen'
    BY <1>3, <1>5 DEF IInv, TypeOK, Recorded, Apart, HashIsFresh, CodeIsSeen, Busy
  <1>6. ModuleIsCurrent'
    BY <1>3 DEF IInv, TypeOK, Recorded, CodeIsSeen, ModuleIsCurrent, Busy
  <1> QED
    BY <1>1, <1>2, <1>3, <1>4, <1>5, <1>6 DEF IInv

LEMMA WriteHashInv ==
  ASSUME IInv, NEW p \in Procs, WriteHash(p)
  PROVE  IInv'
  <1> USE KernelCacheAssumption DEF WriteHash, Go, files, locals, history
  <1>1. TypeOK'
    BY DEF IInv, TypeOK, Code, Labels
  <1>2. Recorded'
    BY <1>1 DEF IInv, TypeOK, Recorded, Busy
  <1>3. ASSUME orderly' PROVE orderly /\ Apart'
    <2>1. orderly
      BY <1>3
    <2> QED
      BY <1>2, <1>3, <2>1 DEF IInv, TypeOK, Apart, Busy
  <1>4. ASSUME orderly' PROVE HashIsFresh'
    BY <1>3, <1>4 DEF IInv, TypeOK, Recorded, Apart, HashIsFresh, CodeIsSeen, Busy
  <1>5. ASSUME orderly' PROVE CodeIsSeen'
    BY <1>3, <1>5 DEF IInv, TypeOK, Recorded, Apart, HashIsFresh, CodeIsSeen, Busy
  <1>6. ModuleIsCurrent'
    BY <1>3 DEF IInv, TypeOK, Recorded, CodeIsSeen, ModuleIsCurrent, Busy
  <1> QED
    BY <1>1, <1>2, <1>3, <1>4, <1>5, <1>6 DEF IInv

LEMMA LoadInv ==
  ASSUME IInv, NEW p \in Procs, Load(p)
  PROVE  IInv'
  <1> USE KernelCacheAssumption DEF Load, Go, files, locals, history
  <1>1. TypeOK'
    BY DEF IInv, TypeOK, Code, Labels
  <1>2. Recorded'
    BY <1>1 DEF IInv, TypeOK, Recorded, Busy
  <1>3. ASSUME orderly' PROVE orderly /\ Apart'
    <2>1. orderly
      BY <1>3
    <2> QED
      BY <1>2, <1>3, <2>1 DEF IInv, TypeOK, Apart, Busy
  <1>4. ASSUME orderly' PROVE HashIsFresh'
    BY <1>3, <1>4 DEF IInv, TypeOK, Recorded, Apart, HashIsFresh, CodeIsSeen, Busy
  <1>5. ASSUME orderly' PROVE CodeIsSeen'
    BY <1>3, <1>5 DEF IInv, TypeOK, Recorded, Apart, HashIsFresh, CodeIsSeen, Busy
  <1>6. ModuleIsCurrent'
    BY <1>3 DEF IInv, TypeOK, Recorded, CodeIsSeen, ModuleIsCurrent, Busy
  <1> QED
    BY <1>1, <1>2, <1>3, <1>4, <1>5, <1>6 DEF IInv

LEMMA LoadFailsInv ==
  ASSUME IInv, NEW p \in Procs, LoadFails(p)
  PROVE  IInv'
  <1> USE KernelCacheAssumption DEF LoadFails, Go, files, locals, history
  <1>1. TypeOK'
    BY DEF IInv, TypeOK, Code, Labels
  <1>2. Recorded'
    BY <1>1 DEF IInv, TypeOK, Recorded, Busy
  <1>3. ASSUME orderly' PROVE orderly /\ Apart'
    <2>1. orderly
      BY <1>3
    <2> QED
      BY <1>2, <1>3, <2>1 DEF IInv, TypeOK, Apart, Busy
  <1>4. ASSUME orderly' PROVE HashIsFresh'
    BY <1>3, <1>4 DEF IInv, TypeOK, Recorded, Apart, HashIsFresh, CodeIsSeen, Busy
  <1>5. ASSUME orderly' PROVE CodeIsSeen'
    BY <1>3, <1>5 DEF IInv, TypeOK, Recorded, Apart, HashIsFresh, CodeIsSeen, Busy
  <1>6. ModuleIsCurrent'
    BY <1>3 DEF IInv, TypeOK, Recorded, CodeIsSeen, ModuleIsCurrent, Busy
  <1> QED
    BY <1>1, <1>2, <1>3, <1>4, <1>5, <1>6 DEF IInv

LEMMA StepInv == IInv /\ [Next]_vars => IInv'
  <1> SUFFICES ASSUME IInv, [Next]_vars PROVE IInv'
    OBVIOUS
  <1>1. CASE (\E text \in Texts : Edit(text)) \/ Clean
    BY <1>1, EditInv, CleanInv
  <1>2. ASSUME NEW p \in Procs, (\E a \in Archs : Start(p, a)) \/ Crash(p) \/ OrphanWrites(p)
        PROVE  IInv'
    BY <1>2, StartInv, CrashInv, OrphanWritesInv
  <1>3. ASSUME NEW p \in Procs, ReadSource(p) \/ ReadHash(p) \/ Decide(p)
        PROVE  IInv'
    BY <1>3, ReadSourceInv, ReadHashInv, DecideInv
  <1>4. ASSUME NEW p \in Procs, CompileReads(p) \/ CompileWrites(p) \/ CompileFails(p)
        PROVE  IInv'
    BY <1>4, CompileReadsInv, CompileWritesInv, CompileFailsInv
  <1>5. ASSUME NEW p \in Procs, TruncateHash(p) \/ WriteHash(p) \/ Load(p) \/ LoadFails(p)
        PROVE  IInv'
    BY <1>5, TruncateHashInv, WriteHashInv, LoadInv, LoadFailsInv
  <1>6. CASE UNCHANGED vars
    BY <1>6 DEF vars, files, locals, history, IInv, TypeOK, Recorded, Apart, HashIsFresh,
                CodeIsSeen, ModuleIsCurrent, Busy
  <1> QED
    BY <1>1, <1>2, <1>3, <1>4, <1>5, <1>6 DEF Next

LEMMA Inductive == Spec => []IInv
  <1>1. Init => IInv
    BY InitInv
  <1>2. IInv /\ [Next]_vars => IInv'
    BY StepInv
  <1> QED
    BY <1>1, <1>2, PTL DEF Spec

\* The types of the state.
THEOREM TypeCorrect == Spec => []TypeOK
  <1>1. IInv => TypeOK
    BY DEF IInv
  <1> QED
    BY <1>1, Inductive, PTL

\* get_or_compile (rocm_backend/mod.rs): the module a process loads is of a text
\* that the source had during the call.
THEOREM ModulesAreCurrent == Spec => []ModuleIsCurrent
  <1>1. IInv => ModuleIsCurrent
    BY DEF IInv
  <1> QED
    BY <1>1, Inductive, PTL
=============================================================================
