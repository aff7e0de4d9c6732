---------------------------- MODULE MetalDevice ----------------------------
(***************************************************************************)
(* The state that the clones of a MetalDevice share: the pool of buffers   *)
(* (metal_backend/device.rs), whose use is read off the reference counts   *)
(* of the CPU, the queue of commands that the GPU runs later, and the seed *)
(* of the random numbers.  A buffer whose last storage was dropped goes to *)
(* the next caller while commands on it may still be waiting.              *)
(***************************************************************************)
EXTENDS Naturals, Sequences, SequencesExt

CONSTANTS
  Threads,
  NoThread,
  Buffers,      \* what new_buffer of Metal gives
  NoBuffer,
  Slots,        \* bound: storages alive at a time
  Sizes,        \* lengths asked for, in bytes
  Seeds,
  DefaultSeed,  \* 299792458
  MaxCalls,     \* bound: calls that make something
  SeedAnyTime   \* set_seed is called with draws in the queue

\* Bound: what an element may be.
Values == 0 .. 3
Garbage == 4

ASSUME MetalAssumption ==
  /\ NoThread \notin Threads /\ NoBuffer \notin Buffers
  /\ Sizes \subseteq Nat \ {0} /\ Seeds \subseteq Values \ {0} /\ DefaultSeed \in Values \ {0}
  /\ MaxCalls \in Nat /\ SeedAnyTime \in BOOLEAN

VARIABLES
  size,         \* the length of a buffer
  contents,     \* what a buffer holds now
  buffers,      \* the pool: buffers the device keeps a reference to
  queue,        \* encoded commands that have not run
  waiting,      \* who holds the lock of commands in wait_until_completed
  seed,         \* the contents of the seed buffer
  seed_value,
  storages,     \* slot -> a storage, or NoStorage
  pc, local,    \* of each thread: where its call is; the call and its buffer
  calls         \* history: the number of calls made

pool == <<size, buffers>>
gpu == <<contents, queue>>
seeds == <<seed, seed_value>>
vars == <<pool, gpu, waiting, seeds, storages, pc, local, calls>>

\* val is history: what the storage should hold.  shared: copied, or computed
\* from copies.
NoStorage == [buf |-> NoBuffer, count |-> 0, val |-> 0, shared |-> FALSE]
Idle == [op |-> "none", args |-> <<>>, to |-> NoBuffer, count |-> 0]

Live == {s \in Slots : storages[s] # NoStorage}
Free == Slots \ Live

Init ==
  /\ size = [b \in Buffers |-> 0]
  /\ contents = [b \in Buffers |-> Garbage]
  /\ buffers = {}
  /\ queue = <<>>
  /\ waiting = NoThread
  /\ seed = DefaultSeed /\ seed_value = DefaultSeed
  /\ storages = [s \in Slots |-> NoStorage]
  /\ pc = [t \in Threads |-> "idle"]
  /\ local = [t \in Threads |-> Idle]
  /\ calls = 0

-----------------------------------------------------------------------------
(* The pool.                                                               *)

\* Someone besides the pool has a reference: strong_count > 1.
Held(b) == (\E s \in Slots : storages[s].buf = b) \/ (\E t \in Threads : local[t].to = b)

\* Metal frees a buffer when no one has it, commands included.
Unused ==
  {b \in Buffers : /\ b \notin buffers /\ ~Held(b)
                   /\ \A i \in 1 .. Len(queue) : b # queue[i].to /\ b \notin Range(queue[i].from)}

\* saturating_sub(1).next_power_of_two()
buf_size(n) == CHOOSE p \in {2 ^ k : k \in 0 .. n} : /\ p >= n - 1
                                                     /\ \A k \in 0 .. n : 2 ^ k >= n - 1 => p <= 2 ^ k

\* Mutant: a buffer is free to be reused while one storage has it.
AvailableAny(n) == {b \in buffers : size[b] >= n /\ Cardinality({s \in Slots : storages[s].buf = b}) <= 1}

Available(n) == {b \in buffers : ~Held(b) /\ size[b] >= n}

\* find_available_buffer: of the smallest size that is in question.
Best(n) == {b \in Available(n) : \A c \in Available(n) : size[b] <= size[c]}

\* allocate_buffer.
Allocated(b, n) ==
  IF Available(n) # {} THEN b \in Best(n) /\ UNCHANGED pool
  ELSE /\ b \in Unused
       /\ size' = [size EXCEPT ![b] = buf_size(n)]
       /\ buffers' = buffers \cup {b}

\* drop_unused_buffers, when command_encoder finds that commands were committed.
Flushed(flush) == buffers' = IF flush THEN {b \in buffers : Held(b)} ELSE buffers

-----------------------------------------------------------------------------
(* Commands.                                                               *)

\* What a kernel computes from the values of its arguments.  The numbers a
\* draw gives are those of the seed it finds.
Value(op, vals, s) ==
  CASE op = "zeros" -> 0
    [] op = "unary" -> IF Garbage \in Range(vals) THEN Garbage ELSE (vals[1] + 1) % 4
    [] op = "binary" -> IF Garbage \in Range(vals) THEN Garbage ELSE (vals[1] + vals[2]) % 4
    [] op = "copy" -> vals[1]
    [] op = "const_set" -> 3
    [] op = "draw" -> s

Command(op, from, to) == [op |-> op, from |-> from, to |-> to]
Performed(c, cmd) ==
  [c EXCEPT ![cmd.to] = Value(cmd.op, [i \in DOMAIN cmd.from |-> c[cmd.from[i]]], seed)]

\* What the buffers will hold when the queue is empty.
After ==
  LET run[i \in 0 .. Len(queue)] == IF i = 0 THEN contents ELSE Performed(run[i - 1], queue[i])
  IN  run[Len(queue)]

\* The GPU runs commands in their order.
Run ==
  /\ queue # <<>>
  /\ contents' = Performed(contents, Head(queue))
  /\ queue' = Tail(queue)
  /\ UNCHANGED <<pool, waiting, seeds, storages, pc, local, calls>>

-----------------------------------------------------------------------------
(* Calls.  A call that reads a storage keeps it alive and unwritten.       *)

InUse(s) == \E t \in Threads : s \in Range(local[t].args)

Begin(t) == pc[t] = "idle" /\ calls < MaxCalls /\ calls' = calls + 1

\* storage_from_slice: a new buffer that the CPU fills at once.
FromSlice(t, s, b, n) ==
  /\ Begin(t)
  /\ s \in Free /\ b \in Unused
  /\ size' = [size EXCEPT ![b] = n]
  /\ contents' = [contents EXCEPT ![b] = 1]
  /\ buffers' = buffers \cup {b}
  /\ storages' = [storages EXCEPT ![s] = [buf |-> b, count |-> n, val |-> 1, shared |-> FALSE]]
  /\ UNCHANGED <<queue, waiting, seeds, pc, local>>

\* The first half of zeros_impl, rand_uniform, affine, binary, to_cpu: the
\* buffer of the result.
Alloc(t, op, args, b, n) ==
  /\ Begin(t)
  /\ Allocated(b, n)
  /\ pc' = [pc EXCEPT ![t] = "encode"]
  /\ local' = [local EXCEPT ![t] = [op |-> op, args |-> args, to |-> b, count |-> n]]
  /\ UNCHANGED <<gpu, waiting, seeds, storages>>

Create(t, op, b, n) == op \in {"zeros", "draw"} /\ Alloc(t, op, <<>>, b, n)
Unary(t, s, b) == s \in Live /\ Alloc(t, "unary", <<s>>, b, storages[s].count)
Binary(t, r, s, b) ==
  /\ {r, s} \subseteq Live /\ storages[r].count = storages[s].count
  /\ Alloc(t, "binary", <<r, s>>, b, storages[s].count)
ToCpu(t, s, b) == s \in Live /\ Alloc(t, "copy", <<s>>, b, storages[s].count)

Vals(args) == [i \in DOMAIN args |-> storages[args[i]].val]
Bufs(args) == [i \in DOMAIN args |-> storages[args[i]].buf]

\* The second half: the command, and the storage that is returned.
Encode(t, s, flush) ==
  LET call == local[t]
      shared == \E i \in DOMAIN call.args : storages[call.args[i]].shared
  IN  /\ pc[t] = "encode" /\ call.op # "copy"
      /\ waiting = NoThread
      /\ s \in Free
      /\ Flushed(flush)
      /\ queue' = Append(queue, Command(call.op, Bufs(call.args), call.to))
      /\ storages' = [storages EXCEPT ![s] =
           [buf |-> call.to, count |-> call.count, val |-> Value(call.op, Vals(call.args), seed),
            shared |-> shared]]
      /\ pc' = [pc EXCEPT ![t] = "idle"]
      /\ local' = [local EXCEPT ![t] = Idle]
      /\ UNCHANGED <<size, contents, waiting, seeds, calls>>

EncodeToCpu(t, flush) ==
  /\ pc[t] = "encode" /\ local[t].op = "copy"
  /\ waiting = NoThread
  /\ Flushed(flush)
  /\ queue' = Append(queue, Command("copy", Bufs(local[t].args), local[t].to))
  /\ pc' = [pc EXCEPT ![t] = "wait"]
  /\ UNCHANGED <<size, contents, waiting, seeds, storages, local, calls>>

\* No encoder: the call returns the error and drops its buffer.
EncodeFails(t) ==
  /\ pc[t] = "encode"
  /\ waiting = NoThread
  /\ pc' = [pc EXCEPT ![t] = "idle"]
  /\ local' = [local EXCEPT ![t] = Idle]
  /\ UNCHANGED <<pool, gpu, waiting, seeds, storages, calls>>

\* synchronize, of a thread that has nothing to read afterwards.
Synchronize(t) ==
  /\ Begin(t)
  /\ pc' = [pc EXCEPT ![t] = "wait"]
  /\ UNCHANGED <<pool, gpu, waiting, seeds, storages, local>>

\* wait_until_completed, which holds the lock of commands until the queue is empty.
WaitUntilCompleted(t) ==
  /\ pc[t] = "wait" /\ waiting = NoThread
  /\ waiting' = t
  /\ pc' = [pc EXCEPT ![t] = "waiting"]
  /\ UNCHANGED <<pool, gpu, seeds, storages, local, calls>>

\* Mutant: the commands are committed and not waited for.
CompletedCommitted(t) == waiting = t

Completed(t) == waiting = t /\ queue = <<>>

Waited(t) ==
  /\ pc[t] = "waiting" /\ Completed(t)
  /\ waiting' = NoThread
  /\ pc' = [pc EXCEPT ![t] = IF local[t] = Idle THEN "idle" ELSE "read"]
  /\ UNCHANGED <<pool, gpu, seeds, storages, local, calls>>

\* read_to_vec; the buffer is dropped.
Read(t) ==
  /\ pc[t] = "read"
  /\ pc' = [pc EXCEPT ![t] = "idle"]
  /\ local' = [local EXCEPT ![t] = Idle]
  /\ UNCHANGED <<pool, gpu, waiting, seeds, storages, calls>>

\* const_set, for all the operations that write into a storage.
ConstSet(t, s, flush) ==
  /\ Begin(t)
  /\ s \in Live /\ ~InUse(s)
  /\ waiting = NoThread
  /\ Flushed(flush)
  /\ queue' = Append(queue, Command("const_set", <<>>, storages[s].buf))
  /\ storages' = [storages EXCEPT ![s].val = 3]
  /\ UNCHANGED <<size, contents, waiting, seeds, pc, local>>

\* try_clone.
TryClone(t, r, s) ==
  /\ Begin(t)
  /\ r \in Live /\ s \in Free
  /\ storages' = [storages EXCEPT ![r].shared = TRUE, ![s] = [storages[r] EXCEPT !.shared = TRUE]]
  /\ UNCHANGED <<pool, gpu, waiting, seeds, pc, local>>

Drop(t, s) ==
  /\ pc[t] = "idle"
  /\ s \in Live /\ ~InUse(s)
  /\ storages' = [storages EXCEPT ![s] = NoStorage]
  /\ UNCHANGED <<pool, gpu, waiting, seeds, pc, local, calls>>

DrawsQueued == \E i \in 1 .. Len(queue) : queue[i].op = "draw"

\* set_seed writes the buffer that draws in the queue are going to read.
SetSeed(t, v) ==
  /\ Begin(t)
  /\ SeedAnyTime \/ ~DrawsQueued
  /\ seed' = v /\ seed_value' = v
  /\ UNCHANGED <<pool, gpu, waiting, storages, pc, local>>

\* A draw that is being encoded has the mutex: try_lock fails after seed_value was set.
SetSeedBusy(t, v) ==
  /\ Begin(t)
  /\ \E u \in Threads \ {t} : pc[u] = "encode" /\ local[u].op = "draw"
  /\ seed_value' = v
  /\ UNCHANGED <<pool, gpu, waiting, seed, storages, pc, local>>

Call(t) ==
  \/ \E s \in Slots, b \in Buffers, n \in Sizes : FromSlice(t, s, b, n)
  \/ \E op \in {"zeros", "draw"}, b \in Buffers, n \in Sizes : Create(t, op, b, n)
  \/ \E s \in Slots, b \in Buffers : Unary(t, s, b)
  \/ \E r, s \in Slots, b \in Buffers : Binary(t, r, s, b)
  \/ \E s \in Slots, b \in Buffers : ToCpu(t, s, b)
  \/ \E s \in Slots, flush \in BOOLEAN : ConstSet(t, s, flush)
  \/ \E r, s \in Slots : TryClone(t, r, s)
  \/ \E s \in Slots : Drop(t, s)
  \/ \E v \in Seeds : SetSeed(t, v)
  \/ \E v \in Seeds : SetSeedBusy(t, v)
  \/ Synchronize(t)

Step(t) ==
  \/ \E s \in Slots, flush \in BOOLEAN : Encode(t, s, flush)
  \/ \E flush \in BOOLEAN : EncodeToCpu(t, flush)
  \/ EncodeFails(t)
  \/ WaitUntilCompleted(t)
  \/ Waited(t)
  \/ Read(t)

Next == Run \/ \E t \in Threads : Call(t) \/ Step(t)

Spec == Init /\ [][Next]_vars

-----------------------------------------------------------------------------
(* Properties.                                                             *)

TypeOK ==
  /\ size \in [Buffers -> Nat] /\ contents \in [Buffers -> Values \cup {Garbage}]
  /\ buffers \subseteq Buffers
  /\ waiting \in Threads \cup {NoThread}
  /\ {seed, seed_value} \subseteq Seeds \cup {DefaultSeed}
  /\ storages \in [Slots -> [buf : Buffers \cup {NoBuffer}, count : Nat, val : Values \cup {Garbage},
                             shared : BOOLEAN]]
  /\ pc \in [Threads -> {"idle", "encode", "wait", "waiting", "read"}]

\* A buffer that is handed out belongs to one storage, and its copies, or to the
\* call that fills it, and it is long enough, but for a length of 2 ^ k + 1, for
\* which buf_size asks for one byte less: allocate_buffer, drop_unused_buffers
\* and the counts of references.
Exclusive ==
  /\ \A r, s \in Live : r # s /\ storages[r].buf = storages[s].buf => storages[r].shared /\ storages[s].shared
  /\ \A t \in Threads : local[t].to # NoBuffer =>
       /\ \A s \in Slots : storages[s].buf # local[t].to
       /\ \A u \in Threads \ {t} : local[u].to # local[t].to
  /\ \A s \in Live : buf_size(storages[s].count) >= storages[s].count =>
       size[storages[s].buf] >= storages[s].count

\* "we need to guarantee the order of operation, so that this buffer is not
\* being used by another kernel at the same time" (device.rs:50): what a storage
\* will hold when the queue has run is what its call computed, although buffers
\* are handed on while commands on them wait; and to_cpu reads it.
ResultsRight ==
  /\ \A s \in Live : ~storages[s].shared => After[storages[s].buf] = storages[s].val
  /\ \A t \in Threads : pc[t] = "read" =>
       LET s == local[t].args[1]
       IN  ~storages[s].shared => contents[local[t].to] = storages[s].val

\* "Compared to clone, this copies the actual storage" (tensor.rs:2334): a copy
\* is not changed by what is written into the original.
CopiesApart == \A s \in Live : After[storages[s].buf] = storages[s].val

\* Every storage is within its buffer.
EnoughRoom == \A s \in Live : size[storages[s].buf] >= storages[s].count
=============================================================================
