----------------------------- MODULE Streaming -----------------------------
(***************************************************************************)
(* Streaming of binary operations (streaming.rs): StreamingBinOp buffers   *)
(* what one operand is ahead of the other.  A tensor is the sequence of    *)
(* its slices along the streaming dimension.                               *)
(***************************************************************************)
EXTENDS Naturals, Sequences

CONSTANTS
  Values,      \* slices
  Chunks,      \* the stream tensors given to step
  MaxLen       \* bound: length of the streams given since the last reset

\* A StreamTensor: an Option of a tensor.
StreamTensor == [some : BOOLEAN, elems : Seq(Values)]

ASSUME StreamingAssumption ==
  /\ Chunks \subseteq {x \in StreamTensor : x.some \/ x.elems = <<>>}
  /\ MaxLen \in Nat

VARIABLES
  prev_lhs, prev_rhs,
  internal_error,     \* step returned its INTERNAL ERROR
  lhs_in, rhs_in,     \* history: what step was given since the last reset
  out                 \* history: what it returned since, as pairs of operands

vars == <<prev_lhs, prev_rhs, internal_error, lhs_in, rhs_in, out>>

empty == [some |-> FALSE, elems |-> <<>>]
from_tensor(elems) == [some |-> TRUE, elems |-> elems]

\* Mutant: the new chunk goes before the buffered one.
cat2_swapped(x, y) == [some |-> x.some \/ y.some, elems |-> y.elems \o x.elems]

cat2(x, y) == [some |-> x.some \/ y.some, elems |-> x.elems \o y.elems]

Lesser(m, n) == IF m < n THEN m ELSE n

\* Mutant: a split at 0 gives a tensor of length 0.
split_some(x, n) ==
  LET k == Lesser(Len(x.elems), n)
  IN  IF ~x.some THEN <<empty, empty>>
      ELSE <<from_tensor(SubSeq(x.elems, 1, k)),
             IF k = Len(x.elems) THEN empty
             ELSE from_tensor(SubSeq(x.elems, k + 1, Len(x.elems)))>>

split(x, n) ==
  LET k == Lesser(Len(x.elems), n)
  IN  IF ~x.some THEN <<empty, empty>>
      ELSE IF k = 0 THEN <<empty, x>>
      ELSE <<from_tensor(SubSeq(x.elems, 1, k)),
             IF k = Len(x.elems) THEN empty
             ELSE from_tensor(SubSeq(x.elems, k + 1, Len(x.elems)))>>

Init ==
  /\ prev_lhs = empty /\ prev_rhs = empty
  /\ internal_error = FALSE
  /\ lhs_in = <<>> /\ rhs_in = <<>> /\ out = <<>>

\* StreamingBinOp::step.  When cat2 or forward fails, nothing has been
\* assigned yet and the step changes nothing.
Step(lhs, rhs) ==
  LET l == cat2(prev_lhs, lhs)
      r == cat2(prev_rhs, rhs)
      common_len == Lesser(Len(l.elems), Len(r.elems))
      ls == split(l, common_len)
      rs == split(r, common_len)
  IN  /\ Len(lhs_in) + Len(lhs.elems) <= MaxLen
      /\ Len(rhs_in) + Len(rhs.elems) <= MaxLen
      /\ \/ /\ ls[1].some = rs[1].some
            /\ out' = out \o [i \in 1 .. Len(ls[1].elems) |-> <<ls[1].elems[i], rs[1].elems[i]>>]
            /\ prev_lhs' = ls[2] /\ prev_rhs' = rs[2]
            /\ lhs_in' = lhs_in \o lhs.elems /\ rhs_in' = rhs_in \o rhs.elems
            /\ UNCHANGED internal_error
         \/ /\ ls[1].some # rs[1].some
            /\ internal_error' = TRUE
            /\ UNCHANGED <<prev_lhs, prev_rhs, lhs_in, rhs_in, out>>

reset_state ==
  /\ prev_lhs' = empty /\ prev_rhs' = empty
  /\ lhs_in' = <<>> /\ rhs_in' = <<>> /\ out' = <<>>
  /\ UNCHANGED internal_error

Next == (\E lhs, rhs \in Chunks : Step(lhs, rhs)) \/ reset_state

Spec == Init /\ [][Next]_vars

-----------------------------------------------------------------------------
(* Properties.                                                             *)

\* Types, and that what a StreamTensor without a tensor holds is empty; a part of
\* the inductive invariant of Streaming_proof.
TypeOK ==
  /\ prev_lhs \in StreamTensor /\ prev_rhs \in StreamTensor
  /\ internal_error \in BOOLEAN
  /\ lhs_in \in Seq(Values) /\ rhs_in \in Seq(Values)
  /\ out \in Seq(Values \X Values)
  /\ \A x \in {prev_lhs, prev_rhs} : x.some \/ x.elems = <<>>

\* However the two streams are cut into chunks, step has returned what the
\* operation gives on the whole streams, as far as both go, and holds the
\* rest of the longer one: nothing is lost, repeated, reordered or late.
StreamIsBatch ==
  LET n == Lesser(Len(lhs_in), Len(rhs_in))
  IN  /\ out = [i \in 1 .. n |-> <<lhs_in[i], rhs_in[i]>>]
      /\ prev_lhs.elems = SubSeq(lhs_in, n + 1, Len(lhs_in))
      /\ prev_rhs.elems = SubSeq(rhs_in, n + 1, Len(rhs_in))

\* "INTERNAL ERROR inconsistent lhs and rhs" (streaming.rs:191) is not reached,
\* with empty stream tensors and tensors of length 0 among the chunks.
NoInternalError == ~internal_error
=============================================================================
