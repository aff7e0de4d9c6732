---------------------------- MODULE TensorValue ----------------------------
(***************************************************************************)
(* What the views of tensor.rs promise, without layouts and storages: a    *)
(* tensor is a shape and an element for every index, and an operation on   *)
(* views says which index of its argument an index of its result names.    *)
(***************************************************************************)
EXTENDS Indexing

VARIABLES dims, elem

\* The tensor becomes one of the given shape whose index i names From(i).
Becomes(shape, From(_)) ==
  /\ dims' = shape
  /\ elem' = [i \in Index(shape) |-> elem[From(i)]]

Slice(d, start, len) ==
  /\ start + len <= dims[d]
  /\ Becomes([dims EXCEPT ![d] = len], LAMBDA i : [i EXCEPT ![d] = @ + start])

\* Dimension d of the result is dimension p[d] of the argument.
Permuted(p) ==
  LET Back(d) == CHOOSE e \in DOMAIN p : p[e] = d
  IN  Becomes([d \in DOMAIN p |-> dims[p[d]]], LAMBDA i : [d \in DOMAIN dims |-> i[Back(d)]])

Repeated(shape) ==
  LET added == Len(shape) - Len(dims)
  IN  /\ added >= 0
      /\ \A d \in DOMAIN dims : dims[d] = 1 \/ dims[d] = shape[added + d]
      /\ Becomes(shape, LAMBDA i : [d \in DOMAIN dims |-> IF dims[d] = 1 THEN 0 ELSE i[added + d]])

\* The elements keep their row-major order.
Rearranged(shape) ==
  /\ Size(shape) = Size(dims)
  /\ Becomes(shape, LAMBDA i : AtPosition(Position(i, shape), dims))

Fixed(d, at) ==
  /\ at < dims[d]
  /\ Becomes(RemoveAt(dims, d), LAMBDA i : InsertAt(i, d, at))

Windows(d, size, step) ==
  /\ size <= dims[d]
  /\ Becomes(Append([dims EXCEPT ![d] = (@ - size) \div step + 1], size),
             LAMBDA i : [e \in DOMAIN dims |-> IF e = d THEN i[e] * step + i[Len(i)] ELSE i[e]])
=============================================================================
