--------------------------- MODULE MCQuantMatMul ---------------------------
(* Instances of QuantMatMul for TLC.                                        *)
EXTENDS QuantMatMul

\* A square matrix: only the order it is read in tells it from its transpose.
Square == {<<2, 2>>}

\* Inputs of rank 2 and 3.
SomeBatches == {<<>>, <<2>>}
=============================================================================
