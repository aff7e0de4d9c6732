---------------------------- MODULE MCStreaming ----------------------------
(* Instance of Streaming for TLC: chunks of up to two slices.               *)
EXTENDS Streaming

SmallChunks ==
  {x \in [some : BOOLEAN, elems : UNION {[1 .. n -> Values] : n \in 0 .. 2}] :
     x.some \/ x.elems = <<>>}
=============================================================================
