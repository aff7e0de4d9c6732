----------------------------- MODULE MCAutograd -----------------------------
(* Instances of Autograd for TLC. *)
EXTENDS Autograd

\* Every operation but those whose backward arm is wrong by itself.
AllKinds ==
  {"add", "sub", "mul", "neg", "sqr", "affine", "step", "view", "unsupported", "custom_none",
   "cmp", "to_int", "to_float", "where_cond", "detach"}

Upsampling == {"add", "upsample"}
Scattering == {"add", "scatter", "scatter_add"}

SmallMuls == {0, 3}
MinusOne == -1
=============================================================================
