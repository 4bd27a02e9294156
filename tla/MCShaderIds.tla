----------------------------- MODULE MCShaderIds -----------------------------
(* Programs of two instructions over a register of each kind: 1 fits src1,  *)
(* and 61 is also the id of the first constant.                             *)
EXTENDS ShaderIds

\* One opcode of each recipe that the seven bits of an opcode can select, and
\* one (16_93, a load) whose label they cannot: it is decoded as IMUL.
MCBytes == {\h00, \h01, \h10, \h11, \h14, \h16, \h31, \h33, \h34, \h44, \h47, \h93}
=============================================================================
