------------------------------ MODULE MCNvFence ------------------------------
(* Submissions of at most two commands, of which three words are kept.       *)
EXTENDS NvGpu

Make(op, operands) == [op |-> op, operands |-> operands]

\* A texture, a draw of two instances whose operands are no commands when
\* met as headers, a draw of 201 vertices that then binds a texture, and an
\* opcode the decoder does not know.
MCCommands ==
  {Make(201, <<1>>), Make(134, <<3, 2>>), Make(134, <<201, 1>>), Make(255, <<>>)}

MCMaxId ==
  [k \in {"shader", "texture", "sampler", "render_target"} |-> IF k = "texture" THEN 1 ELSE 0]
=============================================================================
