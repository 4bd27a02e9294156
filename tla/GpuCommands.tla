---------------------------- MODULE GpuCommands ----------------------------
(***************************************************************************)
(* The decoder of submitted command buffers (gpu/Gpu.cpp) and the          *)
(* resources nvdrv:a creates for it (hos/NvService.h, commands 8 to 11).   *)
(*                                                                         *)
(* A header word holds an opcode in its low half and the length of the     *)
(* command, header included, in its high half.  The operands follow, but   *)
(* the decoder only asks that they lie in the buffer: with a length of 0,  *)
(* which counts as 1, it meets them again as headers.  Of a submission     *)
(* nvdrv:a keeps the first MaxWords words and drops the rest in silence.   *)
(*                                                                         *)
(* The commands take effect on what is bound; draws and dispatches are     *)
(* counted and issued at the end of the buffer, with what is bound then.   *)
(* What a resource holds, and unknown_ops_, which nobody reads, are left   *)
(* out.                                                                    *)
(***************************************************************************)
EXTENDS Naturals, Sequences, SequencesExt

CONSTANTS
  Commands,   \* commands guests make: records of an opcode and its operands
  MaxWords,   \* words kept of a submission: 65536 bytes, 16384 words
  MaxLength,  \* bound: commands in a buffer
  MaxId       \* bound: resources made of each kind

VARIABLES
  shaders, textures, samplers, render_targets,   \* the ids in the tables
  next_id,    \* next_shader_id_, next_tex_id_, ..., by the kind
  bound,      \* GpuState: what each slot holds
  counted,    \* draw_count and compute_dispatch_count
  total,      \* draw_calls_ and compute_dispatches_
  buffer,     \* what is left of the buffer that is decoded
  busy,       \* a buffer is being executed
  expected,   \* history: what should be bound and drawn after this buffer
  promised    \* history: whether anything is promised of this buffer

tables == <<shaders, textures, samplers, render_targets, next_id>>
state == <<bound, counted, total>>
history == <<expected, promised>>
vars == <<tables, state, buffer, busy, history>>

Kind == {"shader", "texture", "sampler", "render_target"}
Slot == ({"vs", "fs", "cs", "rt", "viewport", "scissor", "index", "constants"} \X {0})
          \cup ({"vertex", "texture", "sampler"} \X (0 .. 15))

NoCounts == [draw |-> 0, dispatch |-> 0]
Unbound == [s \in Slot |-> <<>>]

Init ==
  /\ shaders = {} /\ textures = {} /\ samplers = {} /\ render_targets = {}
  /\ next_id = [k \in Kind |-> 1]
  /\ bound = Unbound /\ counted = NoCounts /\ total = NoCounts
  /\ buffer = <<>> /\ busy = FALSE
  /\ expected = [bound |-> Unbound, total |-> NoCounts] /\ promised = TRUE

-----------------------------------------------------------------------------
(* Commands 8 to 11.                                                       *)

\* VulkanContext::createImage fails when there is no image or no memory.
createImage == BOOLEAN

\* VulkanContext::createSampler: that there is a sampler is not looked at.
createSampler == {TRUE}

\* GpuExecutor, the software executor: nothing fails.
inSoftware == {TRUE}

Made(k) ==
  IF k \in {"texture", "render_target"} THEN createImage
  ELSE IF k = "sampler" THEN createSampler ELSE inSoftware

Added(table, k, made) == table \cup {i \in {next_id[k]} : made}

\* An image that cannot be made still uses up an id.
Create(k) ==
  /\ ~busy /\ next_id[k] <= MaxId[k]
  /\ next_id' = [next_id EXCEPT ![k] = @ + 1]
  /\ \E made \in Made(k) :
       /\ shaders' = IF k = "shader" THEN Added(shaders, k, made) ELSE shaders
       /\ textures' = IF k = "texture" THEN Added(textures, k, made) ELSE textures
       /\ samplers' = IF k = "sampler" THEN Added(samplers, k, made) ELSE samplers
       /\ render_targets' = IF k = "render_target" THEN Added(render_targets, k, made)
                            ELSE render_targets
  /\ UNCHANGED <<state, buffer, busy, history>>

-----------------------------------------------------------------------------
(* What a command does.                                                    *)

\* The operands a command needs, by its opcode; the others need none.
Operands(op) ==
  CASE op \in {201, 202, 203, 204, 207} -> 1   \* texture, sampler, target, clear, compute shader
    [] op \in {134, 195} -> 2                  \* draw arrays, shader
    [] op \in {135, 193, 194, 206} -> 3        \* draw indexed, index, constant buffer, dispatch
    [] op \in {192, 196, 197} -> 4             \* vertex buffer, viewport, scissor
    [] OTHER -> 0

\* An index or a constant buffer may have one more, the offset or the slot:
\* the next word of the buffer, whatever it is, and 0 at the end of it.
Optional(op) == IF op \in {193, 194} THEN 1 ELSE 0

Nowhere == <<"nowhere", 0>>

\* SET_COMPUTE_SHADER leaves what is bound when there is no such shader.
computeShader(w) == IF w[1] \in shaders THEN <<"cs", 0>> ELSE Nowhere

\* The slot a command binds its operands to, Nowhere if none.
Target(op, w) ==
  CASE op = 195 /\ w[1] \in shaders /\ w[2] % 256 < 3 -> <<<<"vs", "fs", "cs">>[(w[2] % 256) + 1], 0>>
    [] op = 207 -> computeShader(w)
    [] op = 201 /\ w[1] \in textures -> <<"texture", w[1] % 16>>
    [] op = 202 /\ w[1] \in samplers -> <<"sampler", w[1] % 16>>
    [] op = 203 /\ w[1] \in render_targets -> <<"rt", 0>>
    [] op = 192 -> <<"vertex", w[1] % 16>>
    [] op = 193 -> <<"index", 0>>
    [] op = 194 -> <<"constants", 0>>
    [] op = 196 -> <<"viewport", 0>>
    [] op = 197 -> <<"scissor", 0>>
    [] OTHER -> Nowhere

\* Constant buffers pile up; every other slot holds the last operands.
Binding(b, op, w) ==
  LET s == Target(op, w)
  IN IF s = Nowhere THEN b
     ELSE [b EXCEPT ![s] = IF s = <<"constants", 0>> THEN Append(@, w) ELSE w]

Counting(c, op, w) ==
  IF op \in {134, 135} THEN [c EXCEPT !.draw = @ + (IF w[2] > 0 THEN w[2] ELSE 1)]
  ELSE IF op = 206 THEN [c EXCEPT !.dispatch = @ + w[1] * w[2] * w[3]]
  ELSE c

-----------------------------------------------------------------------------
(* The buffer.                                                             *)

Header(op, size) == op + 65536 * size

\* A command as its words, with its length or with a length of 0.
Words(c, plain) ==
  <<Header(c.op, IF plain THEN 0 ELSE Len(c.operands) + 1)>> \o c.operands

\* The guest's view: each command, in turn, has its effect.
AskedFor(e, c) ==
  [bound |-> Binding(e.bound, c.op, c.operands),
   total |-> Counting(e.total, c.op, c.operands)]

AskedForAll(e, commands) ==
  LET asked[n \in 0 .. Len(commands)] ==
        IF n = 0 THEN e ELSE AskedFor(asked[n - 1], commands[n])
  IN asked[Len(commands)]

\* if (n > 65536) n = 65536
Kept(n) == IF n > MaxWords THEN MaxWords ELSE n

AllWords(commands, plain) ==
  FlattenSeq([i \in DOMAIN commands |-> Words(commands[i], plain)])

\* The word the first n commands end with.
End(commands, plain, n) == Len(AllWords(SubSeq(commands, 1, n), plain))

\* An operand that, met as a header, is one word long and does nothing.
NoCommand(w) == w < 65536 /\ Operands(w) = 0

Harmless(c) == \A m \in 1 .. Len(c.operands) : NoCommand(c.operands[m])

\* cmd 3.  The guest may have left out the end of the last command; what is
\* past MaxWords is dropped, in the middle of a command or between two.  The
\* n commands that lie wholly in what is kept are to have their effect.  With
\* a length of 0 that is promised only while operands are no commands, and
\* while no command is cut just before an optional operand.
Execute(commands, plain, cut) ==
  LET words == AllWords(commands, plain)
      kept == Kept(Len(words) - cut)
  IN /\ ~busy
     /\ cut < Len(Words(Last(commands), plain))
     /\ buffer' = SubSeq(words, 1, kept)
     /\ busy' = TRUE
     /\ \E n \in 0 .. Len(commands) :
          /\ End(commands, plain, n) <= kept
          /\ n < Len(commands) => kept < End(commands, plain, n + 1)
          /\ expected' = AskedForAll([bound |-> bound, total |-> total],
                                     SubSeq(commands, 1, n))
          /\ promised' = (plain =>
               /\ \A i \in DOMAIN commands : Harmless(commands[i])
               /\ n < Len(commands) => Optional(commands[n + 1].op) = 0)
     /\ UNCHANGED <<tables, state>>

Opcode == Head(buffer) % 65536

Size == IF Head(buffer) < 65536 THEN 1 ELSE Head(buffer) \div 65536

\* Mutant: a command that ends with the buffer does not fit.
EndsBefore == Size < Len(buffer)

Fits == Size <= Len(buffer)

\* i += size, also for what is not understood.
Rest == SubSeq(buffer, Size + 1, Len(buffer))

\* One turn of the loop of parse.
Command ==
  /\ busy /\ buffer # <<>> /\ Fits
  /\ buffer' = Rest
  /\ \/ /\ Operands(Opcode) < Len(buffer)
        /\ LET n == Operands(Opcode) + Optional(Opcode)
               w == SubSeq(buffer \o <<0>>, 2, n + 1)
           IN /\ bound' = Binding(bound, Opcode, w)
              /\ counted' = Counting(counted, Opcode, w)
     \/ Operands(Opcode) >= Len(buffer) /\ UNCHANGED <<bound, counted>>
  /\ UNCHANGED <<tables, total, busy, history>>

\* parse stops at the end or at a command that does not fit; execute issues
\* what was counted.
Finish ==
  /\ busy /\ (buffer # <<>> => ~Fits)
  /\ buffer' = <<>> /\ busy' = FALSE
  /\ total' = [c \in DOMAIN total |-> total[c] + counted[c]]
  /\ counted' = NoCounts
  /\ UNCHANGED <<tables, bound, history>>

Buffers == UNION {[1 .. n -> Commands] : n \in 1 .. MaxLength}

\* Any buffer a guest may submit.
ExecuteAny ==
  \E commands \in Buffers, plain \in BOOLEAN, cut \in 0 .. 1 : Execute(commands, plain, cut)

-----------------------------------------------------------------------------
(* Properties.                                                             *)

\* After a buffer, what is bound and has been drawn is what was before it and
\* what its commands asked for, one after the other: each that lies wholly in
\* the words that are kept, whatever its operands look like, and none that is
\* cut by their end or past it.  Only when lengths are missing must operands
\* be no commands.  Between buffers nothing changes.
EffectsAreThoseAskedFor ==
  ~busy /\ promised => bound = expected.bound /\ total = expected.total
=============================================================================
