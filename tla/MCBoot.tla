------------------------------- MODULE MCBoot -------------------------------
(* Two programs: a game that loads, and a keyboard with a block that        *)
(* unpacks to less than its header says.  An NSP holds the game behind      *)
(* three mains that do not load, or only such ones; the homebrew is an NRO. *)
(* Two applet numbers: one made before the snapshot and one after it, which *)
(* restore leaves behind and a later one takes the place of.                *)
EXTENDS Boot

CONSTANTS game, homebrew, keyboard, broken, huge

Plain(at, size) == [at |-> at, size |-> size, unpacked |-> size]

Second ==
  (game :> Plain(1, 2)) @@ (homebrew :> Plain(1, 2)) @@ (broken :> Plain(1, 2))
  @@ (huge :> Plain(1, 10)) @@ (keyboard :> [at |-> 1, size |-> 2, unpacked |-> 1])

MCFile ==
  [p \in {game, homebrew, keyboard, broken, huge} |->
     [valid |-> p # broken, bss |-> IF p = homebrew THEN 1 ELSE 0,
      segments |-> <<Plain(0, 1), Second[p],
                     IF p = homebrew THEN Plain(3, 1) ELSE Plain(3, 2)>>]]

MCPrograms == {game, keyboard}
MCNros == {homebrew, broken}
MCContainers == {<<broken, huge, keyboard, game>>, <<huge, keyboard>>}
=============================================================================
