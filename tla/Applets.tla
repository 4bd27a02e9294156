------------------------------- MODULE Applets -------------------------------
(***************************************************************************)
(* hos/AppletService.h, the boot callback of hos/Kernel.h, and what        *)
(* Emulator::snapshot and Emulator::restore do with applets.               *)
(*                                                                         *)
(* Requests arrive one at a time through the service pump (module Ipc), so *)
(* each is one action.  A guest names an applet by the number CreateApplet *)
(* answered; it keeps the number in its memory, so a restored snapshot     *)
(* gives it back the numbers it had then.  It uses no number it was not    *)
(* given: one that restore left behind would be found, and could be        *)
(* stacked.  The applets table is not emptied by restore.                  *)
(*                                                                         *)
(* Left out: names, entry points and blobs (a boot succeeds or does not:   *)
(* module Boot says which), and the commands that only answer.             *)
(***************************************************************************)
EXTENDS Naturals, Sequences, SequencesExt

CONSTANTS
  Programs,   \* program ids
  MaxApplet,  \* bound: numbers given to applets
  MaxStack,   \* bound: length of the stack
  Absent      \* no entry of the table; no snapshot

ASSUME AppletAssumption ==
  /\ MaxApplet \in Nat /\ MaxStack \in Nat
  /\ Absent \notin [program : Programs, state : {"CREATED", "RUNNING", "SUSPENDED", "EXITED"}]

VARIABLES
  applets,      \* AppletService::applets_
  stack,        \* AppletService::stack_
  next_applet,  \* AppletService::next_applet_
  held,         \* the guest's numbers, each with the program it was made for
  saved         \* the Snapshot the host keeps

tables == <<applets, stack, next_applet>>
appletVars == <<tables, held, saved>>

AppletId == 1 .. MaxApplet
AppletState == {"CREATED", "RUNNING", "SUSPENDED", "EXITED"}
Applet == [program : Programs, state : AppletState]

Empty == [a \in AppletId |-> Absent]

AppletsInit ==
  /\ applets = Empty /\ stack = << >> /\ next_applet = 1
  /\ held = {} /\ saved = Absent

Exists(a) == applets[a] # Absent

-----------------------------------------------------------------------------
(* Requests of the guest.                                                  *)

\* Mutant: an entry that is there already is kept.
EmplaceApplet(program) ==
  /\ next_applet <= MaxApplet
  /\ applets' = [applets EXCEPT ![next_applet] =
                   IF @ = Absent THEN [program |-> program, state |-> "CREATED"] ELSE @]
  /\ next_applet' = next_applet + 1
  /\ held' = held \cup {[id |-> next_applet, program |-> program]}
  /\ UNCHANGED <<stack, saved>>

CreateApplet(program) ==
  /\ next_applet <= MaxApplet
  /\ applets' = [applets EXCEPT ![next_applet] = [program |-> program, state |-> "CREATED"]]
  /\ next_applet' = next_applet + 1
  /\ held' = held \cup {[id |-> next_applet, program |-> program]}
  /\ UNCHANGED <<stack, saved>>

Becomes(a, state) ==
  /\ Exists(a)
  /\ applets' = [applets EXCEPT ![a].state = state]

\* The blob is no NSO, does not fit in RAM or does not decompress: the boot
\* callback refuses it and the applet has exited.
StartApplet(a) ==
  /\ Becomes(a, "RUNNING") \/ Becomes(a, "EXITED")
  /\ UNCHANGED <<stack, next_applet, held, saved>>

PushApplet(a) ==
  /\ Len(stack) < MaxStack
  /\ Exists(a)
  /\ stack' = Append(stack, a)
  /\ UNCHANGED <<applets, next_applet, held, saved>>

\* Whatever was on top is suspended, also if it never started or has exited.
PopApplet ==
  /\ stack # << >>
  /\ stack' = Front(stack)
  /\ IF Exists(Last(stack)) THEN Becomes(Last(stack), "SUSPENDED") ELSE UNCHANGED applets
  /\ UNCHANGED <<next_applet, held, saved>>

NotifyRunning(a) ==
  /\ Becomes(a, "RUNNING")
  /\ UNCHANGED <<stack, next_applet, held, saved>>

-----------------------------------------------------------------------------
(* The host.                                                               *)

\* getAppletsForSnapshot copies every applet; RAM, with the numbers the guest
\* holds in it, is copied as well.
Recorded == [applets |-> applets, stack |-> stack, next_applet |-> next_applet, held |-> held]

snapshot ==
  /\ saved' = Recorded
  /\ UNCHANGED <<tables, held>>

\* restoreApplet, for every applet of the snapshot; the others stay.
Restored(s) == [a \in AppletId |-> IF s[a] # Absent THEN s[a] ELSE applets[a]]

\* Mutant: the counter is not put back.
CounterKept ==
  /\ saved # Absent
  /\ applets' = Restored(saved.applets)
  /\ stack' = saved.stack
  /\ held' = saved.held
  /\ UNCHANGED <<next_applet, saved>>

restore ==
  /\ saved # Absent
  /\ applets' = Restored(saved.applets)
  /\ stack' = saved.stack
  /\ next_applet' = saved.next_applet
  /\ held' = saved.held
  /\ UNCHANGED saved

\* Another Emulator, which may be given the snapshot of the first.
Restart ==
  /\ applets' = Empty /\ stack' = << >> /\ next_applet' = 1
  /\ held' = {}
  /\ UNCHANGED saved

\* The requests that touch only the service.
AppletRequest ==
  \/ \E program \in Programs : CreateApplet(program)
  \/ \E h \in held : PushApplet(h.id) \/ NotifyRunning(h.id)
  \/ PopApplet

AppletsNext ==
  \/ AppletRequest
  \/ \E h \in held : StartApplet(h.id)
  \/ snapshot
  \/ restore
  \/ Restart

AppletsSpec == AppletsInit /\ [][AppletsNext]_appletVars

-----------------------------------------------------------------------------
(* Properties.                                                             *)

\* Every number on the stack is that of an applet, and one CreateApplet will
\* not give out again: neither restoring an older snapshot nor restoring one
\* into another Emulator leaves a stacked number to name an applet made later.
StackNamesApplets ==
  \A i \in DOMAIN stack : Exists(stack[i]) /\ stack[i] < next_applet

\* A number the guest holds names the program it asked for, although restore
\* leaves the applets made since the snapshot in the table and gives their
\* numbers out a second time.
HeldNumbersNameTheirApplets ==
  \A h \in held : Exists(h.id) /\ applets[h.id].program = h.program
=============================================================================
