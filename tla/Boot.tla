-------------------------------- MODULE Boot --------------------------------
(***************************************************************************)
(* Loading programs into RAM (loader/NsoLoader.h, loader/NroLoader.h, the  *)
(* boots of runtime/Emulator.h) composed with the applets the booted guest *)
(* starts.                                                                 *)
(*                                                                         *)
(* A file is described by what its loader meets: whether it parses, where  *)
(* each segment goes, how long the header says it is and how many bytes    *)
(* come out of its block.  Segments are loaded one after the other; when   *)
(* one does not fit or does not unpack the loader gives up, and what it    *)
(* has written stays.                                                      *)
(*                                                                         *)
(* Left out: the containers around a main (they yield mains or nothing),   *)
(* what the guest writes, its stack pointer, and a second boot on the same *)
(* Emulator.                                                               *)
(***************************************************************************)
EXTENDS Applets

CONSTANTS
  File,        \* each program's file, and those of other mains
  Nros,        \* the files bootNro is called with
  Containers,  \* what an NSP holds: its mains, in their order
  RamSize,
  HeaderSize,  \* of an NRO
  AppletBase   \* 0x10000000

Mains == UNION {Range(mains) : mains \in Containers}

Segment == [at : Nat, size : Nat, unpacked : Nat \cup {Absent}]

ASSUME BootAssumption ==
  /\ RamSize \in Nat /\ HeaderSize \in Nat /\ AppletBase \in Nat
  /\ \A p \in Programs \cup Nros \cup Mains :
       /\ p # Absent
       /\ File[p].valid \in BOOLEAN /\ File[p].bss \in Nat
       /\ \A i \in 1 .. 3 : File[p].segments[i] \in Segment
  /\ \A mains \in Containers : mains \in Seq(Mains)

VARIABLES
  memory,    \* the cells of RAM: Absent (zero), or the cell of a file loaded there
  pc,        \* the program that runs
  machine    \* memory and pc in the Snapshot the host keeps

bootVars == <<memory, pc, machine>>

Loaded(p, i, k) == [file |-> p, segment |-> i, cell |-> k]

Blank == [c \in 0 .. RamSize - 1 |-> Absent]

BootInit ==
  /\ AppletsInit
  /\ memory = Blank /\ pc = Absent /\ machine = Absent

-----------------------------------------------------------------------------
(* The loaders.  A load so far is a memory and whether it is still going.  *)

\* Mutant: the length that came out is not compared with the header's.
SomethingUnpacks(s) == s.unpacked # Absent

\* The block unpacks (lz4::decompressBlock) to the length of the header; one
\* that is stored plainly always does.
Unpacks(s) == s.unpacked = s.size

Fits(s, base) == base + s.at + s.size <= RamSize

\* Segment i of the file of p, at its place from base on.
Copied(m, p, i, base) ==
  LET s == File[p].segments[i]
  IN [c \in DOMAIN m |->
        IF c - base - s.at \in 0 .. s.unpacked - 1 THEN Loaded(p, i, c - base - s.at) ELSE m[c]]

LoadSegment(load, p, i, base) ==
  LET s == File[p].segments[i]
  IN IF load.ok /\ Fits(s, base) /\ Unpacks(s)
     THEN [load EXCEPT !.memory = Copied(@, p, i, base)]
     ELSE [load EXCEPT !.ok = FALSE]

LoadSegments(load, p, base) ==
  LoadSegment(LoadSegment(LoadSegment(load, p, 1, base), p, 2, base), p, 3, base)

\* parseNso and loadNsoInto.
loadNsoInto(m, p, base) == LoadSegments([memory |-> m, ok |-> File[p].valid], p, base)

\* The cells of the bss, behind the data.
Bss(p, base) ==
  LET data == File[p].segments[3]
  IN base + data.at + data.size .. base + data.at + data.size + File[p].bss - 1

\* parseNro and loadNroInto: the header comes along, and may be written over by
\* the text; the bss is zeroed.  The bss of an NSO is not.
loadNroInto(m, p, base) ==
  LET header == base .. base + HeaderSize - 1
      headed == [memory |-> [c \in DOMAIN m |-> IF c \in header THEN Loaded(p, 0, c - base) ELSE m[c]],
                 ok |-> TRUE]
      load == LoadSegments(headed, p, base)
  IN IF ~File[p].valid \/ ~(header \subseteq DOMAIN m) THEN [memory |-> m, ok |-> FALSE]
     ELSE IF load.ok /\ Bss(p, base) \subseteq DOMAIN m
     THEN [load EXCEPT !.memory =
             [c \in DOMAIN @ |-> IF c \in Bss(p, base) THEN Absent ELSE @[c]]]
     ELSE [load EXCEPT !.ok = FALSE]

-----------------------------------------------------------------------------
(* Boots.                                                                  *)

Boots(load, p) ==
  /\ memory' = load.memory
  /\ pc' = IF load.ok THEN p ELSE pc

bootNro(p) ==
  /\ pc = Absent
  /\ Boots(loadNroInto(memory, p, 0), p)
  /\ UNCHANGED <<appletVars, machine>>

\* bootNsp and bootNspWithKeys: the first of the mains that boots.  The
\* request to appletOE that follows has no payload and creates nothing.
TryMain(tried, p) ==
  IF tried.ok THEN tried
  ELSE LET load == loadNsoInto(tried.memory, p, 0)
       IN [memory |-> load.memory, ok |-> load.ok, main |-> p]

TryMains(m, mains) ==
  LET tried[n \in 0 .. Len(mains)] ==
        IF n = 0 THEN [memory |-> m, ok |-> FALSE, main |-> Absent]
        ELSE TryMain(tried[n - 1], mains[n])
  IN tried[Len(mains)]

bootNsp(mains) ==
  /\ pc = Absent
  /\ LET tried == TryMains(memory, mains) IN Boots(tried, tried.main)
  /\ UNCHANGED <<appletVars, machine>>

-----------------------------------------------------------------------------
(* The guest and its applets.                                              *)

\* The boot callback loads the applet's blob at AppletBase.
BootApplet(a) ==
  /\ Exists(a)
  /\ LET load == loadNsoInto(memory, applets[a].program, AppletBase)
     IN /\ memory' = load.memory
        /\ StartApplet(a)
        /\ applets'[a].state = IF load.ok THEN "RUNNING" ELSE "EXITED"
  /\ UNCHANGED <<pc, machine>>

GuestRequest ==
  /\ pc # Absent
  /\ AppletRequest
  /\ UNCHANGED bootVars

GuestStarts == pc # Absent /\ \E h \in held : BootApplet(h.id)

SnapshotAll ==
  /\ snapshot
  /\ machine' = [memory |-> memory, pc |-> pc]
  /\ UNCHANGED <<memory, pc>>

RestoreAll ==
  /\ restore
  /\ memory' = machine.memory /\ pc' = machine.pc
  /\ UNCHANGED machine

RestartAll ==
  /\ Restart
  /\ memory' = Blank /\ pc' = Absent
  /\ UNCHANGED machine

BootNext ==
  \/ \E p \in Nros : bootNro(p)
  \/ \E mains \in Containers : bootNsp(mains)
  \/ GuestRequest
  \/ GuestStarts
  \/ SnapshotAll
  \/ RestoreAll
  \/ RestartAll

BootSpec == BootInit /\ [][BootNext]_<<appletVars, bootVars>>

-----------------------------------------------------------------------------
\* The program that was booted is in memory, each segment at its place and
\* complete, and the bss of an NRO is clear, although a main before it, or an
\* applet after it, was loaded half and given up, and although snapshots are
\* restored in between.
BootedIsWhole ==
  pc # Absent =>
    /\ \A i \in 1 .. 3 :
         LET s == File[pc].segments[i]
         IN \A k \in 0 .. s.size - 1 : memory[s.at + k] = Loaded(pc, i, k)
    /\ pc \in Nros => \A c \in Bss(pc, 0) : memory[c] = Absent
=============================================================================
