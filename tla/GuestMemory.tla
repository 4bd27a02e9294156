----------------------------- MODULE GuestMemory -----------------------------
(***************************************************************************)
(* Guest memory: the list of regions of ram/Mmu.h and the SVCs of          *)
(* hos/Kernel.h that change it.                                            *)
(*                                                                         *)
(* The list is searched from its front, a region may be mapped over        *)
(* another, and unmap fills the hole with the last region, so what an      *)
(* address means depends on the order of the list.                         *)
(*                                                                         *)
(* Addresses are Width numbers that wrap, as uint64_t does.  Contents of   *)
(* RAM, and QueryMemory, which changes no region, are left out.            *)
(***************************************************************************)
EXTENDS Naturals, Sequences, SequencesExt

CONSTANTS
  Width,       \* addresses are 0 .. Width - 1: 2^64 in the code
  RamSize,     \* Cpu::ramSize
  HeapBase,    \* heap_base_
  Sizes,       \* the sizes guests ask for
  Perms,       \* the permissions guests ask for
  MaxRequests  \* bound on the number of requests, for TLC

ASSUME MemoryAssumption ==
  /\ Width \in Nat \ {0} /\ RamSize \in 1 .. Width - 1 /\ HeapBase \in 0 .. Width - 1
  /\ Sizes \subseteq 0 .. Width - 1
  /\ Perms \subseteq SUBSET {"r", "w", "x"} /\ MaxRequests \in Nat

VARIABLES
  regions,   \* Mmu::regions_
  named,     \* history: the addresses the last request names
  aliases,   \* history: the MapMemory requests nothing has touched since
  requests   \* the number of requests carried out

memoryVars == <<regions, named, aliases, requests>>

Address == 0 .. Width - 1
Region == [va : Address, pa : Address, size : Address, perm : SUBSET {"r", "w", "x"}]
Sum(a, b) == (a + b) % Width

\* No switch, or mgd_translation: all of RAM at its own address.
Identity == <<[va |-> 0, pa |-> 0, size |-> RamSize, perm |-> {"r", "w", "x"}]>>

MemoryInit == regions = Identity /\ named = {} /\ aliases = {} /\ requests = 0

-----------------------------------------------------------------------------
(* Mmu.                                                                    *)

\* The first region that holds the whole access, 0 if there is none.
Holding(s, va, n) ==
  SelectInSeq(s, LAMBDA r : va >= r.va /\ Sum(va, n) <= Sum(r.va, r.size))

\* The first region that has the address.
Find(s, va) == SelectInSeq(s, LAMBDA r : va >= r.va /\ va < Sum(r.va, r.size))

Physical(r, va) == Sum(r.pa, va - r.va)

\* The answer of translate, and the address it gives.
Translates(va, n, need) ==
  LET i == Holding(regions, va, n) IN i # 0 /\ need \in regions[i].perm

Mapped(s, va, pa, n, perm) ==
  Append(s, [va |-> va, pa |-> pa, size |-> n, perm |-> perm])

\* Mutant: pop_back before the hole is filled.
PoppedFirst(s, va) ==
  LET i == SelectInSeq(s, LAMBDA r : r.va = va)
  IN IF i = 0 \/ Len(s) = 1 THEN s ELSE
     IF i = Len(s) THEN Front(s) ELSE ReplaceAt(Front(s), i, s[Len(s) - 1])

\* The first region with this base gives its place to the last one.
Unmapped(s, va) ==
  LET i == SelectInSeq(s, LAMBDA r : r.va = va)
  IN IF i = 0 THEN s ELSE Front(ReplaceAt(s, i, Last(s)))

\* Mutant: an alias maps the address it was made from.
AliasOfVirtual(s, va, n) == va

\* What MapMemory maps: the memory behind the source.
Source(s, va, n) == Physical(s[Holding(s, va, n)], va)

Protected(s, i, perm) == [s EXCEPT ![i].perm = perm]

-----------------------------------------------------------------------------
(* History.                                                                *)

Range_(va, n) == {a \in Address : a >= va /\ a < va + n}

\* What a region answers for, accesses that wrap left out.
Covers(r) == {a \in Address : a >= r.va /\ a + 1 <= Sum(r.va, r.size)}

Disjoint(s) ==
  \A i, j \in DOMAIN s : i # j => Covers(s[i]) \cap Covers(s[j]) = {}

\* The request names these addresses; an alias lives until one names either
\* of its sides, or two regions overlap.
Names(addresses) ==
  /\ named' = addresses
  /\ aliases' = IF Disjoint(regions')
                THEN {a \in aliases : (Range_(a.to, a.size) \cup Range_(a.from, a.size))
                                        \cap addresses = {}}
                ELSE {}

-----------------------------------------------------------------------------
(* Kernel.                                                                 *)

\* Emulator::applySwitches.
ApplySwitches ==
  /\ regions' \in {Identity, << >>}
  /\ Names(Address)

\* svcSetHeapSize.
SetHeapSize(n) ==
  /\ regions' = IF n > 0 THEN Mapped(regions, HeapBase, HeapBase, n, {"r", "w"}) ELSE regions
  /\ Names(Range_(HeapBase, n))

\* svcSetMemoryPermission, for a region of exactly this base and size.
SetMemoryPermission(va, n, perm) ==
  LET i == SelectInSeq(regions, LAMBDA r : r.va = va /\ r.size = n)
  IN /\ i # 0
     /\ regions' = Protected(regions, i, perm)
     /\ Names(Range_(va, n))

\* svcMapMemory: translate finds the memory, find the permissions.
MapMemory(to, from, n) ==
  /\ Translates(from, n, "r") /\ Find(regions, from) # 0
  /\ regions' = Mapped(regions, to, Source(regions, from, n), n,
                       regions[Find(regions, from)].perm)
  /\ named' = Range_(to, n)
  /\ aliases' = IF Disjoint(regions')
                THEN aliases \cup {a \in {[to |-> to, from |-> from, size |-> n]} :
                                     to + n < Width /\ from + n < Width}
                ELSE {}

\* svcUnmapMemory: find checks the request, unmap looks only for the base.
UnmapMemory(va, n) ==
  LET i == Find(regions, va)
  IN /\ i # 0 /\ regions[i].va = va /\ regions[i].size = n
     /\ regions' = Unmapped(regions, va)
     /\ Names(Range_(va, n))

MemoryNext ==
  /\ requests < MaxRequests /\ requests' = requests + 1
  /\ \/ ApplySwitches
     \/ \E n \in Sizes :
          \/ SetHeapSize(n)
          \/ \E va \in Address :
               \/ \E perm \in Perms : SetMemoryPermission(va, n, perm)
               \/ \E from \in Address : MapMemory(va, from, n)
               \/ UnmapMemory(va, n)

MemorySpec == MemoryInit /\ [][MemoryNext]_memoryVars

-----------------------------------------------------------------------------
(* Properties.                                                             *)

\* Where an access of one byte goes, 0 .. Width - 1, or Width if nowhere;
\* and what it may do there.
Meaning(s, a) ==
  LET i == Holding(s, a, 1)
  IN IF i = 0 THEN [pa |-> Width, perm |-> {}]
     ELSE [pa |-> Physical(s[i], a), perm |-> s[i].perm]

\* While no two regions overlap, a request changes the meaning of the
\* addresses it names and of no other, although unmap moves regions in the
\* list it is searched in.  The last address, whose end wraps to 0, is left out.
OthersKeepTheirMeaning ==
  [][Disjoint(regions) =>
       \A a \in 0 .. Width - 2 :
         a \notin named' => Meaning(regions', a) = Meaning(regions, a)]_memoryVars

\* An alias and its source stay the same memory until a request names one of
\* them, also when the source is an alias itself, whatever happens to the
\* other regions meanwhile.
AliasesAgree ==
  \A a \in aliases : \A k \in 0 .. a.size - 1 :
    Meaning(regions, a.to + k).pa = Meaning(regions, a.from + k).pa
=============================================================================
