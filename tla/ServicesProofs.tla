---------------------------- MODULE ServicesProofs ----------------------------
(***************************************************************************)
(* Theorems about the services of the machine: the applets and the boot    *)
(* chain that starts their programs (Applets, Boot), for every set of      *)
(* programs and files, and the IPC sessions (Ipc), for every set of        *)
(* services and every queue length.  The two share no variable.            *)
(***************************************************************************)
EXTENDS Boot, Ipc, SequenceTheorems, FiniteSetTheorems, WellFoundedInduction, TLAPS

-----------------------------------------------------------------------------
(* Applets: what holds of the tables, and of every copy a snapshot has.    *)

EntriesHold(table, s, next, h) ==
  /\ table \in [AppletId -> Applet \cup {Absent}]
  /\ s \in Seq(AppletId)
  /\ next \in 1 .. MaxApplet + 1
  /\ h \subseteq [id : AppletId, program : Programs]
  /\ \A i \in 1 .. Len(s) : table[s[i]] # Absent /\ s[i] < next
  /\ \A x \in h : /\ x.id < next
                  /\ table[x.id] # Absent /\ table[x.id].program = x.program

AppletsInv ==
  /\ EntriesHold(applets, stack, next_applet, held)
  /\ saved # Absent => EntriesHold(saved.applets, saved.stack, saved.next_applet, saved.held)

LEMMA AppletsInit_Inv == AppletsInit => AppletsInv
<1> SUFFICES ASSUME AppletsInit PROVE AppletsInv
  OBVIOUS
<1>1. Len(<< >>) = 0 /\ << >> \in Seq(AppletId)
  BY EmptySeq
<1>2. 1 \in 1 .. MaxApplet + 1
  BY AppletAssumption DEF AppletAssumption
<1>3. QED
  BY <1>1, <1>2 DEF AppletsInit, AppletsInv, EntriesHold, Empty

(* An entry that changes its state is still that of its program.           *)
LEMMA BecomesKeeps ==
  ASSUME AppletsInv, NEW a \in AppletId, NEW state \in AppletState, Becomes(a, state)
  PROVE  EntriesHold(applets', stack, next_applet, held)
<1>1. /\ applets \in [AppletId -> Applet \cup {Absent}] /\ applets[a] # Absent
      /\ applets' = [applets EXCEPT ![a].state = state]
  BY DEF AppletsInv, EntriesHold, Becomes, Exists
<1>2. /\ applets[a] \in Applet
      /\ applets'[a] = [program |-> applets[a].program, state |-> state]
  BY <1>1 DEF Applet
<1>3. applets'[a] \in Applet /\ applets'[a] # Absent /\ applets'[a].program = applets[a].program
  BY <1>2, AppletAssumption DEF AppletAssumption, Applet, AppletState
<1>4. /\ applets' \in [AppletId -> Applet \cup {Absent}]
      /\ \A b \in AppletId : b # a => applets'[b] = applets[b]
  BY <1>1, <1>3
<1>5. \A b \in AppletId : applets[b] # Absent =>
        applets'[b] # Absent /\ applets'[b].program = applets[b].program
  BY <1>3, <1>4
<1>6. \A i \in 1 .. Len(stack) : stack[i] \in AppletId
  BY DEF AppletsInv, EntriesHold
<1>7. QED
  BY <1>4, <1>5, <1>6 DEF AppletsInv, EntriesHold

LEMMA AppletsNext_Inv == AppletsInv /\ [AppletsNext]_appletVars => AppletsInv'
<1> SUFFICES ASSUME AppletsInv, [AppletsNext]_appletVars PROVE AppletsInv'
  OBVIOUS
<1>a. /\ applets \in [AppletId -> Applet \cup {Absent}] /\ stack \in Seq(AppletId)
      /\ next_applet \in 1 .. MaxApplet + 1 /\ MaxApplet \in Nat
      /\ held \subseteq [id : AppletId, program : Programs]
      /\ \A i \in 1 .. Len(stack) : /\ stack[i] \in AppletId
                                    /\ applets[stack[i]] # Absent /\ stack[i] < next_applet
      /\ \A x \in held : /\ x.id < next_applet /\ applets[x.id] # Absent
                         /\ applets[x.id].program = x.program
  BY AppletAssumption DEF AppletsInv, EntriesHold, AppletAssumption
<1>1. ASSUME NEW program \in Programs, CreateApplet(program) PROVE AppletsInv'
  <2> DEFINE entry == [program |-> program, state |-> "CREATED"]
             mine == [id |-> next_applet, program |-> program]
  <2>1. /\ next_applet \in AppletId /\ applets' = [applets EXCEPT ![next_applet] = entry]
        /\ next_applet' = next_applet + 1 /\ held' = held \cup {mine}
        /\ UNCHANGED <<stack, saved>>
    BY <1>1, <1>a DEF CreateApplet, AppletId
  <2>2. entry \in Applet /\ entry # Absent /\ entry.program = program
    BY AppletAssumption DEF AppletAssumption, Applet, AppletState
  <2>3. mine \in [id : AppletId, program : Programs] /\ mine.id = next_applet
        /\ mine.program = program
    BY <2>1
  <2> HIDE DEF entry, mine
  <2>4. /\ applets' \in [AppletId -> Applet \cup {Absent}] /\ applets'[next_applet] = entry
        /\ \A b \in AppletId : b # next_applet => applets'[b] = applets[b]
    BY <1>a, <2>1, <2>2
  <2>5. next_applet' \in 1 .. MaxApplet + 1
    BY <1>a, <2>1 DEF AppletId
  <2>6. \A i \in 1 .. Len(stack) : /\ stack[i] # next_applet /\ stack[i] < next_applet'
                                   /\ applets'[stack[i]] # Absent
    BY <1>a, <2>1, <2>4 DEF AppletId
  <2>7. ASSUME NEW x \in held'
        PROVE  x.id < next_applet' /\ applets'[x.id] # Absent /\ applets'[x.id].program = x.program
    <3>1. CASE x = mine
      BY <1>a, <2>1, <2>2, <2>3, <2>4, <3>1
    <3>2. CASE x \in held
      <4>1. x.id \in AppletId /\ x.id < next_applet
        BY <1>a, <3>2
      <4>2. x.id # next_applet /\ x.id < next_applet'
        BY <1>a, <2>1, <4>1 DEF AppletId
      <4>3. QED
        BY <1>a, <2>4, <3>2, <4>1, <4>2
    <3>3. QED
      BY <2>1, <3>1, <3>2
  <2>8. EntriesHold(applets, stack, next_applet, held)'
    BY <1>a, <2>1, <2>3, <2>4, <2>5, <2>6, <2>7 DEF EntriesHold
  <2>9. QED
    BY <2>1, <2>8 DEF AppletsInv
<1>2. ASSUME NEW h \in held, PushApplet(h.id) PROVE AppletsInv'
  <2>1. /\ h.id \in AppletId /\ h.id < next_applet /\ applets[h.id] # Absent
        /\ stack' = Append(stack, h.id) /\ UNCHANGED <<applets, next_applet, held, saved>>
    BY <1>2, <1>a DEF PushApplet, Exists
  <2>2. /\ stack' \in Seq(AppletId) /\ Len(stack') = Len(stack) + 1
        /\ \A i \in 1 .. Len(stack) : stack'[i] = stack[i]
        /\ stack'[Len(stack) + 1] = h.id
    BY <1>a, <2>1, AppendProperties
  <2>3. \A i \in 1 .. Len(stack') : i \in 1 .. Len(stack) \/ i = Len(stack) + 1
    BY <1>a, <2>2, LenProperties
  <2>4. EntriesHold(applets, stack, next_applet, held)'
    BY <1>a, <2>1, <2>2, <2>3 DEF EntriesHold
  <2>5. QED
    BY <2>1, <2>4 DEF AppletsInv
<1>3. ASSUME NEW a \in AppletId, NEW state \in AppletState, Becomes(a, state),
             UNCHANGED <<stack, next_applet, held, saved>>
      PROVE  AppletsInv'
  BY <1>3, BecomesKeeps DEF AppletsInv, EntriesHold
<1>4. CASE PopApplet
  <2> DEFINE top == Last(stack)
  <2>1. stack # << >> /\ stack' = Front(stack) /\ UNCHANGED <<next_applet, held, saved>>
    BY <1>4 DEF PopApplet
  <2>2. Len(stack) \in Nat \ {0}
    BY <1>a, <2>1, EmptySeq, LenProperties
  <2>3. /\ Front(stack) \in Seq(AppletId) /\ Len(Front(stack)) = Len(stack) - 1
        /\ \A i \in 1 .. Len(Front(stack)) : Front(stack)[i] = stack[i]
    <3> DEFINE n == Len(stack) - 1
    <3>1. n \in Nat /\ 1 \in Int /\ n \in Int /\ n - 1 + 1 = n
      BY <2>2
    <3>2. \A i \in 1 .. n : stack[i] \in AppletId /\ 1 + i - 1 = i
      BY <1>a, <2>2
    <3> HIDE DEF n
    <3>3. /\ SubSeq(stack, 1, n) \in Seq(AppletId)
          /\ Len(SubSeq(stack, 1, n)) = IF 1 <= n THEN n - 1 + 1 ELSE 0
          /\ \A i \in 1 .. n - 1 + 1 : SubSeq(stack, 1, n)[i] = stack[1 + i - 1]
      BY <3>1, <3>2, SubSeqProperties
    <3>4. Len(SubSeq(stack, 1, n)) = n /\ \A i \in 1 .. n : SubSeq(stack, 1, n)[i] = stack[i]
      BY <3>1, <3>2, <3>3
    <3>5. QED
      BY <3>3, <3>4 DEF Front, n
  <2>4. top \in AppletId
    BY <1>a, <2>2 DEF Last
  <2>5. Becomes(top, "SUSPENDED") \/ applets' = applets
    BY <1>4 DEF PopApplet
  <2>6. EntriesHold(applets', stack, next_applet, held)
    BY <2>4, <2>5, BecomesKeeps DEF AppletsInv, AppletState
  <2>7. \A i \in 1 .. Len(Front(stack)) : i \in 1 .. Len(stack)
    BY <2>2, <2>3
  <2>8. EntriesHold(applets', Front(stack), next_applet, held)
    BY <2>3, <2>6, <2>7 DEF EntriesHold
  <2>9. QED
    BY <2>1, <2>8 DEF AppletsInv
<1>5. CASE snapshot
  <2>1. UNCHANGED <<applets, stack, next_applet, held>>
    BY <1>5 DEF snapshot, tables
  <2>2. /\ saved'.applets = applets /\ saved'.stack = stack
        /\ saved'.next_applet = next_applet /\ saved'.held = held
    BY <1>5 DEF snapshot, Recorded
  <2>3. QED
    BY <2>1, <2>2 DEF AppletsInv, EntriesHold
<1>6. CASE restore
  <2>1. /\ EntriesHold(saved.applets, saved.stack, saved.next_applet, saved.held)
        /\ applets' = Restored(saved.applets) /\ stack' = saved.stack
        /\ next_applet' = saved.next_applet /\ held' = saved.held /\ saved' = saved
    BY <1>6 DEF restore, AppletsInv
  <2>2. /\ applets' \in [AppletId -> Applet \cup {Absent}]
        /\ \A a \in AppletId : saved.applets[a] # Absent => applets'[a] = saved.applets[a]
    BY <1>a, <2>1 DEF Restored, EntriesHold
  <2>3. \A i \in 1 .. Len(saved.stack) : saved.stack[i] \in AppletId
    BY <2>1 DEF EntriesHold
  <2>4. \A x \in saved.held : x.id \in AppletId
    BY <2>1 DEF EntriesHold
  <2>5. EntriesHold(applets', saved.stack, saved.next_applet, saved.held)
    BY <2>1, <2>2, <2>3, <2>4 DEF EntriesHold
  <2>6. QED
    BY <2>1, <2>5 DEF AppletsInv, EntriesHold
<1>7. CASE Restart
  <2>1. Len(<< >>) = 0 /\ << >> \in Seq(AppletId) /\ 1 \in 1 .. MaxApplet + 1
    BY <1>a, EmptySeq
  <2>2. EntriesHold(applets, stack, next_applet, held)'
    BY <1>7, <2>1 DEF Restart, EntriesHold, Empty
  <2>3. QED
    BY <1>7, <2>2 DEF Restart, AppletsInv
<1>8. CASE UNCHANGED appletVars
  BY <1>8 DEF appletVars, tables, AppletsInv, EntriesHold
<1>9. QED
  <2>1. ASSUME NEW h \in held PROVE h.id \in AppletId
    BY <1>a
  <2>2. ASSUME NEW h \in held, NotifyRunning(h.id) \/ StartApplet(h.id) PROVE AppletsInv'
    BY <1>3, <2>1, <2>2 DEF NotifyRunning, StartApplet, AppletState
  <2>3. QED
    BY <1>1, <1>2, <1>4, <1>5, <1>6, <1>7, <1>8, <2>2 DEF AppletsNext, AppletRequest

LEMMA BootActsOnApplets ==
  [BootNext]_<<appletVars, bootVars>> => [AppletsNext]_appletVars
<1> SUFFICES ASSUME [BootNext]_<<appletVars, bootVars>> PROVE [AppletsNext]_appletVars
  OBVIOUS
<1>1. ASSUME NEW h \in held, BootApplet(h.id) PROVE AppletsNext
  BY <1>1 DEF BootApplet, AppletsNext
<1>2. QED
  BY <1>1, Zenon DEF BootNext, bootNro, bootNsp, GuestRequest, GuestStarts, SnapshotAll,
     RestoreAll, RestartAll, AppletsNext

\* Whatever is booted, and whatever the boot callback makes of a blob, the
\* service of the booted machine behaves as the applets do by themselves.
THEOREM BootKeepsAppletsSpec == BootSpec => AppletsSpec
<1>1. BootInit => AppletsInit
  BY DEF BootInit
<1>2. QED
  BY <1>1, BootActsOnApplets, PTL DEF BootSpec, AppletsSpec

LEMMA AppletsAlways == AppletsSpec => []AppletsInv
  BY AppletsInit_Inv, AppletsNext_Inv, PTL DEF AppletsSpec

\* Every number on the stack is below the counter and has an entry: restore
\* puts the counter back together with the stack, and deletes no entry.
THEOREM StackIsNamed == BootSpec => []StackNamesApplets
<1>1. AppletsInv => StackNamesApplets
  <2> SUFFICES ASSUME AppletsInv PROVE StackNamesApplets
    OBVIOUS
  <2>1. stack \in Seq(AppletId) /\ DOMAIN stack = 1 .. Len(stack)
    BY LenProperties DEF AppletsInv, EntriesHold
  <2>2. QED
    BY <2>1 DEF AppletsInv, EntriesHold, StackNamesApplets, Exists
<1>2. QED
  BY <1>1, BootKeepsAppletsSpec, AppletsAlways, PTL

\* The numbers the guest holds come back with RAM, and so do the entries they
\* were given for: an entry left by restore is overwritten by the CreateApplet
\* that gives its number out again, and until then nobody holds it.
THEOREM HeldNumbersAreNamed == BootSpec => []HeldNumbersNameTheirApplets
<1>1. AppletsInv => HeldNumbersNameTheirApplets
  BY DEF AppletsInv, EntriesHold, HeldNumbersNameTheirApplets, Exists
<1>2. QED
  BY <1>1, BootKeepsAppletsSpec, AppletsAlways, PTL

-----------------------------------------------------------------------------
(* Boots.  The files are as a linker lays them out: the segments one after  *)
(* the other, the bss behind them, all below the place of the applets.      *)

Ram == 0 .. RamSize - 1
Files == Programs \cup Nros \cup Mains

LaidOut(p) ==
  LET s == File[p].segments
  IN /\ s[1].at + s[1].size <= s[2].at
     /\ s[2].at + s[2].size <= s[3].at
     /\ s[3].at + s[3].size + File[p].bss <= AppletBase

\* What the loaders ask of the segments of p.
Loadable(p, base) ==
  \A i \in 1 .. 3 : LET s == File[p].segments[i] IN Fits(s, base) /\ Unpacks(s)

\* No file has both magics, and what can be booted is laid out.
WellFormed ==
  /\ \A p \in Nros \cap Mains : ~File[p].valid
  /\ \A p \in Nros \cup Mains : File[p].valid /\ Loadable(p, 0) => LaidOut(p)

\* Segment i of p is in memory m, from base on.
Has(m, p, i, base) ==
  LET s == File[p].segments[i]
  IN \A k \in 0 .. s.size - 1 : m[base + s.at + k] = Loaded(p, i, k)

\* The cells segment i of p takes, from base on.
Cells(p, i, base) ==
  LET s == File[p].segments[i] IN base + s.at .. base + s.at + s.size - 1

IsRam(m) == m = [c \in Ram |-> m[c]]

LEMMA SegmentLoads ==
  ASSUME NEW m, IsRam(m), NEW p \in Files, NEW i \in 1 .. 3, NEW base \in Nat,
         NEW load, load.memory = m, load = [memory |-> m, ok |-> load.ok], load.ok \in BOOLEAN,
         NEW l, l = LoadSegment(load, p, i, base)
  PROVE  /\ l = [memory |-> l.memory, ok |-> l.ok] /\ l.ok \in BOOLEAN
         /\ IsRam(l.memory)
         /\ \A c \in Ram \ Cells(p, i, base) : l.memory[c] = m[c]
         /\ l.ok => /\ load.ok /\ Has(l.memory, p, i, base)
                    /\ Cells(p, i, base) \subseteq Ram
                    /\ Fits(File[p].segments[i], base) /\ Unpacks(File[p].segments[i])
<1> DEFINE s == File[p].segments[i]
<1>1. s \in Segment /\ s.at \in Nat /\ s.size \in Nat /\ RamSize \in Nat
  BY BootAssumption DEF BootAssumption, Files, Segment
<1>2. CASE load.ok /\ Fits(s, base) /\ Unpacks(s)
  <2>1. l = [load EXCEPT !.memory = Copied(m, p, i, base)]
    BY <1>2 DEF LoadSegment
  <2>2. l = [memory |-> Copied(m, p, i, base), ok |-> load.ok]
    BY <2>1
  <2>3. s.unpacked = s.size /\ base + s.at + s.size <= RamSize
    BY <1>2 DEF Unpacks, Fits
  <2> DEFINE n == Copied(m, p, i, base)
  <2>4. DOMAIN m = Ram
    BY DEF IsRam
  <2>5. n = [c \in Ram |-> IF c - base - s.at \in 0 .. s.size - 1
                          THEN Loaded(p, i, c - base - s.at) ELSE m[c]]
    BY <2>3, <2>4 DEF Copied
  <2> HIDE DEF n
  <2>6. IsRam(n)
    BY <2>5 DEF IsRam
  <2>7. ASSUME NEW c \in Ram, c \notin Cells(p, i, base) PROVE n[c] = m[c]
    <3>1. c - base - s.at \notin 0 .. s.size - 1
      BY <1>1, <2>7 DEF Cells, Ram
    <3>2. QED
      BY <2>5, <3>1
  <2>8. Cells(p, i, base) \subseteq Ram
    BY <1>1, <2>3 DEF Cells, Ram
  <2>9. ASSUME NEW k \in 0 .. s.size - 1 PROVE n[base + s.at + k] = Loaded(p, i, k)
    <3>1. base + s.at + k \in Ram /\ (base + s.at + k) - base - s.at = k
      BY <1>1, <2>3 DEF Ram
    <3>2. QED
      BY <2>5, <2>9, <3>1
  <2>10. Has(n, p, i, base)
    BY <2>9 DEF Has
  <2>11. l.memory = n /\ l.ok = load.ok
    BY <2>2 DEF n
  <2>12. QED
    BY <1>2, <2>2, <2>6, <2>7, <2>8, <2>10, <2>11 DEF n
<1>3. CASE ~(load.ok /\ Fits(s, base) /\ Unpacks(s))
  <2>1. l = [load EXCEPT !.ok = FALSE]
    BY <1>3 DEF LoadSegment
  <2>2. l = [memory |-> m, ok |-> FALSE]
    BY <2>1
  <2>3. l.memory = m /\ l.ok = FALSE
    BY <2>2
  <2>4. QED
    BY <2>2, <2>3
<1>4. QED
  BY <1>2, <1>3

LEMMA HasKept ==
  ASSUME NEW m, NEW n, NEW p \in Files, NEW i \in 1 .. 3, NEW base \in Nat,
         Has(m, p, i, base), \A c \in Cells(p, i, base) : n[c] = m[c]
  PROVE  Has(n, p, i, base)
<1> DEFINE s == File[p].segments[i]
<1>1. s.at \in Nat /\ s.size \in Nat
  BY BootAssumption DEF BootAssumption, Files, Segment
<1>2. \A k \in 0 .. s.size - 1 : base + s.at + k \in Cells(p, i, base)
  BY <1>1 DEF Cells
<1>3. QED
  BY <1>2 DEF Has

LEMMA CellsApart ==
  ASSUME NEW p \in Files, LaidOut(p), NEW base \in Nat
  PROVE  /\ Cells(p, 1, base) \cap Cells(p, 2, base) = {}
         /\ Cells(p, 1, base) \cap Cells(p, 3, base) = {}
         /\ Cells(p, 2, base) \cap Cells(p, 3, base) = {}
         /\ \A i \in 1 .. 3 : /\ Cells(p, i, base) \cap Bss(p, base) = {}
                            /\ \A c \in Cells(p, i, 0) : c < AppletBase
         /\ \A c \in Bss(p, 0) : c < AppletBase
<1>1. \A i \in 1 .. 3 : File[p].segments[i].at \in Nat /\ File[p].segments[i].size \in Nat
  BY BootAssumption DEF BootAssumption, Files, Segment
<1>2. File[p].bss \in Nat /\ AppletBase \in Nat
  BY BootAssumption DEF BootAssumption, Files
<1> DEFINE a == File[p].segments[1] b == File[p].segments[2] c == File[p].segments[3]
<1>3. /\ a.at \in Nat /\ a.size \in Nat /\ b.at \in Nat /\ b.size \in Nat
      /\ c.at \in Nat /\ c.size \in Nat
  BY <1>1
<1>4. /\ a.at + a.size <= b.at /\ b.at + b.size <= c.at
      /\ c.at + c.size + File[p].bss <= AppletBase
  BY DEF LaidOut
<1>5. /\ Cells(p, 1, base) = base + a.at .. base + a.at + a.size - 1
      /\ Cells(p, 2, base) = base + b.at .. base + b.at + b.size - 1
      /\ Cells(p, 3, base) = base + c.at .. base + c.at + c.size - 1
      /\ Cells(p, 1, 0) = 0 + a.at .. 0 + a.at + a.size - 1
      /\ Cells(p, 2, 0) = 0 + b.at .. 0 + b.at + b.size - 1
      /\ Cells(p, 3, 0) = 0 + c.at .. 0 + c.at + c.size - 1
      /\ Bss(p, base) = base + c.at + c.size .. base + c.at + c.size + File[p].bss - 1
      /\ Bss(p, 0) = 0 + c.at + c.size .. 0 + c.at + c.size + File[p].bss - 1
  BY DEF Cells, Bss
<1> HIDE DEF a, b, c
<1>6. /\ a.at + a.size <= c.at /\ c.at + c.size <= c.at + c.size /\ c.at + c.size \in Nat
      /\ a.at + a.size <= c.at + c.size /\ b.at + b.size <= c.at + c.size
      /\ a.at + a.size <= AppletBase /\ b.at + b.size <= AppletBase
      /\ c.at + c.size <= AppletBase
      /\ base + (c.at + c.size) = base + c.at + c.size
      /\ 0 + (c.at + c.size) = 0 + c.at + c.size
  BY <1>2, <1>3, <1>4
<1>7. /\ Cells(p, 1, base) \cap Cells(p, 2, base) = {}
      /\ Cells(p, 1, base) \cap Cells(p, 3, base) = {}
      /\ Cells(p, 2, base) \cap Cells(p, 3, base) = {}
  <2>1. Cells(p, 1, base) \cap Cells(p, 2, base) = {}
    <3>1. /\ a.at \in Nat /\ a.size \in Nat /\ b.at \in Nat /\ b.size \in Nat
          /\ a.at + a.size <= b.at
      BY <1>3, <1>4
    <3>2. (base + a.at .. base + a.at + a.size - 1)
            \cap (base + b.at .. base + b.at + b.size - 1) = {}
      BY <3>1
    <3>3. QED
      BY <1>5, <3>2, Zenon
  <2>2. Cells(p, 1, base) \cap Cells(p, 3, base) = {}
    <3>1. /\ a.at \in Nat /\ a.size \in Nat /\ c.at \in Nat /\ c.size \in Nat
          /\ a.at + a.size <= c.at
      BY <1>3, <1>6
    <3>2. (base + a.at .. base + a.at + a.size - 1)
            \cap (base + c.at .. base + c.at + c.size - 1) = {}
      BY <3>1
    <3>3. QED
      BY <1>5, <3>2, Zenon
  <2>3. Cells(p, 2, base) \cap Cells(p, 3, base) = {}
    <3>1. /\ b.at \in Nat /\ b.size \in Nat /\ c.at \in Nat /\ c.size \in Nat
          /\ b.at + b.size <= c.at
      BY <1>3, <1>4
    <3>2. (base + b.at .. base + b.at + b.size - 1)
            \cap (base + c.at .. base + c.at + c.size - 1) = {}
      BY <3>1
    <3>3. QED
      BY <1>5, <3>2, Zenon
  <2>4. QED
    BY <2>1, <2>2, <2>3
<1>8. /\ Cells(p, 1, base) \cap Bss(p, base) = {}
      /\ Cells(p, 2, base) \cap Bss(p, base) = {}
      /\ Cells(p, 3, base) \cap Bss(p, base) = {}
  <2> DEFINE e == c.at + c.size
  <2>1. Bss(p, base) = base + e .. base + e + File[p].bss - 1
    BY <1>5, <1>6
  <2>2. /\ e \in Nat /\ a.at + a.size <= e /\ b.at + b.size <= e /\ c.at + c.size <= e
    BY <1>6
  <2> HIDE DEF e
  <2>3. Cells(p, 1, base) \cap Bss(p, base) = {}
    <3>1. a.at \in Nat /\ a.size \in Nat /\ a.at + a.size <= e
      BY <1>3, <2>2
    <3>2. (base + a.at .. base + a.at + a.size - 1) \cap (base + e .. base + e + File[p].bss - 1) = {}
      BY <1>2, <2>2, <3>1
    <3>3. QED
      BY <1>5, <2>1, <3>2, Zenon
  <2>4. Cells(p, 2, base) \cap Bss(p, base) = {}
    <3>1. b.at \in Nat /\ b.size \in Nat /\ b.at + b.size <= e
      BY <1>3, <2>2
    <3>2. (base + b.at .. base + b.at + b.size - 1) \cap (base + e .. base + e + File[p].bss - 1) = {}
      BY <1>2, <2>2, <3>1
    <3>3. QED
      BY <1>5, <2>1, <3>2, Zenon
  <2>5. Cells(p, 3, base) \cap Bss(p, base) = {}
    <3>1. c.at \in Nat /\ c.size \in Nat /\ c.at + c.size <= e
      BY <1>3, <2>2
    <3>2. (base + c.at .. base + c.at + c.size - 1) \cap (base + e .. base + e + File[p].bss - 1) = {}
      BY <1>2, <2>2, <3>1
    <3>3. QED
      BY <1>5, <2>1, <3>2, Zenon
  <2>6. QED
    BY <2>3, <2>4, <2>5
<1>a. /\ \A x \in Cells(p, 1, 0) : x < AppletBase
      /\ \A x \in Cells(p, 2, 0) : x < AppletBase
      /\ \A x \in Cells(p, 3, 0) : x < AppletBase
      /\ \A x \in Bss(p, 0) : x < AppletBase
  <2> DEFINE e == c.at + c.size
  <2>1. /\ Bss(p, 0) = 0 + e .. 0 + e + File[p].bss - 1 /\ e \in Nat
        /\ e + File[p].bss <= AppletBase
    BY <1>4, <1>5, <1>6
  <2> HIDE DEF e
  <2>2. \A x \in Bss(p, 0) : x < AppletBase
    BY <1>2, <2>1
  <2>3. \A x \in Cells(p, 1, 0) : x < AppletBase
    <3>1. a.at \in Nat /\ a.size \in Nat /\ a.at + a.size <= AppletBase
      BY <1>3, <1>6
    <3>2. \A x \in 0 + a.at .. 0 + a.at + a.size - 1 : x < AppletBase
      BY <1>2, <3>1
    <3>3. QED
      BY <1>5, <3>2, Zenon
  <2>4. \A x \in Cells(p, 2, 0) : x < AppletBase
    <3>1. b.at \in Nat /\ b.size \in Nat /\ b.at + b.size <= AppletBase
      BY <1>3, <1>6
    <3>2. \A x \in 0 + b.at .. 0 + b.at + b.size - 1 : x < AppletBase
      BY <1>2, <3>1
    <3>3. QED
      BY <1>5, <3>2, Zenon
  <2>5. \A x \in Cells(p, 3, 0) : x < AppletBase
    <3>1. c.at \in Nat /\ c.size \in Nat /\ c.at + c.size <= AppletBase
      BY <1>3, <1>6
    <3>2. \A x \in 0 + c.at .. 0 + c.at + c.size - 1 : x < AppletBase
      BY <1>2, <3>1
    <3>3. QED
      BY <1>5, <3>2, Zenon
  <2>6. QED
    BY <2>2, <2>3, <2>4, <2>5
<1>9. \A i \in 1 .. 3 : i = 1 \/ i = 2 \/ i = 3
  OBVIOUS
<1>10. QED
  BY <1>7, <1>8, <1>9, <1>a

\* A load so far, of a memory like m.
IsLoad(load) ==
  /\ load = [memory |-> load.memory, ok |-> load.ok] /\ load.ok \in BOOLEAN
  /\ IsRam(load.memory)

LEMMA SegmentsLoad ==
  ASSUME NEW load, IsLoad(load), NEW p \in Files, NEW base \in Nat,
         NEW l, l = LoadSegments(load, p, base)
  PROVE  /\ IsLoad(l)
         /\ \A c \in Ram : c < base => l.memory[c] = load.memory[c]
         /\ l.ok => /\ load.ok /\ Loadable(p, base)
                    /\ \A i \in 1 .. 3 : Cells(p, i, base) \subseteq Ram
         /\ l.ok /\ LaidOut(p) => \A i \in 1 .. 3 : Has(l.memory, p, i, base)
<1> DEFINE one == LoadSegment(load, p, 1, base)
           two == LoadSegment(one, p, 2, base)
<1>1. l = LoadSegment(two, p, 3, base)
  BY DEF LoadSegments
<1>2. /\ IsLoad(one)
      /\ \A c \in Ram \ Cells(p, 1, base) : one.memory[c] = load.memory[c]
      /\ one.ok => load.ok /\ Has(one.memory, p, 1, base) /\ Cells(p, 1, base) \subseteq Ram
              /\ Fits(File[p].segments[1], base) /\ Unpacks(File[p].segments[1])
  BY SegmentLoads DEF IsLoad
<1> HIDE DEF one
<1>3. /\ IsLoad(two)
      /\ \A c \in Ram \ Cells(p, 2, base) : two.memory[c] = one.memory[c]
      /\ two.ok => one.ok /\ Has(two.memory, p, 2, base) /\ Cells(p, 2, base) \subseteq Ram
              /\ Fits(File[p].segments[2], base) /\ Unpacks(File[p].segments[2])
  BY <1>2, SegmentLoads DEF IsLoad
<1> HIDE DEF two
<1>4. /\ IsLoad(l)
      /\ \A c \in Ram \ Cells(p, 3, base) : l.memory[c] = two.memory[c]
      /\ l.ok => two.ok /\ Has(l.memory, p, 3, base) /\ Cells(p, 3, base) \subseteq Ram
              /\ Fits(File[p].segments[3], base) /\ Unpacks(File[p].segments[3])
  BY <1>1, <1>3, SegmentLoads DEF IsLoad
<1>5. ASSUME NEW c \in Ram, c < base PROVE l.memory[c] = load.memory[c]
  <2>1. ASSUME NEW i \in 1 .. 3 PROVE c \notin Cells(p, i, base)
    <3>1. File[p].segments[i].at \in Nat /\ File[p].segments[i].size \in Nat /\ c \in Int
      BY BootAssumption DEF BootAssumption, Files, Segment, Ram
    <3>2. QED
      BY <1>5, <3>1 DEF Cells
  <2>2. QED
    BY <1>2, <1>3, <1>4, <2>1
<1>6. ASSUME l.ok
      PROVE  load.ok /\ Loadable(p, base) /\ \A i \in 1 .. 3 : Cells(p, i, base) \subseteq Ram
  <2>1. \A i \in 1 .. 3 : i = 1 \/ i = 2 \/ i = 3
    OBVIOUS
  <2>2. load.ok /\ \A i \in 1 .. 3 : Cells(p, i, base) \subseteq Ram
    BY <1>2, <1>3, <1>4, <1>6, <2>1
  <2>3. Loadable(p, base)
    BY <1>2, <1>3, <1>4, <1>6, <2>1 DEF Loadable
  <2>4. QED
    BY <2>2, <2>3
<1>7. ASSUME l.ok, LaidOut(p) PROVE \A i \in 1 .. 3 : Has(l.memory, p, i, base)
  <2>1. /\ Cells(p, 1, base) \cap Cells(p, 2, base) = {}
        /\ Cells(p, 1, base) \cap Cells(p, 3, base) = {}
        /\ Cells(p, 2, base) \cap Cells(p, 3, base) = {}
    BY <1>7, CellsApart
  <2>2. \A c \in Cells(p, 1, base) : l.memory[c] = one.memory[c]
    BY <1>3, <1>4, <1>6, <1>7, <2>1
  <2>3. \A c \in Cells(p, 2, base) : l.memory[c] = two.memory[c]
    BY <1>4, <1>6, <1>7, <2>1
  <2>4. Has(l.memory, p, 1, base)
    BY <1>2, <1>3, <1>4, <1>7, <2>2, HasKept
  <2>5. Has(l.memory, p, 2, base)
    BY <1>3, <1>4, <1>7, <2>3, HasKept
  <2>6. \A i \in 1 .. 3 : i = 1 \/ i = 2 \/ i = 3
    OBVIOUS
  <2>7. QED
    BY <1>4, <1>7, <2>4, <2>5, <2>6
<1>8. QED
  BY <1>4, <1>5, <1>6, <1>7

\* The program p is in memory m, whole and below the applets.
Whole(m, p) ==
  /\ p \in Nros \cup Mains /\ LaidOut(p)
  /\ \A i \in 1 .. 3 : Cells(p, i, 0) \subseteq Ram /\ Has(m, p, i, 0)
  /\ p \in Nros => Bss(p, 0) \subseteq Ram /\ \A c \in Bss(p, 0) : m[c] = Absent

LEMMA NsoLoads ==
  ASSUME NEW m, IsRam(m), NEW p \in Files, NEW base \in Nat,
         NEW l, l = loadNsoInto(m, p, base)
  PROVE  /\ IsLoad(l)
         /\ \A c \in Ram : c < base => l.memory[c] = m[c]
         /\ WellFormed /\ l.ok /\ base = 0 /\ p \in Mains => Whole(l.memory, p)
<1> DEFINE load == [memory |-> m, ok |-> File[p].valid]
<1>1. l = LoadSegments(load, p, base)
  BY DEF loadNsoInto
<1>2. IsLoad(load) /\ load.memory = m /\ load.ok = File[p].valid
  BY BootAssumption DEF BootAssumption, Files, IsLoad
<1> HIDE DEF load
<1>3. ASSUME WellFormed, l.ok, base = 0, p \in Mains PROVE Whole(l.memory, p)
  <2>1. File[p].valid /\ Loadable(p, 0)
    BY <1>1, <1>2, <1>3, SegmentsLoad
  <2>2. LaidOut(p) /\ p \notin Nros
    BY <1>3, <2>1 DEF WellFormed
  <2>3. \A i \in 1 .. 3 : Cells(p, i, 0) \subseteq Ram /\ Has(l.memory, p, i, 0)
    BY <1>1, <1>2, <1>3, <2>2, SegmentsLoad
  <2>4. QED
    BY <1>3, <2>2, <2>3 DEF Whole
<1>4. QED
  BY <1>1, <1>2, <1>3, SegmentsLoad

LEMMA NroLoads ==
  ASSUME NEW m, IsRam(m), NEW p \in Nros, NEW l, l = loadNroInto(m, p, 0)
  PROVE  IsLoad(l) /\ (WellFormed /\ l.ok => Whole(l.memory, p))
<1> DEFINE header == 0 .. 0 + HeaderSize - 1
           headed == [memory |-> [c \in DOMAIN m |-> IF c \in header THEN Loaded(p, 0, c - 0)
                                                    ELSE m[c]],
                      ok |-> TRUE]
           load == LoadSegments(headed, p, 0)
<1>1. p \in Files
  BY DEF Files
<1>2. CASE ~File[p].valid \/ ~(header \subseteq DOMAIN m)
  <2>1. l = [memory |-> m, ok |-> FALSE]
    BY <1>2 DEF loadNroInto
  <2>2. l.memory = m /\ l.ok = FALSE
    BY <2>1
  <2>3. QED
    BY <2>1, <2>2 DEF IsLoad
<1>3. CASE File[p].valid /\ header \subseteq DOMAIN m
  <2>1. l = IF load.ok /\ Bss(p, 0) \subseteq DOMAIN m
            THEN [load EXCEPT !.memory =
                    [c \in DOMAIN @ |-> IF c \in Bss(p, 0) THEN Absent ELSE @[c]]]
            ELSE [load EXCEPT !.ok = FALSE]
    BY <1>3 DEF loadNroInto
  <2>2. IsLoad(headed)
    BY DEF IsLoad, IsRam
  <2> HIDE DEF headed
  <2>3. /\ IsLoad(load)
        /\ load.ok => Loadable(p, 0)
        /\ load.ok /\ LaidOut(p) =>
             \A i \in 1 .. 3 : Cells(p, i, 0) \subseteq Ram /\ Has(load.memory, p, i, 0)
    BY <1>1, <2>2, SegmentsLoad
  <2> HIDE DEF load
  <2> DEFINE n == load.memory
             z == [c \in Ram |-> IF c \in Bss(p, 0) THEN Absent ELSE n[c]]
  <2>4. DOMAIN m = Ram /\ DOMAIN n = Ram
    BY <2>3 DEF IsRam, IsLoad
  <2>5. load = [memory |-> n, ok |-> load.ok]
    BY <2>3 DEF IsLoad
  <2>6. CASE load.ok /\ Bss(p, 0) \subseteq Ram
    <3>1. l = [load EXCEPT !.memory = z]
      BY <2>1, <2>4, <2>6
    <3>2. l = [memory |-> z, ok |-> load.ok]
      BY <2>5, <3>1
    <3>3. l.memory = z /\ l.ok = load.ok
      BY <3>2
    <3>4. IsRam(z) /\ IsLoad(l)
      BY <2>3, <3>2, <3>3 DEF IsRam, IsLoad
    <3>5. ASSUME WellFormed PROVE Whole(z, p)
      <4>1. LaidOut(p)
        BY <1>3, <2>3, <2>6, <3>5 DEF WellFormed
      <4>2. ASSUME NEW i \in 1 .. 3 PROVE Has(z, p, i, 0) /\ Cells(p, i, 0) \subseteq Ram
        <5>1. Cells(p, i, 0) \cap Bss(p, 0) = {} /\ Cells(p, i, 0) \subseteq Ram
              /\ Has(n, p, i, 0)
          BY <1>1, <2>3, <2>6, <4>1, CellsApart
        <5>2. \A c \in Cells(p, i, 0) : z[c] = n[c]
          BY <5>1
        <5> HIDE DEF n, z
        <5>3. QED
          BY <1>1, <5>1, <5>2, HasKept
      <4>3. QED
        BY <2>6, <4>1, <4>2 DEF Whole
    <3>6. QED
      BY <3>3, <3>4, <3>5
  <2>7. CASE ~(load.ok /\ Bss(p, 0) \subseteq Ram)
    <3>1. l = [load EXCEPT !.ok = FALSE]
      BY <2>1, <2>4, <2>7
    <3>2. l = [memory |-> n, ok |-> FALSE]
      BY <2>5, <3>1
    <3>3. l.memory = n /\ l.ok = FALSE
      BY <3>2
    <3>4. QED
      BY <2>3, <3>2, <3>3 DEF IsLoad
  <2>8. QED
    BY <2>6, <2>7
<1>4. QED
  BY <1>2, <1>3

(* The tries of bootNsp.  A recursive function on 0 .. Len(mains) exists    *)
(* and has its values one after the other: there is no first place where    *)
(* it would not.                                                            *)

LEMMA SmallestMain ==
  ASSUME NEW S \in SUBSET Nat, S # {}
  PROVE  \E x \in S : \A y \in S : x <= y
<1>1. IsWellFoundedOn(OpToRel(<, Nat), Nat)
  BY NatLessThanWellFounded
<1>2. \E x \in S : \A y \in S : ~(<<y, x>> \in OpToRel(<, Nat))
  BY <1>1, WFMin
<1>3. PICK x \in S : \A y \in S : ~(<<y, x>> \in OpToRel(<, Nat))
  BY <1>2
<1>4. \A y \in S : ~(y < x)
  BY <1>3 DEF OpToRel
<1>5. QED
  BY <1>4

NoMain(m) == [memory |-> m, ok |-> FALSE, main |-> Absent]

AreTries(f, m, mains, k) ==
  f = [n \in 0 .. k |-> IF n = 0 THEN NoMain(m) ELSE TryMain(f[n - 1], mains[n])]

LEMMA TriesExist ==
  ASSUME NEW m, NEW mains, NEW l \in Nat
  PROVE  \E f : AreTries(f, m, mains, l)
<1> DEFINE Bad == {k \in Nat : ~\E f : AreTries(f, m, mains, k)}
<1> SUFFICES ASSUME Bad # {} PROVE FALSE
  OBVIOUS
<1>1. PICK k \in Bad : \A j \in Bad : k <= j
  BY SmallestMain
<1>2. CASE k = 0
  <2> DEFINE f == [n \in 0 .. 0 |-> NoMain(m)]
  <2>1. \A n \in 0 .. 0 : n = 0
    OBVIOUS
  <2>2. f = [n \in 0 .. 0 |-> IF n = 0 THEN NoMain(m) ELSE TryMain(f[n - 1], mains[n])]
    BY <2>1
  <2>3. AreTries(f, m, mains, 0)
    BY <2>2, Zenon DEF AreTries
  <2>4. QED
    BY <1>1, <1>2, <2>3
<1>3. CASE k # 0
  <2>1. k - 1 \in Nat /\ ~(k <= k - 1) /\ k \in Nat
    BY <1>1, <1>3
  <2>2. PICK g : AreTries(g, m, mains, k - 1)
    BY <1>1, <2>1
  <2> DEFINE f == [n \in 0 .. k |-> IF n = k THEN TryMain(g[k - 1], mains[k]) ELSE g[n]]
  <2>3. \A n \in 0 .. k - 1 : g[n] = IF n = 0 THEN NoMain(m) ELSE TryMain(g[n - 1], mains[n])
    BY <2>2 DEF AreTries
  <2>4. \A n \in 0 .. k : n # 0 => n - 1 \in 0 .. k /\ n - 1 # k /\ f[n - 1] = g[n - 1]
    BY <2>1
  <2>5. \A n \in 0 .. k : f[n] = IF n = 0 THEN NoMain(m) ELSE TryMain(f[n - 1], mains[n])
    <3> SUFFICES ASSUME NEW n \in 0 .. k
                 PROVE  f[n] = IF n = 0 THEN NoMain(m) ELSE TryMain(f[n - 1], mains[n])
      OBVIOUS
    <3>1. CASE n = k
      BY <1>3, <2>4, <3>1
    <3>2. CASE n # k
      <4>1. n \in 0 .. k - 1 /\ f[n] = g[n]
        BY <2>1, <3>2
      <4>2. QED
        BY <2>3, <2>4, <4>1
    <3>3. QED
      BY <3>1, <3>2
  <2>6. f = [n \in 0 .. k |-> f[n]]
    OBVIOUS
  <2> HIDE DEF f
  <2>7. f = [n \in 0 .. k |-> IF n = 0 THEN NoMain(m) ELSE TryMain(f[n - 1], mains[n])]
    BY <2>5, <2>6
  <2>8. AreTries(f, m, mains, k)
    BY <2>7, Zenon DEF AreTries
  <2>9. QED
    BY <1>1, <2>8
<1>4. QED
  BY <1>2, <1>3

IsTry(t) ==
  /\ IsRam(t.memory) /\ t.ok \in BOOLEAN
  /\ t.ok => Whole(t.memory, t.main)

LEMMA TryKeeps ==
  ASSUME WellFormed, NEW t, IsTry(t), NEW p \in Mains
  PROVE  IsTry(TryMain(t, p))
<1>1. CASE t.ok
  BY <1>1 DEF TryMain
<1>2. CASE ~t.ok
  <2> DEFINE l == loadNsoInto(t.memory, p, 0)
  <2>1. p \in Files /\ IsRam(t.memory) /\ 0 \in Nat
    BY DEF Files, IsTry
  <2>2. IsLoad(l) /\ (l.ok => Whole(l.memory, p))
    BY <2>1, NsoLoads
  <2> HIDE DEF l
  <2>3. TryMain(t, p) = [memory |-> l.memory, ok |-> l.ok, main |-> p]
    BY <1>2 DEF TryMain, l
  <2>4. QED
    BY <2>2, <2>3 DEF IsTry, IsLoad
<1>3. QED
  BY <1>1, <1>2

LEMMA TriesKeep ==
  ASSUME WellFormed, NEW m, IsRam(m), NEW mains \in Seq(Mains)
  PROVE  IsTry(TryMains(m, mains))
<1> DEFINE l == Len(mains)
           tried == CHOOSE f : AreTries(f, m, mains, l)
<1>1. l \in Nat /\ \A n \in 1 .. l : mains[n] \in Mains
  BY LenProperties, ElementOfSeq
<1>2. AreTries(tried, m, mains, l)
  BY <1>1, TriesExist, Zenon
<1>3. TryMains(m, mains) = tried[l]
  BY Zenon DEF TryMains, AreTries, NoMain
<1> HIDE DEF tried, l
<1>4. \A n \in 0 .. l : tried[n] = IF n = 0 THEN NoMain(m) ELSE TryMain(tried[n - 1], mains[n])
  BY <1>2 DEF AreTries
<1> DEFINE Bad == {n \in 0 .. l : ~IsTry(tried[n])}
<1>5. Bad = {}
  <2> SUFFICES ASSUME Bad # {} PROVE FALSE
    OBVIOUS
  <2>1. Bad \in SUBSET Nat
    BY <1>1
  <2>2. PICK n \in Bad : \A j \in Bad : n <= j
    BY <2>1, SmallestMain
  <2>3. CASE n = 0
    <3>1. tried[0] = NoMain(m)
      BY <1>4, <2>2, <2>3
    <3>2. IsTry(NoMain(m))
      BY DEF IsTry, NoMain
    <3>3. QED
      BY <2>2, <2>3, <3>1, <3>2
  <2>4. CASE n # 0
    <3>1. n - 1 \in 0 .. l /\ ~(n <= n - 1) /\ n \in 1 .. l
      BY <1>1, <2>2, <2>4
    <3>2. IsTry(tried[n - 1])
      BY <2>2, <3>1
    <3>3. tried[n] = TryMain(tried[n - 1], mains[n])
      BY <1>4, <2>4, <3>1
    <3>4. QED
      BY <1>1, <2>2, <3>1, <3>2, <3>3, TryKeeps
  <2>5. QED
    BY <2>3, <2>4
<1>6. QED
  BY <1>1, <1>3, <1>5

-----------------------------------------------------------------------------
(* What is booted stays whole.                                              *)

MachineInv(m, p) == IsRam(m) /\ (p # Absent => Whole(m, p))

BootInv ==
  /\ AppletsInv
  /\ MachineInv(memory, pc)
  /\ saved # Absent => MachineInv(machine.memory, machine.pc)

LEMMA BlankHolds == MachineInv(Blank, Absent)
  BY DEF MachineInv, IsRam, Blank, Ram

(* An applet is loaded above what runs.                                     *)
LEMMA AppletAbove ==
  ASSUME NEW m, NEW q, MachineInv(m, q), NEW p \in Programs,
         NEW l, l = loadNsoInto(m, p, AppletBase)
  PROVE  MachineInv(l.memory, q)
<1>1. p \in Files /\ AppletBase \in Nat /\ IsRam(m)
  BY BootAssumption DEF Files, BootAssumption, MachineInv
<1>2. IsLoad(l) /\ \A c \in Ram : c < AppletBase => l.memory[c] = m[c]
  BY <1>1, NsoLoads
<1>3. ASSUME q # Absent PROVE Whole(l.memory, q)
  <2>1. Whole(m, q) /\ q \in Files /\ LaidOut(q) /\ 0 \in Nat
    BY <1>3 DEF MachineInv, Whole, Files
  <2>2. /\ \A i \in 1 .. 3 : \A c \in Cells(q, i, 0) : c < AppletBase
        /\ \A c \in Bss(q, 0) : c < AppletBase
    BY <2>1, CellsApart
  <2>3. ASSUME NEW i \in 1 .. 3 PROVE Cells(q, i, 0) \subseteq Ram /\ Has(l.memory, q, i, 0)
    <3>1. Cells(q, i, 0) \subseteq Ram /\ Has(m, q, i, 0)
      BY <2>1 DEF Whole
    <3>2. \A c \in Cells(q, i, 0) : l.memory[c] = m[c]
      BY <1>2, <2>2, <3>1
    <3>3. QED
      BY <2>1, <3>1, <3>2, HasKept
  <2>4. ASSUME q \in Nros PROVE Bss(q, 0) \subseteq Ram /\ \A c \in Bss(q, 0) : l.memory[c] = Absent
    BY <1>2, <2>1, <2>2, <2>4 DEF Whole
  <2>5. QED
    BY <2>1, <2>3, <2>4 DEF Whole
<1>4. QED
  BY <1>2, <1>3 DEF MachineInv, IsLoad

LEMMA BootNext_Inv ==
  ASSUME WellFormed, BootInv, [BootNext]_<<appletVars, bootVars>>
  PROVE  BootInv'
<1>a. AppletsInv'
  BY BootActsOnApplets, AppletsNext_Inv DEF BootInv
<1>b. IsRam(memory) /\ MachineInv(memory, pc) /\ AppletsInv
  BY DEF BootInv, MachineInv
<1>c. SUFFICES /\ MachineInv(memory', pc')
               /\ saved' # Absent => MachineInv(machine'.memory, machine'.pc)
  BY <1>a, Zenon DEF BootInv
<1>d. ASSUME UNCHANGED <<saved, machine>>
      PROVE  saved' # Absent => MachineInv(machine'.memory, machine'.pc)
  BY <1>d DEF BootInv
<1>1. ASSUME NEW p \in Nros, bootNro(p)
      PROVE  MachineInv(memory', pc') /\ UNCHANGED <<saved, machine>>
  <2> DEFINE l == loadNroInto(memory, p, 0)
  <2>1. IsLoad(l) /\ (l.ok => Whole(l.memory, p))
    BY <1>b, NroLoads
  <2> HIDE DEF l
  <2>2. /\ memory' = l.memory /\ pc' = (IF l.ok THEN p ELSE pc) /\ pc = Absent
        /\ UNCHANGED <<saved, machine>>
    BY <1>1 DEF bootNro, Boots, appletVars, l
  <2>3. QED
    BY <2>1, <2>2 DEF MachineInv, IsLoad
<1>2. ASSUME NEW mains \in Containers, bootNsp(mains)
      PROVE  MachineInv(memory', pc') /\ UNCHANGED <<saved, machine>>
  <2> DEFINE t == TryMains(memory, mains)
  <2>1. mains \in Seq(Mains)
    BY BootAssumption DEF BootAssumption
  <2>2. IsTry(t)
    BY <1>b, <2>1, TriesKeep
  <2> HIDE DEF t
  <2>3. /\ memory' = t.memory /\ pc' = (IF t.ok THEN t.main ELSE pc) /\ pc = Absent
        /\ UNCHANGED <<saved, machine>>
    BY <1>2 DEF bootNsp, Boots, appletVars, t
  <2>4. QED
    BY <2>2, <2>3 DEF MachineInv, IsTry
<1>3. ASSUME NEW h \in held, BootApplet(h.id)
      PROVE  MachineInv(memory', pc') /\ UNCHANGED <<saved, machine>>
  <2> DEFINE p == applets[h.id].program
             l == loadNsoInto(memory, p, AppletBase)
  <2>1. h.id \in AppletId /\ applets[h.id] \in Applet \cup {Absent}
    BY <1>b DEF AppletsInv, EntriesHold
  <2>2. applets[h.id] # Absent
    BY <1>3 DEF BootApplet, Exists
  <2>3. p \in Programs
    BY <2>1, <2>2 DEF Applet
  <2>4. MachineInv(l.memory, pc)
    BY <1>b, <2>3, AppletAbove
  <2>5. memory' = l.memory /\ pc' = pc /\ machine' = machine /\ saved' = saved
    BY <1>3 DEF BootApplet, StartApplet
  <2>6. QED
    BY <2>4, <2>5
<1>4. CASE SnapshotAll
  <2>1. machine' = [memory |-> memory, pc |-> pc] /\ memory' = memory /\ pc' = pc
    BY <1>4 DEF SnapshotAll
  <2>2. machine'.memory = memory /\ machine'.pc = pc
    BY <2>1
  <2>3. QED
    BY <1>b, <2>1, <2>2
<1>5. CASE RestoreAll
  BY <1>5, <1>d DEF RestoreAll, restore, BootInv
<1>6. CASE RestartAll
  BY <1>6, <1>d, BlankHolds DEF RestartAll, Restart
<1>7. ASSUME GuestRequest \/ UNCHANGED <<appletVars, bootVars>>
      PROVE  MachineInv(memory', pc') /\ UNCHANGED <<saved, machine>>
  <2>1. UNCHANGED <<memory, pc, machine, saved>>
    BY <1>7, Zenon DEF GuestRequest, AppletRequest, CreateApplet, PushApplet, NotifyRunning, PopApplet,
       bootVars, appletVars
  <2>2. QED
    BY <1>b, <2>1
<1>8. QED
  BY <1>1, <1>2, <1>3, <1>4, <1>5, <1>6, <1>7, <1>d DEF BootNext, GuestStarts

\* A booted program is in memory whole, its bss clear, through failed mains
\* before it and applets after it, through snapshots and restarts, for any
\* files laid out as a linker does it and any size of RAM.
THEOREM BootedStaysWhole == ASSUME WellFormed PROVE BootSpec => []BootedIsWhole
<1>1. BootInit => BootInv
  BY AppletsInit_Inv, BlankHolds DEF BootInit, BootInv, AppletsInit
<1>2. BootInv => BootedIsWhole
  <2> SUFFICES ASSUME BootInv, pc # Absent
               PROVE  /\ \A i \in 1 .. 3 :
                           LET s == File[pc].segments[i]
                           IN \A k \in 0 .. s.size - 1 : memory[s.at + k] = Loaded(pc, i, k)
                      /\ pc \in Nros => \A c \in Bss(pc, 0) : memory[c] = Absent
    BY DEF BootedIsWhole
  <2>1. Whole(memory, pc)
    BY DEF BootInv, MachineInv
  <2>2. ASSUME NEW i \in 1 .. 3, NEW k \in 0 .. File[pc].segments[i].size - 1
        PROVE  memory[File[pc].segments[i].at + k] = Loaded(pc, i, k)
    <3>1. pc \in Files
      BY <2>1 DEF Whole, Files
    <3>2. File[pc].segments[i].at \in Nat
      BY <3>1, BootAssumption DEF BootAssumption, Files, Segment
    <3>3. memory[0 + File[pc].segments[i].at + k] = Loaded(pc, i, k)
      BY <2>1 DEF Whole, Has
    <3>4. QED
      BY <3>2, <3>3
  <2>3. QED
    BY <2>1, <2>2 DEF Whole
<1>3. QED
  BY <1>1, <1>2, BootNext_Inv, PTL DEF BootSpec

-----------------------------------------------------------------------------
(* IPC sessions.                                                           *)

USE IpcAssumption DEF IpcAssumption

-----------------------------------------------------------------------------
(* What the queue operations do to a queue.                                *)

Bounded(q) == Len(q) <= MaxQueue

LEMMA PoppedQueue ==
  ASSUME NEW T, NEW q \in Seq(T)
  PROVE  /\ Popped(q) \in Seq(T)
         /\ Len(Popped(q)) <= Len(q)
         /\ q # <<>> => Len(Popped(q)) = Len(q) - 1 /\ Head(q) \in T
<1>1. CASE q = <<>>
  BY <1>1 DEF Popped
<1>2. CASE q # <<>>
  BY <1>2, HeadTailProperties DEF Popped
<1>3. QED
  BY <1>1, <1>2

LEMMA AppendedQueue ==
  ASSUME NEW T, NEW q \in Seq(T), NEW x \in T, ~Full(q)
  PROVE  /\ Append(q, x) \in Seq(T)
         /\ Len(Append(q, x)) = Len(q) + 1
         /\ Bounded(Append(q, x))
<1>1. Append(q, x) \in Seq(T) /\ Len(Append(q, x)) = Len(q) + 1 /\ Len(q) \in Nat
  BY AppendProperties
<1>2. QED
  BY <1>1 DEF Full, Bounded

LEMMA RepliedQueues ==
  ASSUME to_client \in [SessionId -> Seq(Reply)],
         \A s \in SessionId : Bounded(to_client[s]),
         NEW s \in SessionId, NEW rep \in Reply
  PROVE  /\ Replied(s, rep) \in [SessionId -> Seq(Reply)]
         /\ \A r \in SessionId : Bounded(Replied(s, rep)[r])
         /\ ~Full(to_client[s])
              => Len(Replied(s, rep)[s]) = Len(to_client[s]) + 1
<1>1. CASE Full(to_client[s])
  BY <1>1 DEF Replied
<1>2. CASE ~Full(to_client[s])
  <2>1. /\ Append(to_client[s], rep) \in Seq(Reply)
        /\ Len(Append(to_client[s], rep)) = Len(to_client[s]) + 1
        /\ Bounded(Append(to_client[s], rep))
    BY <1>2, AppendedQueue
  <2>2. Replied(s, rep) = [to_client EXCEPT ![s] = Append(to_client[s], rep)]
    BY <1>2 DEF Replied
  <2>3. QED
    BY <2>1, <2>2
<1>3. QED
  BY <1>1, <1>2

-----------------------------------------------------------------------------
(* Types and bounds.                                                       *)

PortsOK ==
  /\ ports \subseteq Name /\ client_of \subseteq ports
  /\ current \in [Name -> 0 .. MaxSessions]
  /\ next_session \in 1 .. MaxSession + 1
  /\ service \in Seq(Name) /\ Len(service) = next_session - 1

QueuesOK ==
  /\ next_req \in 1 .. MaxReq + 1
  /\ to_server \in [SessionId -> Seq(Request)]
  /\ to_client \in [SessionId -> Seq(Reply)]
  /\ \A s \in SessionId : Bounded(to_server[s]) /\ Bounded(to_client[s])

HistoryOK ==
  received \in [SessionId -> Seq(0 .. MaxReq)] /\ lost \subseteq Req

AllOK == PortsOK /\ QueuesOK /\ HistoryOK

LEMMA AllIsTypeOK == AllOK <=> TypeOK
  BY DEF AllOK, PortsOK, QueuesOK, HistoryOK, TypeOK, Bounded

LEMMA InitOK == Init => AllOK
<1>1. \A T : <<>> \in Seq(T)
  BY EmptySeq
<1>2. Len(<<>>) = 0
  OBVIOUS
<1>3. QED
  BY <1>1, <1>2 DEF Init, bootServices, AllOK, PortsOK, QueuesOK, HistoryOK, Bounded

LEMMA OpenSessions ==
  ASSUME PortsOK, NEW s \in Open
  PROVE  s \in SessionId /\ service[s] \in Name
  BY DEF PortsOK, Open, SessionId

LEMMA NextPorts == PortsOK /\ [Next]_vars => PortsOK'
<1> SUFFICES ASSUME PortsOK, [Next]_vars PROVE PortsOK'
  OBVIOUS
<1>1. ASSUME NEW n \in GuestNames, svcCreatePort(n) PROVE PortsOK'
  BY <1>1 DEF svcCreatePort, PortsOK
<1>2. ASSUME NEW n \in GuestNames, svcConnectToPort(n) PROVE PortsOK'
  BY <1>2 DEF svcConnectToPort, PortsOK
<1>3. ASSUME NEW n \in Name, connectService(n) PROVE PortsOK'
  <2>1. /\ current' = [current EXCEPT ![n] = current[n] + 1]
        /\ service' = Append(service, n) /\ next_session' = next_session + 1
        /\ UNCHANGED <<ports, client_of>>
        /\ current[n] < MaxSessions /\ next_session <= MaxSession
    BY <1>3 DEF connectService, HasRoom
  <2>2. current[n] + 1 \in 0 .. MaxSessions
    BY <2>1 DEF PortsOK
  <2>3. current' \in [Name -> 0 .. MaxSessions]
    BY <2>1, <2>2 DEF PortsOK
  <2>4. service' \in Seq(Name) /\ Len(service') = Len(service) + 1
    BY <2>1, AppendProperties DEF PortsOK
  <2>5. QED
    BY <2>1, <2>3, <2>4 DEF PortsOK
<1>4. ASSUME UNCHANGED portVars PROVE PortsOK'
  BY <1>4 DEF portVars, PortsOK
<1>5. \/ UNCHANGED portVars
      \/ \E n \in GuestNames : svcCreatePort(n) \/ svcConnectToPort(n)
      \/ \E n \in Name : connectService(n)
  BY Zenon DEF Next, Guest, HostClient, pumpServices, sendRequest, recvReply,
     svcSendSyncRequest, svcReplyAndReceive, vars
<1>6. QED
  BY <1>1, <1>2, <1>3, <1>4, <1>5

LEMMA NextQueues == PortsOK /\ QueuesOK /\ [Next]_vars => QueuesOK'
<1> SUFFICES ASSUME PortsOK, QueuesOK, [Next]_vars PROVE QueuesOK'
  OBVIOUS
<1>a. /\ next_req \in 1 .. MaxReq + 1
      /\ to_server \in [SessionId -> Seq(Request)]
      /\ to_client \in [SessionId -> Seq(Reply)]
      /\ \A s \in SessionId : Bounded(to_server[s])
      /\ \A s \in SessionId : Bounded(to_client[s])
  BY DEF QueuesOK
<1>b. ASSUME NEW s \in SessionId, NEW m \in Request, ~Full(to_server[s]),
             to_server' = [to_server EXCEPT ![s] = Append(@, m)]
      PROVE  /\ to_server' \in [SessionId -> Seq(Request)]
             /\ \A r \in SessionId : Bounded(to_server'[r])
  <2>1. /\ Append(to_server[s], m) \in Seq(Request)
        /\ Bounded(Append(to_server[s], m))
    BY <1>a, <1>b, AppendedQueue
  <2>2. QED
    BY <1>a, <1>b, <2>1
<1>1. ASSUME NEW s \in Open, sendRequest(s) PROVE QueuesOK'
  <2>1. s \in SessionId /\ service[s] \in Name
    BY OpenSessions
  <2>2. PICK known \in BOOLEAN :
           to_server' = [to_server EXCEPT ![s] =
             Append(@, [req |-> next_req, known |-> known, via |-> service[s]])]
    BY <1>1 DEF sendRequest
  <2>3. [req |-> next_req, known |-> known, via |-> service[s]] \in Request
    BY <1>1, <1>a, <2>1 DEF sendRequest, MoreRequests, Request, Req
  <2>4. /\ to_server' \in [SessionId -> Seq(Request)]
        /\ \A r \in SessionId : Bounded(to_server'[r])
    BY <1>1, <1>b, <2>1, <2>2, <2>3 DEF sendRequest
  <2>5. next_req' \in 1 .. MaxReq + 1 /\ to_client' = to_client
    BY <1>1, <1>a DEF sendRequest, MoreRequests
  <2>6. QED
    BY <1>a, <2>4, <2>5 DEF QueuesOK
<1>2. ASSUME NEW n \in GuestNames, svcSendSyncRequest(n) PROVE QueuesOK'
  <2>1. next_req' \in 1 .. MaxReq + 1 /\ next_req \in Req
    BY <1>2, <1>a DEF svcSendSyncRequest, MoreRequests, Req
  <2>2. CASE UNCHANGED <<to_server, to_client>>
    BY <1>a, <2>1, <2>2 DEF QueuesOK
  <2>3. ASSUME NEW s \in Open, ~Full(to_server[s]), NEW known \in BOOLEAN,
               to_server' = [to_server EXCEPT ![s] =
                 Append(@, [req |-> next_req, known |-> known, via |-> n])],
               to_client' = Replied(s, [req |-> next_req, by |-> "echo"])
        PROVE  QueuesOK'
    <3>1. s \in SessionId
      BY OpenSessions
    <3>2. [req |-> next_req, known |-> known, via |-> n] \in Request
      BY <2>1 DEF Request
    <3>3. [req |-> next_req, by |-> "echo"] \in Reply
      BY <2>1 DEF Reply, Req
    <3>4. /\ to_server' \in [SessionId -> Seq(Request)]
          /\ \A r \in SessionId : Bounded(to_server'[r])
      BY <1>b, <2>3, <3>1, <3>2
    <3>5. /\ to_client' \in [SessionId -> Seq(Reply)]
          /\ \A r \in SessionId : Bounded(to_client'[r])
      BY <1>a, <2>3, <3>1, <3>3, RepliedQueues
    <3>6. QED
      BY <2>1, <3>4, <3>5 DEF QueuesOK
  <2>4. QED
    BY <1>2, <2>2, <2>3 DEF svcSendSyncRequest
<1>3. ASSUME svcReplyAndReceive PROVE QueuesOK'
  <2>1. PICK s \in Open : to_client' = Replied(s, [req |-> 0, by |-> "guest"])
    BY <1>3 DEF svcReplyAndReceive
  <2>2. s \in SessionId
    BY OpenSessions
  <2>3. [req |-> 0, by |-> "guest"] \in Reply
    BY DEF Reply
  <2>4. /\ to_client' \in [SessionId -> Seq(Reply)]
        /\ \A r \in SessionId : Bounded(to_client'[r])
    BY <1>a, <2>1, <2>2, <2>3, RepliedQueues
  <2>5. QED
    BY <1>3, <1>a, <2>4 DEF svcReplyAndReceive, QueuesOK
<1>4. ASSUME pumpServices PROVE QueuesOK'
  <2>1. /\ to_server' = [s \in SessionId |-> IF s \in Served
                           THEN Popped(to_server[s]) ELSE to_server[s]]
        /\ to_client' = [s \in SessionId |->
             IF s \in Served /\ understood(s)
             THEN Replied(s, [req |-> Head(to_server[s]).req, by |-> "service"])[s]
             ELSE to_client[s]]
        /\ next_req' = next_req
    BY <1>4 DEF pumpServices
  <2>2. ASSUME NEW s \in SessionId
        PROVE  to_server'[s] \in Seq(Request) /\ Bounded(to_server'[s])
    <3>1. /\ Popped(to_server[s]) \in Seq(Request)
          /\ Len(Popped(to_server[s])) <= Len(to_server[s])
      BY <1>a, PoppedQueue
    <3>2. Len(to_server[s]) \in Nat /\ Len(Popped(to_server[s])) \in Nat
      BY <1>a, <3>1
    <3>3. QED
      BY <1>a, <2>1, <3>1, <3>2 DEF Bounded
  <2>3. ASSUME NEW s \in SessionId
        PROVE  to_client'[s] \in Seq(Reply) /\ Bounded(to_client'[s])
    <3>1. CASE s \in Served
      <4>1. Head(to_server[s]) \in Request
        BY <1>a, <3>1, PoppedQueue DEF Served
      <4>2. [req |-> Head(to_server[s]).req, by |-> "service"] \in Reply
        BY <4>1 DEF Request, Reply, Req
      <4>3. QED
        BY <1>a, <2>1, <4>2, RepliedQueues
    <3>2. CASE s \notin Served
      BY <1>a, <2>1, <3>2
    <3>3. QED
      BY <3>1, <3>2
  <2>4. QED
    BY <1>a, <2>1, <2>2, <2>3 DEF QueuesOK
<1>5. ASSUME NEW s \in Open, recvReply(s) PROVE QueuesOK'
  <2>1. s \in SessionId
    BY OpenSessions
  <2>2. /\ Popped(to_client[s]) \in Seq(Reply)
        /\ Len(Popped(to_client[s])) <= Len(to_client[s])
        /\ Len(to_client[s]) \in Nat /\ Len(Popped(to_client[s])) \in Nat
    <3>1. to_client[s] \in Seq(Reply)
      BY <1>a, <2>1
    <3>2. /\ Popped(to_client[s]) \in Seq(Reply)
          /\ Len(Popped(to_client[s])) <= Len(to_client[s])
      BY <3>1, PoppedQueue
    <3>3. QED
      BY <3>1, <3>2, LenProperties
  <2>3. to_client' = [to_client EXCEPT ![s] = Popped(to_client[s])]
    BY <1>5 DEF recvReply
  <2>4. /\ to_client' \in [SessionId -> Seq(Reply)]
        /\ \A r \in SessionId : Bounded(to_client'[r])
    BY <1>a, <2>1, <2>2, <2>3 DEF Bounded
  <2>5. UNCHANGED <<next_req, to_server>>
    BY <1>5 DEF recvReply
  <2>6. QED
    BY <1>a, <2>4, <2>5 DEF QueuesOK
<1>6. ASSUME UNCHANGED <<next_req, to_server, to_client>> PROVE QueuesOK'
  BY <1>6 DEF QueuesOK
<1>7. \/ UNCHANGED <<next_req, to_server, to_client>>
      \/ \E n \in GuestNames : svcSendSyncRequest(n)
      \/ svcReplyAndReceive \/ pumpServices
      \/ \E s \in Open : sendRequest(s) \/ recvReply(s)
  BY Zenon DEF Next, Guest, HostClient, svcCreatePort, svcConnectToPort,
     connectService, vars
<1>8. QED
  BY <1>1, <1>2, <1>3, <1>4, <1>5, <1>6, <1>7

LEMMA NextHistory == PortsOK /\ QueuesOK /\ HistoryOK /\ [Next]_vars => HistoryOK'
<1> SUFFICES ASSUME PortsOK, QueuesOK, HistoryOK, [Next]_vars PROVE HistoryOK'
  OBVIOUS
<1>1. ASSUME pumpServices PROVE HistoryOK'
  <2>1. \A s \in Served : s \in SessionId /\ to_server[s] # <<>>
    BY OpenSessions DEF Served
  <2>2. \A s \in Served : Head(to_server[s]) \in Request
    BY <2>1, PoppedQueue DEF QueuesOK
  <2>3. \A s \in Served : Head(to_server[s]).req \in Req
    BY <2>2 DEF Request
  <2>4. QED
    BY <1>1, <2>3 DEF pumpServices, HistoryOK
<1>2. ASSUME NEW s \in Open, recvReply(s) PROVE HistoryOK'
  <2>1. s \in SessionId /\ to_client[s] # <<>> /\ lost' = lost
    BY <1>2, OpenSessions DEF recvReply
  <2>2. Head(to_client[s]) \in Reply
    BY <2>1, PoppedQueue DEF QueuesOK
  <2>3. Head(to_client[s]).req \in 0 .. MaxReq
    BY <2>2 DEF Reply
  <2>4. received[s] \in Seq(0 .. MaxReq)
    BY <2>1 DEF HistoryOK
  <2>5. Append(received[s], Head(to_client[s]).req) \in Seq(0 .. MaxReq)
    BY <2>3, <2>4, AppendProperties
  <2>6. \/ received' = received
        \/ received' = [received EXCEPT
                         ![s] = Append(received[s], Head(to_client[s]).req)]
    BY <1>2 DEF recvReply
  <2>7. QED
    BY <2>1, <2>5, <2>6 DEF HistoryOK
<1>3. ASSUME UNCHANGED <<received, lost>> PROVE HistoryOK'
  BY <1>3 DEF HistoryOK
<1>4. \/ UNCHANGED <<received, lost>>
      \/ pumpServices
      \/ \E s \in Open : recvReply(s)
  BY Zenon DEF Next, Guest, HostClient, svcCreatePort, svcConnectToPort,
     connectService, svcSendSyncRequest, svcReplyAndReceive, sendRequest, vars
<1>5. QED
  BY <1>1, <1>2, <1>3, <1>4

LEMMA AllInvariant == Spec => []AllOK
<1>1. AllOK /\ [Next]_vars => AllOK'
  BY NextPorts, NextQueues, NextHistory DEF AllOK
<1>2. QED
  BY InitOK, <1>1, PTL DEF Spec

(* No queue of any session ever holds more than kMaxQueue messages, and no *)
(* port more sessions than its limit.                                      *)
THEOREM QueuesBounded == Spec => []TypeOK
  BY AllInvariant, AllIsTypeOK, PTL

-----------------------------------------------------------------------------
(* Nothing is lost.  A request and its answer take one place in the two    *)
(* queues of their session together, so a client that never fills more     *)
(* than kMaxQueue places always leaves room for the answers it is owed.    *)

NoGuest == GuestNames = {}
KeepsWindow == Window <= MaxQueue

WithinWindow ==
  \A s \in SessionId : Len(to_server[s]) + Len(to_client[s]) <= Window

\* Places taken in the two queues of a session.
LEMMA RoomLeft ==
  ASSUME NEW a \in Nat, NEW b \in Nat, NEW w \in Nat, NEW m \in Nat
  PROVE  /\ a + b < w => (a + 1) + b <= w
         /\ a > 0 /\ a + b <= w /\ w <= m => ~(b >= m)
         /\ a + b <= w => (a - 1) + b <= w /\ (a - 1) + (b + 1) <= w
  OBVIOUS

LEMMA NextWindow ==
  ASSUME NoGuest, KeepsWindow, AllOK, WithinWindow, lost = {}, [Next]_vars
  PROVE  WithinWindow' /\ lost' = {}
<1>a. /\ to_server \in [SessionId -> Seq(Request)]
      /\ to_client \in [SessionId -> Seq(Reply)]
      /\ \A s \in SessionId : Bounded(to_client[s])
      /\ PortsOK
  BY DEF AllOK, QueuesOK
<1>b. ASSUME NEW s \in SessionId
      PROVE  Len(to_server[s]) \in Nat /\ Len(to_client[s]) \in Nat
  <2>1. to_server[s] \in Seq(Request) /\ to_client[s] \in Seq(Reply)
    BY <1>a
  <2>2. QED
    BY <2>1, LenProperties
<1>1. ASSUME NEW s \in Open, sendRequest(s) PROVE WithinWindow' /\ lost' = {}
  <2>1. s \in SessionId /\ service[s] \in Name
    BY <1>a, OpenSessions
  <2>2. next_req \in Req
    BY <1>1 DEF AllOK, QueuesOK, sendRequest, MoreRequests, Req
  <2>3. PICK known \in BOOLEAN :
           to_server' = [to_server EXCEPT ![s] =
             Append(@, [req |-> next_req, known |-> known, via |-> service[s]])]
    BY <1>1 DEF sendRequest
  <2> DEFINE m == [req |-> next_req, known |-> known, via |-> service[s]]
  <2>4. m \in Request /\ to_server[s] \in Seq(Request)
    BY <1>a, <2>1, <2>2 DEF Request
  <2>5. Len(Append(to_server[s], m)) = Len(to_server[s]) + 1
    BY <2>4, AppendProperties
  <2>6. /\ to_server' = [to_server EXCEPT ![s] = Append(to_server[s], m)]
        /\ UNCHANGED <<to_client, lost>>
        /\ Len(to_server[s]) + Len(to_client[s]) < Window
    BY <1>1, <2>3 DEF sendRequest
  <2> HIDE DEF m
  <2>7. ASSUME NEW r \in SessionId
        PROVE  Len(to_server'[r]) + Len(to_client'[r]) <= Window
    <3>1. CASE r = s
      <4>1. to_server'[r] = Append(to_server[s], m) /\ to_client'[r] = to_client[s]
        BY <1>a, <2>1, <2>6, <3>1
      <4>2. QED
        <5>1. (Len(to_server[s]) + 1) + Len(to_client[s]) <= Window
          BY <1>b, <2>1, <2>6, RoomLeft
        <5>2. QED
          BY <2>5, <4>1, <5>1
    <3>2. CASE r # s
      BY <1>a, <2>6, <3>2 DEF WithinWindow
    <3>3. QED
      BY <3>1, <3>2
  <2>8. QED
    BY <2>6, <2>7 DEF WithinWindow
<1>2. ASSUME pumpServices PROVE WithinWindow' /\ lost' = {}
  <2>1. /\ to_server' = [s \in SessionId |-> IF s \in Served
                           THEN Popped(to_server[s]) ELSE to_server[s]]
        /\ to_client' = [s \in SessionId |->
             IF s \in Served /\ understood(s)
             THEN Replied(s, [req |-> Head(to_server[s]).req, by |-> "service"])[s]
             ELSE to_client[s]]
        /\ lost' = lost \cup {Head(to_server[s]).req : s \in
                     {r \in Served : understood(r) /\ Full(to_client[r])}}
    BY <1>2 DEF pumpServices
  <2>2. ASSUME NEW s \in Served
        PROVE  /\ s \in SessionId /\ ~Full(to_client[s])
               /\ Len(Popped(to_server[s])) = Len(to_server[s]) - 1
               /\ Head(to_server[s]) \in Request
               /\ Len(to_server[s]) \in Nat /\ Len(to_client[s]) \in Nat
    <3>1. s \in SessionId /\ to_server[s] # <<>>
      BY <1>a, OpenSessions DEF Served
    <3>2. to_server[s] \in Seq(Request)
      BY <1>a, <3>1
    <3>3. Len(Popped(to_server[s])) = Len(to_server[s]) - 1
          /\ Head(to_server[s]) \in Request
      BY <3>1, <3>2, PoppedQueue
    <3>4. Len(to_server[s]) > 0
      BY <3>1, <3>2
    <3>5. ~Full(to_client[s])
      <4>1. Len(to_server[s]) + Len(to_client[s]) <= Window
        BY <3>1 DEF WithinWindow
      <4>2. Len(to_server[s]) \in Nat /\ Len(to_client[s]) \in Nat
        BY <1>b, <3>1
      <4>3. Window <= MaxQueue
        BY DEF KeepsWindow
      <4>4. ~(Len(to_client[s]) >= MaxQueue)
        BY <3>4, <4>1, <4>2, <4>3, RoomLeft
      <4>5. QED
        BY <4>4 DEF Full
    <3>6. QED
      BY <1>b, <3>1, <3>3, <3>5
  <2>3. lost' = {}
    BY <2>1, <2>2
  <2>4. ASSUME NEW s \in SessionId
        PROVE  Len(to_server'[s]) + Len(to_client'[s]) <= Window
    <3>1. CASE s \in Served /\ understood(s)
      <4> DEFINE rep == [req |-> Head(to_server[s]).req, by |-> "service"]
      <4>1. rep \in Reply
        BY <2>2, <3>1 DEF Request, Reply, Req
      <4>2. Len(Replied(s, rep)[s]) = Len(to_client[s]) + 1
        BY <1>a, <2>2, <3>1, <4>1, RepliedQueues
      <4>3. to_server'[s] = Popped(to_server[s]) /\ to_client'[s] = Replied(s, rep)[s]
        BY <2>1, <3>1
      <4>4. /\ Len(to_server[s]) + Len(to_client[s]) <= Window
            /\ Len(to_server[s]) \in Nat /\ Len(to_client[s]) \in Nat
            /\ Len(Popped(to_server[s])) = Len(to_server[s]) - 1
        BY <1>b, <2>2, <3>1 DEF WithinWindow
      <4> HIDE DEF rep
      <4>5. (Len(to_server[s]) - 1) + (Len(to_client[s]) + 1) <= Window
        BY <4>4, RoomLeft
      <4>6. QED
        BY <4>2, <4>3, <4>4, <4>5
    <3>2. CASE s \in Served /\ ~understood(s)
      <4>1. to_server'[s] = Popped(to_server[s]) /\ to_client'[s] = to_client[s]
        BY <2>1, <3>2
      <4>2. /\ Len(to_server[s]) + Len(to_client[s]) <= Window
            /\ Len(to_server[s]) \in Nat /\ Len(to_client[s]) \in Nat
            /\ Len(Popped(to_server[s])) = Len(to_server[s]) - 1
        BY <1>b, <2>2, <3>2 DEF WithinWindow
      <4>3. (Len(to_server[s]) - 1) + Len(to_client[s]) <= Window
        BY <4>2, RoomLeft
      <4>4. QED
        BY <4>1, <4>2, <4>3
    <3>3. CASE s \notin Served
      BY <2>1, <3>3 DEF WithinWindow
    <3>4. QED
      BY <3>1, <3>2, <3>3
  <2>5. QED
    BY <2>3, <2>4 DEF WithinWindow
<1>3. ASSUME NEW s \in Open, recvReply(s) PROVE WithinWindow' /\ lost' = {}
  <2>1. s \in SessionId
    BY <1>a, OpenSessions
  <2>2. to_client[s] \in Seq(Reply)
    BY <1>a, <2>1
  <2>3. Popped(to_client[s]) \in Seq(Reply)
        /\ Len(Popped(to_client[s])) <= Len(to_client[s])
    BY <2>2, PoppedQueue
  <2>4. Len(Popped(to_client[s])) \in Nat
    BY <2>3, LenProperties
  <2>5. /\ to_client' = [to_client EXCEPT ![s] = Popped(to_client[s])]
        /\ UNCHANGED <<to_server, lost>>
    BY <1>3 DEF recvReply
  <2>6. ASSUME NEW r \in SessionId
        PROVE  Len(to_server'[r]) + Len(to_client'[r]) <= Window
    <3>1. CASE r = s
      BY <1>a, <1>b, <2>1, <2>3, <2>4, <2>5, <3>1 DEF WithinWindow
    <3>2. CASE r # s
      BY <1>a, <2>5, <3>2 DEF WithinWindow
    <3>3. QED
      BY <3>1, <3>2
  <2>7. QED
    BY <2>5, <2>6 DEF WithinWindow
<1>4. ASSUME UNCHANGED <<to_server, to_client, lost>>
      PROVE  WithinWindow' /\ lost' = {}
  BY <1>4 DEF WithinWindow
<1>5. ~svcReplyAndReceive /\ ~(\E n \in GuestNames : svcSendSyncRequest(n))
  BY DEF NoGuest, svcReplyAndReceive
<1>6. \/ UNCHANGED <<to_server, to_client, lost>>
      \/ pumpServices \/ svcReplyAndReceive
      \/ \E n \in GuestNames : svcSendSyncRequest(n)
      \/ \E s \in Open : sendRequest(s) \/ recvReply(s)
  BY Zenon DEF Next, Guest, HostClient, svcCreatePort, svcConnectToPort,
     connectService, vars
<1>7. QED
  BY <1>1, <1>2, <1>3, <1>4, <1>5, <1>6

(* With clients that keep to kMaxQueue places per session and no guest     *)
(* writing into their sessions, no answer is ever dropped.                 *)
THEOREM NoAnswerDropped ==
  ASSUME NoGuest, KeepsWindow PROVE Spec => []NothingLost
<1>1. Init => WithinWindow /\ lost = {}
  <2>1. Len(<<>>) = 0
    OBVIOUS
  <2>2. QED
    BY <2>1 DEF Init, WithinWindow
<1>2. AllOK /\ WithinWindow /\ lost = {} /\ [Next]_vars => (WithinWindow /\ lost = {})'
  BY NextWindow
<1>3. QED
  BY AllInvariant, <1>1, <1>2, PTL DEF Spec, NothingLost

-----------------------------------------------------------------------------
(* A port counts its sessions.                                             *)

Sessions(n) == {s \in Open : service[s] = n}

LEMMA NextSessions == PortsOK /\ SessionsCounted /\ [Next]_vars => SessionsCounted'
<1> SUFFICES ASSUME PortsOK, SessionsCounted, [Next]_vars PROVE SessionsCounted'
  OBVIOUS
<1>1. ASSUME NEW n \in Name, connectService(n) PROVE SessionsCounted'
  <2>1. /\ current' = [current EXCEPT ![n] = current[n] + 1] /\ current \in [Name -> Nat]
        /\ service' = Append(service, n) /\ next_session' = next_session + 1
        /\ service \in Seq(Name) /\ Len(service) = next_session - 1 /\ next_session \in Nat
    BY <1>1 DEF connectService, PortsOK
  <2>2. /\ \A s \in 1 .. next_session - 1 : service'[s] = service[s]
        /\ service'[next_session] = n
    BY <2>1, AppendProperties
  <2>3. Open' = Open \cup {next_session} /\ next_session \notin Open
    BY <2>1 DEF Open
  <2>4. IsFiniteSet(Open)
    BY <2>1, FS_Interval DEF Open
  <2>5. ASSUME NEW k \in Name PROVE current'[k] = Cardinality(Sessions(k)')
    <3>1. IsFiniteSet(Sessions(k)) /\ next_session \notin Sessions(k)
      BY <2>3, <2>4, FS_Subset DEF Sessions
    <3>2. CASE k = n
      <4>1. Sessions(k)' = Sessions(k) \cup {next_session}
        BY <2>2, <2>3, <3>2 DEF Sessions, Open
      <4>2. Cardinality(Sessions(k) \cup {next_session}) = Cardinality(Sessions(k)) + 1
        BY <3>1, FS_AddElement
      <4>3. current[k] = Cardinality(Sessions(k))
        BY DEF SessionsCounted, Sessions
      <4>4. QED
        BY <2>1, <3>2, <4>1, <4>2, <4>3
    <3>3. CASE k # n
      <4>1. Sessions(k)' = Sessions(k)
        BY <2>2, <2>3, <3>3 DEF Sessions, Open
      <4>2. current[k] = Cardinality(Sessions(k))
        BY DEF SessionsCounted, Sessions
      <4>3. QED
        BY <2>1, <3>3, <4>1, <4>2
    <3>4. QED
      BY <3>2, <3>3
  <2>6. QED
    BY <2>5 DEF SessionsCounted, Sessions
<1>2. ASSUME UNCHANGED <<current, service, next_session>> PROVE SessionsCounted'
  BY <1>2 DEF SessionsCounted, Open
<1>3. \/ UNCHANGED <<current, service, next_session>>
      \/ \E n \in Name : connectService(n)
  BY Zenon DEF Next, Guest, HostClient, svcCreatePort, svcConnectToPort, pumpServices,
     sendRequest, recvReply, svcSendSyncRequest, svcReplyAndReceive, portVars, vars
<1>4. QED
  BY <1>1, <1>2, <1>3

\* A port counts exactly the sessions opened for it, whatever ports the guest
\* makes meanwhile under the same name.
THEOREM PortsCountSessions == Spec => []SessionsCounted
<1>1. Init => SessionsCounted
  <2> SUFFICES ASSUME Init, NEW n \in Name PROVE current[n] = Cardinality({s \in Open : service[s] = n})
    BY DEF SessionsCounted
  <2>1. {s \in Open : service[s] = n} = {}
    BY DEF Init, Open
  <2>2. QED
    BY <2>1, FS_EmptySet DEF Init
<1>2. AllOK => PortsOK
  BY DEF AllOK
<1>3. QED
  BY <1>1, <1>2, AllInvariant, NextSessions, PTL DEF Spec

-----------------------------------------------------------------------------
(* How the places of a session move.  A step either keeps a session, each   *)
(* place of it coming from one place before, in the same order and with the *)
(* same number, or adds a request with a new number behind all others.      *)

PlacesOf == [s \in SessionId |-> Places(s)]
Numbers == [s \in SessionId |-> [p \in Places(s) |-> NumberAt(s, p)]]

Kept(s) ==
  \E from \in [PlacesOf'[s] -> PlacesOf[s]] :
    /\ \A p \in PlacesOf'[s] : /\ Numbers'[s][p] = Numbers[s][from[p]]
                               /\ from[p][1] \in {p[1], p[1] + 1}
    /\ \A p, q \in PlacesOf'[s] : Before(p, q) => Before(from[p], from[q])
    /\ \A q \in PlacesOf[s] : q[1] # 3 => \E p \in PlacesOf'[s] : from[p] = q

Grown(s) ==
  LET new == <<3, Len(to_server[s]) + 1>>
  IN /\ PlacesOf'[s] = PlacesOf[s] \cup {new} /\ new \notin PlacesOf[s]
     /\ \A p \in PlacesOf[s] : Numbers'[s][p] = Numbers[s][p] /\ Before(p, new)
     /\ Numbers'[s][new] = next_req

\* What stands where, place by place.
AllStanding == \A s \in SessionId :
  /\ \A p \in PlacesOf[s] : \E i \in Nat : p \in {<<1, i>>, <<2, i>>, <<3, i>>}
  /\ \A i \in Nat :
       /\ <<1, i>> \in PlacesOf[s] <=> i \in 1 .. Len(received[s])
       /\ <<2, i>> \in PlacesOf[s] <=> /\ i \in 1 .. Len(to_client[s])
                                       /\ to_client[s][i].by = "service"
       /\ <<3, i>> \in PlacesOf[s] <=> i \in 1 .. Len(to_server[s])
       /\ <<1, i>> \in PlacesOf[s] => Numbers[s][<<1, i>>] = received[s][i]
       /\ <<2, i>> \in PlacesOf[s] => Numbers[s][<<2, i>>] = to_client[s][i].req
       /\ <<3, i>> \in PlacesOf[s] => Numbers[s][<<3, i>>] = to_server[s][i].req

LEMMA PlacesStand == AllOK => AllStanding
<1> SUFFICES ASSUME AllOK, NEW s \in SessionId
             PROVE  /\ \A p \in Places(s) : \E i \in Nat : p \in {<<1, i>>, <<2, i>>, <<3, i>>}
                    /\ \A i \in Nat :
                         /\ <<1, i>> \in Places(s) <=> i \in 1 .. Len(received[s])
                         /\ <<2, i>> \in Places(s) <=> /\ i \in 1 .. Len(to_client[s])
                                                       /\ to_client[s][i].by = "service"
                         /\ <<3, i>> \in Places(s) <=> i \in 1 .. Len(to_server[s])
                         /\ NumberAt(s, <<1, i>>) = received[s][i]
                         /\ NumberAt(s, <<2, i>>) = to_client[s][i].req
                         /\ NumberAt(s, <<3, i>>) = to_server[s][i].req
  BY DEF AllStanding, PlacesOf, Numbers
<1>1. /\ received[s] \in Seq(0 .. MaxReq) /\ to_client[s] \in Seq(Reply)
      /\ to_server[s] \in Seq(Request)
  BY DEF AllOK, QueuesOK, HistoryOK
<1>2. /\ DOMAIN received[s] = 1 .. Len(received[s]) /\ DOMAIN to_client[s] = 1 .. Len(to_client[s])
      /\ DOMAIN to_server[s] = 1 .. Len(to_server[s])
      /\ Len(received[s]) \in Nat /\ Len(to_client[s]) \in Nat /\ Len(to_server[s]) \in Nat
  BY <1>1, LenProperties
<1>3. ASSUME NEW p \in Places(s)
      PROVE  \E i \in Nat : p \in {<<1, i>>, <<2, i>>, <<3, i>>}
  <2>1. \/ p \in {1} \X (1 .. Len(received[s]))
        \/ p \in {2} \X (1 .. Len(to_client[s]))
        \/ p \in {3} \X (1 .. Len(to_server[s]))
    BY <1>2 DEF Places
  <2>2. QED
    BY <1>2, <2>1
<1>4. ASSUME NEW i \in Nat
      PROVE  /\ <<1, i>> \in Places(s) <=> i \in 1 .. Len(received[s])
             /\ <<2, i>> \in Places(s) <=> /\ i \in 1 .. Len(to_client[s])
                                           /\ to_client[s][i].by = "service"
             /\ <<3, i>> \in Places(s) <=> i \in 1 .. Len(to_server[s])
  BY <1>2 DEF Places
<1>5. ASSUME NEW i \in Nat
      PROVE  /\ NumberAt(s, <<1, i>>) = received[s][i]
             /\ NumberAt(s, <<2, i>>) = to_client[s][i].req
             /\ NumberAt(s, <<3, i>>) = to_server[s][i].req
  BY DEF NumberAt
<1>6. QED
  BY <1>3, <1>4, <1>5

LEMMA StepStands == AllOK /\ [Next]_vars => AllOK' /\ AllStanding /\ AllStanding'
<1>1. AllOK /\ [Next]_vars => AllOK'
  BY NextPorts, NextQueues, NextHistory DEF AllOK
<1>2. QED
  BY <1>1, PlacesStand, PTL

LEMMA Stands ==
  ASSUME AllStanding, AllStanding', NEW s \in SessionId, NEW i \in Nat
  PROVE  /\ <<1, i>> \in PlacesOf[s] <=> i \in 1 .. Len(received[s])
         /\ <<2, i>> \in PlacesOf[s] <=> /\ i \in 1 .. Len(to_client[s])
                                         /\ to_client[s][i].by = "service"
         /\ <<3, i>> \in PlacesOf[s] <=> i \in 1 .. Len(to_server[s])
         /\ <<1, i>> \in PlacesOf[s] => Numbers[s][<<1, i>>] = received[s][i]
         /\ <<2, i>> \in PlacesOf[s] => Numbers[s][<<2, i>>] = to_client[s][i].req
         /\ <<3, i>> \in PlacesOf[s] => Numbers[s][<<3, i>>] = to_server[s][i].req
         /\ <<1, i>> \in PlacesOf'[s] <=> i \in 1 .. Len(received'[s])
         /\ <<2, i>> \in PlacesOf'[s] <=> /\ i \in 1 .. Len(to_client'[s])
                                          /\ to_client'[s][i].by = "service"
         /\ <<3, i>> \in PlacesOf'[s] <=> i \in 1 .. Len(to_server'[s])
         /\ <<1, i>> \in PlacesOf'[s] => Numbers'[s][<<1, i>>] = received'[s][i]
         /\ <<2, i>> \in PlacesOf'[s] => Numbers'[s][<<2, i>>] = to_client'[s][i].req
         /\ <<3, i>> \in PlacesOf'[s] => Numbers'[s][<<3, i>>] = to_server'[s][i].req
  BY DEF AllStanding

LEMMA StandsSomewhere ==
  ASSUME AllStanding, AllStanding', NEW s \in SessionId
  PROVE  /\ \A p \in PlacesOf[s] : \E i \in Nat : p \in {<<1, i>>, <<2, i>>, <<3, i>>}
         /\ \A p \in PlacesOf'[s] : \E i \in Nat : p \in {<<1, i>>, <<2, i>>, <<3, i>>}
  BY DEF AllStanding

\* A step that leaves the answers of a session alone keeps it.
LEMMA SamePlaces ==
  ASSUME AllOK, AllStanding, AllStanding', NEW s \in SessionId,
         received'[s] = received[s], to_server'[s] = to_server[s],
         \/ to_client'[s] = to_client[s]
         \/ \E rep \in Reply : /\ rep.by # "service"
                               /\ to_client'[s] = Append(to_client[s], rep)
  PROVE  Kept(s)
<1>1. to_client[s] \in Seq(Reply)
  BY DEF AllOK, QueuesOK
<1>2. ASSUME NEW i \in Nat
      PROVE  /\ (i \in 1 .. Len(to_client'[s]) /\ to_client'[s][i].by = "service")
                  <=> (i \in 1 .. Len(to_client[s]) /\ to_client[s][i].by = "service")
             /\ i \in 1 .. Len(to_client[s]) => to_client'[s][i] = to_client[s][i]
  <2>1. CASE to_client'[s] = to_client[s]
    BY <2>1
  <2>2. CASE \E rep \in Reply : /\ rep.by # "service"
                                /\ to_client'[s] = Append(to_client[s], rep)
    BY <1>1, <2>2, AppendProperties
  <2>3. QED
    BY <2>1, <2>2
<1>3. ASSUME NEW p
      PROVE  /\ p \in PlacesOf'[s] <=> p \in PlacesOf[s]
             /\ p \in PlacesOf[s] => Numbers'[s][p] = Numbers[s][p]
  <2>1. CASE \E i \in Nat : p \in {<<1, i>>, <<2, i>>, <<3, i>>}
    <3>1. PICK i \in Nat : p \in {<<1, i>>, <<2, i>>, <<3, i>>}
      BY <2>1
    <3>2. CASE p = <<1, i>>
      <4>1. /\ p \in PlacesOf[s] <=> i \in 1 .. Len(received[s])
            /\ p \in PlacesOf'[s] <=> i \in 1 .. Len(received'[s])
            /\ p \in PlacesOf[s] => Numbers[s][p] = received[s][i]
            /\ p \in PlacesOf'[s] => Numbers'[s][p] = received'[s][i]
        BY <3>2, Stands
      <4>2. QED
        BY <4>1
    <3>3. CASE p = <<2, i>>
      <4>1. /\ p \in PlacesOf[s] <=> i \in 1 .. Len(to_client[s]) /\ to_client[s][i].by = "service"
            /\ p \in PlacesOf'[s] <=> i \in 1 .. Len(to_client'[s]) /\ to_client'[s][i].by = "service"
            /\ p \in PlacesOf[s] => Numbers[s][p] = to_client[s][i].req
            /\ p \in PlacesOf'[s] => Numbers'[s][p] = to_client'[s][i].req
        BY <3>3, Stands
      <4>2. QED
        BY <1>2, <4>1
    <3>4. CASE p = <<3, i>>
      <4>1. /\ p \in PlacesOf[s] <=> i \in 1 .. Len(to_server[s])
            /\ p \in PlacesOf'[s] <=> i \in 1 .. Len(to_server'[s])
            /\ p \in PlacesOf[s] => Numbers[s][p] = to_server[s][i].req
            /\ p \in PlacesOf'[s] => Numbers'[s][p] = to_server'[s][i].req
        BY <3>4, Stands
      <4>2. QED
        BY <4>1
    <3>5. QED
      BY <3>1, <3>2, <3>3, <3>4
  <2>2. CASE ~(\E i \in Nat : p \in {<<1, i>>, <<2, i>>, <<3, i>>})
    BY <2>2, StandsSomewhere
  <2>3. QED
    BY <2>1, <2>2
<1>4. PlacesOf'[s] = PlacesOf[s]
  BY <1>3
<1> DEFINE from == [p \in PlacesOf[s] |-> p]
<1>5. from \in [PlacesOf'[s] -> PlacesOf[s]]
  BY <1>4
<1>6. \A p \in PlacesOf'[s] : from[p] = p /\ p[1] \in {p[1], p[1] + 1}
  BY <1>4
<1> HIDE DEF from
<1>7. QED
  BY <1>3, <1>4, <1>5, <1>6 DEF Kept

\* A request goes from the head of its queue to the end of the answers.
PumpOrigin(s, p) ==
  IF p[1] = 3 THEN <<3, p[2] + 1>>
  ELSE IF p = <<2, Len(to_client[s]) + 1>> THEN <<3, 1>>
  ELSE p

LEMMA PumpKeeps ==
  ASSUME AllOK, AllStanding, AllStanding', NEW s \in SessionId, pumpServices
  PROVE  Kept(s)
<1>1. /\ to_server[s] \in Seq(Request) /\ to_client[s] \in Seq(Reply)
      /\ Len(to_server[s]) \in Nat /\ Len(to_client[s]) \in Nat
  <2>1. to_server[s] \in Seq(Request) /\ to_client[s] \in Seq(Reply)
    BY DEF AllOK, QueuesOK
  <2>2. QED
    BY <2>1, LenProperties
<1>2. /\ to_server'[s] = IF s \in Served THEN Popped(to_server[s]) ELSE to_server[s]
      /\ to_client'[s] = IF s \in Served /\ understood(s)
             THEN Replied(s, [req |-> Head(to_server[s]).req, by |-> "service"])[s]
             ELSE to_client[s]
      /\ received' = received
  BY DEF pumpServices
<1>3. CASE s \notin Served
  BY <1>2, <1>3, SamePlaces
<1>4. CASE s \in Served
  <2>1. to_server[s] # <<>> /\ Len(to_server[s]) > 0
    BY <1>1, <1>4 DEF Served
  <2>2. /\ to_server'[s] = Tail(to_server[s])
        /\ Len(Tail(to_server[s])) = Len(to_server[s]) - 1
        /\ \A i \in 1 .. Len(to_server[s]) - 1 : Tail(to_server[s])[i] = to_server[s][i + 1]
        /\ Head(to_server[s]) = to_server[s][1] /\ Head(to_server[s]) \in Request
    BY <1>1, <1>2, <1>4, <2>1, HeadTailProperties DEF Popped
  <2> DEFINE rep == [req |-> Head(to_server[s]).req, by |-> "service"]
  <2>3. rep \in Reply /\ rep.by = "service" /\ rep.req = to_server[s][1].req
    BY <2>2 DEF Reply, Request, Req
  <2> HIDE DEF rep
  <2>4. to_client'[s] = to_client[s] \/ to_client'[s] = Append(to_client[s], rep)
    <3>1. to_client \in [SessionId -> Seq(Reply)]
      BY DEF AllOK, QueuesOK
    <3>2. QED
      BY <1>2, <1>4, <3>1 DEF Replied, rep
  <2>5. /\ \A i \in 1 .. Len(to_client[s]) : to_client'[s][i] = to_client[s][i]
        /\ Len(to_client'[s]) \in {Len(to_client[s]), Len(to_client[s]) + 1}
        /\ Len(to_client'[s]) = Len(to_client[s]) + 1
             => to_client'[s][Len(to_client[s]) + 1] = rep
    BY <1>1, <2>3, <2>4, AppendProperties
  <2> DEFINE from == [p \in PlacesOf'[s] |-> PumpOrigin(s, p)]
             end == Len(to_client[s]) + 1
             Comes(p) == \E i \in Nat :
               \/ p = <<1, i>> /\ from[p] = <<1, i>>
               \/ p = <<2, i>> /\ i < end /\ from[p] = <<2, i>>
               \/ p = <<2, i>> /\ i = end /\ from[p] = <<3, 1>>
               \/ p = <<3, i>> /\ from[p] = <<3, i + 1>> /\ i > 0
  <2>6. ASSUME NEW p \in PlacesOf'[s]
        PROVE  /\ from[p] \in PlacesOf[s] /\ Numbers'[s][p] = Numbers[s][from[p]]
               /\ Comes(p)
    <3>1. PICK i \in Nat : p \in {<<1, i>>, <<2, i>>, <<3, i>>}
      BY StandsSomewhere
    <3>2. from[p] = PumpOrigin(s, p)
      OBVIOUS
    <3> HIDE DEF from
    <3>3. CASE p = <<1, i>>
      <4>1. from[p] = <<1, i>>
        BY <3>2, <3>3 DEF PumpOrigin
      <4>2. i \in 1 .. Len(received'[s]) /\ Numbers'[s][p] = received'[s][i]
        BY <3>3, Stands
      <4>3. p \in PlacesOf[s] /\ Numbers[s][p] = received[s][i]
        BY <1>2, <3>3, <4>2, Stands
      <4>4. QED
        BY <1>2, <3>3, <4>1, <4>2, <4>3
    <3>4. CASE p = <<2, i>> /\ i # end
      <4>1. from[p] = <<2, i>>
        BY <3>2, <3>4 DEF PumpOrigin
      <4>2. i \in 1 .. Len(to_client'[s]) /\ to_client'[s][i].by = "service"
            /\ Numbers'[s][p] = to_client'[s][i].req
        BY <3>4, Stands
      <4>3. i \in 1 .. Len(to_client[s]) /\ i < end
        BY <1>1, <2>5, <3>4, <4>2
      <4>a. to_client[s][i].by = "service"
        BY <2>5, <4>2, <4>3
      <4>4. p \in PlacesOf[s] /\ Numbers[s][p] = to_client[s][i].req
        BY <3>4, <4>3, <4>a, Stands
      <4>5. QED
        BY <2>5, <3>4, <4>1, <4>2, <4>3, <4>4
    <3>5. CASE p = <<2, i>> /\ i = end
      <4>1. from[p] = <<3, 1>>
        BY <3>2, <3>5 DEF PumpOrigin
      <4>2. i \in 1 .. Len(to_client'[s]) /\ Numbers'[s][p] = to_client'[s][i].req
        BY <3>5, Stands
      <4>3. to_client'[s][i] = rep
        BY <1>1, <2>5, <3>5, <4>2
      <4>4. <<3, 1>> \in PlacesOf[s] /\ Numbers[s][<<3, 1>>] = to_server[s][1].req
        <5>1. 1 \in Nat /\ 1 \in 1 .. Len(to_server[s])
          BY <1>1, <2>1
        <5>2. QED
          BY <5>1, Stands
      <4>5. QED
        BY <2>3, <3>5, <4>1, <4>2, <4>3, <4>4
    <3>6. CASE p = <<3, i>>
      <4>1. from[p] = <<3, i + 1>>
        BY <3>2, <3>6 DEF PumpOrigin
      <4>2. i \in 1 .. Len(to_server'[s]) /\ Numbers'[s][p] = to_server'[s][i].req
        BY <3>6, Stands
      <4>3. i + 1 \in Nat /\ i + 1 \in 1 .. Len(to_server[s]) /\ i > 0
            /\ to_server'[s][i] = to_server[s][i + 1]
        BY <1>1, <2>2, <4>2
      <4>4. <<3, i + 1>> \in PlacesOf[s] /\ Numbers[s][<<3, i + 1>>] = to_server[s][i + 1].req
        BY <4>3, Stands
      <4>5. QED
        BY <3>6, <4>1, <4>2, <4>3, <4>4
    <3>7. QED
      BY <3>1, <3>3, <3>4, <3>5, <3>6
  <2>7. from \in [PlacesOf'[s] -> PlacesOf[s]]
    BY <2>6
  <2>8. ASSUME NEW q \in PlacesOf[s], q[1] # 3
        PROVE  \E p \in PlacesOf'[s] : from[p] = q
    <3>1. PICK i \in Nat : q \in {<<1, i>>, <<2, i>>}
      BY <2>8, StandsSomewhere
    <3>2. q \in PlacesOf'[s]
      <4>1. CASE q = <<1, i>>
        BY <1>2, <4>1, Stands
      <4>2. CASE q = <<2, i>>
        <5>1. i \in 1 .. Len(to_client[s]) /\ to_client[s][i].by = "service"
          BY <4>2, Stands
        <5>2. i \in 1 .. Len(to_client'[s]) /\ to_client'[s][i].by = "service"
          BY <1>1, <2>5, <5>1
        <5>3. QED
          BY <4>2, <5>2, Stands
      <4>3. QED
        BY <3>1, <4>1, <4>2
    <3>3. q # <<2, end>> /\ q[1] # 3
      <4>1. <<2, end>> \notin PlacesOf[s]
        <5>1. end \in Nat /\ end \notin 1 .. Len(to_client[s])
          BY <1>1
        <5> HIDE DEF end
        <5>2. QED
          BY <5>1, Stands
      <4>2. QED
        BY <2>8, <4>1
    <3>4. from[q] = q
      BY <3>2, <3>3 DEF PumpOrigin
    <3>5. QED
      BY <3>2, <3>4
  <2>9. end \in Nat
    BY <1>1
  <2> HIDE DEF from, end
  <2>10. \A p \in PlacesOf'[s] : from[p][1] \in {p[1], p[1] + 1}
    BY <2>6
  <2>11. ASSUME NEW p \in PlacesOf'[s], NEW q \in PlacesOf'[s], Before(p, q)
         PROVE  Before(from[p], from[q])
    <3>1. Comes(p) /\ Comes(q)
      BY <2>6
    <3>2. QED
      BY <2>9, <2>11, <3>1 DEF Before
  <2>12. QED
    BY <2>6, <2>7, <2>8, <2>10, <2>11 DEF Kept
<1>5. QED
  BY <1>3, <1>4

\* An answer goes from the head of its queue to the end of what was read.
ReadOrigin(s, p) ==
  IF p[1] = 2 THEN <<2, p[2] + 1>>
  ELSE IF p = <<1, Len(received[s]) + 1>> THEN <<2, 1>>
  ELSE p

LEMMA ReadKeeps ==
  ASSUME AllOK, AllStanding, AllStanding', NEW s \in SessionId, recvReply(s)
  PROVE  Kept(s)
<1>1. /\ to_client[s] \in Seq(Reply) /\ received[s] \in Seq(0 .. MaxReq)
      /\ Len(to_client[s]) \in Nat /\ Len(received[s]) \in Nat
  <2>1. to_client[s] \in Seq(Reply) /\ received[s] \in Seq(0 .. MaxReq)
    BY DEF AllOK, QueuesOK, HistoryOK
  <2>2. QED
    BY <2>1, LenProperties
<1>2. /\ to_client \in [SessionId -> Seq(Reply)] /\ received \in [SessionId -> Seq(0 .. MaxReq)]
  BY DEF AllOK, QueuesOK, HistoryOK
<1>3. /\ to_server' = to_server /\ to_client[s] # <<>>
      /\ to_client'[s] = Popped(to_client[s])
      /\ received'[s] = IF Head(to_client[s]).by = "service"
                        THEN Append(received[s], Head(to_client[s]).req)
                        ELSE received[s]
  BY <1>2 DEF recvReply
<1>4. Len(to_client[s]) > 0
  BY <1>1, <1>3
<1>5. /\ Len(to_client'[s]) = Len(to_client[s]) - 1
      /\ \A i \in 1 .. Len(to_client[s]) - 1 : to_client'[s][i] = to_client[s][i + 1]
      /\ Head(to_client[s]) = to_client[s][1] /\ Head(to_client[s]) \in Reply
  BY <1>1, <1>3, HeadTailProperties DEF Popped
<1>6. /\ \A i \in 1 .. Len(received[s]) : received'[s][i] = received[s][i]
      /\ to_client[s][1].by = "service" =>
           /\ Len(received'[s]) = Len(received[s]) + 1
           /\ received'[s][Len(received[s]) + 1] = to_client[s][1].req
      /\ to_client[s][1].by # "service" => Len(received'[s]) = Len(received[s])
  <2>1. Head(to_client[s]).req \in 0 .. MaxReq
    BY <1>5 DEF Reply
  <2>2. QED
    BY <1>1, <1>3, <1>5, <2>1, AppendProperties
<1> DEFINE from == [p \in PlacesOf'[s] |-> ReadOrigin(s, p)]
           end == Len(received[s]) + 1
           Comes(p) == \E i \in Nat :
             \/ p = <<3, i>> /\ from[p] = <<3, i>>
             \/ p = <<1, i>> /\ i < end /\ from[p] = <<1, i>>
             \/ p = <<1, i>> /\ i = end /\ from[p] = <<2, 1>>
             \/ p = <<2, i>> /\ from[p] = <<2, i + 1>> /\ i > 0
<1>7. ASSUME NEW p \in PlacesOf'[s]
      PROVE  /\ from[p] \in PlacesOf[s] /\ Numbers'[s][p] = Numbers[s][from[p]]
             /\ Comes(p)
  <2>1. PICK i \in Nat : p \in {<<1, i>>, <<2, i>>, <<3, i>>}
    BY StandsSomewhere
  <2>2. from[p] = ReadOrigin(s, p)
    OBVIOUS
  <2> HIDE DEF from
  <2>3. CASE p = <<3, i>>
    <3>1. from[p] = <<3, i>>
      BY <2>2, <2>3 DEF ReadOrigin
    <3>2. i \in 1 .. Len(to_server'[s]) /\ Numbers'[s][p] = to_server'[s][i].req
      BY <2>3, Stands
    <3>3. p \in PlacesOf[s] /\ Numbers[s][p] = to_server[s][i].req
      BY <1>3, <2>3, <3>2, Stands
    <3>4. QED
      BY <1>3, <2>3, <3>1, <3>2, <3>3
  <2>4. CASE p = <<1, i>> /\ i # end
    <3>1. from[p] = <<1, i>>
      BY <2>2, <2>4 DEF ReadOrigin
    <3>2. i \in 1 .. Len(received'[s]) /\ Numbers'[s][p] = received'[s][i]
      BY <2>4, Stands
    <3>3. i \in 1 .. Len(received[s]) /\ i < end
      BY <1>1, <1>6, <2>4, <3>2
    <3>4. p \in PlacesOf[s] /\ Numbers[s][p] = received[s][i]
      BY <2>4, <3>3, Stands
    <3>5. QED
      BY <1>6, <2>4, <3>1, <3>2, <3>3, <3>4
  <2>5. CASE p = <<1, i>> /\ i = end
    <3>1. from[p] = <<2, 1>>
      BY <2>2, <2>5 DEF ReadOrigin
    <3>2. i \in 1 .. Len(received'[s]) /\ Numbers'[s][p] = received'[s][i]
      BY <2>5, Stands
    <3>3. to_client[s][1].by = "service" /\ received'[s][i] = to_client[s][1].req
      BY <1>1, <1>6, <2>5, <3>2
    <3>4. <<2, 1>> \in PlacesOf[s] /\ Numbers[s][<<2, 1>>] = to_client[s][1].req
      <4>1. 1 \in Nat /\ 1 \in 1 .. Len(to_client[s])
        BY <1>1, <1>4
      <4>2. QED
        BY <3>3, <4>1, Stands
    <3>5. QED
      BY <2>5, <3>1, <3>2, <3>3, <3>4
  <2>6. CASE p = <<2, i>>
    <3>1. from[p] = <<2, i + 1>>
      BY <2>2, <2>6 DEF ReadOrigin
    <3>2. i \in 1 .. Len(to_client'[s]) /\ Numbers'[s][p] = to_client'[s][i].req
          /\ to_client'[s][i].by = "service"
      BY <2>6, Stands
    <3>3. i + 1 \in Nat /\ i + 1 \in 1 .. Len(to_client[s]) /\ i > 0
          /\ to_client'[s][i] = to_client[s][i + 1]
      BY <1>1, <1>5, <3>2
    <3>a. to_client[s][i + 1].by = "service"
      BY <3>2, <3>3
    <3>4. <<2, i + 1>> \in PlacesOf[s] /\ Numbers[s][<<2, i + 1>>] = to_client[s][i + 1].req
      BY <3>3, <3>a, Stands
    <3>5. QED
      BY <2>6, <3>1, <3>2, <3>3, <3>4
  <2>7. QED
    BY <2>1, <2>3, <2>4, <2>5, <2>6
<1>8. from \in [PlacesOf'[s] -> PlacesOf[s]]
  BY <1>7
<1>9. ASSUME NEW q \in PlacesOf[s], q[1] # 3
      PROVE  \E p \in PlacesOf'[s] : from[p] = q
  <2>1. PICK i \in Nat : q \in {<<1, i>>, <<2, i>>}
    BY <1>9, StandsSomewhere
  <2>2. CASE q = <<1, i>>
    <3>1. i \in 1 .. Len(received[s])
      BY <2>2, Stands
    <3>2. i \in 1 .. Len(received'[s]) /\ i # end
      BY <1>1, <1>6, <3>1
    <3>3. q \in PlacesOf'[s]
      BY <2>2, <3>2, Stands
    <3>4. from[q] = q
      BY <2>2, <3>2, <3>3 DEF ReadOrigin
    <3>5. QED
      BY <3>3, <3>4
  <2>3. CASE q = <<2, i>> /\ i = 1
    <3>1. 1 \in Nat /\ to_client[s][1].by = "service"
      BY <2>3, Stands
    <3>2. end \in Nat /\ end \in 1 .. Len(received'[s])
      BY <1>1, <1>6, <3>1
    <3> HIDE DEF end
    <3>3. <<1, end>> \in PlacesOf'[s]
      BY <3>2, Stands
    <3>4. from[<<1, end>>] = q
      BY <2>3, <3>3 DEF ReadOrigin, end
    <3>5. QED
      BY <3>3, <3>4
  <2>4. CASE q = <<2, i>> /\ i # 1
    <3>1. i \in 1 .. Len(to_client[s]) /\ to_client[s][i].by = "service"
      BY <2>4, Stands
    <3>2. PICK j \in Nat : j = i - 1
      BY <3>1
    <3>a. j \in 1 .. Len(to_client[s]) - 1 /\ i = j + 1
      BY <1>1, <2>4, <3>1, <3>2
    <3>3. j \in 1 .. Len(to_client'[s]) /\ to_client'[s][j] = to_client[s][i] /\ i = j + 1
      BY <1>5, <3>a
    <3>4. <<2, j>> \in PlacesOf'[s]
      BY <3>1, <3>3, Stands
    <3>5. from[<<2, j>>] = <<2, j + 1>>
      BY <3>4 DEF ReadOrigin
    <3>6. QED
      BY <2>4, <3>3, <3>4, <3>5
  <2>5. QED
    BY <2>1, <2>2, <2>3, <2>4
<1>10. end \in Nat
  BY <1>1
<1> HIDE DEF from, end
<1>11. \A p \in PlacesOf'[s] : from[p][1] \in {p[1], p[1] + 1}
  BY <1>7
<1>12. ASSUME NEW p \in PlacesOf'[s], NEW q \in PlacesOf'[s], Before(p, q)
       PROVE  Before(from[p], from[q])
  <2>1. Comes(p) /\ Comes(q)
    BY <1>7
  <2>2. QED
    BY <1>10, <1>12, <2>1 DEF Before
<1>13. QED
  BY <1>7, <1>8, <1>9, <1>11, <1>12 DEF Kept

\* A new request stands behind all others of its session.
LEMMA SendGrows ==
  ASSUME AllOK, AllStanding, AllStanding', NEW s \in SessionId, NEW m \in Request,
         m.req = next_req, received'[s] = received[s],
         to_server'[s] = Append(to_server[s], m),
         \/ to_client'[s] = to_client[s]
         \/ \E rep \in Reply : /\ rep.by # "service"
                               /\ to_client'[s] = Append(to_client[s], rep)
  PROVE  Grown(s)
<1>1. /\ to_client[s] \in Seq(Reply) /\ to_server[s] \in Seq(Request)
      /\ Len(to_server[s]) \in Nat
  <2>1. to_client[s] \in Seq(Reply) /\ to_server[s] \in Seq(Request)
    BY DEF AllOK, QueuesOK
  <2>2. QED
    BY <2>1, LenProperties
<1>2. ASSUME NEW i \in Nat
      PROVE  /\ (i \in 1 .. Len(to_client'[s]) /\ to_client'[s][i].by = "service")
                  <=> (i \in 1 .. Len(to_client[s]) /\ to_client[s][i].by = "service")
             /\ i \in 1 .. Len(to_client[s]) => to_client'[s][i] = to_client[s][i]
  <2>1. CASE to_client'[s] = to_client[s]
    BY <2>1
  <2>2. CASE \E rep \in Reply : /\ rep.by # "service"
                                /\ to_client'[s] = Append(to_client[s], rep)
    BY <1>1, <2>2, AppendProperties
  <2>3. QED
    BY <2>1, <2>2
<1>3. /\ Len(to_server'[s]) = Len(to_server[s]) + 1
      /\ \A i \in 1 .. Len(to_server[s]) : to_server'[s][i] = to_server[s][i]
      /\ to_server'[s][Len(to_server[s]) + 1] = m
  BY <1>1, AppendProperties
<1> DEFINE end == Len(to_server[s]) + 1
           new == <<3, end>>
<1>4. end \in Nat /\ end \in 1 .. Len(to_server'[s]) /\ end \notin 1 .. Len(to_server[s])
      /\ to_server'[s][end] = m
  BY <1>1, <1>3
<1>5. ASSUME NEW p
      PROVE  /\ p \in PlacesOf'[s] <=> p \in PlacesOf[s] \/ p = new
             /\ p \in PlacesOf[s] => Numbers'[s][p] = Numbers[s][p] /\ Before(p, new)
  <2>1. CASE \E i \in Nat : p \in {<<1, i>>, <<2, i>>, <<3, i>>}
    <3>1. PICK i \in Nat : p \in {<<1, i>>, <<2, i>>, <<3, i>>}
      BY <2>1
    <3>2. CASE p = <<1, i>>
      <4>1. /\ p \in PlacesOf[s] <=> i \in 1 .. Len(received[s])
            /\ p \in PlacesOf'[s] <=> i \in 1 .. Len(received'[s])
            /\ p \in PlacesOf[s] => Numbers[s][p] = received[s][i]
            /\ p \in PlacesOf'[s] => Numbers'[s][p] = received'[s][i]
        BY <3>2, Stands
      <4>2. Before(p, new) /\ p # new
        BY <3>2 DEF Before
      <4>3. QED
        BY <4>1, <4>2
    <3>3. CASE p = <<2, i>>
      <4>1. /\ p \in PlacesOf[s] <=> i \in 1 .. Len(to_client[s]) /\ to_client[s][i].by = "service"
            /\ p \in PlacesOf'[s] <=> i \in 1 .. Len(to_client'[s]) /\ to_client'[s][i].by = "service"
            /\ p \in PlacesOf[s] => Numbers[s][p] = to_client[s][i].req
            /\ p \in PlacesOf'[s] => Numbers'[s][p] = to_client'[s][i].req
        BY <3>3, Stands
      <4>2. Before(p, new) /\ p # new
        BY <3>3 DEF Before
      <4>3. QED
        BY <1>2, <4>1, <4>2
    <3>4. CASE p = <<3, i>>
      <4>1. /\ p \in PlacesOf[s] <=> i \in 1 .. Len(to_server[s])
            /\ p \in PlacesOf'[s] <=> i \in 1 .. Len(to_server'[s])
            /\ p \in PlacesOf[s] => Numbers[s][p] = to_server[s][i].req
            /\ p \in PlacesOf'[s] => Numbers'[s][p] = to_server'[s][i].req
        BY <3>4, Stands
      <4>2. p = new <=> i = end
        BY <3>4
      <4>3. i \in 1 .. Len(to_server[s]) => Before(p, new)
        BY <1>1, <3>4 DEF Before
      <4>4. i \in 1 .. Len(to_server'[s]) <=> i \in 1 .. Len(to_server[s]) \/ i = end
        BY <1>1, <1>3
      <4> HIDE DEF new, end
      <4>5. QED
        BY <1>3, <4>1, <4>2, <4>3, <4>4
    <3>5. QED
      BY <3>1, <3>2, <3>3, <3>4
  <2>2. CASE ~(\E i \in Nat : p \in {<<1, i>>, <<2, i>>, <<3, i>>})
    <3>1. p \notin PlacesOf[s] /\ p \notin PlacesOf'[s]
      BY <2>2, StandsSomewhere
    <3>2. p # new
      BY <1>4, <2>2
    <3>3. QED
      BY <3>1, <3>2
  <2>3. QED
    BY <2>1, <2>2
<1>6. new \notin PlacesOf[s] /\ Numbers'[s][new] = next_req
  <2>1. <<3, end>> \in PlacesOf'[s] /\ Numbers'[s][<<3, end>>] = to_server'[s][end].req
        /\ <<3, end>> \notin PlacesOf[s]
    <3> HIDE DEF end
    <3>1. QED
      BY <1>4, Stands
  <2>2. QED
    BY <1>4, <2>1
<1>7. PlacesOf'[s] = PlacesOf[s] \cup {new}
  BY <1>5
<1>8. QED
  BY <1>5, <1>6, <1>7 DEF Grown

\* What a step does to the sessions.
LEMMA StepShape ==
  ASSUME AllOK, [Next]_vars
  PROVE  /\ Open \subseteq Open'
         /\ \/ /\ \A s \in SessionId : Kept(s)
               /\ next_req' \in {next_req, next_req + 1}
            \/ \E s \in Open :
                 /\ Grown(s)
                 /\ \A r \in SessionId \ {s} : Kept(r)
                 /\ next_req' = next_req + 1
<1>1. AllStanding /\ AllStanding' /\ PortsOK
  BY StepStands DEF AllOK
<1>2. /\ to_server \in [SessionId -> Seq(Request)]
      /\ to_client \in [SessionId -> Seq(Reply)]
      /\ received \in [SessionId -> Seq(0 .. MaxReq)]
      /\ next_req \in 1 .. MaxReq + 1
  BY DEF AllOK, QueuesOK, HistoryOK
<1>3. Open \subseteq Open'
  <2>1. next_session \in Nat
    BY <1>1 DEF PortsOK
  <2>2. \/ next_session' = next_session
        \/ \E n \in Name : connectService(n)
    BY Zenon DEF Next, Guest, HostClient, svcCreatePort, svcConnectToPort, pumpServices,
       sendRequest, recvReply, svcSendSyncRequest, svcReplyAndReceive, portVars, vars
  <2>3. next_session' = next_session \/ next_session' = next_session + 1
    BY <2>2 DEF connectService
  <2>4. QED
    BY <2>1, <2>3 DEF Open
<1>4. ASSUME UNCHANGED <<to_server, to_client, received, next_req>>
      PROVE  (\A s \in SessionId : Kept(s)) /\ next_req' = next_req
  BY <1>1, <1>4, SamePlaces
<1>5. ASSUME pumpServices
      PROVE  (\A s \in SessionId : Kept(s)) /\ next_req' = next_req
  BY <1>1, <1>5, PumpKeeps DEF pumpServices
<1>6. ASSUME NEW s \in Open, recvReply(s)
      PROVE  (\A r \in SessionId : Kept(r)) /\ next_req' = next_req
  <2>1. s \in SessionId
    BY <1>1, OpenSessions
  <2>2. Kept(s)
    BY <1>1, <1>6, <2>1, ReadKeeps
  <2>3. ASSUME NEW r \in SessionId, r # s PROVE Kept(r)
    <3>1. received'[r] = received[r] /\ to_server'[r] = to_server[r] /\ to_client'[r] = to_client[r]
      BY <1>2, <1>6, <2>3 DEF recvReply
    <3>2. QED
      BY <1>1, <3>1, SamePlaces
  <2>4. QED
    BY <1>6, <2>2, <2>3 DEF recvReply
<1>7. ASSUME svcReplyAndReceive
      PROVE  (\A r \in SessionId : Kept(r)) /\ next_req' = next_req
  <2>1. PICK s \in Open : to_client' = Replied(s, [req |-> 0, by |-> "guest"])
    BY <1>7 DEF svcReplyAndReceive
  <2>2. [req |-> 0, by |-> "guest"] \in Reply /\ [req |-> 0, by |-> "guest"].by # "service"
    BY DEF Reply
  <2>3. ASSUME NEW r \in SessionId PROVE Kept(r)
    <3>1. \/ to_client'[r] = to_client[r]
          \/ to_client'[r] = Append(to_client[r], [req |-> 0, by |-> "guest"])
      BY <1>2, <2>1 DEF Replied
    <3>2. received'[r] = received[r] /\ to_server'[r] = to_server[r]
      BY <1>7 DEF svcReplyAndReceive
    <3>3. QED
      BY <1>1, <2>2, <3>1, <3>2, SamePlaces
  <2>4. QED
    BY <1>7, <2>3 DEF svcReplyAndReceive
<1>8. ASSUME NEW s \in Open, sendRequest(s)
      PROVE  /\ Grown(s) /\ next_req' = next_req + 1
             /\ \A r \in SessionId \ {s} : Kept(r)
  <2>1. s \in SessionId /\ service[s] \in Name
    BY <1>1, OpenSessions
  <2>2. PICK known \in BOOLEAN :
          to_server' = [to_server EXCEPT ![s] =
            Append(@, [req |-> next_req, known |-> known, via |-> service[s]])]
    BY <1>8 DEF sendRequest
  <2>3. [req |-> next_req, known |-> known, via |-> service[s]] \in Request
    BY <1>2, <1>8, <2>1 DEF sendRequest, MoreRequests, Request, Req
  <2>4. to_client' = to_client /\ received' = received /\ next_req' = next_req + 1
    BY <1>8 DEF sendRequest
  <2> DEFINE m == [req |-> next_req, known |-> known, via |-> service[s]]
  <2>5. m \in Request /\ m.req = next_req /\ to_server' = [to_server EXCEPT ![s] = Append(to_server[s], m)]
    BY <2>2, <2>3
  <2> HIDE DEF m
  <2>6. to_server'[s] = Append(to_server[s], m)
        /\ \A r \in SessionId \ {s} : to_server'[r] = to_server[r]
    BY <1>2, <2>1, <2>5
  <2>7. Grown(s)
    BY <1>1, <2>1, <2>4, <2>5, <2>6, SendGrows
  <2>8. \A r \in SessionId \ {s} : Kept(r)
    BY <1>1, <2>4, <2>6, SamePlaces
  <2>9. QED
    BY <2>4, <2>7, <2>8
<1>9. ASSUME NEW n \in GuestNames, svcSendSyncRequest(n)
      PROVE  \/ (\A s \in SessionId : Kept(s)) /\ next_req' = next_req + 1
             \/ \E s \in Open : /\ Grown(s) /\ next_req' = next_req + 1
                                /\ \A r \in SessionId \ {s} : Kept(r)
  <2>1. received' = received /\ next_req' = next_req + 1 /\ next_req \in Req /\ n \in Name
    BY <1>2, <1>9 DEF svcSendSyncRequest, MoreRequests, Req
  <2>2. CASE UNCHANGED <<to_server, to_client>>
    BY <1>1, <2>1, <2>2, SamePlaces
  <2>3. ASSUME NEW s \in Open, NEW known \in BOOLEAN,
               to_server' = [to_server EXCEPT ![s] =
                 Append(@, [req |-> next_req, known |-> known, via |-> n])],
               to_client' = Replied(s, [req |-> next_req, by |-> "echo"])
        PROVE  Grown(s) /\ \A r \in SessionId \ {s} : Kept(r)
    <3>1. s \in SessionId
      BY <1>1, OpenSessions
    <3> DEFINE m == [req |-> next_req, known |-> known, via |-> n]
               echo == [req |-> next_req, by |-> "echo"]
    <3>2. m \in Request /\ m.req = next_req /\ to_server' = [to_server EXCEPT ![s] = Append(to_server[s], m)]
      BY <2>1, <2>3 DEF Request
    <3>3. echo \in Reply /\ echo.by # "service"
      BY <2>1 DEF Reply, Req
    <3> HIDE DEF m, echo
    <3>4. /\ to_server'[s] = Append(to_server[s], m)
          /\ \A r \in SessionId \ {s} : to_server'[r] = to_server[r]
      BY <1>2, <3>1, <3>2
    <3>5. \/ to_client'[s] = to_client[s]
          \/ to_client'[s] = Append(to_client[s], echo)
      BY <1>2, <2>3, <3>1 DEF Replied, echo
    <3>6. \A r \in SessionId \ {s} : to_client'[r] = to_client[r]
      BY <1>2, <2>3, <3>1 DEF Replied, echo
    <3>7. Grown(s)
      BY <1>1, <2>1, <3>1, <3>2, <3>3, <3>4, <3>5, SendGrows
    <3>8. \A r \in SessionId \ {s} : Kept(r)
      BY <1>1, <2>1, <3>4, <3>6, SamePlaces
    <3>9. QED
      BY <3>7, <3>8
  <2>4. QED
    BY <1>9, <2>1, <2>2, <2>3 DEF svcSendSyncRequest
<1>10. \/ UNCHANGED <<to_server, to_client, received, next_req>>
       \/ \E n \in GuestNames : svcSendSyncRequest(n)
       \/ svcReplyAndReceive \/ pumpServices
       \/ \E s \in Open : sendRequest(s) \/ recvReply(s)
  BY Zenon DEF Next, Guest, HostClient, svcCreatePort, svcConnectToPort, connectService, vars
<1>11. QED
  BY <1>3, <1>4, <1>5, <1>6, <1>7, <1>8, <1>9, <1>10

-----------------------------------------------------------------------------
(* The order of the numbers: in every session they grow from what was read  *)
(* to what waits, and no number stands in two places.                       *)

NumbersOK ==
  /\ \A s \in SessionId : \A p \in PlacesOf[s] : Numbers[s][p] \in Nat /\ Numbers[s][p] < next_req
  /\ \A s \in SessionId : \A p, q \in PlacesOf[s] :
       Before(p, q) => Numbers[s][p] < Numbers[s][q]
  /\ \A s, t \in SessionId : \A p \in PlacesOf[s], q \in PlacesOf[t] :
       s # t => Numbers[s][p] # Numbers[t][q]
  /\ \A s \in SessionId \ Open : PlacesOf[s] = {}

LEMMA NextNumbers == AllOK /\ NumbersOK /\ [Next]_vars => NumbersOK'
<1> SUFFICES ASSUME AllOK, NumbersOK, [Next]_vars PROVE NumbersOK'
  OBVIOUS
<1>1. next_req \in Nat /\ PortsOK
  BY DEF AllOK, QueuesOK
<1>2. ASSUME NEW s \in SessionId, Kept(s)
      PROVE  /\ \A p \in PlacesOf'[s] : \E q \in PlacesOf[s] : Numbers'[s][p] = Numbers[s][q]
             /\ \A p, q \in PlacesOf'[s] : Before(p, q) => Numbers'[s][p] < Numbers'[s][q]
  BY <1>2 DEF Kept, NumbersOK
<1>3. CASE /\ \A s \in SessionId : Kept(s)
           /\ next_req' \in {next_req, next_req + 1}
  <2>1. \A s \in SessionId : \A p \in PlacesOf'[s] :
          Numbers'[s][p] \in Nat /\ Numbers'[s][p] < next_req'
    BY <1>1, <1>2, <1>3 DEF NumbersOK
  <2>2. \A s, t \in SessionId : \A p \in PlacesOf'[s], q \in PlacesOf'[t] :
          s # t => Numbers'[s][p] # Numbers'[t][q]
    BY <1>2, <1>3 DEF NumbersOK
  <2>3. \A s \in SessionId \ Open' : PlacesOf'[s] = {}
    BY <1>2, <1>3, StepShape DEF NumbersOK
  <2>4. QED
    BY <1>2, <1>3, <2>1, <2>2, <2>3 DEF NumbersOK
<1>4. ASSUME NEW s \in Open, Grown(s), \A r \in SessionId \ {s} : Kept(r),
             next_req' = next_req + 1
      PROVE  NumbersOK'
  <2>1. s \in SessionId
    BY <1>1, OpenSessions
  <2> DEFINE new == <<3, Len(to_server[s]) + 1>>
  <2>2. /\ PlacesOf'[s] = PlacesOf[s] \cup {new} /\ new \notin PlacesOf[s]
        /\ \A p \in PlacesOf[s] : Numbers'[s][p] = Numbers[s][p] /\ Before(p, new)
        /\ Numbers'[s][new] = next_req
    BY <1>4 DEF Grown
  <2>3. ~Before(new, new) /\ \A p \in PlacesOf[s] : ~Before(new, p)
    <3>1. ASSUME NEW p \in PlacesOf[s] PROVE ~Before(new, p)
      <4>1. AllStanding /\ AllStanding'
        BY StepStands
      <4>2. PICK i \in Nat : p \in {<<1, i>>, <<2, i>>, <<3, i>>}
        BY <2>1, <4>1, StandsSomewhere
      <4>3. Len(to_server[s]) \in Nat
        BY <2>1, LenProperties DEF AllOK, QueuesOK
      <4>4. QED
        BY <2>2, <4>2, <4>3 DEF Before
    <3>2. QED
      BY <3>1, LenProperties, <2>1 DEF Before, AllOK, QueuesOK
  <2> HIDE DEF new
  <2>4. ASSUME NEW t \in SessionId, NEW p \in PlacesOf'[t]
        PROVE  \/ t = s /\ p = new /\ Numbers'[t][p] = next_req
               \/ \E q \in PlacesOf[t] : Numbers'[t][p] = Numbers[t][q]
    BY <1>2, <1>4, <2>1, <2>2
  <2>5. \A t \in SessionId : \A p \in PlacesOf'[t] :
          Numbers'[t][p] \in Nat /\ Numbers'[t][p] < next_req'
    <3>1. ASSUME NEW t \in SessionId, NEW p \in PlacesOf'[t]
          PROVE  Numbers'[t][p] \in Nat /\ Numbers'[t][p] < next_req'
      BY <1>1, <1>4, <2>4 DEF NumbersOK
    <3>2. QED
      BY <3>1
  <2>6. ASSUME NEW t \in SessionId, NEW u \in SessionId, NEW p \in PlacesOf'[t], NEW q \in PlacesOf'[u],
               t # u
        PROVE  Numbers'[t][p] # Numbers'[u][q]
    <3>1. CASE t = s /\ p = new /\ Numbers'[t][p] = next_req
      <4>1. PICK w \in PlacesOf[u] : Numbers'[u][q] = Numbers[u][w]
        BY <2>4, <2>6, <3>1
      <4>2. Numbers[u][w] \in Nat /\ Numbers[u][w] < next_req
        BY DEF NumbersOK
      <4>3. QED
        BY <1>1, <3>1, <4>1, <4>2
    <3>2. CASE u = s /\ q = new /\ Numbers'[u][q] = next_req
      <4>1. PICK w \in PlacesOf[t] : Numbers'[t][p] = Numbers[t][w]
        BY <2>4, <2>6, <3>2
      <4>2. Numbers[t][w] \in Nat /\ Numbers[t][w] < next_req
        BY DEF NumbersOK
      <4>3. QED
        BY <1>1, <3>2, <4>1, <4>2
    <3>3. CASE /\ \E w \in PlacesOf[t] : Numbers'[t][p] = Numbers[t][w]
               /\ \E w \in PlacesOf[u] : Numbers'[u][q] = Numbers[u][w]
      BY <2>6, <3>3 DEF NumbersOK
    <3>4. QED
      BY <2>4, <3>1, <3>2, <3>3
  <2>7. ASSUME NEW t \in SessionId, NEW p \in PlacesOf'[t], NEW q \in PlacesOf'[t], Before(p, q)
        PROVE  Numbers'[t][p] < Numbers'[t][q]
    <3>1. CASE t # s
      BY <1>2, <1>4, <2>7, <3>1
    <3>2. CASE t = s
      <4>1. p \in PlacesOf[s]
        BY <2>2, <2>3, <2>7, <3>2
      <4>2. Numbers'[s][p] = Numbers[s][p] /\ Numbers[s][p] < next_req
        BY <2>1, <2>2, <4>1 DEF NumbersOK
      <4>3. CASE q = new
        BY <2>2, <3>2, <4>2, <4>3
      <4>4. CASE q \in PlacesOf[s]
        BY <2>1, <2>2, <2>7, <3>2, <4>1, <4>4 DEF NumbersOK
      <4>5. QED
        BY <2>2, <3>2, <4>3, <4>4
    <3>3. QED
      BY <3>1, <3>2
  <2>8. ASSUME NEW t \in SessionId \ Open' PROVE PlacesOf'[t] = {}
    <3>1. t # s /\ t \notin Open
      BY StepShape
    <3>2. \A p \in PlacesOf'[t] : \E q \in PlacesOf[t] : Numbers'[t][p] = Numbers[t][q]
      BY <1>2, <1>4, <3>1
    <3>3. QED
      BY <3>1, <3>2 DEF NumbersOK
  <2>9. QED
    BY <2>5, <2>6, <2>7, <2>8 DEF NumbersOK
<1>5. QED
  BY <1>3, <1>4, StepShape

LEMMA InitNumbers == Init => NumbersOK
<1> SUFFICES ASSUME Init PROVE NumbersOK
  OBVIOUS
<1>1. ASSUME NEW s \in SessionId PROVE PlacesOf[s] = {}
  <2>1. received[s] = <<>> /\ to_client[s] = <<>> /\ to_server[s] = <<>>
    BY DEF Init
  <2>2. DOMAIN <<>> = {}
    OBVIOUS
  <2>3. QED
    BY <2>1, <2>2 DEF PlacesOf, Places
<1>2. QED
  BY <1>1 DEF NumbersOK

LEMMA NumbersInvariant == Spec => [](AllOK /\ NumbersOK)
<1>1. AllOK /\ NumbersOK /\ [Next]_vars => (AllOK /\ NumbersOK)'
  BY NextNumbers, StepStands
<1>2. QED
  BY InitOK, InitNumbers, <1>1, PTL DEF Spec

\* Each client reads the answers of its service in the order of the requests.
THEOREM AnswersKeepOrder == Spec => []AnswersInOrder
<1>1. NumbersOK => AnswersInOrder
  BY DEF NumbersOK, AnswersInOrder, PlacesOf, Numbers
<1>2. QED
  BY <1>1, NumbersInvariant, PTL

-----------------------------------------------------------------------------
(* The queues implement the promise of RpcPromise.  A number stands in one  *)
(* stage at most, 3 queued, 2 answered and 1 received, and each step leaves *)
(* it there or moves it to the next one.                                    *)

Stage == [r \in Req |-> {k \in {1, 2, 3} :
           \E s \in SessionId : \E p \in PlacesOf[s] : p[1] = k /\ Numbers[s][p] = r}]

Status == [r \in Req |-> StatusOf(r)]

StatusIsStage ==
  /\ \A r \in Req : \A k, l \in Stage[r] : k = l
  /\ \A r \in Req : r >= next_req => Stage[r] = {}
  /\ \A r \in Req :
       /\ Status[r] = IF r >= next_req THEN "new"
                      ELSE IF 3 \in Stage[r] THEN "queued"
                      ELSE IF 2 \in Stage[r] THEN "answered"
                      ELSE IF 1 \in Stage[r] THEN "received"
                      ELSE "gone"

LEMMA PlacesOrdered ==
  ASSUME AllStanding, NEW s \in SessionId, NEW p \in PlacesOf[s], NEW q \in PlacesOf[s], p # q
  PROVE  Before(p, q) \/ Before(q, p)
<1>1. /\ \E i \in Nat : p \in {<<1, i>>, <<2, i>>, <<3, i>>}
      /\ \E i \in Nat : q \in {<<1, i>>, <<2, i>>, <<3, i>>}
  BY DEF AllStanding
<1>2. QED
  BY <1>1 DEF Before

LEMMA OnePlace ==
  ASSUME AllOK, NumbersOK, NEW s \in SessionId, NEW t \in SessionId,
         NEW p \in PlacesOf[s], NEW q \in PlacesOf[t], Numbers[s][p] = Numbers[t][q]
  PROVE  s = t /\ p = q
<1>1. s = t
  BY DEF NumbersOK
<1>2. Numbers[s][p] \in Nat /\ ~Before(p, q) /\ ~Before(q, p)
  BY <1>1 DEF NumbersOK
<1>3. QED
  BY <1>1, <1>2, PlacesOrdered, PlacesStand

LEMMA StatusFollowsStage == AllOK /\ NumbersOK => StatusIsStage
<1> SUFFICES ASSUME AllOK, NumbersOK PROVE StatusIsStage
  OBVIOUS
<1>1. next_req \in Nat /\ PortsOK
  BY DEF AllOK, QueuesOK
<1>2. ASSUME NEW r \in Req, NEW k \in Stage[r], NEW l \in Stage[r] PROVE k = l
  BY <1>2, OnePlace DEF Stage
<1>3. ASSUME NEW r \in Req, r >= next_req, NEW k \in Stage[r] PROVE FALSE
  <2>1a. PICK s \in SessionId : \E p \in PlacesOf[s] : Numbers[s][p] = r
    BY DEF Stage
  <2>1. PICK p \in PlacesOf[s] : Numbers[s][p] = r
    BY <2>1a
  <2>2. QED
    BY <1>1, <1>3, <2>1 DEF NumbersOK, Req
<1>4. ASSUME NEW r \in Req
      PROVE  /\ \A x, y \in Copies(r) : x = y
             /\ \A k \in {1, 2, 3} : (\E x \in Copies(r) : x[2][1] = k) <=> k \in Stage[r]
  <2>1. ASSUME NEW x \in Copies(r)
        PROVE  \E s \in SessionId : \E p \in PlacesOf[s] : x = <<s, p>> /\ Numbers[s][p] = r
    <3>1. PICK s \in Open : x \in {s} \X {p \in Places(s) : NumberAt(s, p) = r}
      BY DEF Copies
    <3>2. s \in SessionId
      BY <1>1, OpenSessions
    <3>3. QED
      BY <3>1, <3>2 DEF PlacesOf, Numbers
  <2>2. ASSUME NEW s \in SessionId, NEW p \in PlacesOf[s], Numbers[s][p] = r
        PROVE  <<s, p>> \in Copies(r)
    <3>1. s \in Open
      BY DEF NumbersOK
    <3>2. p \in {q \in Places(s) : NumberAt(s, q) = r}
      BY <2>2 DEF PlacesOf, Numbers
    <3>3. QED
      BY <3>1, <3>2 DEF Copies
  <2>3. ASSUME NEW x \in Copies(r), NEW y \in Copies(r) PROVE x = y
    <3>1a. PICK s \in SessionId : \E p \in PlacesOf[s] : x = <<s, p>> /\ Numbers[s][p] = r
      BY <2>1
    <3>1. PICK p \in PlacesOf[s] : x = <<s, p>> /\ Numbers[s][p] = r
      BY <3>1a
    <3>2a. PICK t \in SessionId : \E q \in PlacesOf[t] : y = <<t, q>> /\ Numbers[t][q] = r
      BY <2>1
    <3>2. PICK q \in PlacesOf[t] : y = <<t, q>> /\ Numbers[t][q] = r
      BY <3>2a
    <3>3. s = t /\ p = q
      BY <3>1, <3>2, OnePlace
    <3>4. QED
      BY <3>1, <3>2, <3>3
  <2>4. ASSUME NEW k \in {1, 2, 3} PROVE (\E x \in Copies(r) : x[2][1] = k) <=> k \in Stage[r]
    <3>1. ASSUME NEW x \in Copies(r), x[2][1] = k PROVE k \in Stage[r]
      BY <2>1, <3>1 DEF Stage
    <3>2. ASSUME k \in Stage[r] PROVE \E x \in Copies(r) : x[2][1] = k
      <4>1a. PICK s \in SessionId : \E p \in PlacesOf[s] : p[1] = k /\ Numbers[s][p] = r
        BY <3>2 DEF Stage
      <4>1. PICK p \in PlacesOf[s] : p[1] = k /\ Numbers[s][p] = r
        BY <4>1a
      <4>2. QED
        BY <2>2, <4>1
    <3>3. QED
      BY <3>1, <3>2
  <2>5. QED
    BY <2>3, <2>4
<1>5. ASSUME NEW r \in Req
      PROVE  Status[r] = IF r >= next_req THEN "new"
                         ELSE IF 3 \in Stage[r] THEN "queued"
                         ELSE IF 2 \in Stage[r] THEN "answered"
                         ELSE IF 1 \in Stage[r] THEN "received"
                         ELSE "gone"
  BY <1>4 DEF Status, StatusOf
<1>6. QED
  BY <1>2, <1>3, <1>5 DEF StatusIsStage

LEMMA StageMoves ==
  ASSUME AllOK, NumbersOK, [Next]_vars, NEW r \in Req, r < next_req
  PROVE  /\ \A k \in Stage'[r] : k \in Stage[r] \/ k + 1 \in Stage[r]
         /\ \A k \in Stage[r] : k # 3 => Stage'[r] # {}
<1>1. next_req \in Nat /\ PortsOK /\ r \in Nat
  BY DEF AllOK, QueuesOK, Req
<1>2. ASSUME NEW s \in SessionId, Kept(s)
      PROVE  /\ \A p \in PlacesOf'[s] : \E q \in PlacesOf[s] :
                  Numbers'[s][p] = Numbers[s][q] /\ q[1] \in {p[1], p[1] + 1}
             /\ \A q \in PlacesOf[s] : q[1] # 3 => \E p \in PlacesOf'[s] :
                  Numbers'[s][p] = Numbers[s][q]
  BY <1>2 DEF Kept
<1>3. ASSUME NEW s \in Open, Grown(s)
      PROVE  /\ \A p \in PlacesOf'[s] : Numbers'[s][p] = r =>
                  p \in PlacesOf[s] /\ Numbers[s][p] = r
             /\ \A q \in PlacesOf[s] : q \in PlacesOf'[s] /\ Numbers'[s][q] = Numbers[s][q]
  BY <1>1, <1>3 DEF Grown
<1>4. ASSUME NEW s \in SessionId, NEW p \in PlacesOf'[s], Numbers'[s][p] = r
      PROVE  \E q \in PlacesOf[s] : Numbers[s][q] = r /\ q[1] \in {p[1], p[1] + 1}
  BY <1>2, <1>3, <1>4, StepShape
<1>5. ASSUME NEW s \in SessionId, NEW q \in PlacesOf[s], Numbers[s][q] = r, q[1] # 3
      PROVE  \E p \in PlacesOf'[s] : Numbers'[s][p] = r
  BY <1>2, <1>3, <1>5, StepShape
<1>6. AllStanding /\ AllStanding'
  BY StepStands
<1>7. ASSUME NEW k \in Stage'[r] PROVE k \in Stage[r] \/ k + 1 \in Stage[r]
  <2>1a. PICK s \in SessionId : \E p \in PlacesOf'[s] : p[1] = k /\ Numbers'[s][p] = r
    BY DEF Stage
  <2>1. PICK p \in PlacesOf'[s] : p[1] = k /\ Numbers'[s][p] = r
    BY <2>1a
  <2>2. PICK q \in PlacesOf[s] : Numbers[s][q] = r /\ q[1] \in {k, k + 1}
    BY <1>4, <2>1
  <2>3. q[1] \in {1, 2, 3}
    BY <1>6, StandsSomewhere
  <2>4. QED
    BY <2>2, <2>3 DEF Stage
<1>8. ASSUME NEW k \in Stage[r], k # 3 PROVE Stage'[r] # {}
  <2>1a. PICK s \in SessionId : \E q \in PlacesOf[s] : q[1] = k /\ Numbers[s][q] = r
    BY DEF Stage
  <2>1. PICK q \in PlacesOf[s] : q[1] = k /\ Numbers[s][q] = r
    BY <2>1a
  <2>2. PICK p \in PlacesOf'[s] : Numbers'[s][p] = r
    BY <1>5, <1>8, <2>1
  <2>3. p[1] \in {1, 2, 3}
    BY <1>6, StandsSomewhere
  <2>4. p[1] \in Stage'[r]
    BY <2>2, <2>3 DEF Stage
  <2>5. QED
    BY <2>4
<1>9. QED
  BY <1>7, <1>8

\* A request whose number is new is queued or comes to nothing.
LEMMA NewStage ==
  ASSUME AllOK, NumbersOK, [Next]_vars, NEW r \in Req, r = next_req
  PROVE  Stage'[r] \subseteq {3}
<1>1. next_req \in Nat /\ PortsOK
  BY DEF AllOK, QueuesOK
<1>2. ASSUME NEW s \in SessionId, NEW p \in PlacesOf'[s], Kept(s)
      PROVE  Numbers'[s][p] # r
  <2>1. PICK q \in PlacesOf[s] : Numbers'[s][p] = Numbers[s][q]
    BY <1>2 DEF Kept
  <2>2. QED
    BY <1>1, <2>1 DEF NumbersOK
<1>3. ASSUME NEW s \in Open, NEW p \in PlacesOf'[s], Grown(s), Numbers'[s][p] = r
      PROVE  p[1] = 3
  <2>1. p \in PlacesOf[s] => Numbers'[s][p] < next_req
    BY <1>1, <1>3, OpenSessions DEF NumbersOK, Grown
  <2>2. QED
    BY <1>1, <1>3, <2>1 DEF Grown
<1>4. ASSUME NEW k \in Stage'[r] PROVE k = 3
  <2>1a. PICK s \in SessionId : \E p \in PlacesOf'[s] : p[1] = k /\ Numbers'[s][p] = r
    BY DEF Stage
  <2>1. PICK p \in PlacesOf'[s] : p[1] = k /\ Numbers'[s][p] = r
    BY <2>1a
  <2>2. QED
    BY <1>2, <1>3, <2>1, StepShape
<1>5. QED
  BY <1>4

LEMMA StatusMoves ==
  ASSUME AllOK, NumbersOK, [Next]_vars, StatusIsStage, StatusIsStage'
  PROVE  /\ Status' \in [Req -> {"new", "queued", "answered", "received", "gone"}]
         /\ \A r \in Req : Status'[r] = Status[r] \/ <<Status[r], Status'[r]>> \in Rpc!Moves
<1>1. next_req \in Nat /\ next_req' \in {next_req, next_req + 1}
  BY StepShape DEF AllOK, QueuesOK
<1>2. ASSUME NEW r \in Req
      PROVE  Status'[r] \in {"new", "queued", "answered", "received", "gone"}
  BY DEF StatusIsStage
<1>3. Status' = [r \in Req |-> Status'[r]]
  BY DEF Status
<1>4. ASSUME NEW r \in Req
      PROVE  Status'[r] = Status[r] \/ <<Status[r], Status'[r]>> \in Rpc!Moves
  <2>1. r \in Nat /\ Stage[r] \subseteq {1, 2, 3} /\ Stage'[r] \subseteq {1, 2, 3}
    BY DEF Req, Stage
  <2>2. CASE r >= next_req'
    <3>1. Status[r] = "new" /\ Status'[r] = "new"
      BY <1>1, <2>1, <2>2 DEF StatusIsStage
    <3>2. QED
      BY <3>1
  <2>3. CASE r < next_req' /\ r >= next_req
    <3>1. r = next_req
      BY <1>1, <2>1, <2>3
    <3>2. Stage'[r] \subseteq {3}
      BY <3>1, NewStage
    <3>3. Status[r] = "new" /\ Status'[r] \in {"queued", "gone"}
      BY <1>1, <2>1, <2>3, <3>2 DEF StatusIsStage
    <3>4. QED
      BY <3>3 DEF Rpc!Moves
  <2>4. CASE r < next_req
    <3>1. /\ \A k \in Stage'[r] : k \in Stage[r] \/ k + 1 \in Stage[r]
          /\ \A k \in Stage[r] : k # 3 => Stage'[r] # {}
          /\ \A k, l \in Stage[r] : k = l
      BY <2>4, StageMoves DEF StatusIsStage
    <3>2. /\ Status[r] = IF 3 \in Stage[r] THEN "queued"
                         ELSE IF 2 \in Stage[r] THEN "answered"
                         ELSE IF 1 \in Stage[r] THEN "received" ELSE "gone"
          /\ Status'[r] = IF 3 \in Stage'[r] THEN "queued"
                          ELSE IF 2 \in Stage'[r] THEN "answered"
                          ELSE IF 1 \in Stage'[r] THEN "received" ELSE "gone"
      BY <1>1, <2>1, <2>4 DEF StatusIsStage
    <3>3. CASE 3 \in Stage[r]
      <4>1. 1 \notin Stage'[r]
        BY <3>1, <3>3
      <4>2. Status[r] = "queued" /\ Status'[r] \in {"queued", "answered", "gone"}
        BY <3>2, <3>3, <4>1
      <4>3. QED
        BY <4>2 DEF Rpc!Moves
    <3>4. CASE 2 \in Stage[r]
      <4>1. 3 \notin Stage[r] /\ 3 \notin Stage'[r] /\ Stage'[r] # {}
        BY <3>1, <3>4
      <4>2. Status[r] = "answered" /\ Status'[r] \in {"answered", "received"}
        BY <2>1, <3>2, <3>4, <4>1
      <4>3. QED
        BY <4>2 DEF Rpc!Moves
    <3>5. CASE 1 \in Stage[r]
      <4>1. 3 \notin Stage[r] /\ 2 \notin Stage[r] /\ 3 \notin Stage'[r] /\ 2 \notin Stage'[r] /\ Stage'[r] # {}
        BY <3>1, <3>5
      <4>2. Status[r] = "received" /\ Status'[r] = "received"
        BY <2>1, <3>2, <3>5, <4>1
      <4>3. QED
        BY <4>2
    <3>6. CASE Stage[r] = {}
      BY <2>1, <3>1, <3>2, <3>6
    <3>7. QED
      BY <2>1, <3>3, <3>4, <3>5, <3>6
  <2>5. QED
    BY <1>1, <2>1, <2>2, <2>3, <2>4
<1>5. QED
  BY <1>2, <1>3, <1>4

\* Over all sessions, each request is answered at most once, after it was queued.
THEOREM QueuesKeepThePromise == Spec => AnsweredAtMostOnce
<1>1. Init => Rpc!Init
  <2> SUFFICES ASSUME Init PROVE Rpc!Init
    OBVIOUS
  <2>1. \A r \in Req : StatusOf(r) = "new"
    BY DEF Init, Req, StatusOf
  <2>2. QED
    BY <2>1 DEF Rpc!Init
<1>2. AllOK /\ NumbersOK => StatusIsStage
  BY StatusFollowsStage
<1>3. /\ AllOK /\ NumbersOK /\ AllOK' /\ NumbersOK' /\ StatusIsStage /\ StatusIsStage'
      /\ [Next]_vars
      => [Rpc!Next]_([r \in Req |-> StatusOf(r)])
  <2> SUFFICES ASSUME AllOK, NumbersOK, StatusIsStage, StatusIsStage', [Next]_vars
               PROVE  Rpc!Next
    OBVIOUS
  <2>1. /\ Status' \in [Req -> {"new", "queued", "answered", "received", "gone"}]
        /\ \A r \in Req : Status'[r] = Status[r] \/ <<Status[r], Status'[r]>> \in Rpc!Moves
    BY StatusMoves
  <2>2. QED
    BY <2>1 DEF Rpc!Next, Status
<1>4. QED
  BY <1>1, <1>2, <1>3, NumbersInvariant, PTL DEF Spec, AnsweredAtMostOnce, Rpc!Spec

=============================================================================
