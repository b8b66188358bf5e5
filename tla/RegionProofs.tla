---------------------------- MODULE RegionProofs ----------------------------
(***************************************************************************)
(* A region file always opens, leaks nothing until something fails, and    *)
(* reads as a map of chunks, for any chunks, payloads, longest run and     *)
(* size of disk.                                                           *)
(*                                                                         *)
(* The argument: the header on disk and the one in memory differ only in   *)
(* entries a failed call left, so whatever is said of one is said of both; *)
(* the allocator has the runs of both and the one being written, so no     *)
(* sector that either names is written to, and a run is given back only    *)
(* when neither names it.                                                  *)
(***************************************************************************)
EXTENDS RegionFile, TLAPS

LEMMA RunAbsent == Run(Absent) = {}
BY DEF Run, Absent

\* A header that differs in one entry.
LEMMA TakenFacts ==
  ASSUME NEW f, NEW g, NEW c \in Chunks, \A b \in Chunks : b # c => g[b] = f[b]
  PROVE  Taken(g) \cup Run(f[c]) = Taken(f) \cup Run(g[c])
<1>1. \A h, s : s \in Taken(h) <=> s \in 0 .. FirstDataSector - 1 \/ \E b \in Chunks : s \in Run(h[b])
  BY DEF Taken
<1>2. \A s : s \in Taken(g) => s \in Taken(f) \/ s \in Run(g[c])
  BY <1>1
<1>3. \A s : s \in Taken(f) => s \in Taken(g) \/ s \in Run(f[c])
  BY <1>1
<1>4. \A h : Run(h[c]) \subseteq Taken(h)
  BY <1>1
<1> QED BY <1>2, <1>3, <1>4

LEMMA SizeTyped == \A p \in Payloads : Size[p] \in Nat \ {0}
BY RegionAssumption

LEMMA NeededTyped == op.payload \in Payloads => Needed \in Nat \ {0}
BY SizeTyped DEF Needed

\* A header cut short on its way to the disk has each entry from one header or
\* the other, and nothing else has changed.
LEMMA CutFacts ==
  ASSUME RegionTypeOK, NEW k, disk' = HeaderUpTo(k)
  PROVE  /\ disk'.data = disk.data /\ disk'.beside = disk.beside
         /\ disk'.locs \in [Chunks -> Location]
         /\ \A c \in Chunks : disk'.locs[c] \in Entries(c)
         /\ disk' \in [ locs : [Chunks -> Location], data : [Sectors -> Sector],
                        beside : [Chunks -> [payload : Payloads, scheme : Schemes] \cup {None}] ]
         /\ op.at # "header" => disk' = disk
<1> DEFINE mixed == [c \in Chunks |-> IF op.at = "header" /\ c < k THEN file.locs[c] ELSE disk.locs[c]]
<1>1. disk' = [disk EXCEPT !.locs = mixed]
  BY DEF HeaderUpTo, RegionTypeOK, Call
<1>2. /\ mixed \in [Chunks -> Location]
      /\ \A c \in Chunks : mixed[c] \in Entries(c)
      /\ op.at # "header" => mixed = disk.locs
  BY DEF RegionTypeOK, Call, Entries
<1> HIDE DEF mixed
<1>3. /\ disk'.locs = mixed /\ disk'.data = disk.data /\ disk'.beside = disk.beside
      /\ disk' \in [ locs : [Chunks -> Location], data : [Sectors -> Sector],
                     beside : [Chunks -> [payload : Payloads, scheme : Schemes] \cup {None}] ]
  BY <1>1, <1>2 DEF RegionTypeOK, Call
<1>4. op.at # "header" => disk' = disk
  BY <1>1, <1>2 DEF RegionTypeOK, Call
<1> QED BY <1>2, <1>3, <1>4

-----------------------------------------------------------------------------
(* Types. *)

LEMMA InitTyped == RegionInit => RegionTypeOK
<1> SUFFICES ASSUME RegionInit PROVE RegionTypeOK
  OBVIOUS
<1>1. Absent \in Location /\ Blank \in Sector
  BY DEF Absent, Location, Blank, Sector
<1> QED BY <1>1 DEF RegionInit, RegionTypeOK, Call, Idle, Closed

LEMMA SectorTyped ==
  ASSUME NEW p \in Payloads, NEW z \in Schemes, NEW i \in Nat
  PROVE  Stub(z) \in Sector /\ Part(p, z, i) \in Sector /\ Stub(z) # Blank /\ Part(p, z, i) # Blank
<1>1. Stub(z).external # Blank.external
  BY DEF Stub, Blank
<1>2. Part(p, z, i).payload # Blank.payload
  BY RegionAssumption DEF Part, Blank
<1> QED BY <1>1, <1>2 DEF Stub, Part, Sector

\* Every step keeps the types; the payload and scheme in hand are what RunsInv
\* says of a write.
LEMMA StepTyped == RegionTypeOK /\ RunsInv /\ [RegionNext]_regionVars => RegionTypeOK'
<1> SUFFICES ASSUME RegionTypeOK, RunsInv, [RegionNext]_regionVars
             PROVE  RegionTypeOK'
  OBVIOUS
<1> USE DEF RegionTypeOK, Call, FirstDataSector
<1>0. Absent \in Location
  BY DEF Absent, Location
<1>1. CASE Open
  <2>1. \A c \in Chunks : Run(disk.locs[c]) \subseteq Nat
    BY DEF Run, Location
  <2>2. file' \in [open : BOOLEAN, locs : [Chunks -> Location], used : SUBSET Nat]
    BY <1>1, <2>1 DEF Open, Taken
  <2>3. 0 .. 1 \subseteq file'.used
    BY <1>1 DEF Open, Taken
  <2> QED BY <1>1, <2>2, <2>3 DEF Open
<1>2. ASSUME NEW c \in Chunks, NEW p \in Payloads, NEW z \in Schemes, BeginWrite(c, p, z)
      PROVE  RegionTypeOK'
  <2>1. file.locs[c] \in Location
    OBVIOUS
  <2>2. op' \in Call
    BY <1>2, <2>1 DEF BeginWrite, Idle
  <2>3. tried' \in [Chunks -> SUBSET (Payloads \cup {None, Garbage})]
    BY <1>2 DEF BeginWrite
  <2>4. op'.chunk = c
    BY <1>2 DEF BeginWrite, Idle
  <2> QED BY <1>2, <2>2, <2>3, <2>4 DEF BeginWrite
<1>3. ASSUME NEW c \in Chunks, BeginRemove(c)
      PROVE  RegionTypeOK'
  <2>1. file.locs[c] \in Location
    OBVIOUS
  <2>2. op' \in Call
    BY <1>3, <2>1 DEF BeginRemove, Idle
  <2>3. tried' \in [Chunks -> SUBSET (Payloads \cup {None, Garbage})]
    BY <1>3 DEF BeginRemove
  <2>4. op'.chunk = c
    BY <1>3 DEF BeginRemove, Idle
  <2>5. /\ file' \in [open : BOOLEAN, locs : [Chunks -> Location], used : SUBSET Nat]
        /\ file'.open = file.open /\ file'.used = file.used
    BY <1>0, <1>3 DEF BeginRemove
  <2> QED BY <1>3, <2>2, <2>3, <2>4, <2>5 DEF BeginRemove
<1>4. CASE WriteExternal
  <2>1. op.payload \in Payloads /\ op.scheme \in Schemes /\ op.chunk \in Chunks
    BY <1>4 DEF WriteExternal, RunsInv
  <2>2. disk' \in [ locs : [Chunks -> Location], data : [Sectors -> Sector],
                    beside : [Chunks -> [payload : Payloads, scheme : Schemes] \cup {None}] ]
    BY <1>4, <2>1 DEF WriteExternal
  <2> QED BY <1>4, <2>2 DEF WriteExternal
<1>5. CASE AllocateRun
  <2>1. PICK first \in FirstFit(file.used, Needed) :
          /\ file' = [file EXCEPT !.used = @ \cup (first .. first + Needed - 1)]
          /\ op' = [op EXCEPT !.at = "sectors", !.first = first]
    BY <1>5 DEF AllocateRun
  <2>2. first \in Nat /\ Needed \in Nat
    BY <1>5, NeededTyped DEF FirstFit, Starts, AllocateRun, RunsInv
  <2>3. first .. first + Needed - 1 \subseteq Nat
    BY <2>2
  <2>4. /\ file' \in [open : BOOLEAN, locs : [Chunks -> Location], used : SUBSET Nat]
        /\ file'.open = file.open /\ file.used \subseteq file'.used
    BY <2>1, <2>3
  <2> QED BY <1>5, <2>1, <2>2, <2>4 DEF AllocateRun
<1>6. CASE WriteSector
  <2>1. op.payload \in Payloads /\ op.scheme \in Schemes /\ op.chunk \in Chunks
    BY <1>6 DEF WriteSector, RunsInv
  <2>2. op.written + 1 \in Nat /\ Needed \in Nat
    BY <2>1, NeededTyped
  <2>3. NewSector(op.written + 1) \in Sector
    BY <2>1, <2>2, SectorTyped DEF NewSector
  <2>4. disk' \in [ locs : [Chunks -> Location], data : [Sectors -> Sector],
                    beside : [Chunks -> [payload : Payloads, scheme : Schemes] \cup {None}] ]
    BY <1>6, <2>3 DEF WriteSector
  <2>5. [first |-> op.first, count |-> Needed] \in Location
    BY <2>2 DEF Location
  <2>6. /\ file' \in [open : BOOLEAN, locs : [Chunks -> Location], used : SUBSET Nat]
        /\ file'.open = file.open /\ file'.used = file.used
    BY <1>6, <2>5 DEF WriteSector
  <2>7. /\ op' \in Call
        /\ op'.chunk = op.chunk
    BY <1>6, <2>2 DEF WriteSector
  <2> QED BY <1>6, <2>1, <2>4, <2>6, <2>7 DEF WriteSector
<1>7. CASE WriteHeader
  BY <1>7 DEF WriteHeader
<1>8. CASE FreePrevious
  <2>1. 0 .. 1 \cap Run(op.previous) = {}
    BY <1>8, RunAbsent DEF FreePrevious, RunsInv, Run, Location
  <2>2. /\ file' \in [open : BOOLEAN, locs : [Chunks -> Location], used : SUBSET Nat]
        /\ file'.open = file.open /\ file'.used = file.used \ Run(op.previous)
    BY <1>8 DEF FreePrevious
  <2> QED BY <1>8, <2>1, <2>2 DEF FreePrevious
<1>9. CASE Unlink
  BY <1>0, <1>9 DEF Unlink, Idle
<1>10. CASE Fail
  BY <1>0, <1>10, CutFacts DEF Fail, Idle
<1>11. CASE Crash
  BY <1>0, <1>11, CutFacts DEF Crash, Idle, Closed
<1>12. CASE UNCHANGED regionVars
  BY <1>12 DEF regionVars
<1>13. ASSUME NEW c \in Chunks, RemoveAbsent(c)
       PROVE  RegionTypeOK'
  BY <1>0, <1>13 DEF RemoveAbsent, Idle
<1>14. CASE Answer
  BY <1>0, <1>14 DEF Answer, Idle
<1> QED BY <1>1, <1>2, <1>3, <1>4, <1>5, <1>6, <1>7, <1>8, <1>9, <1>10, <1>11, <1>12, <1>13,
           <1>14
        DEF RegionNext

-----------------------------------------------------------------------------
(* The runs. *)

\* What is written stays written: an entry that was sound is sound after a step
\* that blanks no sector.
LEMMA SoundStays ==
  ASSUME NEW loc, Sound(loc),
         \A s \in Sectors : disk.data[s] # Blank => disk'.data[s] # Blank
  PROVE  Sound(loc)'
BY DEF Sound, IsThere

\* A run at a first fit is behind the header and apart from what is used.
LEMMA FirstFitApart ==
  ASSUME NEW used, NEW n, NEW first \in FirstFit(used, n), used \subseteq Nat
  PROVE  first \in Nat /\ first >= FirstDataSector /\ (first .. first + n - 1) \cap used = {}
BY DEF FirstFit, Starts, Free, FirstDataSector

\* The entries after a step are among those before it, or the run just written.
LEMMA InitRuns == RegionInit => RunsInv
<1> SUFFICES ASSUME RegionInit PROVE RunsInv
  OBVIOUS
<1>1. \A c \in Chunks : \A loc \in Entries(c) : loc = Absent
  BY DEF RegionInit, Closed, Entries
<1> QED BY <1>1, RunAbsent DEF RegionInit, RunsInv, Sound, Apart, Closed, Idle

LEMMA OpenRuns == RegionTypeOK /\ RunsInv /\ Open => RunsInv'
<1> SUFFICES ASSUME RegionTypeOK, RunsInv, Open PROVE RunsInv'
  OBVIOUS
<1>1. /\ disk' = disk /\ op' = op /\ op.at = "idle" /\ failed' = 0
      /\ file'.open = TRUE /\ file'.locs = disk.locs
      /\ file'.used = Taken(disk.locs)
  BY DEF Open, RegionTypeOK, Call
<1>2. \A c \in Chunks : Entries(c)' = {disk.locs[c]}
  BY <1>1 DEF Entries
<1>3. \A c \in Chunks : \A loc \in Entries(c)' : loc \in Entries(c) /\ Sound(loc)'
  BY <1>1, <1>2, SoundStays DEF RunsInv, Entries
<1>4. Apart'
  BY <1>3 DEF RunsInv, Apart
<1>5. \A c \in Chunks : \A loc \in Entries(c)' : Run(loc) \subseteq file'.used
  BY <1>1, <1>2 DEF Taken
<1>6. InHand' = {}
  BY <1>1 DEF InHand
<1>7. file'.used = Taken(file'.locs) \cup InHand'
  BY <1>1, <1>6
<1> QED BY <1>1, <1>3, <1>4, <1>5, <1>7 DEF RunsInv

LEMMA BeginWriteRuns ==
  ASSUME RegionTypeOK, RunsInv,
         NEW c \in Chunks, NEW p \in Payloads, NEW z \in Schemes, BeginWrite(c, p, z)
  PROVE  RunsInv'
<1>1. /\ disk' = disk /\ file' = file /\ failed' = failed /\ file.open
      /\ op'.at \in {"external", "allocate"} /\ op'.chunk = c
      /\ op'.payload = p /\ op'.scheme = z /\ op'.previous = file.locs[c] /\ op'.written = 0
      /\ op.at = "idle"
  BY DEF BeginWrite, Idle
<1>2. \A b \in Chunks : Entries(b)' = Entries(b)
  BY <1>1 DEF Entries
<1>3. \A loc : Sound(loc) => Sound(loc)'
  BY <1>1 DEF Sound, IsThere
<1>4. Apart'
  BY <1>2 DEF RunsInv, Apart
<1>5. InHand = {} /\ InHand' = {}
  BY <1>1 DEF InHand
<1> QED BY <1>1, <1>2, <1>3, <1>4, <1>5 DEF RunsInv

LEMMA BeginRemoveRuns ==
  ASSUME RegionTypeOK, RunsInv, NEW c \in Chunks, BeginRemove(c)
  PROVE  RunsInv'
<1>1. /\ disk' = disk /\ failed' = failed /\ file.open /\ op.at = "idle"
      /\ file'.open = file.open /\ file'.used = file.used
      /\ file'.locs = [file.locs EXCEPT ![c] = Absent]
      /\ op'.at = "header" /\ op'.previous = file.locs[c]
  BY DEF BeginRemove, Idle, RegionTypeOK, Call
<1>2. \A b \in Chunks : \A loc \in Entries(b)' : loc = Absent \/ loc \in Entries(b)
  BY <1>1 DEF Entries, RegionTypeOK, Call
<1>3. \A b \in Chunks : \A loc \in Entries(b)' : Sound(loc)'
  BY <1>1, <1>2 DEF RunsInv, Sound, IsThere
<1>4. Apart'
  BY <1>2, RunAbsent DEF RunsInv, Apart
<1>5. \A b \in Chunks : \A loc \in Entries(b)' : Run(loc) \subseteq file'.used
  BY <1>1, <1>2, RunAbsent DEF RunsInv
<1>6. /\ op'.previous = Absent \/ op'.previous.first >= FirstDataSector
      /\ \A b \in Chunks : Run(op'.previous) \cap Run(file'.locs[b]) = {}
  <2>1. file.locs[c] \in Entries(c) /\ Sound(file.locs[c])
    BY DEF Entries, RunsInv
  <2>2. ASSUME NEW b \in Chunks PROVE Run(op'.previous) \cap Run(file'.locs[b]) = {}
    <3>1. CASE b = c
      BY <1>1, <3>1, RunAbsent DEF RegionTypeOK, Call
    <3>2. CASE b # c
      <4>1. file'.locs[b] = file.locs[b] /\ file.locs[b] \in Entries(b)
        BY <1>1, <3>2 DEF RegionTypeOK, Call, Entries
      <4> QED BY <1>1, <2>1, <3>2, <4>1 DEF RunsInv, Apart
    <3> QED BY <3>1, <3>2
  <2> QED BY <1>1, <2>1, <2>2 DEF Sound
<1>7. Taken(file'.locs) \cup Run(file.locs[c]) = Taken(file.locs)
  <2> DEFINE f == file.locs
             g == file'.locs
  <2>1. g[c] = Absent /\ \A b \in Chunks : b # c => g[b] = f[b]
    BY <1>1 DEF RegionTypeOK, Call
  <2> HIDE DEF f, g
  <2>2. Taken(g) \cup Run(f[c]) = Taken(f) \cup Run(g[c])
    BY <2>1, TakenFacts
  <2>3. Taken(g) \cup Run(f[c]) = Taken(f)
    BY <2>1, <2>2, RunAbsent
  <2> QED BY <2>3 DEF f, g
<1>8. InHand = {} /\ InHand' = Run(file.locs[c])
  BY <1>1 DEF InHand
<1>9. file'.open /\ failed' = 0 => file'.used = Taken(file'.locs) \cup InHand'
  BY <1>1, <1>7, <1>8 DEF RunsInv
<1> QED BY <1>1, <1>3, <1>4, <1>5, <1>6, <1>9 DEF RunsInv

LEMMA WriteExternalRuns ==
  ASSUME RegionTypeOK, RunsInv, WriteExternal
  PROVE  RunsInv'
<1>1. /\ disk'.locs = disk.locs /\ disk'.data = disk.data
      /\ file' = file /\ failed' = failed
      /\ op.at = "external" /\ op'.at = "allocate" /\ op'.payload = op.payload
      /\ op'.scheme = op.scheme /\ op'.previous = op.previous /\ op'.chunk = op.chunk
      /\ op'.written = op.written
  BY DEF WriteExternal, RegionTypeOK, Call
<1>2. \A b \in Chunks : Entries(b)' = Entries(b)
  BY <1>1 DEF Entries
<1>3. \A loc : Sound(loc) => Sound(loc)'
  BY <1>1 DEF Sound, IsThere
<1>4. Apart'
  BY <1>2 DEF RunsInv, Apart
<1>5. InHand = {} /\ InHand' = {}
  BY <1>1 DEF InHand
<1> QED BY <1>1, <1>2, <1>3, <1>4, <1>5 DEF RunsInv

LEMMA AllocateRuns ==
  ASSUME RegionTypeOK, RunsInv, AllocateRun
  PROVE  RunsInv'
<1>1. PICK first \in FirstFit(file.used, Needed) :
        /\ file' = [file EXCEPT !.used = @ \cup (first .. first + Needed - 1)]
        /\ op' = [op EXCEPT !.at = "sectors", !.first = first]
  BY DEF AllocateRun
<1>2. /\ op.at = "allocate" /\ disk' = disk /\ failed' = failed
      /\ op.payload \in Payloads /\ op.scheme \in Schemes
      /\ op.previous = file.locs[op.chunk] /\ op.chunk \in Chunks /\ file.open
  BY DEF AllocateRun, RunsInv, RegionTypeOK, Call
<1>3. /\ file'.open = file.open /\ file'.locs = file.locs
      /\ file'.used = file.used \cup (first .. first + Needed - 1)
  BY <1>1 DEF RegionTypeOK, Call
<1>4. /\ op'.at = "sectors" /\ op'.first = first /\ op'.payload = op.payload
      /\ op'.scheme = op.scheme /\ op'.chunk = op.chunk /\ op'.previous = op.previous
      /\ op'.written = op.written
  BY <1>1 DEF RegionTypeOK, Call
<1>5. /\ first \in Nat /\ first >= FirstDataSector
      /\ (first .. first + Needed - 1) \cap file.used = {}
  BY FirstFitApart DEF RegionTypeOK, Call
<1>6. Needed' = Needed /\ NewRun' = first .. first + Needed - 1
  BY <1>4 DEF Needed, NewRun
<1>7. \A b \in Chunks : Entries(b)' = Entries(b)
  BY <1>2, <1>3 DEF Entries
<1>8. \A loc : Sound(loc) => Sound(loc)'
  BY <1>2 DEF Sound, IsThere
<1>9. Apart'
  BY <1>7 DEF RunsInv, Apart
<1>10. op.written = 0
  BY <1>2 DEF RunsInv
<1>11. Needed \in Nat \ {0}
  BY <1>2, NeededTyped
<1>12. \A b \in Chunks : \A loc \in Entries(b)' :
         Run(loc) \subseteq file'.used /\ Run(loc) \cap NewRun' = {}
  BY <1>2, <1>3, <1>5, <1>6, <1>7 DEF RunsInv
<1>13. InHand = {} /\ InHand' = NewRun'
  BY <1>2, <1>4 DEF InHand
<1>14. file'.open /\ failed' = 0 => file'.used = Taken(file'.locs) \cup InHand'
  <2>1. file.open /\ failed = 0 => file.used = Taken(file.locs) \cup InHand
    BY DEF RunsInv
  <2>2. file'.used = file.used \cup NewRun'
    BY <1>3, <1>6
  <2> QED BY <1>2, <1>3, <1>13, <2>1, <2>2
<1>15. /\ op'.first >= FirstDataSector /\ op'.written < Needed'
       /\ NewRun' \subseteq file'.used
       /\ \A s \in op'.first .. op'.first + op'.written - 1 : IsThere(s)'
  BY <1>3, <1>4, <1>5, <1>6, <1>10, <1>11
<1> QED BY <1>2, <1>3, <1>4, <1>7, <1>8, <1>9, <1>12, <1>14, <1>15 DEF RunsInv

LEMMA WriteSectorRuns ==
  ASSUME RegionTypeOK, RunsInv, WriteSector
  PROVE  RunsInv'
<1> DEFINE s == op.first + op.written
           c == op.chunk
           loc == [first |-> op.first, count |-> Needed]
<1>1. /\ op.at = "sectors" /\ s \in Sectors /\ file.open /\ c \in Chunks
      /\ op.payload \in Payloads /\ op.scheme \in Schemes /\ op.previous = file.locs[c]
      /\ op.first \in Nat /\ op.first >= FirstDataSector
      /\ op.written \in Nat /\ op.written < Needed
  BY DEF WriteSector, RunsInv, RegionTypeOK, Call
<1>2. Needed \in Nat \ {0}
  BY <1>1, NeededTyped
<1>3. /\ disk'.locs = disk.locs /\ failed' = failed
      /\ disk'.data = [disk.data EXCEPT ![s] = NewSector(op.written + 1)]
      /\ file'.open = file.open /\ file'.used = file.used
  BY DEF WriteSector, RegionTypeOK, Call
<1>4. /\ op'.payload = op.payload /\ op'.scheme = op.scheme /\ op'.chunk = c
      /\ op'.first = op.first /\ op'.previous = op.previous /\ op'.written = op.written + 1
  BY DEF WriteSector, RegionTypeOK, Call
<1>5. Needed' = Needed /\ NewRun' = NewRun /\ Run(loc) = NewRun
  BY <1>4 DEF Needed, NewRun, Run
<1>6. NewSector(op.written + 1) # Blank
  BY <1>1, SectorTyped DEF NewSector
<1>7. \A t \in Sectors : t = s \/ disk.data[t] # Blank => disk'.data[t] # Blank
  BY <1>1, <1>3, <1>6 DEF RegionTypeOK, Call
<1>8. \A l : Sound(l) => Sound(l)'
  BY <1>7 DEF Sound, IsThere
<1>9. \A t \in op.first .. s : IsThere(t)'
  <2>1. \A t \in op.first .. s - 1 : IsThere(t)
    BY <1>1 DEF RunsInv
  <2>2. \A t \in op.first .. s : t = s \/ t \in op.first .. s - 1
    BY <1>1
  <2> QED BY <1>1, <1>7, <2>1, <2>2 DEF IsThere
<1>10. /\ NewRun \subseteq file.used
       /\ \A b \in Chunks : \A l \in Entries(b) : Run(l) \cap NewRun = {} /\ Sound(l)
  BY <1>1 DEF RunsInv
<1>11. CASE op.written + 1 # Needed
  <2>1. file' = file /\ op'.at = "sectors"
    BY <1>1, <1>11 DEF WriteSector, RegionTypeOK, Call
  <2>2. \A b \in Chunks : Entries(b)' = Entries(b)
    BY <1>3, <2>1 DEF Entries
  <2>3. Apart'
    BY <2>2 DEF RunsInv, Apart
  <2>4. InHand' = InHand
    BY <1>1, <1>5, <2>1 DEF InHand
  <2>5. op'.written < Needed' /\ op'.first + op'.written - 1 = s
    BY <1>1, <1>2, <1>4, <1>5, <1>11
  <2>6. /\ \A b \in Chunks : \A l \in Entries(b)' : Sound(l)' /\ Run(l) \subseteq file'.used
        /\ file'.open /\ failed' = 0 => file'.used = Taken(file'.locs) \cup InHand'
    BY <1>1, <1>3, <1>8, <2>1, <2>2, <2>4 DEF RunsInv
  <2> QED BY <1>1, <1>3, <1>4, <1>5, <1>9, <1>10, <2>1, <2>2, <2>3, <2>5, <2>6 DEF RunsInv
<1>12. CASE op.written + 1 = Needed
  <2>1. /\ file'.locs = [file.locs EXCEPT ![c] = loc] /\ op'.at = "header"
    BY <1>1, <1>12 DEF WriteSector, RegionTypeOK, Call
  <2>2. \A b \in Chunks : \A l \in Entries(b)' : l \in Entries(b) \/ (b = c /\ l = loc)
    BY <1>1, <1>3, <2>1 DEF Entries, RegionTypeOK, Call
  <2>3. ASSUME NEW l, l = loc PROVE Sound(l)'
    <3>1. l.first + l.count - 1 = s /\ l.first = op.first
      BY <1>1, <1>2, <1>12, <2>3
    <3>2. Run(l) = op.first .. s
      BY <3>1 DEF Run
    <3>3. \A t \in Run(l) : IsThere(t)'
      BY <1>9, <3>2
    <3>4. l.first >= FirstDataSector /\ l.count >= 1
      BY <1>1, <1>2, <2>3
    <3> QED BY <3>3, <3>4 DEF Sound
  <2>4. \A b \in Chunks : \A l \in Entries(b)' : Sound(l)' /\ Run(l) \subseteq file'.used
    <3>1. \A b \in Chunks : \A l \in Entries(b) : Run(l) \subseteq file.used
      BY <1>1 DEF RunsInv
    <3> QED BY <1>3, <1>5, <1>8, <1>10, <2>2, <2>3, <3>1
  <2>5. Apart'
    <3>1. Apart
      BY DEF RunsInv
    <3> QED BY <1>5, <1>10, <2>2, <3>1 DEF Apart
  <2>6. op'.previous = Absent \/ op'.previous.first >= FirstDataSector
    BY <1>1, <1>4, <1>10 DEF Entries, Sound
  <2>7. \A b \in Chunks : Run(op'.previous) \cap Run(file'.locs[b]) = {}
    <3>1. op'.previous \in Entries(c)
      BY <1>1, <1>4 DEF Entries
    <3>2. ASSUME NEW b \in Chunks PROVE Run(op'.previous) \cap Run(file'.locs[b]) = {}
      <4>1. CASE b = c
        BY <1>1, <1>5, <1>10, <2>1, <3>1, <4>1 DEF RegionTypeOK, Call
      <4>2. CASE b # c
        <5>1. file'.locs[b] \in Entries(b)
          BY <2>1, <4>2 DEF Entries, RegionTypeOK, Call
        <5> QED BY <1>1, <3>1, <4>2, <5>1 DEF RunsInv, Apart
      <4> QED BY <4>1, <4>2
    <3> QED BY <3>2
  <2>8. Taken(file'.locs) \cup Run(op.previous) = Taken(file.locs) \cup NewRun
    <3> DEFINE f == file.locs
               g == file'.locs
    <3>1. c \in Chunks /\ g[c] = loc /\ f[c] = op.previous /\ \A b \in Chunks : b # c => g[b] = f[b]
      BY <1>1, <2>1 DEF RegionTypeOK, Call
    <3> HIDE DEF c, f, g
    <3>a. c \in Chunks /\ \A b \in Chunks : b # c => g[b] = f[b]
      BY <3>1
    <3>2. Taken(g) \cup Run(f[c]) = Taken(f) \cup Run(g[c])
      BY ONLY <3>a, TakenFacts
    <3>3. Taken(g) \cup Run(op.previous) = Taken(f) \cup NewRun
      BY <1>5, <3>1, <3>2
    <3> QED BY <3>3 DEF f, g
  <2>9. InHand = NewRun /\ InHand' = Run(op.previous)
    BY <1>1, <1>4, <2>1 DEF InHand
  <2>10. file'.open /\ failed' = 0 => file'.used = Taken(file'.locs) \cup InHand'
    BY <1>3, <2>8, <2>9 DEF RunsInv
  <2> QED BY <1>1, <1>3, <2>1, <2>4, <2>5, <2>6, <2>7, <2>10 DEF RunsInv
<1> QED BY <1>11, <1>12

LEMMA WriteHeaderRuns ==
  ASSUME RegionTypeOK, RunsInv, WriteHeader
  PROVE  RunsInv'
<1>1. /\ disk'.locs = file.locs /\ disk'.data = disk.data /\ file' = file /\ failed' = failed
      /\ op.at = "header" /\ op'.at = "free" /\ op'.previous = op.previous /\ file.open
  BY DEF WriteHeader, RegionTypeOK, Call
<1>2. \A b \in Chunks : \A loc \in Entries(b)' : loc \in Entries(b)
  BY <1>1 DEF Entries
<1>3. \A loc : Sound(loc) => Sound(loc)'
  BY <1>1 DEF Sound, IsThere
<1>4. Apart'
  BY <1>2 DEF RunsInv, Apart
<1>5. InHand' = InHand
  BY <1>1 DEF InHand
<1> QED BY <1>1, <1>2, <1>3, <1>4, <1>5 DEF RunsInv

LEMMA FreePreviousRuns ==
  ASSUME RegionTypeOK, RunsInv, FreePrevious
  PROVE  RunsInv'
<1>1. /\ disk' = disk /\ failed' = failed /\ file.open
      /\ file'.open = file.open /\ file'.locs = file.locs
      /\ file'.used = file.used \ Run(op.previous)
      /\ op.at = "free" /\ op'.at = "unlink" /\ disk.locs = file.locs
  BY DEF FreePrevious, RegionTypeOK, Call, RunsInv
<1>2. \A b \in Chunks : Entries(b)' = {file.locs[b]} /\ file.locs[b] \in Entries(b)
  BY <1>1 DEF Entries
<1>3. \A loc : Sound(loc) => Sound(loc)'
  BY <1>1 DEF Sound, IsThere
<1>4. Apart'
  BY <1>2 DEF RunsInv, Apart
<1>5. \A b \in Chunks : Run(op.previous) \cap Run(file.locs[b]) = {}
  BY <1>1 DEF RunsInv
<1>6. \A b \in Chunks : \A loc \in Entries(b)' : Sound(loc)' /\ Run(loc) \subseteq file'.used
  BY <1>1, <1>2, <1>3, <1>5 DEF RunsInv
<1>7. (0 .. FirstDataSector - 1) \cap Run(op.previous) = {}
  <2>1. op.previous = Absent \/ op.previous.first >= FirstDataSector
    BY <1>1 DEF RunsInv
  <2>2. op.previous \in Location
    BY DEF RegionTypeOK, Call
  <2> QED BY <2>1, <2>2, RunAbsent DEF Run, Location, FirstDataSector
<1>8. Taken(file.locs) \cap Run(op.previous) = {}
  BY <1>5, <1>7 DEF Taken
<1>9. InHand = Run(op.previous) /\ InHand' = {}
  BY <1>1 DEF InHand
<1>10. file'.open /\ failed' = 0 => file'.used = Taken(file'.locs) \cup InHand'
  BY <1>1, <1>8, <1>9 DEF RunsInv
<1> QED BY <1>1, <1>4, <1>6, <1>10 DEF RunsInv

LEMMA UnlinkRuns ==
  ASSUME RegionTypeOK, RunsInv, Unlink
  PROVE  RunsInv'
<1>1. /\ disk'.locs = disk.locs /\ disk'.data = disk.data /\ file' = file /\ failed' = failed
      /\ op.at = "unlink" /\ op'.at = "idle" /\ file.open
  BY DEF Unlink, Idle, RegionTypeOK, Call
<1>2. \A b \in Chunks : Entries(b)' = Entries(b)
  BY <1>1 DEF Entries
<1>3. \A loc : Sound(loc) => Sound(loc)'
  BY <1>1 DEF Sound, IsThere
<1>4. Apart'
  BY <1>2 DEF RunsInv, Apart
<1>5. InHand = {} /\ InHand' = {}
  BY <1>1 DEF InHand
<1> QED BY <1>1, <1>2, <1>3, <1>4, <1>5 DEF RunsInv

LEMMA FailRuns ==
  ASSUME RegionTypeOK, RunsInv, Fail
  PROVE  RunsInv'
<1>1. PICK k \in Cuts : disk' = HeaderUpTo(k)
  BY DEF Fail
<1>2. file' = file /\ op'.at = "idle" /\ file.open /\ failed' # 0
  BY DEF Fail, Idle, RegionTypeOK, Call
<1>3. /\ disk'.data = disk.data
      /\ \A c \in Chunks : disk'.locs[c] \in Entries(c)
  BY <1>1, CutFacts
<1>4. \A b \in Chunks : \A loc \in Entries(b)' : loc \in Entries(b)
  BY <1>2, <1>3 DEF Entries
<1>5. \A loc : Sound(loc) => Sound(loc)'
  BY <1>3 DEF Sound, IsThere
<1>6. Apart'
  BY <1>4 DEF RunsInv, Apart
<1> QED BY <1>2, <1>4, <1>5, <1>6 DEF RunsInv

LEMMA CrashRuns ==
  ASSUME RegionTypeOK, RunsInv, Crash
  PROVE  RunsInv'
<1>1. PICK k \in Cuts : disk' = HeaderUpTo(k)
  BY DEF Crash
<1>2. file' = Closed /\ ~file'.open /\ op'.at = "idle" /\ \A c \in Chunks : file'.locs[c] = Absent
  BY DEF Crash, Idle, Closed
<1>3. /\ disk'.data = disk.data
      /\ \A c \in Chunks : disk'.locs[c] \in Entries(c)
  BY <1>1, CutFacts
<1>4. \A b \in Chunks : \A loc \in Entries(b)' : loc \in Entries(b) \/ loc = Absent
  BY <1>2, <1>3 DEF Entries
<1>5. \A loc : Sound(loc) => Sound(loc)'
  BY <1>3 DEF Sound, IsThere
<1>6. Apart'
  BY <1>4, RunAbsent DEF RunsInv, Apart
<1>7. \A b \in Chunks : \A loc \in Entries(b)' : Sound(loc)'
  BY <1>4, <1>5 DEF RunsInv, Sound
<1> QED BY <1>2, <1>6, <1>7 DEF RunsInv, Closed

\* A removal that finds nothing, and its answer, change no file.
LEMMA AbsentStep ==
  ASSUME RegionTypeOK, (\E c \in Chunks : RemoveAbsent(c)) \/ Answer
  PROVE  /\ disk' = disk /\ file' = file /\ tried' = tried /\ failed' = failed
         /\ op.at \in {"idle", "answer"} /\ op'.at \in {"idle", "answer"} /\ file.open
<1>1. ASSUME NEW c \in Chunks, RemoveAbsent(c)
      PROVE  /\ disk' = disk /\ file' = file /\ tried' = tried /\ failed' = failed
             /\ op.at = "idle" /\ op'.at = "answer" /\ file.open
  BY <1>1 DEF RemoveAbsent, Idle
<1>2. ASSUME Answer
      PROVE  /\ disk' = disk /\ file' = file /\ tried' = tried /\ failed' = failed
             /\ op.at = "answer" /\ op'.at = "idle" /\ file.open
  BY <1>2 DEF Answer, Idle, RegionTypeOK
<1> QED BY <1>1, <1>2

LEMMA AbsentRuns ==
  ASSUME RegionTypeOK, RunsInv, (\E c \in Chunks : RemoveAbsent(c)) \/ Answer
  PROVE  RunsInv'
<1>1. /\ disk' = disk /\ file' = file /\ failed' = failed /\ file.open
      /\ op.at \in {"idle", "answer"} /\ op'.at \in {"idle", "answer"}
  BY AbsentStep
<1>2. \A b \in Chunks : Entries(b)' = Entries(b)
  BY <1>1 DEF Entries
<1>3. \A loc : Sound(loc) => Sound(loc)'
  BY <1>1 DEF Sound, IsThere
<1>4. Apart'
  BY <1>2 DEF RunsInv, Apart
<1>5. InHand = {} /\ InHand' = {}
  BY <1>1 DEF InHand
<1> QED BY <1>1, <1>2, <1>3, <1>4, <1>5 DEF RunsInv

LEMMA StepRuns == RegionTypeOK /\ RunsInv /\ [RegionNext]_regionVars => RunsInv'
<1> SUFFICES ASSUME RegionTypeOK, RunsInv, [RegionNext]_regionVars
             PROVE  RunsInv'
  OBVIOUS
<1>1. CASE UNCHANGED regionVars
  <2>1. disk' = disk /\ file' = file /\ op' = op /\ failed' = failed
    BY <1>1 DEF regionVars
  <2>2. \A b \in Chunks : Entries(b)' = Entries(b)
    BY <2>1 DEF Entries
  <2>3. /\ \A loc : Sound(loc) => Sound(loc)'
        /\ \A s : IsThere(s) => IsThere(s)'
    BY <2>1 DEF Sound, IsThere
  <2>4. Apart'
    BY <2>2 DEF RunsInv, Apart
  <2>5. Needed' = Needed /\ NewRun' = NewRun
    BY <2>1 DEF NewRun, Needed
  <2>6. InHand' = InHand
    BY <2>1, <2>5 DEF InHand
  <2> QED BY <2>1, <2>2, <2>3, <2>4, <2>5, <2>6 DEF RunsInv
<1> QED BY <1>1, OpenRuns, BeginWriteRuns, BeginRemoveRuns, WriteExternalRuns, AllocateRuns,
           WriteSectorRuns, WriteHeaderRuns, FreePreviousRuns, UnlinkRuns, FailRuns, CrashRuns,
           AbsentRuns
        DEF RegionNext

LEMMA RunsAreClean == RegionTypeOK /\ RunsInv => OpensClean
<1> SUFFICES ASSUME RegionTypeOK, RunsInv, NEW c \in Chunks, c \in Damage(disk) PROVE FALSE
  BY DEF OpensClean, Damage
<1> DEFINE loc == disk.locs[c]
<1>1. loc # Absent /\ loc \in Entries(c) /\ Sound(loc)
  BY DEF Damage, Entries, RunsInv
<1>2. ASSUME NEW s \in Run(loc) PROVE Reaches(disk, s)
  <2>1. s \in FirstDataSector .. DiskEnd /\ disk.data[s] # Blank
    BY <1>1 DEF Sound, IsThere, Sectors
  <2>2. s \in s .. DiskEnd
    BY <2>1, RegionAssumption DEF FirstDataSector
  <2> QED BY <2>1, <2>2 DEF Reaches
<1>3. \A b \in Chunks \ {c} : Run(disk.locs[b]) \cap Run(loc) = {}
  BY DEF RunsInv, Apart, Entries
<1>4. loc.first >= FirstDataSector /\ loc.count >= 1 /\ loc \in Location
  BY <1>1 DEF Sound, RegionTypeOK, Call
<1>5. ~(loc.first < FirstDataSector \/ loc.count = 0)
  BY <1>4 DEF Location, FirstDataSector
<1> QED BY <1>2, <1>3, <1>5 DEF Damage

\* Every variable keeps its type, and the runs in the header, on disk and in
\* memory, are written, apart from each other and known to the allocator.
THEOREM RegionInvariant == RegionSpec => [](RegionTypeOK /\ RunsInv)
BY InitTyped, InitRuns, StepTyped, StepRuns, PTL DEF RegionSpec

\* A region file opens whatever happened to it: at every moment, in the middle
\* of any call and after any failure, its header is undamaged.
THEOREM RegionOpensClean == RegionSpec => []OpensClean
BY RunsAreClean, RegionInvariant, PTL

\* As long as no call fails, the allocator has exactly the header and the runs
\* of the chunks there are: a chunk rewritten or removed gives its run back.
THEOREM RegionLeaksNothing == RegionSpec => []NoSectorLeaks
<1>1. RunsInv => NoSectorLeaks
  BY DEF RunsInv, NoSectorLeaks, InHand
<1> QED BY <1>1, RegionInvariant, PTL

-----------------------------------------------------------------------------
(***************************************************************************)
(* Whoever opens a region file after an accident reads a map of chunks:    *)
(* the steps of RegionFile are steps of ChunkMap.                          *)
(*                                                                         *)
(* No sector that an entry names is written to (see above), so what an     *)
(* entry reads is settled when its last sector is written; the header in   *)
(* memory may reach the disk at any later moment, and by then what it      *)
(* reads has been tried.                                                   *)
(***************************************************************************)
\* What is read at an entry depends on its sectors and the file beside.
LEMMA ReadStays ==
  ASSUME NEW d, NEW e, NEW c, NEW loc \in Location,
         loc # Absent => loc.count >= 1,
         \A s \in Run(loc) : e.data[s] = d.data[s],
         e.beside[c] = d.beside[c]
  PROVE  ReadAt(e, c, loc) = ReadAt(d, c, loc)
<1>1. CASE loc = Absent
  BY <1>1 DEF ReadAt
<1>2. CASE loc # Absent
  <2>1. loc.first \in Run(loc) /\ \A i \in 1..loc.count : loc.first + i - 1 \in Run(loc)
    BY <1>2 DEF Run, Location
  <2>2. e.data[loc.first] = d.data[loc.first]
    BY <2>1
  <2>3. \A i \in 1..loc.count : e.data[loc.first + i - 1] = d.data[loc.first + i - 1]
    BY <2>1
  <2>4. ReadInline(e, loc) = ReadInline(d, loc)
    BY <2>2, <2>3 DEF ReadInline
  <2>5. ReadExternal(e, c, loc) = ReadExternal(d, c, loc)
    BY <2>2 DEF ReadExternal
  <2> QED BY <2>2, <2>4, <2>5 DEF ReadAt
<1> QED BY <1>1, <1>2

LEMMA SameRead ==
  ASSUME NEW d, NEW e, e.data = d.data, e.beside = d.beside
  PROVE  \A c, loc : ReadAt(e, c, loc) = ReadAt(d, c, loc)
BY DEF ReadAt, ReadInline, ReadExternal

\* An inline entry's reading has nothing to do with the file beside.
LEMMA InlineRead ==
  ASSUME NEW d, NEW e, NEW c, NEW loc, e.data = d.data,
         loc = Absent \/ ~d.data[loc.first].external
  PROVE  ReadAt(e, c, loc) = ReadAt(d, c, loc)
BY DEF ReadAt, ReadInline

LEMMA EntryTyped ==
  ASSUME RegionTypeOK, RunsInv, NEW c \in Chunks, NEW loc \in Entries(c)
  PROVE  /\ loc \in Location
         /\ loc # Absent => loc.count >= 1 /\ loc.first \in Run(loc)
<1>1. loc \in Location /\ Sound(loc)
  BY DEF RegionTypeOK, Call, RunsInv, Entries
<1> QED BY <1>1 DEF Sound, Run, Location

-----------------------------------------------------------------------------
LEMMA InitContent == RegionInit => ContentInv
<1> SUFFICES ASSUME RegionInit PROVE ContentInv
  OBVIOUS
<1>1. \A c \in Chunks : \A loc \in Entries(c) : loc = Absent
  BY DEF RegionInit, Closed, Entries
<1>2. op.at = "idle" /\ ~file.open
  BY DEF RegionInit, Idle, Closed
<1> QED BY <1>1, <1>2 DEF ContentInv, CallTried, Promised, StubsHaveFiles, CallBeside,
                          CallWritten, CallStored

\* What the steps that write neither sectors nor files keep.
LEMMA QuietContent ==
  ASSUME ContentInv, disk'.data = disk.data, disk'.beside = disk.beside,
         \A c \in Chunks : \A loc \in Entries(c)' : loc = Absent \/ loc \in Entries(c)
  PROVE  StubsHaveFiles' /\ \A c, loc : ReadAt(disk', c, loc) = ReadAt(disk, c, loc)
<1>1. \A c, loc : ReadAt(disk', c, loc) = ReadAt(disk, c, loc)
  BY SameRead
<1>2. StubsHaveFiles'
  BY DEF ContentInv, StubsHaveFiles
<1> QED BY <1>1, <1>2

LEMMA OpenContent == RegionTypeOK /\ RunsInv /\ ContentInv /\ Open => ContentInv'
<1> SUFFICES ASSUME RegionTypeOK, RunsInv, ContentInv, Open PROVE ContentInv'
  OBVIOUS
<1>1. disk' = disk /\ file'.locs = disk.locs /\ op'.at = "idle"
  BY DEF Open, RegionTypeOK, Call
<1>2. StubsHaveFiles'
  BY <1>1, QuietContent DEF Entries
<1>3. Promised'
  BY <1>1 DEF Promised
<1> QED BY <1>1, <1>2, <1>3 DEF ContentInv, CallTried, CallBeside, CallWritten, CallStored

LEMMA BeginWriteContent ==
  ASSUME RegionTypeOK, RunsInv, ContentInv,
         NEW c \in Chunks, NEW p \in Payloads, NEW z \in Schemes, BeginWrite(c, p, z)
  PROVE  ContentInv'
<1>1. /\ disk' = disk /\ file' = file /\ op'.chunk = c /\ op'.payload = p
      /\ op'.at = IF IsExternal(p) THEN "external" ELSE "allocate"
      /\ tried' = [tried EXCEPT ![c] = @ \cup {p} \cup (IF IsExternal(p) /\ Clash(c, z) THEN {Garbage} ELSE {})]
      /\ op'.scheme = z
  BY DEF BeginWrite, Idle
<1>2. \A b \in Chunks : tried[b] \subseteq tried'[b]
  BY <1>1 DEF RegionTypeOK, Call
<1>3. /\ p \in tried'[c]
      /\ IsExternal(p) /\ Clash(c, z)' => Garbage \in tried'[c]
  <2>1. Clash(c, z)' = Clash(c, z)
    BY <1>1 DEF Clash, Entries
  <2>2. tried'[c] = tried[c] \cup {p} \cup (IF IsExternal(p) /\ Clash(c, z) THEN {Garbage} ELSE {})
    BY <1>1 DEF RegionTypeOK, Call
  <2> QED BY <2>1, <2>2
<1>4. StubsHaveFiles'
  BY <1>1, QuietContent DEF Entries
<1>5. Promised'
  BY <1>1, <1>2 DEF ContentInv, Promised
<1>6. CallBeside'
  BY <1>1 DEF CallBeside, IsExternal
<1> QED BY <1>1, <1>3, <1>4, <1>5, <1>6 DEF ContentInv, CallTried, CallWritten, CallStored, Clash

LEMMA BeginRemoveContent ==
  ASSUME RegionTypeOK, RunsInv, ContentInv, NEW c \in Chunks, BeginRemove(c)
  PROVE  ContentInv'
<1>1. /\ disk' = disk /\ file'.locs = [file.locs EXCEPT ![c] = Absent] /\ file'.open = file.open
      /\ op'.at = "header" /\ op'.chunk = c /\ op'.payload = None
      /\ tried' = [tried EXCEPT ![c] = @ \cup {None}]
  BY DEF BeginRemove, Idle, RegionTypeOK, Call
<1>2. \A b \in Chunks : tried[b] \subseteq tried'[b]
  BY <1>1 DEF RegionTypeOK, Call
<1>3. None \in tried'[c] /\ file'.locs[c] = Absent
  BY <1>1 DEF RegionTypeOK, Call
<1>4. \A b \in Chunks : b # c => file'.locs[b] = file.locs[b]
  BY <1>1 DEF RegionTypeOK, Call
<1>5. StubsHaveFiles'
  <2>1. \A b \in Chunks : \A loc \in Entries(b)' : loc = Absent \/ loc \in Entries(b)
    BY <1>1, <1>3, <1>4 DEF Entries
  <2> QED BY <1>1, <2>1, QuietContent
<1>6. \A d : ReadAt(d, c, Absent) = None
  BY DEF ReadAt
<1>7. Promised'
  BY <1>1, <1>2, <1>3, <1>4, <1>6 DEF ContentInv, Promised
<1>8. CallStored'
  BY <1>1, <1>3, <1>6 DEF CallStored
<1> QED BY <1>1, <1>3, <1>5, <1>7, <1>8 DEF ContentInv, CallTried, CallBeside, CallWritten

\* A stub reads the file beside, whichever call moved it there, or nothing
\* sensible when the two tell of different compressions.
LEMMA ExternalReads ==
  ASSUME RegionTypeOK, RunsInv, ContentInv, WriteExternal,
         NEW c \in Chunks, NEW loc \in Entries(c)
  PROVE  \/ ReadAt(disk', c, loc) = ReadAt(disk, c, loc)
         \/ c = op.chunk /\ ReadAt(disk', c, loc) \in tried[c]
<1>1. /\ disk'.data = disk.data
      /\ disk'.beside = [disk.beside EXCEPT ![op.chunk] =
                           [payload |-> op.payload, scheme |-> op.scheme]]
      /\ op.payload \in Payloads /\ op.scheme \in Schemes /\ op.chunk \in Chunks
      /\ op.at = "external"
  BY DEF WriteExternal, RegionTypeOK, Call, RunsInv
<1>2. CASE c # op.chunk
  <2>1. disk'.beside[c] = disk.beside[c]
    BY <1>1, <1>2 DEF RegionTypeOK, Call
  <2> QED BY <1>1, <2>1 DEF ReadAt, ReadInline, ReadExternal
<1>3. CASE loc = Absent \/ ~disk.data[loc.first].external
  BY <1>1, <1>3, InlineRead
<1>4. CASE c = op.chunk /\ loc # Absent /\ disk.data[loc.first].external
  <2>1. disk'.beside[c] = [payload |-> op.payload, scheme |-> op.scheme]
    BY <1>1, <1>4 DEF RegionTypeOK, Call
  <2>2. disk'.beside[c] # None
    BY <1>1, <2>1, RegionAssumption
  <2>3. op.payload \in tried[c]
    BY <1>1, <1>4 DEF ContentInv, CallTried
  <2>4. CASE disk.data[loc.first].scheme = op.scheme
    <3>1. ReadExternal(disk', c, loc) = op.payload
      BY <1>1, <2>1, <2>2, <2>4 DEF ReadExternal
    <3> QED BY <1>1, <1>4, <2>3, <3>1 DEF ReadAt
  <2>5. CASE disk.data[loc.first].scheme # op.scheme
    <3>1. ReadExternal(disk', c, loc) = Garbage
      BY <1>1, <2>1, <2>5 DEF ReadExternal
    <3>2. Clash(op.chunk, op.scheme)
      BY <1>1, <1>4, <2>5 DEF Clash
    <3>3. Garbage \in tried[c]
      BY <1>1, <1>4, <3>2 DEF ContentInv, CallTried
    <3> QED BY <1>1, <1>4, <3>1, <3>3 DEF ReadAt
  <2> QED BY <2>4, <2>5
<1> QED BY <1>2, <1>3, <1>4

LEMMA WriteExternalContent ==
  ASSUME RegionTypeOK, RunsInv, ContentInv, WriteExternal
  PROVE  ContentInv'
<1>1. /\ disk'.data = disk.data /\ disk'.locs = disk.locs
      /\ disk'.beside = [disk.beside EXCEPT ![op.chunk] =
                           [payload |-> op.payload, scheme |-> op.scheme]]
      /\ file' = file /\ tried' = tried /\ op.at = "external"
      /\ op'.at = "allocate" /\ op'.payload = op.payload /\ op'.scheme = op.scheme
      /\ op'.chunk = op.chunk
      /\ op.payload \in Payloads /\ op.scheme \in Schemes /\ op.chunk \in Chunks
  BY DEF WriteExternal, RegionTypeOK, Call, RunsInv
<1>2. op.payload \in tried[op.chunk]
  BY <1>1 DEF ContentInv, CallTried
<1>3. \A c \in Chunks : Entries(c)' = Entries(c)
  BY <1>1 DEF Entries
<1>4. disk'.beside[op.chunk] = [payload |-> op.payload, scheme |-> op.scheme]
  BY <1>1 DEF RegionTypeOK, Call
<1>5. \A c \in Chunks : disk.beside[c] # None => disk'.beside[c] # None
  BY <1>1, RegionAssumption DEF RegionTypeOK, Call
<1>6. StubsHaveFiles'
  BY <1>1, <1>3, <1>5 DEF ContentInv, StubsHaveFiles
<1>7. Promised'
  <2> SUFFICES ASSUME file.open, NEW c \in Chunks, file.locs[c] # disk.locs[c]
               PROVE  ReadAt(disk', c, file.locs[c]) \in tried[c]
    BY <1>1 DEF Promised
  <2>1. ReadAt(disk, c, file.locs[c]) \in tried[c]
    BY DEF ContentInv, Promised
  <2>2. file.locs[c] \in Entries(c)
    BY DEF Entries
  <2>3. \/ ReadAt(disk', c, file.locs[c]) = ReadAt(disk, c, file.locs[c])
        \/ c = op.chunk /\ ReadAt(disk', c, file.locs[c]) \in tried[c]
    BY <2>2, ExternalReads
  <2> QED BY <2>1, <2>3
<1> QED BY <1>1, <1>2, <1>4, <1>6, <1>7
    DEF ContentInv, CallTried, CallBeside, CallWritten, CallStored

LEMMA AllocateContent ==
  ASSUME RegionTypeOK, RunsInv, ContentInv, AllocateRun
  PROVE  ContentInv'
<1>1. /\ disk' = disk /\ file'.locs = file.locs /\ file'.open = file.open /\ tried' = tried
      /\ op.at = "allocate" /\ op'.at = "sectors" /\ op'.payload = op.payload
      /\ op'.scheme = op.scheme /\ op'.chunk = op.chunk /\ op'.written = op.written
  BY DEF AllocateRun, RegionTypeOK, Call
<1>2. op.written = 0
  BY <1>1 DEF RunsInv
<1>3. StubsHaveFiles' /\ Promised'
  BY <1>1, QuietContent DEF Entries, ContentInv, Promised
<1>4. CallBeside'
  BY <1>1 DEF ContentInv, CallBeside, IsExternal
<1> QED BY <1>1, <1>2, <1>3, <1>4 DEF ContentInv, CallTried, CallWritten, CallStored

\* The sector written is in no entry's run: what the entries read is unmoved.
LEMMA WriteSectorReads ==
  ASSUME RegionTypeOK, RunsInv, WriteSector, NEW c \in Chunks, NEW loc \in Entries(c)
  PROVE  /\ ReadAt(disk', c, loc) = ReadAt(disk, c, loc)
         /\ loc # Absent => disk'.data[loc.first] = disk.data[loc.first]
<1> DEFINE s == op.first + op.written
<1>1. /\ op.at = "sectors" /\ disk'.beside = disk.beside
      /\ disk'.data = [disk.data EXCEPT ![s] = NewSector(op.written + 1)]
  BY DEF WriteSector, RegionTypeOK, Call
<1>2. s \in NewRun
  <2>1. op.first \in Nat /\ op.written \in Nat /\ op.written < Needed /\ Needed \in Nat
    BY <1>1, NeededTyped DEF RunsInv, RegionTypeOK, Call
  <2> QED BY <2>1 DEF NewRun
<1>3. Run(loc) \cap NewRun = {}
  BY <1>1 DEF RunsInv
<1>4. \A t \in Run(loc) : disk'.data[t] = disk.data[t]
  <2>1. \A t \in Run(loc) : t \in Sectors /\ t # s
    BY <1>2, <1>3, RunAbsent DEF RunsInv, Sound, IsThere
  <2> QED BY <1>1, <2>1 DEF RegionTypeOK, Call
<1>5. loc \in Location /\ (loc # Absent => loc.count >= 1 /\ loc.first \in Run(loc))
  BY EntryTyped
<1>6. ReadAt(disk', c, loc) = ReadAt(disk, c, loc)
  <2> DEFINE d == disk
             e == disk'
  <2>1. (\A t \in Run(loc) : e.data[t] = d.data[t]) /\ e.beside[c] = d.beside[c]
    BY <1>1, <1>4
  <2> HIDE DEF d, e
  <2>2. ReadAt(e, c, loc) = ReadAt(d, c, loc)
    BY <1>5, <2>1, ReadStays
  <2> QED BY <2>2 DEF d, e
<1> QED BY <1>4, <1>5, <1>6

\* What a run reads once every sector of it is the call's.
LEMMA WrittenReads ==
  ASSUME NEW d, NEW c, op.payload \in Payloads, op.scheme \in Schemes,
         NEW loc, loc = [first |-> op.first, count |-> Needed], loc # Absent,
         \A i \in 1..Needed : d.data[op.first + i - 1] = NewSector(i),
         op.first \in Nat,
         IsExternal(op.payload) => d.beside[c] = [payload |-> op.payload, scheme |-> op.scheme]
  PROVE  /\ ReadAt(d, c, loc) = op.payload
         /\ d.data[loc.first].external = IsExternal(op.payload)
<1>1. Needed \in Nat \ {0}
  BY NeededTyped
<1>2. loc.first = op.first /\ loc.count = Needed /\ 1 \in 1..Needed /\ op.first + 1 - 1 = op.first
  BY <1>1
<1>3. d.data[loc.first] = NewSector(1)
  BY <1>2
<1>4. CASE IsExternal(op.payload)
  <2>1. d.data[loc.first].external = TRUE /\ d.data[loc.first].scheme = op.scheme
    BY <1>3, <1>4 DEF NewSector, Stub
  <2>2. d.beside[c] # None /\ d.beside[c].scheme = op.scheme /\ d.beside[c].payload = op.payload
    BY <1>4, RegionAssumption
  <2> QED BY <1>4, <2>1, <2>2 DEF ReadAt, ReadExternal
<1>5. CASE ~IsExternal(op.payload)
  <2>1. d.data[loc.first] = Part(op.payload, op.scheme, 1)
    BY <1>3, <1>5 DEF NewSector
  <2>2. \A i \in 1..Needed : d.data[op.first + i - 1] = [Part(op.payload, op.scheme, 1) EXCEPT !.part = i]
    BY <1>5 DEF NewSector, Part
  <2>3. ReadInline(d, loc) = op.payload
    <3>1. d.data[loc.first].payload = op.payload
      BY <2>1 DEF Part
    <3>2. \A i \in 1..loc.count : d.data[loc.first + i - 1] = [d.data[loc.first] EXCEPT !.part = i]
      BY <1>2, <2>1, <2>2
    <3> QED BY <3>1, <3>2 DEF ReadInline
  <2>4. d.data[loc.first].external = FALSE
    BY <2>1 DEF Part
  <2>5. ReadAt(d, c, loc) = op.payload
    BY <2>3, <2>4 DEF ReadAt
  <2>6. IsExternal(op.payload) = FALSE
    BY <1>5 DEF IsExternal
  <2> QED BY <2>4, <2>5, <2>6
<1> QED BY <1>4, <1>5

LEMMA WriteSectorContent ==
  ASSUME RegionTypeOK, RunsInv, ContentInv, WriteSector
  PROVE  ContentInv'
<1> DEFINE s == op.first + op.written
           c == op.chunk
           loc == [first |-> op.first, count |-> Needed]
<1>1. /\ op.at = "sectors" /\ s \in Sectors /\ file.open /\ c \in Chunks
      /\ op.payload \in Payloads /\ op.scheme \in Schemes
      /\ op.first \in Nat /\ op.first >= FirstDataSector /\ op.written \in Nat
      /\ op.written < Needed /\ Needed \in Nat \ {0}
  BY NeededTyped DEF WriteSector, RunsInv, RegionTypeOK, Call
<1>2. /\ disk'.locs = disk.locs /\ disk'.beside = disk.beside /\ tried' = tried
      /\ disk'.data = [disk.data EXCEPT ![s] = NewSector(op.written + 1)]
      /\ file'.open = file.open
      /\ op'.payload = op.payload /\ op'.scheme = op.scheme /\ op'.chunk = c
      /\ op'.first = op.first /\ op'.written = op.written + 1
      /\ op'.at = IF op.written + 1 = Needed THEN "header" ELSE "sectors"
  BY <1>1 DEF WriteSector, RegionTypeOK, Call
<1>3. \A b \in Chunks : \A l \in Entries(b) :
         /\ ReadAt(disk', b, l) = ReadAt(disk, b, l)
         /\ l # Absent => disk'.data[l.first] = disk.data[l.first]
  BY WriteSectorReads
<1>4. op.payload \in tried[c] /\ CallTried'
  BY <1>1, <1>2 DEF ContentInv, CallTried
<1>5. /\ IsExternal(op.payload) => disk.beside[c] = [payload |-> op.payload, scheme |-> op.scheme]
      /\ CallBeside'
  BY <1>1, <1>2, RegionAssumption DEF ContentInv, CallBeside, IsExternal
<1>6. \A i \in 1..op.written + 1 : disk'.data[op.first + i - 1] = NewSector(i)
  <2> SUFFICES ASSUME NEW i \in 1..op.written + 1
               PROVE  disk'.data[op.first + i - 1] = NewSector(i)
    OBVIOUS
  <2>1. CASE i = op.written + 1
    <3>1. op.first + i - 1 = s
      BY <1>1, <2>1
    <3> QED BY <1>1, <1>2, <2>1, <3>1 DEF RegionTypeOK, Call
  <2>2. CASE i # op.written + 1
    <3>1. i \in 1..op.written /\ op.first + i - 1 # s /\ op.first + i - 1 \in op.first .. s - 1
      BY <1>1, <2>2
    <3>2. op.first + i - 1 \in Sectors
      BY <1>1, <3>1 DEF RunsInv, IsThere
    <3>3. disk.data[op.first + i - 1] = NewSector(i)
      BY <1>1, <3>1 DEF ContentInv, CallWritten
    <3> QED BY <1>2, <3>1, <3>2, <3>3 DEF RegionTypeOK, Call
  <2> QED BY <2>1, <2>2
<1>7. \A i : NewSector(i)' = NewSector(i)
  BY <1>2 DEF NewSector, IsExternal
<1>8. CallWritten'
  BY <1>2, <1>6, <1>7 DEF CallWritten
<1>9. CASE op.written + 1 # Needed
  <2>1. file' = file
    BY <1>9 DEF WriteSector
  <2>2. \A b \in Chunks : Entries(b)' = Entries(b)
    BY <1>2, <2>1 DEF Entries
  <2>3. StubsHaveFiles'
    BY <1>2, <1>3, <2>2 DEF ContentInv, StubsHaveFiles
  <2>4. Promised'
    BY <1>2, <1>3, <2>1 DEF ContentInv, Promised, Entries
  <2> QED BY <1>2, <1>4, <1>5, <1>8, <1>9, <2>3, <2>4 DEF ContentInv, CallStored
<1>10. CASE op.written + 1 = Needed
  <2>1. file'.locs = [file.locs EXCEPT ![c] = loc]
    BY <1>1, <1>10 DEF WriteSector, RegionTypeOK, Call
  <2>2. file'.locs[c] = loc /\ \A b \in Chunks : b # c => file'.locs[b] = file.locs[b]
    BY <1>1, <2>1 DEF RegionTypeOK, Call
  <2>3. loc # Absent
    BY <1>1 DEF Absent, FirstDataSector
  <2>4. /\ ReadAt(disk', c, loc) = op.payload
        /\ disk'.data[loc.first].external = IsExternal(op.payload)
    <3> DEFINE e == disk'
               k == op.chunk
    <3>1. /\ \A i \in 1..Needed : e.data[op.first + i - 1] = NewSector(i)
          /\ IsExternal(op.payload) =>
               e.beside[k] = [payload |-> op.payload, scheme |-> op.scheme]
      BY <1>2, <1>5, <1>6, <1>10
    <3> HIDE DEF e, k
    <3>2. /\ ReadAt(e, k, loc) = op.payload
          /\ e.data[loc.first].external = IsExternal(op.payload)
      BY <1>1, <2>3, <3>1, WrittenReads
    <3> QED BY <3>2 DEF e, k
  <2>5. Promised'
    BY <1>2, <1>3, <1>4, <2>2, <2>4 DEF ContentInv, Promised, Entries
  <2>6. CallStored'
    BY <1>1, <1>2, <2>2, <2>4, RegionAssumption DEF CallStored, IsExternal
  <2>7. StubsHaveFiles'
    <3>1. \A b \in Chunks : \A l \in Entries(b)' : l \in Entries(b) \/ (b = c /\ l = loc)
      BY <1>2, <2>2 DEF Entries
    <3>2. disk'.data[loc.first].external =>
            disk'.beside[c] # None /\ disk'.data[loc.first].scheme \in Schemes
      <4> SUFFICES ASSUME disk'.data[loc.first].external
                   PROVE  disk'.beside[c] # None /\ disk'.data[loc.first].scheme \in Schemes
        OBVIOUS
      <4>1. IsExternal(op.payload)
        BY <2>4
      <4>2. disk'.beside[c] # None
        BY <1>1, <1>2, <1>5, <4>1, RegionAssumption
      <4>3. 1 \in 1..op.written + 1 /\ op.first + 1 - 1 = op.first
        BY <1>1
      <4>4. disk'.data[op.first] = Stub(op.scheme)
        BY <1>6, <4>1, <4>3 DEF NewSector
      <4> QED BY <1>1, <4>2, <4>4 DEF Stub
    <3> QED BY <1>2, <1>3, <3>1, <3>2 DEF ContentInv, StubsHaveFiles
  <2> QED BY <1>4, <1>5, <1>8, <2>5, <2>6, <2>7 DEF ContentInv
<1> QED BY <1>9, <1>10

LEMMA WriteHeaderContent ==
  ASSUME RegionTypeOK, RunsInv, ContentInv, WriteHeader
  PROVE  ContentInv'
<1>1. /\ disk'.locs = file.locs /\ disk'.data = disk.data /\ disk'.beside = disk.beside
      /\ file' = file /\ tried' = tried
      /\ op.at = "header" /\ op'.at = "free" /\ op'.chunk = op.chunk
      /\ op'.payload = op.payload /\ op'.scheme = op.scheme
  BY DEF WriteHeader, RegionTypeOK, Call
<1>2. StubsHaveFiles' /\ \A c, loc : ReadAt(disk', c, loc) = ReadAt(disk, c, loc)
  BY <1>1, QuietContent DEF Entries
<1>3. Promised'
  BY <1>1 DEF Promised
<1>4. CallTried' /\ CallBeside'
  BY <1>1 DEF ContentInv, CallTried, CallBeside, IsExternal
<1>5. CallStored'
  BY <1>1, <1>2 DEF ContentInv, CallStored, IsExternal
<1> QED BY <1>1, <1>2, <1>3, <1>4, <1>5 DEF ContentInv, CallWritten

LEMMA FreePreviousContent ==
  ASSUME RegionTypeOK, RunsInv, ContentInv, FreePrevious
  PROVE  ContentInv'
<1>1. /\ disk' = disk /\ file'.locs = file.locs /\ file'.open = file.open /\ tried' = tried
      /\ op.at = "free" /\ op'.at = "unlink" /\ op'.chunk = op.chunk
      /\ op'.payload = op.payload /\ op'.scheme = op.scheme
  BY DEF FreePrevious, RegionTypeOK, Call
<1>2. StubsHaveFiles' /\ Promised'
  BY <1>1, QuietContent DEF Entries, ContentInv, Promised
<1>3. CallTried' /\ CallBeside'
  BY <1>1 DEF ContentInv, CallTried, CallBeside, IsExternal
<1>4. CallStored'
  BY <1>1 DEF ContentInv, CallStored, IsExternal
<1> QED BY <1>1, <1>2, <1>3, <1>4 DEF ContentInv, CallWritten

\* When the file beside goes, no entry of its chunk is a stub: nothing read moves.
LEMMA UnlinkReads ==
  ASSUME RegionTypeOK, RunsInv, ContentInv, Unlink, NEW c \in Chunks, NEW loc \in Entries(c)
  PROVE  /\ ReadAt(disk', c, loc) = ReadAt(disk, c, loc)
         /\ loc # Absent /\ disk.data[loc.first].external => disk'.beside[c] = disk.beside[c]
<1>1. /\ disk'.data = disk.data /\ op.at = "unlink" /\ op.chunk \in Chunks
      /\ disk.locs = file.locs
  BY DEF Unlink, RegionTypeOK, Call, RunsInv
<1>2. CASE disk'.beside[c] = disk.beside[c]
  BY <1>1, <1>2 DEF ReadAt, ReadInline, ReadExternal
<1>3. CASE disk'.beside[c] # disk.beside[c]
  <2>1. c = op.chunk /\ ~(op.payload # None /\ IsExternal(op.payload))
    BY <1>3 DEF Unlink, RegionTypeOK, Call
  <2>2. loc = file.locs[op.chunk]
    BY <1>1, <2>1 DEF Entries
  <2>3. loc = Absent \/ ~disk.data[loc.first].external
    BY <1>1, <2>1, <2>2 DEF ContentInv, CallStored
  <2>4. ReadAt(disk', c, loc) = ReadAt(disk, c, loc)
    BY <1>1, <2>3, InlineRead
  <2> QED BY <2>3, <2>4
<1> QED BY <1>2, <1>3

LEMMA UnlinkContent ==
  ASSUME RegionTypeOK, RunsInv, ContentInv, Unlink
  PROVE  ContentInv'
<1>1. /\ disk'.data = disk.data /\ disk'.locs = disk.locs /\ file' = file
      /\ op.at = "unlink" /\ op'.at = "idle" /\ disk.locs = file.locs
  BY DEF Unlink, Idle, RegionTypeOK, Call, RunsInv
<1>2. \A c \in Chunks : Entries(c)' = Entries(c)
  BY <1>1 DEF Entries
<1>3. StubsHaveFiles'
  BY <1>1, <1>2, UnlinkReads DEF ContentInv, StubsHaveFiles
<1> QED BY <1>1, <1>3
    DEF ContentInv, CallTried, Promised, CallBeside, CallWritten, CallStored

LEMMA FailContent ==
  ASSUME RegionTypeOK, RunsInv, ContentInv, Fail
  PROVE  ContentInv'
<1>1. PICK k \in Cuts : disk' = HeaderUpTo(k)
  BY DEF Fail
<1>2. file' = file /\ tried' = tried /\ op'.at = "idle"
  BY DEF Fail, Idle
<1>3. /\ disk'.data = disk.data /\ disk'.beside = disk.beside
      /\ \A c \in Chunks : disk'.locs[c] \in Entries(c)
  BY <1>1, CutFacts
<1>4. StubsHaveFiles' /\ \A c, loc : ReadAt(disk', c, loc) = ReadAt(disk, c, loc)
  BY <1>2, <1>3, QuietContent DEF Entries
<1>5. Promised'
  BY <1>2, <1>3, <1>4 DEF ContentInv, Promised, Entries
<1> QED BY <1>2, <1>4, <1>5 DEF ContentInv, CallTried, CallBeside, CallWritten, CallStored

LEMMA CrashContent ==
  ASSUME RegionTypeOK, RunsInv, ContentInv, Crash
  PROVE  ContentInv'
<1>1. PICK k \in Cuts : disk' = HeaderUpTo(k)
  BY DEF Crash
<1>2. ~file'.open /\ op'.at = "idle" /\ \A c \in Chunks : file'.locs[c] = Absent
  BY DEF Crash, Idle, Closed
<1>3. /\ disk'.data = disk.data /\ disk'.beside = disk.beside
      /\ \A c \in Chunks : disk'.locs[c] \in Entries(c)
  BY <1>1, CutFacts
<1>4. StubsHaveFiles'
  BY <1>2, <1>3, QuietContent DEF Entries
<1> QED BY <1>2, <1>4
    DEF ContentInv, CallTried, Promised, CallBeside, CallWritten, CallStored

LEMMA AbsentContent ==
  ASSUME RegionTypeOK, RunsInv, ContentInv, (\E c \in Chunks : RemoveAbsent(c)) \/ Answer
  PROVE  ContentInv'
<1>1. /\ disk' = disk /\ file' = file /\ tried' = tried
      /\ op'.at \in {"idle", "answer"}
  BY AbsentStep
<1>2. StubsHaveFiles' /\ Promised'
  BY <1>1, QuietContent DEF Entries, ContentInv, Promised
<1>3. CallStored'
  <2>1. CASE op'.at = "idle"
    BY <2>1 DEF CallStored
  <2>2. CASE op'.at = "answer"
    <3>1. PICK c \in Chunks : RemoveAbsent(c)
      BY <2>2 DEF Answer, Idle
    <3>2. file.locs[c] = Absent /\ op'.chunk = c /\ op'.payload = None
      BY <3>1 DEF RemoveAbsent, Idle
    <3> QED BY <1>1, <2>2, <3>2 DEF CallStored, ReadAt
  <2> QED BY <1>1, <2>1, <2>2
<1> QED BY <1>1, <1>2, <1>3 DEF ContentInv, CallTried, CallBeside, CallWritten

LEMMA StepContent ==
  RegionTypeOK /\ RunsInv /\ ContentInv /\ [RegionNext]_regionVars => ContentInv'
<1> SUFFICES ASSUME RegionTypeOK, RunsInv, ContentInv, [RegionNext]_regionVars
             PROVE  ContentInv'
  OBVIOUS
<1>1. CASE UNCHANGED regionVars
  <2>1. disk' = disk /\ file' = file /\ op' = op /\ tried' = tried
    BY <1>1 DEF regionVars
  <2>2. StubsHaveFiles' /\ Promised'
    BY <2>1, QuietContent DEF Entries, ContentInv, Promised
  <2>3. CallTried' /\ CallBeside'
    BY <2>1 DEF ContentInv, CallTried, CallBeside, Clash, Entries
  <2>4. \A i : NewSector(i)' = NewSector(i)
    BY <2>1 DEF NewSector, IsExternal
  <2>5. CallWritten'
    BY <2>1, <2>4 DEF ContentInv, CallWritten
  <2>6. CallStored'
    BY <2>1 DEF ContentInv, CallStored
  <2> QED BY <2>2, <2>3, <2>5, <2>6 DEF ContentInv
<1> QED BY <1>1, OpenContent, BeginWriteContent, BeginRemoveContent, WriteExternalContent,
           AllocateContent, WriteSectorContent, WriteHeaderContent, FreePreviousContent,
           UnlinkContent, FailContent, CrashContent, AbsentContent
        DEF RegionNext

-----------------------------------------------------------------------------
(* The steps. *)

\* An undamaged header reads what its entries read.
LEMMA StoredIs ==
  RegionTypeOK /\ RunsInv => Stored = [c \in Chunks |-> ReadAt(disk, c, disk.locs[c])]
BY RunsAreClean DEF OpensClean, Stored, Read

\* Where no entry on disk moves and no reading does, nothing stored does.
LEMMA StoredStays ==
  ASSUME RegionTypeOK, RunsInv, RegionTypeOK', RunsInv', disk'.locs = disk.locs,
         \A c \in Chunks : \A loc \in Entries(c) : ReadAt(disk', c, loc) = ReadAt(disk, c, loc)
  PROVE  Stored' = Stored
<1>1. Stored = [c \in Chunks |-> ReadAt(disk, c, disk.locs[c])]
  BY StoredIs
<1>2. (Stored = [c \in Chunks |-> ReadAt(disk, c, disk.locs[c])])'
  BY StoredIs, PTL
<1>3. \A c \in Chunks : disk.locs[c] \in Entries(c)
  BY DEF Entries
<1> QED BY <1>1, <1>2, <1>3

\* Where the header in memory reaches the disk, wholly or in part, what is
\* stored now was stored before or had been tried.
LEMMA StoredChanges ==
  ASSUME RegionTypeOK, RunsInv, RegionTypeOK', RunsInv', ContentInv, file.open,
         disk'.data = disk.data, disk'.beside = disk.beside,
         \A c \in Chunks : disk'.locs[c] \in Entries(c)
  PROVE  \A c \in Chunks : Stored'[c] \in {Stored[c]} \cup tried[c]
<1>1. Stored = [c \in Chunks |-> ReadAt(disk, c, disk.locs[c])]
  BY StoredIs
<1>2. (Stored = [c \in Chunks |-> ReadAt(disk, c, disk.locs[c])])'
  BY StoredIs, PTL
<1>3. \A c, loc : ReadAt(disk', c, loc) = ReadAt(disk, c, loc)
  BY SameRead
<1> SUFFICES ASSUME NEW c \in Chunks
             PROVE  ReadAt(disk, c, disk'.locs[c]) \in {ReadAt(disk, c, disk.locs[c])} \cup tried[c]
  BY <1>1, <1>2, <1>3
<1>4. CASE disk'.locs[c] = disk.locs[c]
  BY <1>4
<1>5. CASE disk'.locs[c] = file.locs[c]
  BY <1>5 DEF ContentInv, Promised
<1> QED BY <1>4, <1>5 DEF Entries

\* Every step of a region file is a step of the map of chunks it stands for.
LEMMA StepMaps ==
  ASSUME RegionTypeOK, RunsInv, ContentInv, RegionTypeOK', RunsInv',
         [RegionNext]_regionVars
  PROVE  [AsMap!Next]_(AsMap!vars)
<1> USE DEF AsMap!vars
<1>1. CASE Open
  <2>1. disk' = disk /\ op' = op /\ op.at = "idle" /\ tried' = [c \in Chunks |-> {}]
    BY <1>1 DEF Open, RegionTypeOK, Call
  <2>2. Stored' = Stored /\ Doing = None /\ Doing' = None
    BY <2>1 DEF Stored, Doing, Read, ReadAt, ReadInline, ReadExternal, Damage, Reaches
  <2>3. AsMap!Settle
    BY <2>1, <2>2 DEF AsMap!Settle
  <2> QED BY <2>3 DEF AsMap!Next
<1>2. ASSUME NEW c \in Chunks, NEW p \in Payloads, NEW z \in Schemes, BeginWrite(c, p, z)
      PROVE  [AsMap!Next]_(AsMap!vars)
  <2>1. /\ disk' = disk /\ op.at = "idle" /\ op'.at \in {"external", "allocate"}
        /\ op'.chunk = c /\ op'.payload = p
        /\ tried' = [tried EXCEPT ![c] = @ \cup {p} \cup (IF IsExternal(p) /\ Clash(c, z) THEN {Garbage} ELSE {})]
    BY <1>2 DEF BeginWrite, Idle
  <2>2. Stored' = Stored
    BY <2>1, StoredStays
  <2>3. Doing = None /\ Doing' = [chunk |-> c, value |-> p]
    BY <2>1 DEF Doing
  <2>4. AsMap!Begin(c, p, IsExternal(p) /\ Clash(c, z))
    BY <2>1, <2>2, <2>3 DEF AsMap!Begin
  <2>5. (IsExternal(p) /\ Clash(c, z)) \in BOOLEAN
    BY DEF Clash, IsExternal
  <2> QED BY <2>4, <2>5 DEF AsMap!Next, AsMap!Value
<1>3. ASSUME NEW c \in Chunks, BeginRemove(c)
      PROVE  [AsMap!Next]_(AsMap!vars)
  <2>1. /\ disk' = disk /\ op.at = "idle" /\ op'.at = "header" /\ op'.chunk = c
        /\ op'.payload = None /\ tried' = [tried EXCEPT ![c] = @ \cup {None}]
    BY <1>3 DEF BeginRemove, Idle
  <2>2. Stored' = Stored
    BY <2>1, StoredStays
  <2>3. Doing = None /\ Doing' = [chunk |-> c, value |-> None]
    BY <2>1 DEF Doing
  <2>4. AsMap!Begin(c, None, FALSE)
    BY <2>1, <2>2, <2>3 DEF AsMap!Begin
  <2> QED BY <2>4 DEF AsMap!Next, AsMap!Value
<1>4. CASE WriteExternal
  <2>1. /\ disk'.locs = disk.locs /\ tried' = tried /\ op.chunk \in Chunks
        /\ op.at = "external" /\ op'.at = "allocate" /\ op'.chunk = op.chunk
        /\ op'.payload = op.payload /\ op.payload \in Payloads
    BY <1>4 DEF WriteExternal, RegionTypeOK, Call, RunsInv
  <2>2. Doing' = Doing /\ Doing # None
    BY <2>1, RegionAssumption DEF Doing
  <2>4. \A c \in Chunks : Stored'[c] \in {Stored[c]} \cup tried[c]
    <3>1. Stored = [c \in Chunks |-> ReadAt(disk, c, disk.locs[c])]
      BY StoredIs
    <3>2. (Stored = [c \in Chunks |-> ReadAt(disk, c, disk.locs[c])])'
      BY StoredIs, PTL
    <3>3. ASSUME NEW c \in Chunks
          PROVE  ReadAt(disk', c, disk.locs[c]) \in {ReadAt(disk, c, disk.locs[c])} \cup tried[c]
      <4>1. disk.locs[c] \in Entries(c)
        BY DEF Entries
      <4>2. \/ ReadAt(disk', c, disk.locs[c]) = ReadAt(disk, c, disk.locs[c])
            \/ c = op.chunk /\ ReadAt(disk', c, disk.locs[c]) \in tried[c]
        BY <1>4, <4>1, ExternalReads
      <4> QED BY <4>2
    <3> QED BY <2>1, <3>1, <3>2, <3>3
  <2>5. AsMap!Work
    BY <2>1, <2>2, <2>4 DEF AsMap!Work, AsMap!Changes
  <2> QED BY <2>5 DEF AsMap!Next
<1>5. CASE AllocateRun
  <2>1. /\ disk' = disk /\ tried' = tried /\ op.at = "allocate" /\ op'.at = "sectors"
        /\ op'.chunk = op.chunk /\ op'.payload = op.payload
    BY <1>5 DEF AllocateRun, RegionTypeOK, Call
  <2>2. Stored' = Stored
    BY <2>1, StoredStays
  <2> QED BY <2>1, <2>2 DEF Doing
<1>6. CASE WriteSector
  <2>1. /\ disk'.locs = disk.locs /\ tried' = tried /\ op.at = "sectors"
        /\ op'.at \in {"sectors", "header"}
        /\ op'.chunk = op.chunk /\ op'.payload = op.payload
    BY <1>6 DEF WriteSector, RegionTypeOK, Call
  <2>2. Stored' = Stored
    BY <1>6, <2>1, StoredStays, WriteSectorReads
  <2> QED BY <2>1, <2>2 DEF Doing
<1>7. CASE WriteHeader
  <2>1. /\ disk'.locs = file.locs /\ disk'.data = disk.data /\ disk'.beside = disk.beside
        /\ tried' = tried /\ op.at = "header" /\ op'.at = "free" /\ op'.chunk = op.chunk
        /\ op'.payload = op.payload /\ op.chunk \in Chunks /\ file.open
        /\ op.payload \in Payloads \cup {None}
    BY <1>7 DEF WriteHeader, RegionTypeOK, Call
  <2>2. Doing' = Doing /\ Doing # None
    BY <2>1, RegionAssumption DEF Doing
  <2>3. \A c \in Chunks : Stored'[c] \in {Stored[c]} \cup tried[c]
    BY <2>1, StoredChanges DEF Entries
  <2>4. AsMap!Work
    BY <2>1, <2>2, <2>3 DEF AsMap!Work, AsMap!Changes
  <2> QED BY <2>4 DEF AsMap!Next
<1>8. CASE FreePrevious
  <2>1. /\ disk' = disk /\ tried' = tried /\ op.at = "free" /\ op'.at = "unlink"
        /\ op'.chunk = op.chunk /\ op'.payload = op.payload
    BY <1>8 DEF FreePrevious, RegionTypeOK, Call
  <2>2. Stored' = Stored
    BY <2>1, StoredStays
  <2> QED BY <2>1, <2>2 DEF Doing
<1>9. CASE Unlink
  <2>1. /\ disk'.locs = disk.locs /\ tried' = [tried EXCEPT ![op.chunk] = {}]
        /\ op.at = "unlink" /\ op'.at = "idle" /\ op.chunk \in Chunks
        /\ op.payload \in Payloads \cup {None} /\ disk.locs = file.locs
    BY <1>9 DEF Unlink, Idle, RegionTypeOK, Call, RunsInv
  <2>2. Stored' = Stored
    BY <1>9, <2>1, StoredStays, UnlinkReads
  <2>3. Doing' = None /\ Doing = [chunk |-> op.chunk, value |-> op.payload] /\ Doing # None
    BY <2>1, RegionAssumption DEF Doing
  <2>4. Stored[op.chunk] = op.payload
    BY <2>1, StoredIs DEF ContentInv, CallStored
  <2>5. AsMap!Succeed
    BY <2>1, <2>2, <2>3, <2>4 DEF AsMap!Succeed
  <2> QED BY <2>5 DEF AsMap!Next
<1>10. CASE Fail \/ Crash
  <2>1. PICK k \in Cuts : disk' = HeaderUpTo(k)
    BY <1>10 DEF Fail, Crash
  <2>2. op'.at = "idle" /\ tried' = tried /\ file.open
    BY <1>10 DEF Fail, Crash, Idle, RegionTypeOK, Call
  <2>3. /\ disk'.data = disk.data /\ disk'.beside = disk.beside
        /\ \A c \in Chunks : disk'.locs[c] \in Entries(c)
    BY <2>1, CutFacts
  <2>4. \A c \in Chunks : Stored'[c] \in {Stored[c]} \cup tried[c]
    BY <2>2, <2>3, StoredChanges
  <2>5. AsMap!GiveUp
    BY <2>2, <2>4 DEF AsMap!GiveUp, AsMap!Changes, Doing
  <2> QED BY <2>5 DEF AsMap!Next
<1>12. CASE (\E c \in Chunks : RemoveAbsent(c)) \/ Answer
  <2>1. /\ disk' = disk /\ tried' = tried
        /\ op.at \in {"idle", "answer"} /\ op'.at \in {"idle", "answer"}
    BY <1>12, AbsentStep
  <2>2. Stored' = Stored
    BY <2>1, StoredStays
  <2> QED BY <2>1, <2>2 DEF Doing
<1>11. CASE UNCHANGED regionVars
  <2>1. disk' = disk /\ op' = op /\ tried' = tried
    BY <1>11 DEF regionVars
  <2>2. Stored' = Stored
    BY <2>1, StoredStays
  <2> QED BY <2>1, <2>2 DEF Doing
<1> QED BY <1>1, <1>2, <1>3, <1>4, <1>5, <1>6, <1>7, <1>8, <1>9, <1>10, <1>11, <1>12 DEF RegionNext

LEMMA ContentIsInvariant == RegionSpec => [](RegionTypeOK /\ RunsInv /\ ContentInv)
BY InitContent, StepContent, RegionInvariant, PTL DEF RegionSpec

\* A removal that finds no chunk is right as long as no call for it has failed
\* since one that answered well (region/mod.rs, remove_chunk).
THEOREM AbsentIsRight == RegionSpec => []RightlyAbsent
<1>1. RegionTypeOK /\ RunsInv /\ ContentInv => RightlyAbsent
  <2> SUFFICES ASSUME RegionTypeOK, RunsInv, ContentInv, op.at = "answer",
                      tried[op.chunk] = {}
               PROVE  Stored[op.chunk] = None
    BY DEF RightlyAbsent
  <2>1. file.open /\ op.chunk \in Chunks
    BY DEF RegionTypeOK, Call
  <2>2. file.locs[op.chunk] = Absent
    BY DEF ContentInv, CallStored
  <2>3. file.locs[op.chunk] = disk.locs[op.chunk]
    BY <2>1 DEF ContentInv, Promised
  <2> QED BY <2>1, <2>2, <2>3, StoredIs DEF ReadAt
<1> QED BY <1>1, ContentIsInvariant, PTL

\* Whoever opens a region file, after a crash at any moment and any failures,
\* reads of each chunk what was stored last or what was tried since, whole, and
\* what a call that answered well stored: for any chunks, payloads, schemes,
\* longest run and disk.  What a removal that finds no chunk in memory answers is
\* not among it (AbsentIsRight); what a chunk that changes its compression reads
\* as meanwhile is (Clash).
THEOREM RegionIsAMap == RegionSpec => OldOrNew
<1>1. RegionInit => AsMap!Init
  <2> SUFFICES ASSUME RegionInit PROVE AsMap!Init
    OBVIOUS
  <2>1. Doing = None /\ tried = [c \in Chunks |-> {}]
    BY DEF RegionInit, Idle, Doing
  <2>2. Stored = [c \in Chunks |-> ReadAt(disk, c, disk.locs[c])]
    BY InitTyped, InitRuns, StoredIs
  <2>3. Stored = [c \in Chunks |-> None]
    BY <2>2 DEF RegionInit, ReadAt
  <2> QED BY <2>1, <2>3 DEF AsMap!Init
<1>2. RegionSpec => [](RegionTypeOK /\ RunsInv /\ ContentInv)
  BY ContentIsInvariant
<1>3. /\ RegionTypeOK /\ RunsInv /\ ContentInv
      /\ (RegionTypeOK /\ RunsInv)' /\ [RegionNext]_regionVars
      => [AsMap!Next]_(AsMap!vars)
  BY StepMaps
<1> QED BY <1>1, <1>2, <1>3, PTL DEF RegionSpec, OldOrNew, AsMap!Spec
=============================================================================
