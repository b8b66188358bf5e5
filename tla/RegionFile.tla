----------------------------- MODULE RegionFile -----------------------------
(***************************************************************************)
(* A region file (dust-world/src/region): a header that says in which      *)
(* sectors each chunk's bytes are, an allocator in memory that says which  *)
(* sectors are taken, and a file beside it for a chunk too big for the     *)
(* header to describe.                                                     *)
(*                                                                         *)
(* A call is a sequence of writes.  Any of them may fail, and the process  *)
(* may die between any two sectors; what was written stays written, in the *)
(* order it was written (the code never flushes, so a power cut could do   *)
(* worse).  Timestamps are left out: nothing reads them but their caller.  *)
(***************************************************************************)
EXTENDS Integers, FiniteSets

CONSTANTS
  Chunks,       \* header slots
  Payloads,
  Size,         \* Size[p]: the sectors p needs
  Schemes,      \* compression schemes
  MaxSectors,   \* MAX_SECTORS: the longest run an entry can describe
  DiskEnd,      \* the disk is full after this sector
  MaxFailures,  \* a bound of the model: calls that fail while the file is open
  None,
  Garbage       \* an error, or bytes of something else

FirstDataSector == 2

ASSUME RegionAssumption ==
  /\ Chunks \subseteq Nat
  /\ None \notin Payloads /\ Garbage \notin Payloads \cup {None}
  /\ Size \in [Payloads -> Nat \ {0}]
  /\ MaxSectors \in Nat \ {0}
  /\ DiskEnd \in Nat /\ MaxFailures \in Nat
  /\ \A p \in Payloads : \A z \in Schemes : [payload |-> p, scheme |-> z] # None
  /\ \A c \in Chunks : \A v \in Payloads \cup {None} : [chunk |-> c, value |-> v] # None

VARIABLES
  disk,     \* what a crash leaves: header, sectors, and the .mcc files
  file,     \* struct RegionFile, while it is open: its header and allocator
  op,       \* the call under way and where it is
  tried,    \* not in the code: what calls that have not answered well may leave
  failed    \* not in the code: how many calls have failed since the file was opened

regionVars == <<disk, file, op, tried, failed>>

-----------------------------------------------------------------------------
Location == [first : Nat, count : Nat]
Absent == [first |-> 0, count |-> 0]
Run(loc) == loc.first .. loc.first + loc.count - 1

\* A sector of a chunk's run: whose part of what it is.  The one-sector stub of
\* an external chunk has the scheme, and the bytes are elsewhere.
Blank == [payload |-> None, scheme |-> None, part |-> 0, external |-> FALSE]
Sector == [payload : Payloads \cup {None}, scheme : Schemes \cup {None},
           part : Nat, external : BOOLEAN]
Stub(z) == [payload |-> None, scheme |-> z, part |-> 1, external |-> TRUE]
Part(p, z, i) == [payload |-> p, scheme |-> z, part |-> i, external |-> FALSE]

IsExternal(p) == Size[p] > MaxSectors

Sectors == FirstDataSector .. DiskEnd

\* SectorAllocator::allocate: first fit, where what lies past the end is free.
\* The first place long enough starts where the header or a taken sector ends.
Free(used, s, n) == (s .. s + n - 1) \cap used = {}
Starts(used) == {FirstDataSector} \cup {u + 1 : u \in {t \in used : t >= FirstDataSector}}
FirstFit(used, n) ==
  {s \in Starts(used) : /\ Free(used, s, n)
                        /\ \A r \in Starts(used) : Free(used, r, n) => s <= r}

-----------------------------------------------------------------------------
(***************************************************************************)
(* What the file says to whoever opens it: open and read_chunk.            *)
(***************************************************************************)
Reaches(d, s) == \E last \in s .. DiskEnd : d.data[last] # Blank

Damage(d) ==
  {c \in Chunks :
     LET loc == d.locs[c]
     IN /\ loc # Absent
        /\ \/ loc.first < FirstDataSector \/ loc.count = 0
           \/ \E s \in Run(loc) : ~Reaches(d, s)
           \/ \E b \in Chunks \ {c} : Run(d.locs[b]) \cap Run(loc) # {}}

ReadInline(d, loc) ==
  LET head == d.data[loc.first]
  IN IF \A i \in 1..loc.count : d.data[loc.first + i - 1] = [head EXCEPT !.part = i]
     THEN head.payload ELSE Garbage

ReadExternal(d, c, loc) ==
  IF d.beside[c] # None /\ d.beside[c].scheme = d.data[loc.first].scheme
  THEN d.beside[c].payload ELSE Garbage

ReadAt(d, c, loc) ==
  IF loc = Absent THEN None
  ELSE IF d.data[loc.first].external THEN ReadExternal(d, c, loc)
  ELSE ReadInline(d, loc)

Read(d, c) == IF c \in Damage(d) THEN Garbage ELSE ReadAt(d, c, d.locs[c])

-----------------------------------------------------------------------------
\* What the allocator knows of a header.
Taken(locs) == (0 .. FirstDataSector - 1) \cup UNION {Run(locs[c]) : c \in Chunks}

Idle == [at |-> "idle", chunk |-> None, payload |-> None, scheme |-> None,
         first |-> 0, written |-> 0, previous |-> Absent]

Closed == [open |-> FALSE, locs |-> [c \in Chunks |-> Absent], used |-> {}]

\* RegionFile::open, strict: a file with any damage is refused.
Open ==
  /\ ~file.open /\ Damage(disk) = {}
  /\ file' = [open |-> TRUE, locs |-> disk.locs, used |-> Taken(disk.locs)]
  /\ tried' = [c \in Chunks |-> {}]
  /\ failed' = 0
  /\ UNCHANGED <<disk, op>>

\* What a chunk's entry is, on disk and in memory: a call that failed may have
\* left them different.
Entries(c) == {disk.locs[c], file.locs[c]}

\* The file beside takes over under a stub that tells of another compression.
Clash(c, z) ==
  \E loc \in Entries(c) :
    loc # Absent /\ disk.data[loc.first].external /\ disk.data[loc.first].scheme # z

BeginWrite(c, p, z) ==
  /\ file.open /\ op.at = "idle"
  /\ op' = [Idle EXCEPT !.at = IF IsExternal(p) THEN "external" ELSE "allocate",
                        !.chunk = c, !.payload = p, !.scheme = z,
                        !.previous = file.locs[c]]
  /\ LET spoils == IsExternal(p) /\ Clash(c, z)
     IN tried' = [tried EXCEPT ![c] = @ \cup {p} \cup (IF spoils THEN {Garbage} ELSE {})]
  /\ UNCHANGED <<disk, file, failed>>

\* Written beside and moved into place: whole, or not there.
WriteExternal ==
  /\ op.at = "external"
  /\ disk' = [disk EXCEPT !.beside[op.chunk] = [payload |-> op.payload, scheme |-> op.scheme]]
  /\ op' = [op EXCEPT !.at = "allocate"]
  /\ UNCHANGED <<file, tried, failed>>

Needed == IF IsExternal(op.payload) THEN 1 ELSE Size[op.payload]

NewSector(i) == IF IsExternal(op.payload) THEN Stub(op.scheme)
                ELSE Part(op.payload, op.scheme, i)

NewRun == op.first .. op.first + Needed - 1

\* A slip: what the chunk has now is given back before the new run is found.
AllocateReusing ==
  /\ op.at = "allocate"
  /\ \E first \in FirstFit(file.used \ Run(op.previous), Needed) :
       /\ file' = [file EXCEPT !.used = (@ \ Run(op.previous)) \cup (first .. first + Needed - 1)]
       /\ op' = [op EXCEPT !.at = "sectors", !.first = first]
  /\ UNCHANGED <<disk, tried, failed>>

AllocateRun ==
  /\ op.at = "allocate"
  /\ \E first \in FirstFit(file.used, Needed) :
       /\ file' = [file EXCEPT !.used = @ \cup (first .. first + Needed - 1)]
       /\ op' = [op EXCEPT !.at = "sectors", !.first = first]
  /\ UNCHANGED <<disk, tried, failed>>

\* One sector of a write; after the last the header in memory is set.
WriteSector ==
  /\ op.at = "sectors" /\ op.first + op.written \in Sectors
  /\ LET part == op.written + 1
     IN /\ disk' = [disk EXCEPT !.data[op.first + op.written] = NewSector(part)]
        /\ op' = [op EXCEPT !.written = part, !.at = IF part = Needed THEN "header" ELSE @]
        /\ file' = IF part # Needed THEN file
                   ELSE [file EXCEPT !.locs[op.chunk] = [first |-> op.first, count |-> Needed]]
  /\ UNCHANGED <<tried, failed>>

BeginRemove(c) ==
  /\ file.open /\ op.at = "idle" /\ file.locs[c] # Absent
  /\ file' = [file EXCEPT !.locs[c] = Absent]
  /\ op' = [Idle EXCEPT !.at = "header", !.chunk = c, !.previous = file.locs[c]]
  /\ tried' = [tried EXCEPT ![c] = @ \cup {None}]
  /\ UNCHANGED <<disk, failed>>

\* remove_chunk of an entry that is absent in memory answers that there was none,
\* whatever is on disk.
RemoveAbsent(c) ==
  /\ file.open /\ op.at = "idle" /\ file.locs[c] = Absent
  /\ op' = [Idle EXCEPT !.at = "answer", !.chunk = c]
  /\ UNCHANGED <<disk, file, tried, failed>>

Answer ==
  /\ op.at = "answer"
  /\ op' = Idle
  /\ UNCHANGED <<disk, file, tried, failed>>

\* A slip: a removal is left in memory until some chunk is written.
WriteHeaderOfWrites ==
  /\ op.at = "header"
  /\ disk' = IF op.payload = None THEN disk ELSE [disk EXCEPT !.locs = file.locs]
  /\ op' = [op EXCEPT !.at = "free"]
  /\ UNCHANGED <<file, tried, failed>>

WriteHeader ==
  /\ op.at = "header"
  /\ disk' = [disk EXCEPT !.locs = file.locs]
  /\ op' = [op EXCEPT !.at = "free"]
  /\ UNCHANGED <<file, tried, failed>>

\* A slip: what was there before is not given back.
FreeNothing ==
  /\ op.at = "free"
  /\ op' = [op EXCEPT !.at = "unlink"]
  /\ UNCHANGED <<disk, file, tried, failed>>

FreePrevious ==
  /\ op.at = "free"
  /\ file' = [file EXCEPT !.used = @ \ Run(op.previous)]
  /\ op' = [op EXCEPT !.at = "unlink"]
  /\ UNCHANGED <<disk, tried, failed>>

\* A slip: the file beside is removed whatever was stored.
UnlinkAlways ==
  /\ op.at = "unlink"
  /\ disk' = [disk EXCEPT !.beside[op.chunk] = None]
  /\ op' = Idle
  /\ tried' = [tried EXCEPT ![op.chunk] = {}]
  /\ UNCHANGED <<file, failed>>

\* A chunk that is not external any more has its file removed; the call is over.
Unlink ==
  /\ op.at = "unlink"
  /\ disk' = IF op.payload # None /\ IsExternal(op.payload) THEN disk
             ELSE [disk EXCEPT !.beside[op.chunk] = None]
  /\ op' = Idle
  /\ tried' = [tried EXCEPT ![op.chunk] = {}]
  /\ UNCHANGED <<file, failed>>

\* The header is written in slot order: a write that ends early has its first
\* entries there.
HeaderUpTo(k) ==
  [disk EXCEPT !.locs = [c \in Chunks |-> IF op.at = "header" /\ c < k THEN file.locs[c] ELSE @[c]]]

Cuts == {0} \cup {c + 1 : c \in Chunks}

\* A write fails and the call answers with an error.
Fail ==
  /\ op.at \in {"external", "sectors", "header", "unlink"} /\ failed < MaxFailures
  /\ \E k \in Cuts : disk' = HeaderUpTo(k)
  /\ op' = Idle
  /\ failed' = failed + 1
  /\ UNCHANGED <<file, tried>>

Crash ==
  /\ file.open
  /\ \E k \in Cuts : disk' = HeaderUpTo(k)
  /\ file' = Closed
  /\ op' = Idle
  /\ UNCHANGED <<tried, failed>>

RegionInit ==
  /\ disk = [locs |-> [c \in Chunks |-> Absent], data |-> [s \in Sectors |-> Blank],
             beside |-> [c \in Chunks |-> None]]
  /\ file = Closed
  /\ op = Idle
  /\ tried = [c \in Chunks |-> {}]
  /\ failed = 0

RegionNext ==
  \/ Open
  \/ \E c \in Chunks : \E p \in Payloads : \E z \in Schemes : BeginWrite(c, p, z)
  \/ \E c \in Chunks : BeginRemove(c) \/ RemoveAbsent(c)
  \/ WriteExternal \/ AllocateRun \/ WriteSector \/ WriteHeader \/ FreePrevious \/ Unlink
  \/ Answer
  \/ Fail
  \/ Crash

\* The call under way.
Call == [ at : {"idle", "external", "allocate", "sectors", "header", "free", "unlink", "answer"},
          chunk : Chunks \cup {None}, payload : Payloads \cup {None},
          scheme : Schemes \cup {None}, first : Nat, written : Nat, previous : Location ]

RegionSpec == RegionInit /\ [][RegionNext]_regionVars

-----------------------------------------------------------------------------
\* Every variable has its type, no call outlives the open file, and the
\* allocator never counts the header's own sectors as free.
RegionTypeOK ==
  /\ disk \in [ locs : [Chunks -> Location], data : [Sectors -> Sector],
                beside : [Chunks -> [payload : Payloads, scheme : Schemes] \cup {None}] ]
  /\ file \in [open : BOOLEAN, locs : [Chunks -> Location], used : SUBSET Nat]
  /\ op \in Call
  /\ tried \in [Chunks -> SUBSET (Payloads \cup {None, Garbage})]
  /\ failed \in Nat
  /\ op.at # "idle" => file.open /\ op.chunk \in Chunks
  /\ file.open => 0 .. FirstDataSector - 1 \subseteq file.used

\* At every moment, in the middle of any call and after any failure, the header
\* on disk describes runs that were written, behind the header and apart from
\* each other: `open` refuses a whole region for one entry that does not.
OpensClean == Damage(disk) = {}

\* Until something fails, the allocator has exactly the header and the runs of
\* the chunks there are ("must not leak sectors", region/mod.rs).
NoSectorLeaks ==
  file.open /\ op.at = "idle" /\ failed = 0 => file.used = Taken(file.locs)

Stored == [c \in Chunks |-> Read(disk, c)]
Doing == IF op.at \in {"idle", "answer"} THEN None ELSE [chunk |-> op.chunk, value |-> op.payload]

AsMap == INSTANCE ChunkMap WITH stored <- Stored, doing <- Doing

\* Whoever opens the file after an accident reads of each chunk what was stored
\* or what was being stored, whole; and what a call that answered well stored.
\* Two cases are named and not excused elsewhere: a chunk that stays external and
\* changes its compression may read as nothing sensible until a call answers well
\* (Clash), and a removal that finds nothing stores nothing (RemovedIsGone).
OldOrNew == AsMap!Spec

\* A removal that finds no chunk is right, unless a call for that chunk has failed
\* and none has answered well since.
RightlyAbsent ==
  op.at = "answer" /\ tried[op.chunk] = {} => Stored[op.chunk] = None

\* After remove_chunk has answered there is no such chunk for whoever opens the
\* file next: "Forget a chunk ... Returns whether there was one" (region/mod.rs).
RemovedIsGone == op.at = "answer" => Stored[op.chunk] = None

\* "a crash during the write leaves the old payload rather than half a new one"
\* (region/store.rs, write_external): no crash leaves a chunk that cannot be read.
CrashLeavesAPayload == ~file.open => \A c \in Chunks : Read(disk, c) # Garbage

-----------------------------------------------------------------------------
(***************************************************************************)
(* The inductive invariants.  The header in memory runs ahead of the disk, *)
(* so what must hold of an entry is said of both.                          *)
(***************************************************************************)
IsThere(s) == s \in Sectors /\ disk.data[s] # Blank

Sound(loc) ==
  loc # Absent =>
    /\ loc.first >= FirstDataSector /\ loc.count >= 1
    /\ \A s \in Run(loc) : IsThere(s)

\* What the call under way has taken, beside what the header in memory says.
InHand ==
  IF op.at = "sectors" THEN NewRun
  ELSE IF op.at \in {"header", "free"} THEN Run(op.previous) ELSE {}

Apart == \A b, c \in Chunks : b # c =>
  \A l \in Entries(b), m \in Entries(c) : Run(l) \cap Run(m) = {}

RunsInv ==
  /\ \A c \in Chunks : \A loc \in Entries(c) : Sound(loc)
  /\ Apart
  /\ file.open => \A c \in Chunks : \A loc \in Entries(c) : Run(loc) \subseteq file.used
  /\ ~file.open => file = Closed
  /\ op.at \in {"external", "allocate", "sectors"} =>
       /\ op.payload \in Payloads /\ op.scheme \in Schemes
       /\ op.previous = file.locs[op.chunk]
  /\ op.at \in {"external", "allocate"} => op.written = 0
  /\ op.at = "sectors" =>
       /\ op.first >= FirstDataSector /\ op.written < Needed
       /\ NewRun \subseteq file.used
       /\ \A c \in Chunks : \A loc \in Entries(c) : Run(loc) \cap NewRun = {}
       /\ \A s \in op.first .. op.first + op.written - 1 : IsThere(s)
  /\ op.at \in {"header", "free"} =>
       /\ op.previous = Absent \/ op.previous.first >= FirstDataSector
       /\ \A c \in Chunks : Run(op.previous) \cap Run(file.locs[c]) = {}
  /\ op.at \in {"free", "unlink"} => disk.locs = file.locs
  /\ file.open /\ failed = 0 => file.used = Taken(file.locs) \cup InHand

\* What the call under way would store is among what was tried, and so is what
\* its file beside will make of a stub of another scheme.
CallTried ==
  /\ op.at \notin {"idle", "answer"} => op.payload \in tried[op.chunk]
  /\ op.at = "external" /\ Clash(op.chunk, op.scheme)
       => Garbage \in tried[op.chunk]

\* What a chunk's entry in memory would read, whenever it reaches the disk, is
\* what the disk reads already or something tried since.
Promised == file.open => \A c \in Chunks :
  file.locs[c] = disk.locs[c] \/ ReadAt(disk, c, file.locs[c]) \in tried[c]

StubsHaveFiles == \A c \in Chunks : \A loc \in Entries(c) :
  loc # Absent /\ disk.data[loc.first].external =>
    disk.beside[c] # None /\ disk.data[loc.first].scheme \in Schemes

CallBeside ==
  op.at \in {"allocate", "sectors", "header", "free", "unlink"}
      /\ op.payload # None /\ IsExternal(op.payload) =>
    disk.beside[op.chunk] = [payload |-> op.payload, scheme |-> op.scheme]

CallWritten == op.at = "sectors" =>
  \A i \in 1..op.written : disk.data[op.first + i - 1] = NewSector(i)

\* After its sectors are written, the chunk's entry in memory is the call's.
\* A removal that finds nothing has found it there.
CallStored ==
  LET loc == file.locs[op.chunk]
  IN /\ op.at \in {"header", "free", "unlink"} =>
          /\ ReadAt(disk, op.chunk, loc) = op.payload
          /\ op.payload = None => loc = Absent
          /\ op.payload # None => disk.data[loc.first].external = IsExternal(op.payload)
     /\ op.at = "answer" => loc = Absent

ContentInv ==
  CallTried /\ Promised /\ StubsHaveFiles /\ CallBeside /\ CallWritten /\ CallStored
=============================================================================
