-------------------------------- MODULE Store --------------------------------
(***************************************************************************)
(* The storage engine: src/src/store/ (journal.rs, vectors.rs, mod.rs and  *)
(* State::apply of state.rs) and snapshots.rs.                             *)
(*                                                                         *)
(* One process writes two files.  An operation runs under the store mutex: *)
(*                                                                         *)
(*   [write a vector, sync it,]  write one journal line, sync it, apply it *)
(*                                                                         *)
(* and the process may be killed, or the machine lose its power, between   *)
(* any two of these steps.  On restart the journal is read line by line    *)
(* and folded into memory by the function that is also used live.          *)
(*                                                                         *)
(* A write reaches the file in two pieces, so it can be torn in the middle:*)
(* a file is a sequence of cells, a journal line two of them (the second   *)
(* one ends it with the newline), a vector two of them.  Offsets count     *)
(* cells.  What a kill leaves in a file is the page cache's and can be read*)
(* by the next process, but only what a sync has covered survives a loss of*)
(* power; open syncs nothing.  A loss of power keeps some prefix of a file *)
(* (a file system that keeps a later page and loses an earlier one is left *)
(* out, and so is one that undoes the set_len of open: the torn line is    *)
(* back, and cut again).  The text of a record, its timestamps and the     *)
(* numbers of a vector are left out; an object is a number, an after-image *)
(* is the id of the transition that wrote it.                              *)
(***************************************************************************)
EXTENDS Integers, SequencesExt

CONSTANTS
  MaxRecords,    \* bound: journal lines ever written
  MaxObjects,    \* bound: ids drawn from IdGen
  MaxCrashes,    \* bound: kills of the process and losses of power
  MultiByte,     \* may a journal line hold characters of several bytes?
  MaxDiskFaults  \* bound: times write_all or sync_data returns an error

ASSUME BoundsAssumption ==
  /\ MaxRecords \in Nat
  /\ MaxObjects \in Nat
  /\ MaxCrashes \in Nat
  /\ MaxDiskFaults \in Nat
ASSUME MultiByteAssumption == MultiByte \in BOOLEAN

VARIABLES
  up,        \* is the process running?
  file,      \* journal.jsonl: a sequence of [entry, part]
  vfile,     \* vectors.f32: a sequence of [of, half]
  synced,    \* cells of the journal that a sync has put on the disk
  vsynced,   \* the same of the vector file
  mem,       \* Store.state
  len,       \* Journal.len
  seq,       \* Journal.seq
  vslots,    \* Vectors.slots
  op,        \* the operation that holds the mutex
  nextId,    \* IdGen: ids are never drawn twice
  crashes,
  diskFaults

files == <<file, vfile>>
disk == <<synced, vsynced>>
vars == <<up, files, disk, mem, len, seq, vslots, op, nextId, crashes, diskFaults>>

Object == 1 .. MaxObjects

Stage == {"idle", "vector", "vector_sync", "journal", "journal_sync"}

Idle == [stage |-> "idle"]

-----------------------------------------------------------------------------
(* The state and how a record changes it.                                  *)

\* Records.  vectors maps the objects the record embeds to their slots.
EventRecord(id, o, vectors) ==
  [kind |-> "event", id |-> id, object |-> o, vectors |-> vectors]
CommitRecord(transitions, vectors) ==
  [kind |-> "commit", transitions |-> transitions, vectors |-> vectors]
CursorRecord(last, failures) ==
  [kind |-> "cursor", last |-> last, failures |-> failures, vectors |-> <<>>]
SnapshotRecord(id, last) ==
  [kind |-> "snapshot", id |-> id, last |-> last, vectors |-> <<>>]

EmptyState == [
  events |-> <<>>,         \* of [id, object]
  rows |-> <<>>,           \* object -> the transition that wrote its row
  transitions |-> <<>>,
  proposals |-> 0,
  cursor |-> [last |-> 0, failures |-> 0],
  snapshots |-> <<>>,      \* of [id, last, offset]
  slots |-> <<>>]          \* object -> slot of its newest vector

\* A map with the entries of another over its own.
Overlaid(new, old) ==
  [x \in DOMAIN new \cup DOMAIN old |-> IF x \in DOMAIN new THEN new[x] ELSE old[x]]

UpsertRow(rows, t) == Overlaid([o \in {t.object} |-> t.id], rows)

\* Table::upsert for each transition, in order.
Upsert(rows, transitions) == FoldLeft(UpsertRow, rows, transitions)

\* State::apply.
Apply(m, offset, r) ==
  CASE r.kind = "event" ->
         [m EXCEPT !.events = Append(@, [id |-> r.id, object |-> r.object]),
                   !.slots = Overlaid(r.vectors, @)]
    [] r.kind = "commit" ->
         [m EXCEPT !.proposals = @ + 1,
                   !.transitions = @ \o r.transitions,
                   !.rows = Upsert(@, r.transitions),
                   !.slots = Overlaid(r.vectors, @)]
    [] r.kind = "cursor" ->
         [m EXCEPT !.cursor = [last |-> r.last, failures |-> r.failures]]
    [] r.kind = "snapshot" ->
         [m EXCEPT !.snapshots =
            Append(@, [id |-> r.id, last |-> r.last, offset |-> offset])]

\* Cells of one line, and of one vector.
LineCells(entry) == << [entry |-> entry, part |-> "head"], [entry |-> entry, part |-> "tail"] >>
VectorCells(o) == << [of |-> o, half |-> 1], [of |-> o, half |-> 2] >>
Stride == 2

ApplyEntry(m, e) == Apply(m, e.offset, e.record)

\* Store::open folds the entries, each with the offset of its line.
Fold(entries) == FoldLeft(ApplyEntry, EmptyState, entries)

-----------------------------------------------------------------------------
(* Reading the journal back.                                               *)

\* Number of cells up to and including the last newline.
EndOfLastLine(f) == SelectLastInSeq(f, LAMBDA c : c.part = "tail")

\* read_to_string wants UTF-8 all through the file, from_str wants every line
\* that ends with a newline to be one record.
Readable(f) ==
  /\ \A i \in DOMAIN f : f[i].part # "cut"
  /\ EndOfLastLine(f) % Stride = 0
  /\ \A i \in 1 .. EndOfLastLine(f) \div Stride :
       /\ f[2 * i - 1].part = "head"
       /\ f[2 * i].part = "tail"

\* mutant: open leaves the torn line in the file
TornLineKept(f) == f

\* set_len: the file without what follows the last newline.
WithoutTornLine(f) == SubSeq(f, 1, EndOfLastLine(f))

\* The lines, each with its offset.
Entries(f) ==
  [i \in 1 .. EndOfLastLine(f) \div Stride |->
     [offset |-> Stride * (i - 1), seq |-> f[2 * i].entry.seq, record |-> f[2 * i].entry.record]]

\* Journal::read_at: the line that begins at an offset.
ReadAt(f, offset) == f[offset + 2].entry.record

\* mutant: the slots of the file are counted without cutting off the rest
WholeVectorsUncut(v) == v

\* Vectors::open cuts the file to a whole number of vectors.
WholeVectors(v) == SubSeq(v, 1, Len(v) - (Len(v) % Stride))

-----------------------------------------------------------------------------

Init ==
  /\ up = TRUE
  /\ file = <<>>
  /\ vfile = <<>>
  /\ synced = 0
  /\ vsynced = 0
  /\ mem = EmptyState
  /\ len = 0
  /\ seq = 0
  /\ vslots = 0
  /\ op = Idle
  /\ nextId = 1
  /\ crashes = 0
  /\ diskFaults = 0

(* Operations: each takes the mutex and says what it will append.          *)

Begin(record, vectorOf) ==
  /\ up
  /\ op = Idle
  /\ seq < MaxRecords
  /\ op' = [stage |-> IF vectorOf = {} THEN "journal" ELSE "vector",
            record |-> record, vectorOf |-> vectorOf]
  /\ UNCHANGED <<up, files, disk, mem, len, seq, vslots, crashes, diskFaults>>

\* interact::append: the text of the message is embedded, then append_event.
AppendEvent ==
  /\ nextId \in Object
  /\ Begin(EventRecord(Len(mem.events) + 1, nextId, <<>>), {nextId})
  /\ nextId' = nextId + 1

\* mutant: transitions are numbered by the proposals before them
BaseOfProposals(m) == m.proposals

\* commit_locked numbers its transitions from the length of the list.
Base(m) == Len(m.transitions)

Transitions(objects) ==
  [i \in DOMAIN objects |-> [id |-> Base(mem) + i, object |-> objects[i]]]

\* commit_locked: a rejected proposal has no transition, an accepted one writes
\* a new row, an old row, or a new row and then one it replaces; the first
\* may be embedded.
CommitProposal ==
  \E fresh, embed \in BOOLEAN, old \in {<<>>} \cup {<<o>> : o \in DOMAIN mem.rows} :
    LET new == IF fresh THEN <<nextId>> ELSE <<>>
        objects == new \o old
    IN /\ fresh => nextId \in Object
       /\ embed => objects # <<>>
       /\ Begin(CommitRecord(Transitions(objects), <<>>),
                IF embed THEN {objects[1]} ELSE {})
       /\ nextId' = nextId + Len(new)

SetCursor == \E last \in mem.cursor.last .. Len(mem.events) :
  /\ Begin(CursorRecord(last, 0), {})
  /\ UNCHANGED nextId

BumpFailures ==
  /\ Begin(CursorRecord(mem.cursor.last, mem.cursor.failures + 1), {})
  /\ UNCHANGED nextId

TakeSnapshot ==
  /\ Begin(SnapshotRecord(Len(mem.snapshots) + 1, Len(mem.events)), {})
  /\ UNCHANGED nextId

-----------------------------------------------------------------------------
(* Vectors::append.                                                        *)

\* mutant: sync_data is not called
NeverSynced(f) == 0

\* sync_data: the whole file is on the disk.
SyncData(f) == Len(f)

VectorWrite ==
  /\ up /\ op.stage = "vector"
  /\ vfile' = vfile \o VectorCells(CHOOSE o \in op.vectorOf : TRUE)
  /\ op' = [op EXCEPT !.stage = "vector_sync"]
  /\ UNCHANGED <<up, file, disk, mem, len, seq, vslots, nextId, crashes, diskFaults>>

VectorSync ==
  /\ up /\ op.stage = "vector_sync"
  /\ vsynced' = SyncData(vfile)
  /\ vslots' = vslots + 1
  /\ op' = [op EXCEPT !.stage = "journal",
                      !.record.vectors = [o \in op.vectorOf |-> vslots]]
  /\ UNCHANGED <<up, files, synced, mem, len, seq, nextId, crashes, diskFaults>>

(* Journal::append and the apply that follows it.                          *)

JournalWrite ==
  /\ up /\ op.stage = "journal"
  /\ seq' = seq + 1
  /\ file' = file \o LineCells([seq |-> seq + 1, record |-> op.record])
  /\ op' = [op EXCEPT !.stage = "journal_sync"]
  /\ UNCHANGED <<up, vfile, disk, mem, len, vslots, nextId, crashes, diskFaults>>

\* mutant: the offset is taken after len has been moved
OffsetAfterLine(n) == n + Stride

OffsetOfLine(n) == n

JournalSync ==
  /\ up /\ op.stage = "journal_sync"
  /\ synced' = SyncData(file)
  /\ mem' = Apply(mem, OffsetOfLine(len), op.record)
  /\ len' = len + Stride
  /\ op' = Idle
  /\ UNCHANGED <<up, files, vsynced, seq, vslots, nextId, crashes, diskFaults>>

-----------------------------------------------------------------------------
(* A disk that returns errors (full, or failing): the operation ends, the  *)
(* process lives on.                                                       *)

Fail ==
  /\ diskFaults < MaxDiskFaults
  /\ up
  /\ op' = Idle
  /\ diskFaults' = diskFaults + 1
  /\ UNCHANGED <<up, mem, len, nextId, crashes>>

\* write_all of a vector fails after nothing or after its first half.
VectorWriteFails == \E n \in 0 .. 1 :
  /\ op.stage = "vector"
  /\ vfile' = vfile \o SubSeq(VectorCells(CHOOSE o \in op.vectorOf : TRUE), 1, n)
  /\ Fail
  /\ UNCHANGED <<file, disk, seq, vslots>>

VectorSyncFails ==
  /\ op.stage = "vector_sync"
  /\ Fail
  /\ UNCHANGED <<files, disk, seq, vslots>>

\* The file cannot be mapped anew: its slot is counted, and nobody gets it.
VectorRemapFails ==
  /\ op.stage = "vector_sync"
  /\ vsynced' = SyncData(vfile)
  /\ vslots' = vslots + 1
  /\ Fail
  /\ UNCHANGED <<files, synced, seq>>

\* write_all of a line fails; seq has been advanced before.
JournalWriteFails == \E n \in 0 .. 1 :
  /\ op.stage = "journal"
  /\ seq' = seq + 1
  /\ file' = file \o SubSeq(LineCells([seq |-> seq + 1, record |-> op.record]), 1, n)
  /\ Fail
  /\ UNCHANGED <<vfile, disk, vslots>>

JournalSyncFails ==
  /\ op.stage = "journal_sync"
  /\ Fail
  /\ UNCHANGED <<files, disk, seq, vslots>>

-----------------------------------------------------------------------------
(* Death and restart.                                                      *)

\* The first n cells of a file; the last one, if torn, may end inside a character.
Torn(f, n) ==
  LET kept == SubSeq(f, 1, n)
  IN IF MultiByte /\ n < Len(f) /\ n > 0 /\ kept[n].part = "head"
     THEN {kept, [kept EXCEPT ![n].part = "cut"]}
     ELSE {kept}

\* What the process held in memory is gone.
Die ==
  /\ crashes < MaxCrashes
  /\ crashes' = crashes + 1
  /\ up' = FALSE
  /\ op' = Idle
  /\ mem' = EmptyState
  /\ len' = 0 /\ seq' = 0 /\ vslots' = 0
  /\ UNCHANGED <<nextId, diskFaults>>

\* The process is killed: the write under way, if it has not been synced, may
\* have reached its file in part.
Kill ==
  /\ up
  /\ Die
  /\ \/ /\ op.stage = "vector_sync"
        /\ \E n \in Len(vfile) - Stride .. Len(vfile) : vfile' = SubSeq(vfile, 1, n)
        /\ UNCHANGED file
     \/ /\ op.stage = "journal_sync"
        /\ \E n \in Len(file) - Stride .. Len(file) : file' \in Torn(file, n)
        /\ UNCHANGED vfile
     \/ /\ op.stage \notin {"vector_sync", "journal_sync"}
        /\ UNCHANGED files
  /\ UNCHANGED disk

\* The machine stops, with the process or after it: of each file everything a
\* sync has covered is kept, and any part of the rest.
PowerLoss ==
  /\ Die
  /\ \E n \in synced .. Len(file) : file' \in Torn(file, n)
  /\ \E n \in vsynced .. Len(vfile) : vfile' = SubSeq(vfile, 1, n)
  /\ synced' = Len(file')
  /\ vsynced' = Len(vfile')

\* Store::open; it bails on a journal it cannot read, and stays down.  It cuts
\* the files and syncs nothing: a line that a kill left whole is served though
\* it is not on the disk yet.
Open ==
  /\ ~up
  /\ Readable(file)
  /\ up' = TRUE
  /\ file' = WithoutTornLine(file)
  /\ vfile' = WholeVectors(vfile)
  /\ synced' = Min({synced, Len(file')})
  /\ vsynced' = Min({vsynced, Len(vfile')})
  /\ mem' = Fold(Entries(file))
  /\ len' = EndOfLastLine(file)
  /\ seq' = IF Entries(file) = <<>> THEN 0 ELSE Last(Entries(file)).seq
  /\ vslots' = Len(vfile) \div Stride
  /\ UNCHANGED <<op, nextId, crashes, diskFaults>>

-----------------------------------------------------------------------------

Operation == AppendEvent \/ CommitProposal \/ SetCursor \/ BumpFailures \/ TakeSnapshot

Write == VectorWrite \/ VectorSync \/ JournalWrite \/ JournalSync

DiskFault == VectorWriteFails \/ VectorSyncFails \/ VectorRemapFails
             \/ JournalWriteFails \/ JournalSyncFails

Next == Operation \/ Write \/ DiskFault \/ Kill \/ PowerLoss \/ Open

Spec == Init /\ [][Next]_vars

-----------------------------------------------------------------------------
(* snapshots.rs, replay: a fold of the journal in which the transitions    *)
(* after up_to are left out of their commits.                              *)

\* mutant: the transition up_to is left out too
RetainBefore(t, upTo) == t.id < upTo

Retain(t, upTo) == t.id <= upTo

\* Vec::retain.
Retained(transitions, upTo) ==
  FoldLeft(LAMBDA kept, t : IF Retain(t, upTo) THEN Append(kept, t) ELSE kept,
           <<>>, transitions)

UpTo(entry, upTo) ==
  IF entry.record.kind = "commit"
  THEN [entry EXCEPT !.record.transitions = Retained(@, upTo)]
  ELSE entry

Replay(upTo) == Fold([k \in DOMAIN Entries(file) |-> UpTo(Entries(file)[k], upTo)])

-----------------------------------------------------------------------------
(* Properties.  What holds only on a disk that returns no error says so.   *)

Intact == diskFaults = 0

TypeOK ==
  /\ up \in BOOLEAN
  /\ \A i \in DOMAIN file : file[i].part \in {"head", "tail", "cut"}
  /\ \A i \in DOMAIN vfile : vfile[i].of \in Object /\ vfile[i].half \in 1 .. 2
  /\ synced \in 0 .. Len(file) /\ vsynced \in 0 .. Len(vfile)
  /\ len \in Nat /\ seq \in 0 .. MaxRecords /\ vslots \in Nat
  /\ op.stage \in Stage
  /\ \A i \in DOMAIN mem.events : mem.events[i].object \in Object
  /\ \A o \in DOMAIN mem.rows : mem.rows[o] \in 1 .. Len(mem.transitions)
  /\ \A o \in DOMAIN mem.slots : o \in Object
  /\ mem.cursor.last \in 0 .. Len(mem.events)
  /\ nextId \in 1 .. MaxObjects + 1
  /\ crashes \in 0 .. MaxCrashes
  /\ diskFaults \in 0 .. MaxDiskFaults

\* A store that has died can be opened again, wherever it died: a torn final
\* line is truncated away and never becomes part of a later one (README.md:26).
AlwaysOpens == ~up /\ Intact => Readable(file)

\* Every slot the journal knows is a whole vector, of the object it is kept for:
\* no record is durable before its vector, and a torn vector shifts no other.
SlotsHoldVectors ==
  up /\ Intact => \A o \in DOMAIN mem.slots :
    /\ mem.slots[o] < vslots
    /\ SubSeq(vfile, Stride * mem.slots[o] + 1, Stride * mem.slots[o] + 2) = VectorCells(o)

\* Each snapshot is read back from the offset kept for it, whether that offset
\* was taken live or computed by open (mod.rs:115).
SnapshotsReadable ==
  up /\ Intact => \A i \in DOMAIN mem.snapshots :
    /\ mem.snapshots[i].offset + Stride <= Len(file)
    /\ LET r == ReadAt(file, mem.snapshots[i].offset)
       IN r.kind = "snapshot" /\ r.id = mem.snapshots[i].id /\ r.last = mem.snapshots[i].last

\* Ids are positions, across crashes and recovered records: events_after skips
\* as many events as the cursor's id says, and replay compares transition ids.
IdsArePositions ==
  Intact =>
    /\ \A i \in DOMAIN mem.events : mem.events[i].id = i
    /\ \A i \in DOMAIN mem.transitions : mem.transitions[i].id = i
    /\ \A i \in DOMAIN mem.snapshots : mem.snapshots[i].id = i
    /\ Readable(file) => \A i \in DOMAIN Entries(file) : Entries(file)[i].seq = i

\* The rows that replay finds at the last transition of a commit are those the
\* live state had right after that commit.
ReplayRows ==
  up /\ Intact => \A k \in DOMAIN Entries(file) :
    LET r == Entries(file)[k].record
    IN r.kind = "commit" /\ r.transitions # <<>> =>
         Replay(Last(r.transitions).id).rows = Fold(SubSeq(Entries(file), 1, k)).rows

\* What state.rs:119 says of apply: between operations the state in memory is
\* the one the journal folds to.
LiveEqualsFold == up /\ op = Idle => mem = Fold(Entries(file))

\* As long as the disk returns no error, the store is a log and the state it
\* stands for: an operation that returns has written its whole record for good,
\* whatever dies afterwards; a record whose operation never returned is found
\* with all its effects or with none; and what open finds and serves before it
\* is on the disk (journal.rs:67 syncs nothing) is all that can still be lost.
Log == IF up THEN SubSeq(Entries(file), 1, len \div Stride) ELSE Entries(file)

Promise == INSTANCE Ledger WITH
  View <- Fold, serving <- up, log <- Log, kept <- synced \div Stride, state <- mem

ImplementsLedger ==
  Promise!Init /\ [][Intact' => [Promise!Next]_<<up, Log, synced \div Stride, mem>>]_vars

=============================================================================
