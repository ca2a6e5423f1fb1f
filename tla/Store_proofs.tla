---------------------------- MODULE Store_proofs ----------------------------
(* Machine-checked proofs about Store.                                     *)
EXTENDS Store, TLAPS

-----------------------------------------------------------------------------
(* The folds.                                                              *)

EntryStep(none, m, e) == ApplyEntry(m, e)
RowStep(none, rows, t) == UpsertRow(rows, t)
RetainStep(upTo, kept, t) == IF Retain(t, upTo) THEN Append(kept, t) ELSE kept

OverEntries == INSTANCE FoldTheorems WITH Op <- EntryStep
OverRows == INSTANCE FoldTheorems WITH Op <- RowStep
OverRetained == INSTANCE FoldTheorems WITH Op <- RetainStep

LEMMA FoldIs ==
  ASSUME NEW es
  PROVE  Fold(es) = OverEntries!Folded(0, EmptyState, es)
BY DEF Fold, FoldLeft, MapThenFoldSet, Max, EntryStep, OverEntries!Folded, OverEntries!FoldLeft,
       OverEntries!MapThenFoldSet, OverEntries!Max

LEMMA UpsertIs ==
  ASSUME NEW rows, NEW ts
  PROVE  Upsert(rows, ts) = OverRows!Folded(0, rows, ts)
BY DEF Upsert, FoldLeft, MapThenFoldSet, Max, RowStep, OverRows!Folded, OverRows!FoldLeft,
       OverRows!MapThenFoldSet, OverRows!Max

LEMMA RetainedIs ==
  ASSUME NEW ts, NEW upTo
  PROVE  Retained(ts, upTo) = OverRetained!Folded(upTo, <<>>, ts)
BY DEF Retained, FoldLeft, MapThenFoldSet, Max, RetainStep, OverRetained!Folded,
       OverRetained!FoldLeft, OverRetained!MapThenFoldSet, OverRetained!Max

LEMMA FoldNothing == Fold(<<>>) = EmptyState
BY FoldIs, OverEntries!FoldEmpty

LEMMA FoldOneMore ==
  ASSUME NEW S, NEW es \in Seq(S), NEW e \in S
  PROVE  Fold(Append(es, e)) = ApplyEntry(Fold(es), e)
<1>1. OverEntries!Folded(0, EmptyState, Append(es, e))
        = EntryStep(0, OverEntries!Folded(0, EmptyState, es), e)
  BY OverEntries!FoldAppend
<1> QED
  BY <1>1, FoldIs DEF EntryStep

LEMMA UpsertNothing == \A rows : Upsert(rows, <<>>) = rows
BY UpsertIs, OverRows!FoldEmpty

LEMMA UpsertOneMore ==
  ASSUME NEW S, NEW ts \in Seq(S), NEW t \in S, NEW rows
  PROVE  Upsert(rows, Append(ts, t)) = UpsertRow(Upsert(rows, ts), t)
<1>1. OverRows!Folded(0, rows, Append(ts, t)) = RowStep(0, OverRows!Folded(0, rows, ts), t)
  BY OverRows!FoldAppend
<1> QED
  BY <1>1, UpsertIs DEF RowStep

-----------------------------------------------------------------------------
(* Types.                                                                  *)

\* Maps from some objects to B.
MapsTo(B) == UNION {[S -> B] : S \in SUBSET Object}

EventSet == [id : Nat, object : Object]
TransitionSet == [id : Nat, object : Object]
CursorSet == [last : Nat, failures : Nat]
SnapshotSet == [id : Nat, last : Nat, offset : Nat]
RecordSet ==
  [kind : {"event"}, id : Nat, object : Object, vectors : MapsTo(Nat)]
  \cup [kind : {"commit"}, transitions : Seq(TransitionSet), vectors : MapsTo(Nat)]
  \cup [kind : {"cursor"}, last : Nat, failures : Nat, vectors : MapsTo(Nat)]
  \cup [kind : {"snapshot"}, id : Nat, last : Nat, vectors : MapsTo(Nat)]
EntrySet == [seq : 1 .. MaxRecords, record : RecordSet]
CellSet == [entry : EntrySet, part : {"head", "tail", "cut"}]
LineSet == [offset : Nat, seq : 1 .. MaxRecords, record : RecordSet]
VectorCellSet == [of : Object, half : 1 .. 2]
StateSet == [
  events : Seq(EventSet),
  rows : MapsTo(Nat),
  transitions : Seq(TransitionSet),
  proposals : Nat,
  cursor : CursorSet,
  snapshots : Seq(SnapshotSet),
  slots : MapsTo(Nat)]
OperationSet == [stage : Stage \ {"idle"}, record : RecordSet, vectorOf : SUBSET Object]

\* What an operation that holds the mutex may do.
OperationOK ==
  op = Idle \/
    /\ up
    /\ op \in OperationSet
    /\ op.stage # "journal_sync" => seq < MaxRecords
    /\ op.stage \in {"vector", "vector_sync"} => \E o \in Object : op.vectorOf = {o}

\* What a sync has covered is in the file; a write that is under way is not.
DiskOK ==
  /\ synced \in 0 .. Len(file)
  /\ vsynced \in 0 .. Len(vfile)
  /\ op.stage = "journal_sync" => synced + 2 <= Len(file)
  /\ op.stage = "vector_sync" => vsynced + 2 <= Len(vfile)

StoreTypes ==
  /\ up \in BOOLEAN
  /\ file \in Seq(CellSet)
  /\ vfile \in Seq(VectorCellSet)
  /\ mem \in StateSet
  /\ len \in Nat
  /\ seq \in 0 .. MaxRecords
  /\ vslots \in Nat
  /\ OperationOK
  /\ DiskOK
  /\ nextId \in 1 .. MaxObjects + 1
  /\ crashes \in 0 .. MaxCrashes
  /\ diskFaults \in 0 .. MaxDiskFaults

LEMMA MapsToIs ==
  ASSUME NEW B, NEW f
  PROVE  f \in MapsTo(B) <=> f \in [DOMAIN f -> B] /\ DOMAIN f \subseteq Object
BY DEF MapsTo

LEMMA EmptyMap == \A B : <<>> \in MapsTo(B)
<1> SUFFICES ASSUME NEW B PROVE <<>> \in MapsTo(B)
  OBVIOUS
<1>1. <<>> \in [{} -> B]
  OBVIOUS
<1> QED
  BY <1>1 DEF MapsTo

LEMMA OverlaidMaps ==
  ASSUME NEW B, NEW f \in MapsTo(B), NEW g \in MapsTo(B)
  PROVE  /\ Overlaid(f, g) \in MapsTo(B)
         /\ DOMAIN Overlaid(f, g) = DOMAIN f \cup DOMAIN g
         /\ \A x \in DOMAIN f : Overlaid(f, g)[x] = f[x]
         /\ \A x \in DOMAIN g \ DOMAIN f : Overlaid(f, g)[x] = g[x]
<1>1. f \in [DOMAIN f -> B] /\ g \in [DOMAIN g -> B] /\ DOMAIN f \cup DOMAIN g \in SUBSET Object
  BY MapsToIs
<1>2. Overlaid(f, g) \in [DOMAIN f \cup DOMAIN g -> B]
  BY <1>1 DEF Overlaid
<1> QED
  BY <1>1, <1>2 DEF Overlaid, MapsTo

\* Rows hold what they held or the id of a transition.
LEMMA UpsertMaps ==
  ASSUME NEW B, NEW rows \in MapsTo(B), NEW ts \in Seq([id : B, object : Object])
  PROVE  Upsert(rows, ts) \in MapsTo(B)
<1> DEFINE S == [id : B, object : Object]
           P == {s \in Seq(S) : Upsert(rows, s) \in MapsTo(B)}
<1>1. <<>> \in P
  BY UpsertNothing
<1>2. ASSUME NEW s \in Seq(S), NEW t \in S, s \in P
      PROVE  Append(s, t) \in P
  <2>1. Upsert(rows, Append(s, t)) = UpsertRow(Upsert(rows, s), t)
    BY UpsertOneMore
  <2>2. [o \in {t.object} |-> t.id] \in MapsTo(B)
    <3>1. t.object \in Object /\ t.id \in B
      OBVIOUS
    <3>2. [o \in {t.object} |-> t.id] \in [{t.object} -> B] /\ {t.object} \in SUBSET Object
      BY <3>1
    <3> QED
      BY <3>2 DEF MapsTo
  <2>3. Upsert(rows, s) \in MapsTo(B)
    BY <1>2
  <2>4. UpsertRow(Upsert(rows, s), t) \in MapsTo(B)
    BY <2>2, <2>3, OverlaidMaps DEF UpsertRow
  <2> HIDE DEF S
  <2>5. Append(s, t) \in Seq(S)
    OBVIOUS
  <2> QED
    BY <2>1, <2>4, <2>5
<1> HIDE DEF S, P
<1>3. Seq(S) \subseteq P
  BY <1>1, <1>2, OverRows!SequencesOver
<1> QED
  BY <1>3 DEF S, P

LEMMA EmptyStateTypes == EmptyState \in StateSet
<1>1. <<>> \in MapsTo(Nat)
  BY EmptyMap
<1> QED
  BY <1>1 DEF EmptyState, StateSet, CursorSet

StateOf(events, rows, transitions, proposals, cursor, snapshots, slots) ==
  [events |-> events, rows |-> rows, transitions |-> transitions, proposals |-> proposals,
   cursor |-> cursor, snapshots |-> snapshots, slots |-> slots]

LEMMA StateOfTypes ==
  ASSUME NEW es \in Seq(EventSet), NEW rs \in MapsTo(Nat), NEW ts \in Seq(TransitionSet),
         NEW p \in Nat, NEW c \in CursorSet, NEW ss \in Seq(SnapshotSet), NEW v \in MapsTo(Nat)
  PROVE  StateOf(es, rs, ts, p, c, ss, v) \in StateSet
BY DEF StateOf, StateSet

\* Apply, field by field.
LEMMA ApplyIs ==
  ASSUME NEW m \in StateSet, NEW offset, NEW r
  PROVE  /\ r.kind = "event" => Apply(m, offset, r) =
              StateOf(Append(m.events, [id |-> r.id, object |-> r.object]), m.rows,
                      m.transitions, m.proposals, m.cursor, m.snapshots,
                      Overlaid(r.vectors, m.slots))
         /\ r.kind = "commit" => Apply(m, offset, r) =
              StateOf(m.events, Upsert(m.rows, r.transitions), m.transitions \o r.transitions,
                      m.proposals + 1, m.cursor, m.snapshots, Overlaid(r.vectors, m.slots))
         /\ r.kind = "cursor" => Apply(m, offset, r) =
              StateOf(m.events, m.rows, m.transitions, m.proposals,
                      [last |-> r.last, failures |-> r.failures], m.snapshots, m.slots)
         /\ r.kind = "snapshot" => Apply(m, offset, r) =
              StateOf(m.events, m.rows, m.transitions, m.proposals, m.cursor,
                      Append(m.snapshots, [id |-> r.id, last |-> r.last, offset |-> offset]),
                      m.slots)
BY DEF Apply, StateSet, StateOf

LEMMA ApplyTypes ==
  ASSUME NEW m \in StateSet, NEW offset \in Nat, NEW r \in RecordSet
  PROVE  Apply(m, offset, r) \in StateSet
<1>0. /\ m.events \in Seq(EventSet) /\ m.rows \in MapsTo(Nat)
      /\ m.transitions \in Seq(TransitionSet) /\ m.proposals \in Nat /\ m.cursor \in CursorSet
      /\ m.snapshots \in Seq(SnapshotSet) /\ m.slots \in MapsTo(Nat)
  BY DEF StateSet
<1>1. CASE r.kind = "event"
  <2>1. r.id \in Nat /\ r.object \in Object /\ r.vectors \in MapsTo(Nat)
    BY <1>1 DEF RecordSet
  <2>2. Overlaid(r.vectors, m.slots) \in MapsTo(Nat)
    BY <1>0, <2>1, OverlaidMaps
  <2>3. Append(m.events, [id |-> r.id, object |-> r.object]) \in Seq(EventSet)
    BY <1>0, <2>1 DEF EventSet
  <2>5. Apply(m, offset, r) = StateOf(Append(m.events, [id |-> r.id, object |-> r.object]), m.rows,
          m.transitions, m.proposals, m.cursor, m.snapshots, Overlaid(r.vectors, m.slots))
    BY <1>1, ApplyIs
  <2> QED
    BY <1>0, <2>2, <2>3, <2>5, StateOfTypes
<1>2. CASE r.kind = "commit"
  <2>1. r.transitions \in Seq(TransitionSet) /\ r.vectors \in MapsTo(Nat)
    BY <1>2 DEF RecordSet
  <2>2. Overlaid(r.vectors, m.slots) \in MapsTo(Nat)
    BY <1>0, <2>1, OverlaidMaps
  <2>3. Upsert(m.rows, r.transitions) \in MapsTo(Nat)
    BY <1>0, <2>1, UpsertMaps DEF TransitionSet
  <2>4. m.transitions \o r.transitions \in Seq(TransitionSet) /\ m.proposals + 1 \in Nat
    BY <1>0, <2>1
  <2>5. Apply(m, offset, r) = StateOf(m.events, Upsert(m.rows, r.transitions), m.transitions \o r.transitions,
          m.proposals + 1, m.cursor, m.snapshots, Overlaid(r.vectors, m.slots))
    BY <1>2, ApplyIs
  <2>6. \A rs \in MapsTo(Nat), ts \in Seq(TransitionSet), p \in Nat, v \in MapsTo(Nat) :
          StateOf(m.events, rs, ts, p, m.cursor, m.snapshots, v) \in StateSet
    BY <1>0, StateOfTypes
  <2> QED
    BY <2>2, <2>3, <2>4, <2>5, <2>6
<1>3. CASE r.kind = "cursor"
  <2>1. [last |-> r.last, failures |-> r.failures] \in CursorSet
    BY <1>3 DEF RecordSet, CursorSet
  <2>5. Apply(m, offset, r) = StateOf(m.events, m.rows, m.transitions, m.proposals,
          [last |-> r.last, failures |-> r.failures], m.snapshots, m.slots)
    BY <1>3, ApplyIs
  <2> QED
    BY <1>0, <2>1, <2>5, StateOfTypes
<1>4. CASE r.kind = "snapshot"
  <2>1. Append(m.snapshots, [id |-> r.id, last |-> r.last, offset |-> offset])
          \in Seq(SnapshotSet)
    BY <1>4 DEF RecordSet, StateSet, SnapshotSet
  <2>5. Apply(m, offset, r) = StateOf(m.events, m.rows, m.transitions, m.proposals, m.cursor,
          Append(m.snapshots, [id |-> r.id, last |-> r.last, offset |-> offset]), m.slots)
    BY <1>4, ApplyIs
  <2> QED
    BY <1>0, <2>1, <2>5, StateOfTypes
<1>5. r.kind \in {"event", "commit", "cursor", "snapshot"}
  BY DEF RecordSet
<1> QED
  BY <1>1, <1>2, <1>3, <1>4, <1>5

LEMMA FoldTypes ==
  ASSUME NEW es \in Seq(LineSet)
  PROVE  Fold(es) \in StateSet
<1> DEFINE P == {s \in Seq(LineSet) : Fold(s) \in StateSet}
<1>1. <<>> \in P
  BY FoldNothing, EmptyStateTypes
<1>2. ASSUME NEW s \in Seq(LineSet), NEW e \in LineSet, s \in P
      PROVE  Append(s, e) \in P
  <2>1. Fold(Append(s, e)) = ApplyEntry(Fold(s), e)
    BY FoldOneMore
  <2>2. e.offset \in Nat /\ e.record \in RecordSet /\ Append(s, e) \in Seq(LineSet)
    BY DEF LineSet
  <2> QED
    BY <1>2, <2>1, <2>2, ApplyTypes DEF ApplyEntry
<1> HIDE DEF P
<1>3. Seq(LineSet) \subseteq P
  BY <1>1, <1>2, OverEntries!SequencesOver
<1> QED
  BY <1>3 DEF P

-----------------------------------------------------------------------------
(* The last newline of a file, and the lines before it.                    *)

\* n is where the last line of f ends.
EndsAt(f, n) ==
  /\ n \in 0 .. Len(f)
  /\ n > 0 => f[n].part = "tail"
  /\ \A i \in n + 1 .. Len(f) : f[i].part # "tail"

LEMMA EndOfLastLineEnds ==
  ASSUME NEW f \in Seq(CellSet)
  PROVE  EndsAt(f, EndOfLastLine(f))
<1> DEFINE I == {i \in 1 .. Len(f) : f[i].part = "tail"}
           D == {d \in Nat : Len(f) - d \in I}
<1>0. Len(f) \in Nat
  OBVIOUS
<1>1. EndOfLastLine(f) = IF I # {} THEN Max(I) ELSE 0
  BY DEF EndOfLastLine, SelectLastInSeq
<1>2. CASE I = {}
  BY <1>0, <1>1, <1>2 DEF EndsAt
<1>3. CASE I # {}
  <2>1. PICK i \in I : TRUE
    BY <1>3
  <2>2. Len(f) - i \in D
    BY <1>0, <2>1
  <2>3. PICK d \in D : \A k \in D : d <= k
    BY <2>2, OverEntries!Least
  <2>4. \A k \in I : Len(f) - k \in D
    BY <1>0
  <2>5. Len(f) - d \in I /\ \A k \in I : Len(f) - d >= k
    <3>1. d \in Nat /\ Len(f) - d \in I
      OBVIOUS
    <3>2. ASSUME NEW k \in I PROVE Len(f) - d >= k
      <4>1. k \in Nat
        BY <1>0
      <4> HIDE DEF D, I
      <4>2. d <= Len(f) - k
        BY <2>3, <2>4, <3>2
      <4> QED
        BY <1>0, <3>1, <4>1, <4>2
    <3> QED
      BY <3>1, <3>2
  <2> HIDE DEF D
  <2>6. Max(I) \in I /\ \A k \in I : Max(I) >= k
    BY <2>5 DEF Max
  <2>7. EndOfLastLine(f) \in I /\ \A k \in I : EndOfLastLine(f) >= k
    BY <1>1, <1>3, <2>6
  <2> QED
    BY <1>0, <2>7 DEF EndsAt
<1> QED
  BY <1>2, <1>3

LEMMA EndsOnce ==
  ASSUME NEW f \in Seq(CellSet), NEW n, EndsAt(f, n)
  PROVE  EndOfLastLine(f) = n
<1>1. EndsAt(f, EndOfLastLine(f))
  BY EndOfLastLineEnds
<1> HIDE DEF EndOfLastLine
<1>2. EndOfLastLine(f) \in 0 .. Len(f) /\ n \in 0 .. Len(f) /\ Len(f) \in Nat
  BY <1>1 DEF EndsAt
<1>3. ~(EndOfLastLine(f) < n)
  BY <1>1, <1>2 DEF EndsAt
<1>4. ~(n < EndOfLastLine(f))
  BY <1>1, <1>2 DEF EndsAt
<1> QED
  BY <1>2, <1>3, <1>4

\* The first n cells of f are whole lines.
LinesTo(f, n) ==
  /\ n % 2 = 0
  /\ \A i \in 1 .. n \div 2 : f[2 * i - 1].part = "head" /\ f[2 * i].part = "tail"

\* Every line that ends with a newline is one record.
Shape(f) == LinesTo(f, EndOfLastLine(f))

\* So it is, and nothing follows the last newline.
Lines(f) == LinesTo(f, Len(f))

Line(f, i) ==
  [offset |-> 2 * (i - 1), seq |-> f[2 * i].entry.seq, record |-> f[2 * i].entry.record]

LEMMA ReadableIs ==
  ASSUME NEW f
  PROVE  Readable(f) <=> Shape(f) /\ \A i \in DOMAIN f : f[i].part # "cut"
BY DEF Readable, Shape, LinesTo, Stride

LEMMA EntriesIs ==
  ASSUME NEW f \in Seq(CellSet)
  PROVE  /\ Entries(f) \in Seq(LineSet)
         /\ Len(Entries(f)) = EndOfLastLine(f) \div 2
         /\ Entries(f) = [i \in 1 .. EndOfLastLine(f) \div 2 |-> Line(f, i)]
         /\ \A i \in 1 .. EndOfLastLine(f) \div 2 : Entries(f)[i] = Line(f, i)
<1> DEFINE n == EndOfLastLine(f) \div 2
<1>1. EndOfLastLine(f) \in 0 .. Len(f) /\ Len(f) \in Nat
  BY EndOfLastLineEnds DEF EndsAt
<1>2. n \in Nat /\ \A i \in 1 .. n : i \in Nat /\ i > 0 /\ 2 * i \in 1 .. Len(f)
  BY <1>1
<1>3. Entries(f) = [i \in 1 .. n |-> Line(f, i)]
  BY DEF Entries, Line, Stride
<1> HIDE DEF n
<1>4. ASSUME NEW i \in 1 .. n
      PROVE  Line(f, i) \in LineSet
  <2>1. f[2 * i] \in CellSet /\ 2 * (i - 1) \in Nat
    BY <1>2
  <2> QED
    BY <2>1 DEF Line, CellSet, EntrySet, LineSet
<1>5. Entries(f) \in [1 .. n -> LineSet]
  BY <1>3, <1>4
<1>6. Entries(f) \in Seq(LineSet) /\ Len(Entries(f)) = n
  BY <1>2, <1>5
<1> QED
  BY <1>3, <1>6 DEF n

\* A file that has the same cells up to the last newline has the same lines.
LEMMA SameLines ==
  ASSUME NEW f \in Seq(CellSet), NEW g \in Seq(CellSet),
         Len(g) >= EndOfLastLine(f),
         \A i \in 1 .. EndOfLastLine(f) : g[i] = f[i],
         \A i \in EndOfLastLine(f) + 1 .. Len(g) : g[i].part # "tail"
  PROVE  /\ EndOfLastLine(g) = EndOfLastLine(f)
         /\ Entries(g) = Entries(f)
         /\ Shape(g) <=> Shape(f)
<1> DEFINE n == EndOfLastLine(f)
<1>1. EndsAt(f, n) /\ n \in 0 .. Len(f) /\ Len(f) \in Nat
  BY EndOfLastLineEnds DEF EndsAt
<1>2. EndsAt(g, n)
  BY <1>1 DEF EndsAt
<1>3. EndOfLastLine(g) = n
  BY <1>2, EndsOnce
<1> HIDE DEF n
<1>4. \A i \in 1 .. n \div 2 : 2 * i \in 1 .. n /\ 2 * i - 1 \in 1 .. n
  BY <1>1
<1>5. \A i \in 1 .. n : g[i] = f[i]
  BY DEF n
<1>6. \A i \in 1 .. n \div 2 : g[2 * i] = f[2 * i] /\ g[2 * i - 1] = f[2 * i - 1]
  BY <1>4, <1>5
<1>7. Entries(g) = [i \in 1 .. n \div 2 |-> Line(g, i)] /\ Entries(f) = [i \in 1 .. n \div 2 |-> Line(f, i)]
  BY <1>3, EntriesIs DEF n
<1>8. Entries(g) = Entries(f)
  BY <1>6, <1>7 DEF Line
<1>9. Shape(g) <=> Shape(f)
  BY <1>3, <1>6 DEF Shape, LinesTo, n
<1> QED
  BY <1>3, <1>8, <1>9 DEF n

LEMMA LinesEnd ==
  ASSUME NEW f \in Seq(CellSet), Lines(f)
  PROVE  /\ EndOfLastLine(f) = Len(f) /\ Shape(f)
         /\ Len(Entries(f)) = Len(f) \div 2 /\ 2 * Len(Entries(f)) = Len(f)
<1>1. Len(f) \in Nat /\ Len(f) % 2 = 0
  BY DEF Lines, LinesTo
<1>2. Len(f) > 0 => Len(f) \div 2 \in 1 .. Len(f) \div 2 /\ 2 * (Len(f) \div 2) = Len(f)
  BY <1>1
<1>3. Len(f) > 0 => f[Len(f)].part = "tail"
  BY <1>2 DEF Lines, LinesTo
<1>4. EndsAt(f, Len(f))
  BY <1>1, <1>3 DEF EndsAt
<1>5. EndOfLastLine(f) = Len(f)
  BY <1>4, EndsOnce
<1> QED
  BY <1>1, <1>5, EntriesIs DEF Lines, Shape

LEMMA WithoutTornLineIs ==
  ASSUME NEW f \in Seq(CellSet)
  PROVE  /\ WithoutTornLine(f) \in Seq(CellSet)
         /\ Len(WithoutTornLine(f)) = EndOfLastLine(f)
         /\ Entries(WithoutTornLine(f)) = Entries(f)
         /\ Shape(f) => Lines(WithoutTornLine(f))
<1> DEFINE n == EndOfLastLine(f)
           g == WithoutTornLine(f)
<1>1. n \in 0 .. Len(f) /\ Len(f) \in Nat
  BY EndOfLastLineEnds DEF EndsAt
<1>2. g = SubSeq(f, 1, n)
  BY DEF WithoutTornLine
<1> HIDE DEF n, g
<1>3. g \in Seq(CellSet) /\ Len(g) = n /\ \A i \in 1 .. n : g[i] = f[i]
  BY <1>1, <1>2
<1>4. EndOfLastLine(g) = n /\ Entries(g) = Entries(f) /\ (Shape(g) <=> Shape(f))
  BY <1>1, <1>3, SameLines DEF n
<1> QED
  BY <1>3, <1>4 DEF Shape, Lines, n, g

LEMMA LineCellsIs ==
  ASSUME NEW f \in Seq(CellSet), NEW x \in EntrySet
  PROVE  /\ f \o LineCells(x) \in Seq(CellSet)
         /\ Len(f \o LineCells(x)) = Len(f) + 2
         /\ \A i \in 1 .. Len(f) : (f \o LineCells(x))[i] = f[i]
         /\ (f \o LineCells(x))[Len(f) + 1] = [entry |-> x, part |-> "head"]
         /\ (f \o LineCells(x))[Len(f) + 2] = [entry |-> x, part |-> "tail"]
<1>1. [entry |-> x, part |-> "head"] \in CellSet /\ [entry |-> x, part |-> "tail"] \in CellSet
  BY DEF CellSet
<1> QED
  BY <1>1 DEF LineCells

\* One more line, behind whole lines; behind anything else nothing is readable.
LEMMA OneMoreLine ==
  ASSUME NEW f \in Seq(CellSet), NEW x \in EntrySet
  PROVE  /\ EndOfLastLine(f \o LineCells(x)) = Len(f) + 2
         /\ Shape(f \o LineCells(x)) <=> Lines(f)
         /\ Lines(f \o LineCells(x)) <=> Lines(f)
         /\ Lines(f) => Entries(f \o LineCells(x))
                         = Append(Entries(f), [offset |-> Len(f), seq |-> x.seq, record |-> x.record])
<1> DEFINE g == f \o LineCells(x)
           n == Len(f)
<1>1. /\ g \in Seq(CellSet) /\ Len(g) = n + 2 /\ \A i \in 1 .. n : g[i] = f[i]
      /\ g[n + 1] = [entry |-> x, part |-> "head"] /\ g[n + 2] = [entry |-> x, part |-> "tail"]
      /\ n \in Nat
  BY LineCellsIs
<1>2. EndsAt(g, n + 2)
  BY <1>1 DEF EndsAt
<1>3. EndOfLastLine(g) = n + 2
  BY <1>1, <1>2, EndsOnce
<1> HIDE DEF g, n
<1>4. (n + 2) % 2 = n % 2 /\ (n + 2) \div 2 = n \div 2 + 1 /\ n \div 2 \in Nat
  BY <1>1
<1>5. \A i \in 1 .. n \div 2 : 2 * i \in 1 .. n /\ 2 * i - 1 \in 1 .. n
  BY <1>1
<1>6. \A i \in 1 .. n \div 2 : g[2 * i] = f[2 * i] /\ g[2 * i - 1] = f[2 * i - 1]
  BY <1>1, <1>5
<1>7. n % 2 = 0 => 2 * (n \div 2 + 1) = n + 2 /\ 2 * (n \div 2 + 1) - 1 = n + 1 /\ 2 * (n \div 2) = n
  BY <1>1
<1>8. LinesTo(g, n + 2) <=> LinesTo(f, n)
  <2>1. \A i \in 1 .. n \div 2 + 1 : i \in 1 .. n \div 2 \/ i = n \div 2 + 1
    BY <1>4
  <2>2. \A i \in 1 .. n \div 2 : i \in 1 .. n \div 2 + 1
    BY <1>4
  <2>3. ASSUME LinesTo(f, n) PROVE LinesTo(g, n + 2)
    <3>1. n % 2 = 0 /\ \A i \in 1 .. n \div 2 : f[2 * i - 1].part = "head" /\ f[2 * i].part = "tail"
      BY <2>3 DEF LinesTo
    <3>2. g[n + 1].part = "head" /\ g[n + 2].part = "tail"
      BY <1>1
    <3>3. ASSUME NEW i \in 1 .. n \div 2 + 1
          PROVE  g[2 * i - 1].part = "head" /\ g[2 * i].part = "tail"
      BY <1>6, <1>7, <2>1, <3>1, <3>2
    <3> QED
      BY <1>4, <3>1, <3>3 DEF LinesTo
  <2>4. ASSUME LinesTo(g, n + 2) PROVE LinesTo(f, n)
    BY <1>4, <1>6, <2>2, <2>4 DEF LinesTo
  <2> QED
    BY <2>3, <2>4
<1>9. Shape(g) <=> Lines(f)
  BY <1>3, <1>8 DEF Shape, Lines, n
<1>10. Lines(g) <=> Lines(f)
  BY <1>1, <1>8 DEF Lines, n
<1>11. ASSUME Lines(f)
       PROVE  Entries(g) = Append(Entries(f), [offset |-> n, seq |-> x.seq, record |-> x.record])
  <2>1. n % 2 = 0
    BY <1>11 DEF Lines, LinesTo, n
  <2>2. EndOfLastLine(f) = n
    BY <1>11, LinesEnd DEF n
  <2>3. Entries(f) \in Seq(LineSet) /\ Len(Entries(f)) = n \div 2
        /\ \A i \in 1 .. n \div 2 : Entries(f)[i] = Line(f, i)
    BY <2>2, EntriesIs
  <2>4. Entries(g) = [i \in 1 .. n \div 2 + 1 |-> Line(g, i)]
    BY <1>1, <1>3, <1>4, EntriesIs
  <2>5. Line(g, n \div 2 + 1) = [offset |-> n, seq |-> x.seq, record |-> x.record]
    BY <1>1, <1>7, <2>1 DEF Line
  <2>6. \A i \in 1 .. n \div 2 : Line(g, i) = Line(f, i)
    BY <1>6 DEF Line
  <2> HIDE DEF Line
  <2> DEFINE e == [offset |-> n, seq |-> x.seq, record |-> x.record]
  <2>7. Entries(g)[n \div 2 + 1] = e /\ \A i \in 1 .. n \div 2 : Entries(g)[i] = Entries(f)[i]
    BY <1>4, <2>3, <2>4, <2>5, <2>6
  <2>8. Entries(g) \in Seq(LineSet) /\ Len(Entries(g)) = n \div 2 + 1
    BY <1>1, <1>3, <1>4, EntriesIs
  <2>9. e \in LineSet
    BY <1>1 DEF EntrySet, LineSet
  <2> HIDE DEF e
  <2> QED
    BY <1>4, <2>3, <2>7, <2>8, <2>9 DEF e
<1> QED
  BY <1>3, <1>9, <1>10, <1>11 DEF g, n

-----------------------------------------------------------------------------
(* The invariant.  What the disk's errors cannot break comes first: the    *)
(* numbers in a record fit the state it is made for, and what the file     *)
(* folds to is never behind memory.                                        *)

\* r carries the next ids of m.
Fits(m, r) ==
  /\ r.kind = "event" => r.id = Len(m.events) + 1
  /\ r.kind = "commit" =>
       \A i \in DOMAIN r.transitions : r.transitions[i].id = Len(m.transitions) + i
  /\ r.kind = "cursor" => r.last \in 0 .. Len(m.events)
  /\ r.kind = "snapshot" => r.id = Len(m.snapshots) + 1

Counts(m) ==
  /\ \A o \in DOMAIN m.rows : m.rows[o] \in 1 .. Len(m.transitions)
  /\ m.cursor.last \in 0 .. Len(m.events)

AtLeast(m, n) ==
  /\ Len(m.events) >= Len(n.events)
  /\ Len(m.transitions) >= Len(n.transitions)

\* Whatever is left of the file when its end is lost folds to good counts.
CountsTo(f) ==
  \A n \in 0 .. Len(f) :
    Shape(SubSeq(f, 1, n)) => Counts(Fold(Entries(SubSeq(f, 1, n))))

FileGood(f, m) == CountsTo(f) /\ (Shape(f) => AtLeast(Fold(Entries(f)), m))

\* The file is front and the line that has been written and not synced.
Written(front, x) ==
  /\ x.seq = seq
  /\ x.record = op.record
  /\ file = front \o LineCells(x)

CountInv ==
  /\ Counts(mem)
  /\ op # Idle => Fits(mem, op.record)
  /\ op.stage # "journal_sync" => FileGood(file, mem)
  /\ op.stage = "journal_sync" =>
       \E front \in Seq(CellSet), x \in EntrySet : Written(front, x) /\ FileGood(front, mem)

UncutInv == ~MultiByte => \A i \in DOMAIN file : file[i].part # "cut"

(* On a disk that returns no error: the file is the acknowledged lines and *)
(* at most one more; every line could be the last one that is left, and    *)
(* its vectors are on the disk.                                            *)

VectorsHold(vectors, v, n) ==
  \A o \in DOMAIN vectors :
    /\ vectors[o] < n
    /\ v[2 * vectors[o] + 1] = [of |-> o, half |-> 1]
    /\ v[2 * vectors[o] + 2] = [of |-> o, half |-> 2]

Numbered(m) ==
  /\ \A i \in DOMAIN m.events : m.events[i].id = i
  /\ \A i \in DOMAIN m.transitions : m.transitions[i].id = i
  /\ \A i \in DOMAIN m.snapshots : m.snapshots[i].id = i

\* The snapshot s is the record of line k.
SnapshotOf(s, es, k) ==
  /\ s.offset = 2 * (k - 1)
  /\ es[k].record.kind = "snapshot"
  /\ es[k].record.id = s.id
  /\ es[k].record.last = s.last

Backed(es, m) ==
  \A i \in DOMAIN m.snapshots : \E k \in DOMAIN es : SnapshotOf(m.snapshots[i], es, k)

\* What lines fold to, where n vectors are in v.
Sound(es, v, n) ==
  /\ Numbered(Fold(es))
  /\ Backed(es, Fold(es))
  /\ VectorsHold(Fold(es).slots, v, n)

AllSound(es, v, n) == \A k \in 0 .. Len(es) : Sound(SubSeq(es, 1, k), v, n)

\* The vectors that a sync has covered.
Kept == vsynced \div 2

\* The number of acknowledged lines, and the lines.
Count == len \div 2
Acked == SubSeq(Entries(file), 1, Count)

LogInv ==
  /\ Shape(file)
  /\ Len(Entries(file)) = Len(file) \div 2
  /\ \A i \in DOMAIN Entries(file) : Entries(file)[i].seq = i
  /\ AllSound(Entries(file), vfile, Kept)

LiveInv ==
  /\ Lines(file)
  /\ len % 2 = 0
  /\ mem = Fold(Acked)
  /\ seq = Len(Entries(file))
  /\ op.stage = "journal_sync" => Len(Entries(file)) = Count + 1
  /\ op.stage # "journal_sync" => Len(Entries(file)) = Count
  /\ op.stage = "vector_sync" =>
       /\ Len(vfile) = 2 * vslots + 2
       /\ VectorsHold([o \in op.vectorOf |-> vslots], vfile, vslots + 1)
  /\ op.stage # "vector_sync" => Len(vfile) = 2 * vslots
  /\ op.stage \in {"journal", "journal_sync"} => VectorsHold(op.record.vectors, vfile, Kept)

IntactInv ==
  /\ LogInv
  /\ up => LiveInv
  /\ ~up => mem = EmptyState

StoreInv == StoreTypes /\ CountInv /\ UncutInv /\ (Intact => IntactInv)

-----------------------------------------------------------------------------
(* Types are kept.                                                         *)

LEMMA InitTypes == Init => StoreTypes
<1> SUFFICES ASSUME Init PROVE StoreTypes
  OBVIOUS
<1>1. mem \in StateSet /\ file \in Seq(CellSet) /\ vfile \in Seq(VectorCellSet)
  BY EmptyStateTypes DEF Init
<1> QED
  <2>1. DiskOK
    BY DEF Init, DiskOK, Idle
  <2> QED
    BY <1>1, <2>1, BoundsAssumption DEF Init, StoreTypes, OperationOK

LEMMA BeginTypes ==
  ASSUME StoreTypes, NEW r \in RecordSet, NEW S \in SUBSET Object,
         \A o \in S : S = {o}, Begin(r, S), nextId' \in 1 .. MaxObjects + 1
  PROVE  StoreTypes'
<1>1. op' \in OperationSet
  BY DEF Begin, OperationSet, Stage
<1>2. /\ up' /\ seq' < MaxRecords
      /\ op'.stage \in {"vector", "vector_sync"} => \E o \in Object : op'.vectorOf = {o}
  BY DEF Begin, StoreTypes
<1>3. OperationOK'
  BY <1>1, <1>2 DEF OperationOK
<1>4. DiskOK'
  BY DEF Begin, StoreTypes, DiskOK, files, disk
<1> QED
  BY <1>3, <1>4 DEF Begin, StoreTypes, files, disk

LEMMA NextIdTypes ==
  ASSUME StoreTypes
  PROVE  /\ nextId \in Nat /\ MaxObjects \in Nat
         /\ nextId \in Object => nextId + 1 \in 1 .. MaxObjects + 1
BY BoundsAssumption DEF StoreTypes, Object

\* The transitions that a commit is made of.
LEMMA TransitionsTypes ==
  ASSUME StoreTypes, NEW objects \in Seq(Object)
  PROVE  /\ Transitions(objects) \in Seq(TransitionSet)
         /\ Len(Transitions(objects)) = Len(objects)
         /\ \A i \in DOMAIN objects : Transitions(objects)[i].id = Len(mem.transitions) + i
<1>1. Len(mem.transitions) \in Nat
  BY DEF StoreTypes, StateSet
<1>2. DOMAIN objects = 1 .. Len(objects) /\ Len(objects) \in Nat
  OBVIOUS
<1>3. \A i \in 1 .. Len(objects) :
        [id |-> Len(mem.transitions) + i, object |-> objects[i]] \in TransitionSet
  BY <1>1 DEF TransitionSet
<1>4. Transitions(objects) \in [1 .. Len(objects) -> TransitionSet]
  BY <1>2, <1>3 DEF Transitions, Base
<1> QED
  BY <1>2, <1>4 DEF Transitions, Base

\* What each operation begins with.
LEMMA OperationBegins ==
  ASSUME StoreTypes, Counts(mem), Operation
  PROVE  \E r \in RecordSet, S \in SUBSET Object :
           /\ Begin(r, S) /\ nextId' \in 1 .. MaxObjects + 1
           /\ \A o \in S : S = {o}
           /\ Fits(mem, r) /\ r.vectors = <<>>
<1>0. <<>> \in MapsTo(Nat) /\ {} \in SUBSET Object
  BY EmptyMap
<1>1. mem \in StateSet /\ Len(mem.events) \in Nat /\ mem.cursor \in CursorSet
      /\ Len(mem.snapshots) \in Nat /\ Len(mem.transitions) \in Nat
  BY DEF StoreTypes, StateSet
<1>2. nextId \in 1 .. MaxObjects + 1
  BY DEF StoreTypes
<1>3. CASE AppendEvent
  <2> DEFINE r == EventRecord(Len(mem.events) + 1, nextId, <<>>)
  <2>1. nextId \in Object /\ Begin(r, {nextId}) /\ nextId' = nextId + 1
    BY <1>3 DEF AppendEvent
  <2>2. r \in RecordSet /\ Fits(mem, r) /\ r.vectors = <<>>
    BY <1>0, <1>1, <2>1 DEF EventRecord, RecordSet, Fits
  <2> HIDE DEF r
  <2> QED
    BY <2>1, <2>2, NextIdTypes
<1>4. CASE CommitProposal
  <2>1. PICK fresh \in BOOLEAN, embed \in BOOLEAN, old \in {<<>>} \cup {<<o>> : o \in DOMAIN mem.rows} :
          LET new == IF fresh THEN <<nextId>> ELSE <<>>
              objects == new \o old
          IN /\ fresh => nextId \in Object
             /\ embed => objects # <<>>
             /\ Begin(CommitRecord(Transitions(objects), <<>>),
                      IF embed THEN {objects[1]} ELSE {})
             /\ nextId' = nextId + Len(new)
    BY <1>4 DEF CommitProposal
  <2> DEFINE new == IF fresh THEN <<nextId>> ELSE <<>>
             objects == new \o old
             r == CommitRecord(Transitions(objects), <<>>)
             S == IF embed THEN {objects[1]} ELSE {}
  <2>2. fresh => nextId \in Object
    BY <2>1
  <2>3. embed => objects # <<>>
    BY <2>1
  <2>4. Begin(r, S)
    BY <2>1
  <2>5. nextId' = nextId + Len(new)
    BY <2>1
  <2>6. DOMAIN mem.rows \subseteq Object
    BY <1>1, MapsToIs DEF StateSet
  <2>7. new \in Seq(Object) /\ old \in Seq(Object)
    <3>1. \A o \in Object : <<o>> \in Seq(Object)
      OBVIOUS
    <3>2. <<>> \in Seq(Object)
      OBVIOUS
    <3> QED
      BY <2>2, <2>6, <3>1, <3>2
  <2>8. nextId' \in 1 .. MaxObjects + 1
    BY <1>2, <2>2, <2>5, NextIdTypes
  <2> HIDE DEF new
  <2>9. objects \in Seq(Object)
    BY <2>7
  <2> HIDE DEF objects
  <2>10. S \in SUBSET Object /\ \A o \in S : S = {o}
    BY <2>3, <2>9
  <2>11. DOMAIN Transitions(objects) = DOMAIN objects
    BY DEF Transitions
  <2>12. r \in RecordSet /\ Fits(mem, r) /\ r.vectors = <<>>
    BY <1>0, <2>9, <2>11, TransitionsTypes DEF CommitRecord, RecordSet, Fits
  <2> HIDE DEF r, S
  <2> QED
    BY <2>4, <2>8, <2>10, <2>12
<1>5. CASE SetCursor
  <2>1. PICK last \in mem.cursor.last .. Len(mem.events) :
          Begin(CursorRecord(last, 0), {}) /\ UNCHANGED nextId
    BY <1>5 DEF SetCursor
  <2>2. last \in 0 .. Len(mem.events)
    BY <1>1 DEF CursorSet
  <2>3. /\ CursorRecord(last, 0) \in RecordSet /\ Fits(mem, CursorRecord(last, 0))
        /\ CursorRecord(last, 0).vectors = <<>>
    BY <1>0, <2>2 DEF CursorRecord, RecordSet, Fits
  <2> QED
    BY <1>0, <1>2, <2>1, <2>3
<1>6. CASE BumpFailures
  <2> DEFINE r == CursorRecord(mem.cursor.last, mem.cursor.failures + 1)
  <2>1. Begin(r, {}) /\ UNCHANGED nextId
    BY <1>6 DEF BumpFailures
  <2>2. mem.cursor.last \in 0 .. Len(mem.events)
    BY DEF Counts
  <2>3. r \in RecordSet /\ Fits(mem, r) /\ r.vectors = <<>>
    BY <1>0, <1>1, <2>2 DEF CursorRecord, RecordSet, Fits, CursorSet
  <2> HIDE DEF r
  <2> QED
    BY <1>0, <1>2, <2>1, <2>3
<1>7. CASE TakeSnapshot
  <2> DEFINE r == SnapshotRecord(Len(mem.snapshots) + 1, Len(mem.events))
  <2>1. Begin(r, {}) /\ UNCHANGED nextId
    BY <1>7 DEF TakeSnapshot
  <2>2. r \in RecordSet /\ Fits(mem, r) /\ r.vectors = <<>>
    BY <1>0, <1>1 DEF SnapshotRecord, RecordSet, Fits
  <2> HIDE DEF r
  <2> QED
    BY <1>0, <1>2, <2>1, <2>2
<1> QED
  BY <1>3, <1>4, <1>5, <1>6, <1>7 DEF Operation

LEMMA Busy ==
  ASSUME StoreTypes, op.stage # "idle"
  PROVE  /\ up /\ op \in OperationSet /\ op.record \in RecordSet /\ op.vectorOf \in SUBSET Object
         /\ op.stage # "journal_sync" => seq < MaxRecords
         /\ op.stage \in {"vector", "vector_sync"} => \E o \in Object : op.vectorOf = {o}
<1>1. OperationOK /\ op # Idle
  BY DEF StoreTypes, Idle
<1> QED
  BY <1>1 DEF OperationOK, OperationSet

\* The file that a torn write leaves.
LEMMA TornTypes ==
  ASSUME NEW f \in Seq(CellSet), NEW n \in 0 .. Len(f), NEW g \in Torn(f, n)
  PROVE  /\ g \in Seq(CellSet) /\ Len(g) = n
         /\ \A i \in 1 .. n : \/ g[i] = f[i]
                              \/ MultiByte /\ i = n /\ f[i].part = "head" /\ g[i].part = "cut"
         /\ n = Len(f) => g = f
<1> DEFINE kept == SubSeq(f, 1, n)
<1>1. kept \in Seq(CellSet) /\ Len(kept) = n /\ (\A i \in 1 .. n : kept[i] = f[i])
      /\ (n = Len(f) => kept = f) /\ n \in Nat
  OBVIOUS
<1>2. \/ g = kept
      \/ MultiByte /\ n < Len(f) /\ n > 0 /\ kept[n].part = "head" /\ g = [kept EXCEPT ![n].part = "cut"]
  BY DEF Torn
<1>3. CASE g = kept
  BY <1>1, <1>3
<1>4. CASE MultiByte /\ n < Len(f) /\ n > 0 /\ kept[n].part = "head" /\ g = [kept EXCEPT ![n].part = "cut"]
  <2> HIDE DEF kept
  <2>1. n \in 1 .. n /\ kept[n] \in CellSet
    BY <1>1, <1>4
  <2> DEFINE c == [kept[n] EXCEPT !.part = "cut"]
  <2>2. c \in CellSet /\ c.part = "cut"
    BY <2>1 DEF CellSet
  <2>3. g = [kept EXCEPT ![n] = c]
    BY <1>4
  <2> HIDE DEF c
  <2>4. g \in Seq(CellSet) /\ Len(g) = n /\ g[n] = c /\ \A i \in 1 .. n : i # n => g[i] = kept[i]
    BY <1>1, <2>1, <2>2, <2>3
  <2> QED
    BY <1>1, <1>4, <2>2, <2>4
<1> QED
  BY <1>2, <1>3, <1>4

\* What is left when the process dies, killed or with the machine.
Dies ==
  /\ ~up' /\ op' = Idle /\ mem' = EmptyState /\ len' = 0 /\ seq' = 0 /\ vslots' = 0
  /\ crashes' \in 0 .. MaxCrashes
  /\ UNCHANGED <<nextId, diskFaults>>
  /\ \E n \in synced .. Len(file) : file' \in Torn(file, n)
  /\ \E n \in vsynced .. Len(vfile) : vfile' = SubSeq(vfile, 1, n)
  /\ synced' \in synced .. Len(file')
  /\ vsynced' \in vsynced .. Len(vfile')

LEMMA DeathIs ==
  ASSUME StoreTypes, Kill \/ PowerLoss
  PROVE  Dies
<1>1. /\ file \in Seq(CellSet) /\ vfile \in Seq(VectorCellSet)
      /\ Len(file) \in Nat /\ Len(vfile) \in Nat
      /\ synced \in 0 .. Len(file) /\ vsynced \in 0 .. Len(vfile)
      /\ op.stage = "journal_sync" => synced + 2 <= Len(file)
      /\ op.stage = "vector_sync" => vsynced + 2 <= Len(vfile)
  BY DEF StoreTypes, DiskOK
<1>2. /\ ~up' /\ op' = Idle /\ mem' = EmptyState /\ len' = 0 /\ seq' = 0 /\ vslots' = 0
      /\ crashes' \in 0 .. MaxCrashes
      /\ UNCHANGED <<nextId, diskFaults>>
  <2>1. Die
    BY DEF Kill, PowerLoss
  <2>2. crashes \in 0 .. MaxCrashes /\ crashes < MaxCrashes
    BY <2>1 DEF Die, StoreTypes
  <2> QED
    BY <2>1, <2>2, BoundsAssumption DEF Die
<1>3. ASSUME NEW n \in synced .. Len(file), NEW g \in Torn(file, n) PROVE Len(g) = n
  <2>1. n \in 0 .. Len(file)
    BY <1>1
  <2> QED
    BY <1>1, <2>1, TornTypes
<1>4. ASSUME NEW n \in vsynced .. Len(vfile) PROVE Len(SubSeq(vfile, 1, n)) = n
  <2>1. n \in 0 .. Len(vfile)
    BY <1>1
  <2> QED
    BY <1>1, <2>1
<1>5. Torn(file, Len(file)) = {file} /\ SubSeq(vfile, 1, Len(vfile)) = vfile
  <2>1. SubSeq(file, 1, Len(file)) = file /\ SubSeq(vfile, 1, Len(vfile)) = vfile
    BY <1>1
  <2>2. ~(Len(file) < Len(file))
    BY <1>1
  <2> QED
    BY <2>1, <2>2 DEF Torn
<1>6. /\ \E n \in synced .. Len(file) : file \in Torn(file, n)
      /\ \E n \in vsynced .. Len(vfile) : vfile = SubSeq(vfile, 1, n)
      /\ synced \in synced .. Len(file) /\ vsynced \in vsynced .. Len(vfile)
  <2>1. Len(file) \in synced .. Len(file) /\ Len(vfile) \in vsynced .. Len(vfile)
    BY <1>1
  <2>2. synced \in synced .. Len(file) /\ vsynced \in vsynced .. Len(vfile)
    BY <1>1
  <2> QED
    BY <1>5, <2>1, <2>2
<1>7. CASE Kill
  <2>1. synced' = synced /\ vsynced' = vsynced
    BY <1>7 DEF Kill, disk
  <2>2. CASE op.stage = "vector_sync"
    <3>1. file' = file
      BY <1>7, <2>2 DEF Kill
    <3>2. PICK n \in Len(vfile) - 2 .. Len(vfile) : vfile' = SubSeq(vfile, 1, n)
      BY <1>7, <2>2 DEF Kill, Stride
    <3>3. n \in vsynced .. Len(vfile)
      BY <1>1, <2>2, <3>2
    <3>4. Len(vfile') = n
      BY <1>4, <3>2, <3>3
    <3>5. vsynced \in vsynced .. Len(vfile')
      BY <1>1, <3>3, <3>4
    <3> QED
      BY <1>2, <1>6, <2>1, <3>1, <3>2, <3>3, <3>5 DEF Dies
  <2>3. CASE op.stage = "journal_sync"
    <3>1. vfile' = vfile
      BY <1>7, <2>3 DEF Kill
    <3>2. PICK n \in Len(file) - 2 .. Len(file) : file' \in Torn(file, n)
      BY <1>7, <2>3 DEF Kill, Stride
    <3>3. n \in synced .. Len(file)
      BY <1>1, <2>3, <3>2
    <3>4. Len(file') = n
      BY <1>3, <3>2, <3>3
    <3>5. synced \in synced .. Len(file')
      BY <1>1, <3>3, <3>4
    <3> QED
      BY <1>2, <1>6, <2>1, <3>1, <3>2, <3>3, <3>5 DEF Dies
  <2>4. CASE op.stage \notin {"vector_sync", "journal_sync"}
    <3>1. file' = file /\ vfile' = vfile
      BY <1>7, <2>4 DEF Kill, files
    <3> QED
      BY <1>2, <1>6, <2>1, <3>1 DEF Dies
  <2> QED
    BY <2>2, <2>3, <2>4
<1>8. CASE PowerLoss
  <2>1. PICK n \in synced .. Len(file) : file' \in Torn(file, n)
    BY <1>8 DEF PowerLoss
  <2>2. PICK k \in vsynced .. Len(vfile) : vfile' = SubSeq(vfile, 1, k)
    BY <1>8 DEF PowerLoss
  <2>3. Len(file') = n /\ Len(vfile') = k
    BY <1>3, <1>4, <2>1, <2>2
  <2>4. synced' = Len(file') /\ vsynced' = Len(vfile')
    BY <1>8 DEF PowerLoss
  <2>5. synced' \in synced .. Len(file') /\ vsynced' \in vsynced .. Len(vfile')
    BY <1>1, <2>1, <2>2, <2>3, <2>4
  <2> QED
    BY <1>2, <2>1, <2>2, <2>5 DEF Dies
<1> QED
  BY <1>7, <1>8

\* An operation that has written nothing yet ends on an error: what the two
\* files gain is the first cell of a write, or nothing.
Faults ==
  /\ up /\ op' = Idle /\ diskFaults' \in 1 .. MaxDiskFaults
  /\ UNCHANGED <<up, synced, mem, len, nextId, crashes>>
  /\ \/ /\ op.stage \in {"vector", "vector_sync", "journal_sync"} /\ UNCHANGED <<file, seq>>
        /\ \/ UNCHANGED vfile
           \/ \E c \in VectorCellSet : vfile' = Append(vfile, c)
     \/ /\ op.stage = "journal" /\ UNCHANGED vfile /\ seq' = seq + 1
        /\ \/ UNCHANGED file
           \/ \E c \in CellSet : c.part = "head" /\ file' = Append(file, c)
  /\ \/ UNCHANGED <<vsynced, vslots>>
     \/ /\ UNCHANGED vfile
        /\ vsynced' = Len(vfile) /\ vslots' = vslots + 1

LEMMA FaultIs ==
  ASSUME StoreTypes, DiskFault
  PROVE  Faults
<1>0. ASSUME Fail PROVE /\ up /\ op' = Idle /\ diskFaults' \in 1 .. MaxDiskFaults
                       /\ UNCHANGED <<up, mem, len, nextId, crashes>>
  BY <1>0, BoundsAssumption DEF Fail, StoreTypes
<1>1. CASE VectorWriteFails
  <2> DEFINE o == CHOOSE o \in op.vectorOf : TRUE
  <2>1. PICK n \in 0 .. 1 : vfile' = vfile \o SubSeq(VectorCells(o), 1, n)
    BY <1>1 DEF VectorWriteFails
  <2>2. op.stage = "vector" /\ Fail /\ UNCHANGED <<file, synced, vsynced, seq, vslots>>
    BY <1>1 DEF VectorWriteFails, disk
  <2>3. o \in Object
    BY <2>2, Busy
  <2> HIDE DEF o
  <2>4. [of |-> o, half |-> 1] \in VectorCellSet /\ [of |-> o, half |-> 2] \in VectorCellSet
    BY <2>3 DEF VectorCellSet
  <2>5. vfile' = vfile \/ vfile' = Append(vfile, [of |-> o, half |-> 1])
    <3>1. vfile \in Seq(VectorCellSet)
      BY DEF StoreTypes
    <3>2. CASE n = 0
      BY <2>1, <2>4, <3>1, <3>2 DEF VectorCells
    <3>3. CASE n = 1
      BY <2>1, <2>4, <3>1, <3>3 DEF VectorCells
    <3> QED
      BY <3>2, <3>3
  <2> QED
    BY <1>0, <2>2, <2>4, <2>5 DEF Faults
<1>2. CASE VectorSyncFails
  BY <1>0, <1>2 DEF VectorSyncFails, files, disk, Faults
<1>5. CASE VectorRemapFails
  BY <1>0, <1>5 DEF VectorRemapFails, files, SyncData, Faults
<1>3. CASE JournalWriteFails
  <2> DEFINE x == [seq |-> seq + 1, record |-> op.record]
  <2>1. PICK n \in 0 .. 1 : file' = file \o SubSeq(LineCells(x), 1, n)
    BY <1>3 DEF JournalWriteFails
  <2>2. op.stage = "journal" /\ Fail /\ UNCHANGED <<vfile, synced, vsynced, vslots>> /\ seq' = seq + 1
    BY <1>3 DEF JournalWriteFails, disk
  <2>7. seq \in 0 .. MaxRecords
    BY DEF StoreTypes
  <2>3. x \in EntrySet
    BY <2>2, <2>7, Busy, BoundsAssumption DEF EntrySet
  <2> HIDE DEF x
  <2>4. [entry |-> x, part |-> "head"] \in CellSet /\ [entry |-> x, part |-> "tail"] \in CellSet
    BY <2>3 DEF CellSet
  <2>5. file' = file \/ file' = Append(file, [entry |-> x, part |-> "head"])
    <3>1. file \in Seq(CellSet)
      BY DEF StoreTypes
    <3>2. CASE n = 0
      BY <2>1, <2>4, <3>1, <3>2 DEF LineCells
    <3>3. CASE n = 1
      BY <2>1, <2>4, <3>1, <3>3 DEF LineCells
    <3> QED
      BY <3>2, <3>3
  <2> QED
    BY <1>0, <2>2, <2>4, <2>5 DEF Faults
<1>4. CASE JournalSyncFails
  BY <1>0, <1>4 DEF JournalSyncFails, files, disk, Faults
<1> QED
  BY <1>1, <1>2, <1>3, <1>4, <1>5 DEF DiskFault

Least(a, b) == IF a <= b THEN a ELSE b

LEMMA MinIs ==
  ASSUME NEW a \in Nat, NEW b \in Nat
  PROVE  Min({a, b}) = Least(a, b)
<1>1. CASE a <= b
  BY <1>1 DEF Min, Least
<1>2. CASE ~(a <= b)
  BY <1>2 DEF Min, Least
<1> QED
  BY <1>1, <1>2

\* Store::open.
Opens ==
  /\ ~up /\ up' /\ Readable(file) /\ Lines(file')
  /\ file' = WithoutTornLine(file) /\ Entries(file') = Entries(file)
  /\ vfile' \in Seq(VectorCellSet) /\ Len(vfile') = 2 * (Len(vfile) \div 2)
  /\ \A i \in 1 .. Len(vfile') : vfile'[i] = vfile[i]
  /\ mem' = Fold(Entries(file)) /\ mem' \in StateSet
  /\ len' = EndOfLastLine(file) /\ len' = Len(file')
  /\ vslots' = Len(vfile) \div 2
  /\ Entries(file) = <<>> => seq' = 0
  /\ Entries(file) # <<>> => seq' = Entries(file)[Len(Entries(file))].seq
  /\ synced' = Least(synced, Len(file')) /\ vsynced' = Least(vsynced, Len(vfile'))
  /\ UNCHANGED <<op, nextId, crashes, diskFaults>>

LEMMA OpenIs ==
  ASSUME StoreTypes, Open
  PROVE  Opens
<1>1. file \in Seq(CellSet) /\ vfile \in Seq(VectorCellSet) /\ Len(vfile) \in Nat
  BY DEF StoreTypes
<1>2. Readable(file) /\ Shape(file)
  BY ReadableIs DEF Open
<1>3. mem' = Fold(Entries(file)) /\ mem' \in StateSet
  BY <1>1, EntriesIs, FoldTypes DEF Open
<1>4. file' = WithoutTornLine(file) /\ Entries(file') = Entries(file) /\ Lines(file')
      /\ len' = EndOfLastLine(file) /\ len' = Len(file')
  BY <1>1, <1>2, WithoutTornLineIs DEF Open
<1>5. vfile' = SubSeq(vfile, 1, Len(vfile) - (Len(vfile) % 2))
  BY DEF Open, WholeVectors, Stride
<1>6. Len(vfile) - (Len(vfile) % 2) = 2 * (Len(vfile) \div 2)
      /\ Len(vfile) - (Len(vfile) % 2) \in 0 .. Len(vfile)
  BY <1>1
<1>7. vfile' \in Seq(VectorCellSet) /\ Len(vfile') = 2 * (Len(vfile) \div 2)
      /\ \A i \in 1 .. Len(vfile') : vfile'[i] = vfile[i]
  <2> DEFINE n == Len(vfile) - (Len(vfile) % 2)
  <2>1. n \in 0 .. Len(vfile) /\ n = 2 * (Len(vfile) \div 2) /\ vfile' = SubSeq(vfile, 1, n)
    BY <1>5, <1>6
  <2> HIDE DEF n
  <2>2. vfile' \in Seq(VectorCellSet) /\ Len(vfile') = n /\ \A i \in 1 .. n : vfile'[i] = vfile[i]
    BY <1>1, <2>1
  <2> QED
    BY <2>1, <2>2
<1>8. /\ Entries(file) = <<>> => seq' = 0
      /\ Entries(file) # <<>> => seq' = Entries(file)[Len(Entries(file))].seq
  BY DEF Open, Last
<1>9. synced' = Least(synced, Len(file')) /\ vsynced' = Least(vsynced, Len(vfile'))
  <2>1. synced \in Nat /\ vsynced \in Nat
    BY <1>1 DEF StoreTypes, DiskOK
  <2>2. file' \in Seq(CellSet) /\ Len(file') \in Nat /\ Len(vfile') \in Nat
    BY <1>1, <1>4, <1>7, WithoutTornLineIs
  <2>3. synced' = Min({synced, Len(file')}) /\ vsynced' = Min({vsynced, Len(vfile')})
    BY DEF Open
  <2> QED
    BY <2>1, <2>2, <2>3, MinIs
<1> QED
  BY <1>2, <1>3, <1>4, <1>7, <1>8, <1>9 DEF Open, Stride, Opens

\* Vectors::append in full.
VectorWritten(o) ==
  /\ up /\ op.stage = "vector" /\ op \in OperationSet /\ op.vectorOf = {o}
  /\ vfile' \in Seq(VectorCellSet) /\ Len(vfile') = Len(vfile) + 2
  /\ \A i \in 1 .. Len(vfile) : vfile'[i] = vfile[i]
  /\ vfile'[Len(vfile) + 1] = [of |-> o, half |-> 1]
  /\ vfile'[Len(vfile) + 2] = [of |-> o, half |-> 2]
  /\ op' \in OperationSet /\ op'.stage = "vector_sync"
  /\ op'.record = op.record /\ op'.vectorOf = op.vectorOf
  /\ UNCHANGED <<up, file, synced, vsynced, mem, len, seq, vslots, nextId, crashes, diskFaults>>

LEMMA VectorWriteIs ==
  ASSUME StoreTypes, VectorWrite
  PROVE  \E o \in Object : VectorWritten(o)
<1>1. op.stage = "vector" /\ op \in OperationSet /\ up
  BY Busy DEF VectorWrite
<1>2. PICK o \in Object : op.vectorOf = {o}
  BY <1>1, Busy
<1>3. vfile' = vfile \o VectorCells(o)
  BY <1>2 DEF VectorWrite
<1>4. vfile \in Seq(VectorCellSet)
  BY DEF StoreTypes
<1>5. [of |-> o, half |-> 1] \in VectorCellSet /\ [of |-> o, half |-> 2] \in VectorCellSet
  BY DEF VectorCellSet
<1>6. /\ vfile' \in Seq(VectorCellSet) /\ Len(vfile') = Len(vfile) + 2
      /\ \A i \in 1 .. Len(vfile) : vfile'[i] = vfile[i]
      /\ vfile'[Len(vfile) + 1] = [of |-> o, half |-> 1]
      /\ vfile'[Len(vfile) + 2] = [of |-> o, half |-> 2]
  BY <1>3, <1>4, <1>5 DEF VectorCells
<1>7. /\ op' \in OperationSet /\ op'.stage = "vector_sync"
      /\ op'.record = op.record /\ op'.vectorOf = op.vectorOf
  BY <1>1 DEF VectorWrite, OperationSet, Stage
<1> QED
  BY <1>1, <1>2, <1>6, <1>7 DEF VectorWrite, VectorWritten, disk

VectorSynced ==
  /\ up /\ op.stage = "vector_sync" /\ vslots' = vslots + 1 /\ op \in OperationSet
  /\ op' \in OperationSet /\ op'.stage = "journal" /\ op'.vectorOf = op.vectorOf
  /\ op'.record = [op.record EXCEPT !.vectors = [o \in op.vectorOf |-> vslots]]
  /\ op'.record.vectors = [o \in op.vectorOf |-> vslots]
  /\ vsynced' = Len(vfile)
  /\ UNCHANGED <<up, file, vfile, synced, mem, len, seq, nextId, crashes, diskFaults>>

LEMMA VectorSyncIs ==
  ASSUME StoreTypes, VectorSync
  PROVE  VectorSynced
<1> DEFINE w == [o \in op.vectorOf |-> vslots]
           r == [op.record EXCEPT !.vectors = w]
<1>1. op.stage = "vector_sync" /\ op \in OperationSet /\ up
  BY Busy DEF VectorSync
<1>2. op.record \in RecordSet /\ op.vectorOf \in SUBSET Object
  BY <1>1 DEF OperationSet
<1>3. w \in MapsTo(Nat)
  <2>1. vslots \in Nat
    BY DEF StoreTypes
  <2>2. w \in [op.vectorOf -> Nat]
    BY <2>1
  <2> HIDE DEF w
  <2> QED
    BY <1>2, <2>2 DEF MapsTo
<1>4. op' = [op EXCEPT !.stage = "journal", !.record = r]
  BY <1>1 DEF VectorSync, OperationSet
<1> HIDE DEF w
<1>5. r \in RecordSet /\ r.vectors = w
  BY <1>2, <1>3 DEF RecordSet
<1> HIDE DEF r
<1>6. /\ op' \in OperationSet /\ op'.stage = "journal" /\ op'.vectorOf = op.vectorOf
      /\ op'.record = r
  BY <1>1, <1>4, <1>5 DEF OperationSet, Stage
<1> QED
  BY <1>1, <1>5, <1>6 DEF VectorSync, VectorSynced, SyncData, files, r, w

LineWritten(x) ==
  /\ up /\ op.stage = "journal" /\ op \in OperationSet
  /\ seq' = seq + 1 /\ seq' \in 1 .. MaxRecords
  /\ x.seq = seq' /\ x.record = op.record
  /\ file' = file \o LineCells(x) /\ file' \in Seq(CellSet)
  /\ op' \in OperationSet /\ op'.stage = "journal_sync"
  /\ op'.record = op.record /\ op'.vectorOf = op.vectorOf
  /\ UNCHANGED <<up, vfile, synced, vsynced, mem, len, vslots, nextId, crashes, diskFaults>>

LEMMA JournalWriteIs ==
  ASSUME StoreTypes, JournalWrite
  PROVE  \E x \in EntrySet : LineWritten(x)
<1> DEFINE x == [seq |-> seq + 1, record |-> op.record]
<1>1. op.stage = "journal" /\ op \in OperationSet /\ up /\ seq \in 0 .. MaxRecords /\ seq < MaxRecords
  <2>1. op.stage = "journal" /\ seq \in 0 .. MaxRecords
    BY DEF JournalWrite, StoreTypes
  <2> QED
    BY <2>1, Busy
<1>2. seq + 1 \in 1 .. MaxRecords
  BY <1>1, BoundsAssumption
<1>3. x \in EntrySet /\ x.seq = seq + 1 /\ x.record = op.record
  BY <1>1, <1>2 DEF EntrySet, OperationSet
<1>4. file' = file \o LineCells(x) /\ seq' = seq + 1
  BY DEF JournalWrite
<1> HIDE DEF x
<1>5. file' \in Seq(CellSet)
  BY <1>3, <1>4, LineCellsIs DEF StoreTypes
<1>6. /\ op' \in OperationSet /\ op'.stage = "journal_sync"
      /\ op'.record = op.record /\ op'.vectorOf = op.vectorOf
  BY <1>1 DEF JournalWrite, OperationSet, Stage
<1> QED
  BY <1>1, <1>2, <1>3, <1>4, <1>5, <1>6 DEF JournalWrite, LineWritten, disk

LineSynced ==
  /\ up /\ op.stage = "journal_sync" /\ op \in OperationSet /\ op.record \in RecordSet
  /\ mem' = Apply(mem, len, op.record) /\ mem' \in StateSet
  /\ len' = len + 2 /\ len' \in Nat /\ op' = Idle
  /\ synced' = Len(file)
  /\ UNCHANGED <<up, file, vfile, vsynced, seq, vslots, nextId, crashes, diskFaults>>

LEMMA JournalSyncIs ==
  ASSUME StoreTypes, JournalSync
  PROVE  LineSynced
<1>1. op.stage = "journal_sync" /\ op \in OperationSet /\ up
  BY Busy DEF JournalSync
<1>2. op.record \in RecordSet
  BY <1>1 DEF OperationSet
<1>3. mem' = Apply(mem, len, op.record) /\ len' = len + 2
  BY DEF JournalSync, OffsetOfLine, Stride
<1>4. mem' \in StateSet
  BY <1>2, <1>3, ApplyTypes DEF StoreTypes
<1>5. len + 2 \in Nat
  BY DEF StoreTypes
<1> QED
  BY <1>1, <1>2, <1>3, <1>4, <1>5 DEF JournalSync, LineSynced, SyncData, files

LEMMA StepTypes ==
  ASSUME StoreTypes, Counts(mem), [Next]_vars
  PROVE  StoreTypes'
<1>1. CASE Operation
  <2>1. PICK r \in RecordSet, S \in SUBSET Object :
           /\ Begin(r, S) /\ nextId' \in 1 .. MaxObjects + 1
           /\ \A o \in S : S = {o}
    BY <1>1, OperationBegins
  <2> QED
    BY <2>1, BeginTypes
<1>2. CASE VectorWrite
  <2>1. PICK o \in Object : VectorWritten(o)
    BY <1>2, VectorWriteIs
  <2>2. seq < MaxRecords
    BY <2>1, Busy DEF VectorWritten
  <2>3. OperationOK'
    BY <2>1, <2>2 DEF VectorWritten, OperationOK
  <2>4. DiskOK'
    <3>1. /\ synced' = synced /\ vsynced' = vsynced /\ file' = file /\ Len(vfile') = Len(vfile) + 2
          /\ op'.stage = "vector_sync" /\ vfile' \in Seq(VectorCellSet)
      BY <2>1 DEF VectorWritten
    <3>2. synced \in 0 .. Len(file) /\ vsynced \in 0 .. Len(vfile) /\ Len(vfile) \in Nat
      BY DEF StoreTypes, DiskOK
    <3>3. vsynced \in 0 .. Len(vfile') /\ vsynced + 2 <= Len(vfile')
      BY <3>1, <3>2
    <3> QED
      BY <3>1, <3>2, <3>3 DEF DiskOK
  <2> QED
    BY <2>1, <2>3, <2>4 DEF VectorWritten, StoreTypes
<1>3. CASE VectorSync
  <2>1. VectorSynced
    BY <1>3, VectorSyncIs
  <2>2. seq < MaxRecords
    BY <2>1, Busy DEF VectorSynced
  <2>3. OperationOK'
    BY <2>1, <2>2 DEF VectorSynced, OperationOK
  <2>4. vslots' \in Nat
    <3>1. vslots \in Nat
      BY DEF StoreTypes
    <3>2. vslots' = vslots + 1
      BY <2>1 DEF VectorSynced
    <3> QED
      BY <3>1, <3>2
  <2>5. DiskOK'
    <3>1. /\ synced' = synced /\ vsynced' = Len(vfile) /\ file' = file /\ vfile' = vfile
          /\ op'.stage = "journal"
      BY <2>1 DEF VectorSynced
    <3>2. synced \in 0 .. Len(file) /\ Len(vfile) \in 0 .. Len(vfile)
      BY DEF StoreTypes, DiskOK
    <3> QED
      BY <3>1, <3>2 DEF DiskOK
  <2> QED
    BY <2>1, <2>3, <2>4, <2>5 DEF VectorSynced, StoreTypes
<1>4. CASE JournalWrite
  <2>1. PICK x \in EntrySet : LineWritten(x)
    BY <1>4, JournalWriteIs
  <2>2. OperationOK'
    BY <2>1 DEF LineWritten, OperationOK
  <2>3. seq' \in 0 .. MaxRecords
    <3>1. seq' \in 1 .. MaxRecords
      BY <2>1 DEF LineWritten
    <3> QED
      BY <3>1, BoundsAssumption
  <2>4. DiskOK'
    <3>1. /\ synced' = synced /\ vsynced' = vsynced /\ vfile' = vfile /\ file' = file \o LineCells(x)
          /\ op'.stage = "journal_sync"
      BY <2>1 DEF LineWritten
    <3>2. /\ synced \in 0 .. Len(file) /\ vsynced \in 0 .. Len(vfile) /\ Len(file) \in Nat
          /\ file \in Seq(CellSet)
      BY DEF StoreTypes, DiskOK
    <3>3. Len(file') = Len(file) + 2
      BY <3>1, <3>2, LineCellsIs
    <3>4. synced \in 0 .. Len(file') /\ synced + 2 <= Len(file')
      BY <3>2, <3>3
    <3> QED
      BY <3>1, <3>2, <3>4 DEF DiskOK
  <2> QED
    BY <2>1, <2>2, <2>3, <2>4 DEF LineWritten, StoreTypes
<1>5. CASE JournalSync
  <2>1. LineSynced
    BY <1>5, JournalSyncIs
  <2>2. DiskOK'
    <3>1. /\ synced' = Len(file) /\ vsynced' = vsynced /\ vfile' = vfile /\ file' = file /\ op' = Idle
      BY <2>1 DEF LineSynced
    <3>2. vsynced \in 0 .. Len(vfile) /\ Len(file) \in 0 .. Len(file)
      BY DEF StoreTypes, DiskOK
    <3> QED
      BY <3>1, <3>2 DEF DiskOK, Idle
  <2> QED
    BY <2>1, <2>2 DEF LineSynced, StoreTypes, OperationOK
<1>6. CASE DiskFault
  <2>1. Faults
    BY <1>6, FaultIs
  <2>2. file \in Seq(CellSet) /\ vfile \in Seq(VectorCellSet) /\ seq \in 0 .. MaxRecords
    BY DEF StoreTypes
  <2>3. file' \in Seq(CellSet) /\ vfile' \in Seq(VectorCellSet)
    <3>1. UNCHANGED file \/ \E c \in CellSet : file' = Append(file, c)
      BY <2>1 DEF Faults
    <3>2. UNCHANGED vfile \/ \E c \in VectorCellSet : vfile' = Append(vfile, c)
      BY <2>1 DEF Faults
    <3>3. \A c \in CellSet : Append(file, c) \in Seq(CellSet)
      BY <2>2
    <3>4. \A c \in VectorCellSet : Append(vfile, c) \in Seq(VectorCellSet)
      BY <2>2
    <3> QED
      BY <2>2, <3>1, <3>2, <3>3, <3>4
  <2>4. seq' \in 0 .. MaxRecords
    <3>1. CASE UNCHANGED seq
      BY <2>2, <3>1
    <3>2. CASE op.stage = "journal" /\ seq' = seq + 1
      BY <2>2, <3>2, Busy, BoundsAssumption
    <3> QED
      BY <2>1, <3>1, <3>2 DEF Faults
  <2>5. diskFaults' \in 0 .. MaxDiskFaults
    <3>1. diskFaults' \in 1 .. MaxDiskFaults
      BY <2>1 DEF Faults
    <3> QED
      BY <3>1, BoundsAssumption
  <2>6. /\ op' = Idle /\ up' \in BOOLEAN /\ mem' \in StateSet /\ len' \in Nat
        /\ nextId' \in 1 .. MaxObjects + 1 /\ crashes' \in 0 .. MaxCrashes
    BY <2>1 DEF Faults, StoreTypes
  <2>7. vslots' \in Nat
    <3>1. vslots \in Nat /\ vslots' \in {vslots, vslots + 1}
      BY <2>1 DEF Faults, StoreTypes
    <3> QED
      BY <3>1
  <2>8. DiskOK'
    <3>1. synced \in 0 .. Len(file) /\ vsynced \in 0 .. Len(vfile) /\ Len(file) \in Nat /\ Len(vfile) \in Nat
      BY DEF StoreTypes, DiskOK
    <3>2. Len(file') \in {Len(file), Len(file) + 1}
      <4>1. \A c \in CellSet : Len(Append(file, c)) = Len(file) + 1
        BY <2>2
      <4> QED
        BY <2>1, <4>1 DEF Faults
    <3>3. Len(vfile') \in {Len(vfile), Len(vfile) + 1}
      <4>1. \A c \in VectorCellSet : Len(Append(vfile, c)) = Len(vfile) + 1
        BY <2>2
      <4> QED
        BY <2>1, <4>1 DEF Faults
    <3>4. synced' = synced /\ (vsynced' = vsynced \/ (vfile' = vfile /\ vsynced' = Len(vfile)))
      BY <2>1 DEF Faults
    <3>5. synced' \in 0 .. Len(file')
      BY <3>1, <3>2, <3>4
    <3>6. vsynced' \in 0 .. Len(vfile')
      BY <3>1, <3>3, <3>4
    <3> QED
      BY <2>6, <3>5, <3>6 DEF DiskOK, Idle
  <2> QED
    BY <2>3, <2>4, <2>5, <2>6, <2>7, <2>8 DEF StoreTypes, OperationOK
<1>7. CASE Kill \/ PowerLoss
  <2>1. Dies
    BY <1>7, DeathIs
  <2>2. file \in Seq(CellSet) /\ vfile \in Seq(VectorCellSet) /\ synced \in Nat /\ vsynced \in Nat
    BY DEF StoreTypes, DiskOK
  <2>3. file' \in Seq(CellSet)
    <3>1. PICK n \in synced .. Len(file) : file' \in Torn(file, n)
      BY <2>1 DEF Dies
    <3>2. n \in 0 .. Len(file)
      BY <2>2
    <3> QED
      BY <2>2, <3>1, <3>2, TornTypes
  <2>4. vfile' \in Seq(VectorCellSet)
    <3>1. PICK n \in vsynced .. Len(vfile) : vfile' = SubSeq(vfile, 1, n)
      BY <2>1 DEF Dies
    <3>2. n \in 0 .. Len(vfile)
      BY <2>2
    <3> QED
      BY <2>2, <3>1, <3>2
  <2>5. /\ op' = Idle /\ up' \in BOOLEAN /\ crashes' \in 0 .. MaxCrashes
        /\ mem' \in StateSet /\ len' \in Nat /\ seq' \in 0 .. MaxRecords /\ vslots' \in Nat
    <3>1. up' = FALSE
      BY <1>7 DEF Kill, PowerLoss, Die
    <3>2. 0 \in 0 .. MaxRecords /\ 0 \in Nat
      BY BoundsAssumption
    <3>3. /\ op' = Idle /\ crashes' \in 0 .. MaxCrashes /\ mem' = EmptyState
          /\ len' = 0 /\ seq' = 0 /\ vslots' = 0
      BY <2>1 DEF Dies
    <3> QED
      BY <3>1, <3>2, <3>3, EmptyStateTypes
  <2>6. DiskOK'
    <3>1. synced' \in synced .. Len(file') /\ vsynced' \in vsynced .. Len(vfile')
      BY <2>1 DEF Dies
    <3>2. Len(file') \in Nat /\ Len(vfile') \in Nat
      BY <2>3, <2>4
    <3>3. synced' \in 0 .. Len(file') /\ vsynced' \in 0 .. Len(vfile')
      BY <2>2, <3>1, <3>2
    <3> QED
      BY <2>5, <3>3 DEF DiskOK, Idle
  <2>7. UNCHANGED <<nextId, diskFaults>>
    BY <2>1 DEF Dies
  <2> QED
    BY <2>3, <2>4, <2>5, <2>6, <2>7 DEF StoreTypes, OperationOK
<1>8. CASE Open
  <2>1. Opens
    BY <1>8, OpenIs
  <2>2. op = Idle /\ file \in Seq(CellSet) /\ vfile \in Seq(VectorCellSet)
    BY <2>1 DEF Opens, StoreTypes, OperationOK
  <2>3. seq' \in 0 .. MaxRecords
    <3>1. Entries(file) \in Seq(LineSet)
      BY <2>2, EntriesIs
    <3>2. Entries(file) # <<>> => Entries(file)[Len(Entries(file))] \in LineSet
      BY <3>1
    <3>3. Entries(file) # <<>> => Entries(file)[Len(Entries(file))].seq \in 1 .. MaxRecords
      BY <3>2 DEF LineSet
    <3> QED
      BY <2>1, <3>3, BoundsAssumption DEF Opens
  <2>4. file' \in Seq(CellSet)
    BY <2>1, <2>2, WithoutTornLineIs DEF Opens
  <2>5. len' \in Nat
    BY <2>1, <2>4 DEF Opens
  <2>6. vslots' \in Nat
    BY <2>1, <2>2 DEF Opens
  <2>7. /\ op' = Idle /\ up' \in BOOLEAN /\ mem' \in StateSet /\ vfile' \in Seq(VectorCellSet)
        /\ UNCHANGED <<nextId, crashes, diskFaults>>
    BY <1>8, <2>1, <2>2 DEF Opens, Open
  <2>8. DiskOK'
    <3>1. synced' = Least(synced, Len(file')) /\ vsynced' = Least(vsynced, Len(vfile'))
      BY <2>1 DEF Opens
    <3>2. synced \in Nat /\ vsynced \in Nat /\ Len(file') \in Nat /\ Len(vfile') \in Nat
      BY <2>4, <2>7 DEF StoreTypes, DiskOK
    <3>3. synced' \in 0 .. Len(file') /\ vsynced' \in 0 .. Len(vfile')
      BY <3>1, <3>2 DEF Least
    <3> QED
      BY <2>7, <3>3 DEF DiskOK, Idle
  <2> QED
    BY <2>3, <2>4, <2>5, <2>6, <2>7, <2>8 DEF StoreTypes, OperationOK
<1>9. CASE UNCHANGED vars
  BY <1>9 DEF vars, files, disk, StoreTypes, OperationOK, DiskOK
<1> QED
  BY <1>1, <1>2, <1>3, <1>4, <1>5, <1>6, <1>7, <1>8, <1>9 DEF Next, Write

-----------------------------------------------------------------------------
(* The counts are kept.                                                    *)

\* A record that fits n keeps the counts of any state that is not behind n.
LEMMA ApplyCounts ==
  ASSUME NEW m \in StateSet, NEW n \in StateSet, NEW r \in RecordSet, NEW i \in Nat, NEW k \in Nat,
         Counts(m), AtLeast(m, n), Fits(n, r)
  PROVE  /\ Counts(Apply(m, i, r))
         /\ AtLeast(Apply(m, i, r), Apply(n, k, r))
         /\ AtLeast(Apply(m, i, r), n)
<1>0. /\ m.events \in Seq(EventSet) /\ n.events \in Seq(EventSet)
      /\ m.transitions \in Seq(TransitionSet) /\ n.transitions \in Seq(TransitionSet)
      /\ m.rows \in MapsTo(Nat)
  BY DEF StateSet
<1>1. /\ Len(m.events) \in Nat /\ Len(n.events) \in Nat /\ Len(m.events) >= Len(n.events)
      /\ Len(m.transitions) \in Nat /\ Len(n.transitions) \in Nat
      /\ Len(m.transitions) >= Len(n.transitions)
  BY <1>0 DEF AtLeast
<1>2. /\ \A o \in DOMAIN m.rows : m.rows[o] \in 1 .. Len(m.transitions)
      /\ m.cursor.last \in 0 .. Len(m.events)
  BY DEF Counts
<1>3. CASE r.kind = "event"
  <2> DEFINE e == [id |-> r.id, object |-> r.object]
  <2>1. r.id \in Nat /\ r.object \in Object
    BY <1>3 DEF RecordSet
  <2>2. e \in EventSet
    BY <2>1 DEF EventSet
  <2>3. /\ Apply(m, i, r) = StateOf(Append(m.events, e), m.rows, m.transitions, m.proposals, m.cursor,
                                    m.snapshots, Overlaid(r.vectors, m.slots))
        /\ Apply(n, k, r) = StateOf(Append(n.events, e), n.rows, n.transitions, n.proposals, n.cursor,
                                    n.snapshots, Overlaid(r.vectors, n.slots))
    BY <1>3, ApplyIs
  <2> HIDE DEF e
  <2>4. /\ Len(Append(m.events, e)) = Len(m.events) + 1
        /\ Len(Append(n.events, e)) = Len(n.events) + 1
    BY <1>0, <2>2
  <2> QED
    BY <1>1, <1>2, <2>3, <2>4 DEF Counts, AtLeast, StateOf
<1>4. CASE r.kind = "commit"
  <2> DEFINE ts == r.transitions
             M == Len(m.transitions)
             K == Len(ts)
             B == 1 .. M + K
  <2>1. ts \in Seq(TransitionSet) /\ K \in Nat
    BY <1>4 DEF RecordSet
  <2>2. \A j \in 1 .. K : ts[j].id = Len(n.transitions) + j
    BY <1>4, <2>1 DEF Fits
  <2>3. M \in Nat /\ M >= Len(n.transitions)
    BY <1>1
  <2>4. \A o \in DOMAIN m.rows : m.rows[o] \in 1 .. M
    BY <1>2
  <2> HIDE DEF ts, M
  <2>5. \A j \in 1 .. K : ts[j].id \in 1 .. Len(n.transitions) + K
    BY <1>1, <2>1, <2>2
  <2>6. DOMAIN ts = 1 .. K /\ \A j \in 1 .. K : ts[j] \in TransitionSet
    BY <2>1
  <2>7. \A j \in 1 .. K : ts[j].object \in Object /\ ts[j] = [id |-> ts[j].id, object |-> ts[j].object]
    BY <2>6 DEF TransitionSet
  <2> HIDE DEF K
  <2>8. 1 .. M \subseteq B /\ 1 .. Len(n.transitions) + K \subseteq B
    BY <1>1, <2>1, <2>3
  <2> HIDE DEF B
  <2>9. m.rows \in MapsTo(B)
    <3>1. m.rows \in [DOMAIN m.rows -> Nat] /\ DOMAIN m.rows \subseteq Object
      BY <1>0, MapsToIs
    <3>2. m.rows \in [DOMAIN m.rows -> B]
      BY <2>4, <2>8, <3>1
    <3> QED
      BY <3>1, <3>2, MapsToIs
  <2>10. ts \in Seq([id : B, object : Object])
    <3> DEFINE S == [id : B, object : Object]
    <3>1. ASSUME NEW j \in 1 .. K PROVE ts[j] \in S
      <4>1. ts[j].id \in B /\ ts[j].object \in Object
        BY <2>5, <2>7, <2>8
      <4>2. [id |-> ts[j].id, object |-> ts[j].object] \in S
        BY <4>1
      <4> QED
        BY <2>7, <4>2
    <3> HIDE DEF S
    <3>2. ts \in [1 .. K -> S] /\ K \in Nat
      BY <2>1, <3>1 DEF K
    <3>3. ts \in Seq(S)
      BY <3>2
    <3> QED
      BY <3>3 DEF S
  <2>11. Upsert(m.rows, ts) \in MapsTo(B)
    BY <2>9, <2>10, UpsertMaps
  <2>12. \A o \in DOMAIN Upsert(m.rows, ts) : Upsert(m.rows, ts)[o] \in B
    BY <2>11, MapsToIs
  <2>13. /\ Apply(m, i, r) = StateOf(m.events, Upsert(m.rows, ts), m.transitions \o ts, m.proposals + 1,
                                     m.cursor, m.snapshots, Overlaid(r.vectors, m.slots))
         /\ Apply(n, k, r) = StateOf(n.events, Upsert(n.rows, ts), n.transitions \o ts, n.proposals + 1,
                                     n.cursor, n.snapshots, Overlaid(r.vectors, n.slots))
    BY <1>4, ApplyIs DEF ts
  <2> HIDE DEF ts
  <2>14. /\ Len(m.transitions \o ts) = M + K
         /\ Len(n.transitions \o ts) = Len(n.transitions) + K
    BY <1>0, <2>1 DEF M, K
  <2>15. /\ Apply(m, i, r).rows = Upsert(m.rows, ts) /\ Apply(m, i, r).events = m.events
         /\ Apply(m, i, r).transitions = m.transitions \o ts /\ Apply(m, i, r).cursor = m.cursor
         /\ Apply(n, k, r).events = n.events /\ Apply(n, k, r).transitions = n.transitions \o ts
    BY <2>13 DEF StateOf
  <2>16. Counts(Apply(m, i, r))
    BY <1>2, <2>12, <2>14, <2>15 DEF Counts, B
  <2> QED
    BY <1>1, <2>1, <2>3, <2>14, <2>15, <2>16 DEF AtLeast, M
<1>5. CASE r.kind = "cursor"
  <2>1. r.last \in 0 .. Len(m.events)
    BY <1>1, <1>5 DEF Fits
  <2>2. /\ Apply(m, i, r) = StateOf(m.events, m.rows, m.transitions, m.proposals,
                                    [last |-> r.last, failures |-> r.failures], m.snapshots, m.slots)
        /\ Apply(n, k, r) = StateOf(n.events, n.rows, n.transitions, n.proposals,
                                    [last |-> r.last, failures |-> r.failures], n.snapshots, n.slots)
    BY <1>5, ApplyIs
  <2> QED
    BY <1>1, <1>2, <2>1, <2>2 DEF Counts, AtLeast, StateOf
<1>6. CASE r.kind = "snapshot"
  <2>1. /\ Apply(m, i, r) = StateOf(m.events, m.rows, m.transitions, m.proposals, m.cursor,
               Append(m.snapshots, [id |-> r.id, last |-> r.last, offset |-> i]), m.slots)
        /\ Apply(n, k, r) = StateOf(n.events, n.rows, n.transitions, n.proposals, n.cursor,
               Append(n.snapshots, [id |-> r.id, last |-> r.last, offset |-> k]), n.slots)
    BY <1>6, ApplyIs
  <2> QED
    BY <1>1, <1>2, <2>1 DEF Counts, AtLeast, StateOf
<1>7. r.kind \in {"event", "commit", "cursor", "snapshot"}
  BY DEF RecordSet
<1> QED
  BY <1>3, <1>4, <1>5, <1>6, <1>7

LEMMA NotBehindItself == \A m \in StateSet : AtLeast(m, m)
<1> SUFFICES ASSUME NEW m \in StateSet PROVE AtLeast(m, m)
  OBVIOUS
<1>1. Len(m.events) \in Nat /\ Len(m.transitions) \in Nat
  BY DEF StateSet
<1> QED
  BY <1>1 DEF AtLeast

\* What a file folds to when a line has been written behind it.
LEMMA FoldOneMoreLine ==
  ASSUME NEW f \in Seq(CellSet), NEW x \in EntrySet, Lines(f)
  PROVE  /\ Fold(Entries(f)) \in StateSet
         /\ Fold(Entries(f \o LineCells(x))) = Apply(Fold(Entries(f)), Len(f), x.record)
<1> DEFINE e == [offset |-> Len(f), seq |-> x.seq, record |-> x.record]
<1>1. Entries(f) \in Seq(LineSet)
  BY EntriesIs
<1>2. e \in LineSet
  BY DEF LineSet, EntrySet
<1>3. Entries(f \o LineCells(x)) = Append(Entries(f), e)
  BY OneMoreLine
<1>4. e.offset = Len(f) /\ e.record = x.record
  OBVIOUS
<1> HIDE DEF e
<1>5. Fold(Append(Entries(f), e)) = ApplyEntry(Fold(Entries(f)), e)
  BY <1>1, <1>2, FoldOneMore
<1> QED
  BY <1>1, <1>3, <1>4, <1>5, FoldTypes DEF ApplyEntry

LEMMA SameSequence ==
  ASSUME NEW S, NEW s \in Seq(S), NEW t \in Seq(S), Len(s) = Len(t), \A i \in 1 .. Len(s) : s[i] = t[i]
  PROVE  s = t
<1>1. s = [i \in 1 .. Len(s) |-> s[i]]
  OBVIOUS
<1>2. t = [i \in 1 .. Len(s) |-> t[i]]
  OBVIOUS
<1> QED
  BY <1>1, <1>2

LEMMA WholePrefix ==
  ASSUME NEW f \in Seq(CellSet), CountsTo(f), Shape(f)
  PROVE  Counts(Fold(Entries(f)))
<1>1. SubSeq(f, 1, Len(f)) = f /\ Len(f) \in 0 .. Len(f)
  OBVIOUS
<1> QED
  BY <1>1 DEF CountsTo

\* The first cells of a file.
LEMMA PrefixIs ==
  ASSUME NEW f \in Seq(CellSet), NEW g \in Seq(CellSet), Len(g) <= Len(f),
         \A i \in 1 .. Len(g) : g[i] = f[i], NEW n \in 0 .. Len(g)
  PROVE  SubSeq(g, 1, n) = SubSeq(f, 1, n) /\ n \in 0 .. Len(f)
<1>1. n \in 0 .. Len(f) /\ n \in Nat
  OBVIOUS
<1>2. /\ SubSeq(g, 1, n) \in Seq(CellSet) /\ Len(SubSeq(g, 1, n)) = n
      /\ \A i \in 1 .. n : SubSeq(g, 1, n)[i] = g[i]
  OBVIOUS
<1>3. /\ SubSeq(f, 1, n) \in Seq(CellSet) /\ Len(SubSeq(f, 1, n)) = n
      /\ \A i \in 1 .. n : SubSeq(f, 1, n)[i] = f[i]
  BY <1>1
<1>4. \A i \in 1 .. n : g[i] = f[i]
  OBVIOUS
<1> QED
  BY <1>1, <1>2, <1>3, <1>4, SameSequence

LEMMA CountsToPrefix ==
  ASSUME NEW f \in Seq(CellSet), NEW g \in Seq(CellSet), Len(g) <= Len(f),
         \A i \in 1 .. Len(g) : g[i] = f[i], CountsTo(f)
  PROVE  CountsTo(g)
<1>1. \A n \in 0 .. Len(g) : SubSeq(g, 1, n) = SubSeq(f, 1, n) /\ n \in 0 .. Len(f)
  BY PrefixIs
<1> QED
  BY <1>1 DEF CountsTo

LEMMA CountsToMore ==
  ASSUME NEW f \in Seq(CellSet), NEW g \in Seq(CellSet), Len(g) = Len(f) + 1,
         \A i \in 1 .. Len(f) : g[i] = f[i], CountsTo(f),
         Shape(g) => Counts(Fold(Entries(g)))
  PROVE  CountsTo(g)
<1> SUFFICES ASSUME NEW n \in 0 .. Len(g), Shape(SubSeq(g, 1, n))
             PROVE  Counts(Fold(Entries(SubSeq(g, 1, n))))
  BY DEF CountsTo
<1>1. CASE n = Len(g)
  <2>1. SubSeq(g, 1, n) = g
    BY <1>1
  <2> QED
    BY <2>1
<1>2. CASE n # Len(g)
  <2>1. n \in 0 .. Len(f) /\ Len(f) <= Len(g)
    BY <1>2
  <2>2. SubSeq(f, 1, n) = SubSeq(g, 1, n)
    BY <2>1, PrefixIs
  <2> QED
    BY <2>1, <2>2 DEF CountsTo
<1> QED
  BY <1>1, <1>2

\* A fragment behind the last line changes no line.
LEMMA Fragment ==
  ASSUME NEW f \in Seq(CellSet), NEW g \in Seq(CellSet), Len(g) = Len(f) + 1,
         \A i \in 1 .. Len(f) : g[i] = f[i], g[Len(g)].part # "tail"
  PROVE  Entries(g) = Entries(f) /\ (Shape(g) <=> Shape(f))
<1>1. /\ EndOfLastLine(f) \in 0 .. Len(f) /\ Len(f) \in Nat
      /\ \A i \in EndOfLastLine(f) + 1 .. Len(f) : f[i].part # "tail"
  BY EndOfLastLineEnds DEF EndsAt
<1>2. Len(g) >= EndOfLastLine(f) /\ \A i \in 1 .. EndOfLastLine(f) : g[i] = f[i]
  BY <1>1
<1>3. \A i \in EndOfLastLine(f) + 1 .. Len(g) : g[i].part # "tail"
  <2> SUFFICES ASSUME NEW i \in EndOfLastLine(f) + 1 .. Len(g) PROVE g[i].part # "tail"
    OBVIOUS
  <2>1. CASE i = Len(g)
    BY <2>1
  <2>2. CASE i # Len(g)
    <3>1. i \in EndOfLastLine(f) + 1 .. Len(f) /\ i \in 1 .. Len(f)
      BY <1>1, <2>2
    <3> QED
      BY <1>1, <3>1
  <2> QED
    BY <2>1, <2>2
<1> QED
  BY <1>2, <1>3, SameLines

LEMMA CountsToFragment ==
  ASSUME NEW f \in Seq(CellSet), NEW g \in Seq(CellSet), Len(g) = Len(f) + 1,
         \A i \in 1 .. Len(f) : g[i] = f[i], g[Len(g)].part # "tail", CountsTo(f)
  PROVE  CountsTo(g)
<1>1. Entries(g) = Entries(f) /\ (Shape(g) <=> Shape(f))
  BY Fragment
<1> QED
  BY <1>1, WholePrefix, CountsToMore

\* Good files stay good when the line of a record that fits is written.
LEMMA FileGoodOneMore ==
  ASSUME NEW f \in Seq(CellSet), NEW x \in EntrySet, NEW n \in StateSet, NEW k \in Nat,
         FileGood(f, n), Fits(n, x.record)
  PROVE  /\ FileGood(f \o LineCells(x), n)
         /\ FileGood(f \o LineCells(x), Apply(n, k, x.record))
<1> DEFINE g == f \o LineCells(x)
           h == Append(f, [entry |-> x, part |-> "head"])
<1>1. ASSUME Shape(g)
      PROVE  /\ Counts(Fold(Entries(g)))
             /\ AtLeast(Fold(Entries(g)), n)
             /\ AtLeast(Fold(Entries(g)), Apply(n, k, x.record))
  <2>1. Lines(f)
    BY <1>1, OneMoreLine
  <2>2. Shape(f)
    BY <2>1, LinesEnd
  <2>3. Counts(Fold(Entries(f))) /\ AtLeast(Fold(Entries(f)), n)
    BY <2>2, WholePrefix DEF FileGood
  <2>4. Fold(Entries(f)) \in StateSet /\ Fold(Entries(g)) = Apply(Fold(Entries(f)), Len(f), x.record)
    BY <2>1, FoldOneMoreLine
  <2>5. x.record \in RecordSet /\ Len(f) \in Nat
    BY DEF EntrySet
  <2> HIDE DEF g
  <2> QED
    BY <2>3, <2>4, <2>5, ApplyCounts
<1>2. /\ g \in Seq(CellSet) /\ Len(g) = Len(f) + 2 /\ \A i \in 1 .. Len(f) : g[i] = f[i]
      /\ g[Len(f) + 1] = [entry |-> x, part |-> "head"]
  BY LineCellsIs
<1>3. /\ h \in Seq(CellSet) /\ Len(h) = Len(f) + 1 /\ \A i \in 1 .. Len(f) : h[i] = f[i]
      /\ h[Len(h)] = [entry |-> x, part |-> "head"] /\ Len(f) \in Nat
  <2>1. [entry |-> x, part |-> "head"] \in CellSet
    BY DEF CellSet
  <2> QED
    BY <2>1
<1> HIDE DEF g, h
<1>4. CountsTo(h)
  <2>1. h[Len(h)].part # "tail"
    BY <1>3
  <2> QED
    BY <1>3, <2>1, CountsToFragment DEF FileGood
<1>5. Len(g) = Len(h) + 1 /\ \A i \in 1 .. Len(h) : g[i] = h[i]
  BY <1>2, <1>3
<1>6. CountsTo(g)
  BY <1>1, <1>2, <1>3, <1>4, <1>5, CountsToMore
<1> QED
  BY <1>1, <1>6 DEF FileGood, g

\* ... when a fragment is left behind them ...
LEMMA FileGoodFragment ==
  ASSUME NEW f \in Seq(CellSet), NEW c \in CellSet, c.part # "tail", NEW n, FileGood(f, n)
  PROVE  FileGood(Append(f, c), n)
<1> DEFINE g == Append(f, c)
<1>1. /\ g \in Seq(CellSet) /\ Len(g) = Len(f) + 1 /\ \A i \in 1 .. Len(f) : g[i] = f[i]
      /\ g[Len(g)] = c
  OBVIOUS
<1> HIDE DEF g
<1>2. g[Len(g)].part # "tail"
  BY <1>1
<1>3. CountsTo(g) /\ Entries(g) = Entries(f) /\ (Shape(g) <=> Shape(f))
  BY <1>1, <1>2, Fragment, CountsToFragment DEF FileGood
<1> QED
  BY <1>3 DEF FileGood, g

\* ... and when their end is lost.
LEMMA CountsToTorn ==
  ASSUME NEW f \in Seq(CellSet), NEW n \in 0 .. Len(f), NEW g \in Torn(f, n), CountsTo(f)
  PROVE  CountsTo(g)
<1>1. /\ g \in Seq(CellSet) /\ Len(g) = n
      /\ \A i \in 1 .. n : g[i] = f[i] \/ (i = n /\ g[i].part = "cut")
  BY TornTypes
<1>2. CASE \A i \in 1 .. n : g[i] = f[i]
  <2>1. Len(g) <= Len(f)
    BY <1>1
  <2> QED
    BY <1>1, <1>2, <2>1, CountsToPrefix
<1>3. CASE n > 0 /\ g[n].part = "cut"
  <2> DEFINE h == SubSeq(f, 1, n - 1)
  <2>1. n - 1 \in 0 .. Len(f) /\ n - 1 \in Nat /\ Len(f) \in Nat
    BY <1>3
  <2>2. h \in Seq(CellSet) /\ Len(h) = n - 1 /\ \A i \in 1 .. n - 1 : h[i] = f[i]
    BY <2>1
  <2> HIDE DEF h
  <2>3. Len(h) <= Len(f) /\ \A i \in 1 .. Len(h) : h[i] = f[i]
    BY <2>1, <2>2
  <2>4. CountsTo(h)
    BY <2>2, <2>3, CountsToPrefix
  <2>5. Len(g) = Len(h) + 1 /\ \A i \in 1 .. Len(h) : g[i] = h[i]
    BY <1>1, <2>1, <2>2
  <2>6. g[Len(g)].part # "tail"
    BY <1>1, <1>3
  <2> QED
    BY <1>1, <2>2, <2>4, <2>5, <2>6, CountsToFragment
<1>4. (\A i \in 1 .. n : g[i] = f[i]) \/ (n > 0 /\ g[n].part = "cut")
  BY <1>1
<1> QED
  BY <1>2, <1>3, <1>4

\* A record fits or not whatever slots its vectors have.
LEMMA FitsVectors ==
  ASSUME NEW m, NEW r \in RecordSet, NEW w, Fits(m, r)
  PROVE  Fits(m, [r EXCEPT !.vectors = w])
<1> DEFINE q == [r EXCEPT !.vectors = w]
<1>1. CASE r.kind = "event"
  <2>1. q.kind = r.kind /\ q.id = r.id
    BY <1>1 DEF RecordSet
  <2> QED
    BY <1>1, <2>1 DEF Fits
<1>2. CASE r.kind = "commit"
  <2>1. q.kind = r.kind /\ q.transitions = r.transitions
    BY <1>2 DEF RecordSet
  <2> QED
    BY <1>2, <2>1 DEF Fits
<1>3. CASE r.kind = "cursor"
  <2>1. q.kind = r.kind /\ q.last = r.last
    BY <1>3 DEF RecordSet
  <2> QED
    BY <1>3, <2>1 DEF Fits
<1>4. CASE r.kind = "snapshot"
  <2>1. q.kind = r.kind /\ q.id = r.id
    BY <1>4 DEF RecordSet
  <2> QED
    BY <1>4, <2>1 DEF Fits
<1>5. r.kind \in {"event", "commit", "cursor", "snapshot"}
  BY DEF RecordSet
<1> QED
  BY <1>1, <1>2, <1>3, <1>4, <1>5

LEMMA InitCounts == Init => CountInv
<1> SUFFICES ASSUME Init PROVE CountInv
  OBVIOUS
<1>1. mem = EmptyState /\ file = <<>> /\ op = Idle
  BY DEF Init
<1>2. Counts(EmptyState) /\ AtLeast(EmptyState, EmptyState)
  BY DEF Counts, AtLeast, EmptyState
<1>3. file \in Seq(CellSet) /\ Len(file) = 0
  BY <1>1
<1>4. EndOfLastLine(file) = 0 /\ 0 \div 2 = 0
  <2>1. EndOfLastLine(file) \in 0 .. 0
    BY <1>3, EndOfLastLineEnds DEF EndsAt
  <2> QED
    BY <2>1
<1>5. Entries(file) \in Seq(LineSet) /\ Len(Entries(file)) = 0
  BY <1>3, <1>4, EntriesIs
<1>6. Fold(Entries(file)) = EmptyState
  <2>1. Entries(file) = <<>>
    BY <1>5
  <2> QED
    BY <2>1, FoldNothing
<1>7. CountsTo(file)
  <2> SUFFICES ASSUME NEW n \in 0 .. Len(file) PROVE Counts(Fold(Entries(SubSeq(file, 1, n))))
    BY DEF CountsTo
  <2>1. n = Len(file)
    BY <1>3
  <2>2. SubSeq(file, 1, n) = file
    BY <1>3, <2>1
  <2> QED
    BY <1>2, <1>6, <2>2
<1> QED
  BY <1>1, <1>2, <1>6, <1>7 DEF CountInv, FileGood, Idle

LEMMA StepCounts ==
  ASSUME StoreTypes, CountInv, [Next]_vars
  PROVE  CountInv'
<1>0. /\ file \in Seq(CellSet) /\ mem \in StateSet /\ len \in Nat
      /\ Counts(mem)
      /\ op # Idle => Fits(mem, op.record)
      /\ op.stage # "journal_sync" => FileGood(file, mem)
  BY DEF StoreTypes, CountInv
<1>I. Idle.stage = "idle"
  BY DEF Idle
<1>1. CASE Operation
  <2>1. PICK r \in RecordSet, S \in SUBSET Object : Begin(r, S) /\ Fits(mem, r)
    BY <1>0, <1>1, OperationBegins
  <2>2. /\ op = Idle /\ op'.record = r /\ op'.stage # "journal_sync"
        /\ file' = file /\ mem' = mem
    BY <2>1 DEF Begin, files
  <2> QED
    BY <1>0, <1>I, <2>1, <2>2 DEF CountInv
<1>2. CASE VectorWrite
  <2>1. PICK o \in Object : VectorWritten(o)
    BY <1>2, VectorWriteIs
  <2>2. /\ op.stage = "vector" /\ op'.stage = "vector_sync" /\ op'.record = op.record
        /\ file' = file /\ mem' = mem
    BY <2>1 DEF VectorWritten
  <2> QED
    BY <1>0, <1>I, <2>2 DEF CountInv
<1>3. CASE VectorSync
  <2>1. VectorSynced
    BY <1>3, VectorSyncIs
  <2>2. /\ op.stage = "vector_sync" /\ op'.stage = "journal" /\ file' = file /\ mem' = mem
        /\ op'.record = [op.record EXCEPT !.vectors = [o \in op.vectorOf |-> vslots]]
    BY <2>1 DEF VectorSynced
  <2>3. op.record \in RecordSet /\ Fits(mem, op.record)
    BY <1>0, <1>I, <2>2, Busy
  <2>4. Fits(mem, op'.record)
    <3> DEFINE w == [o \in op.vectorOf |-> vslots]
    <3> HIDE DEF w
    <3>1. Fits(mem, [op.record EXCEPT !.vectors = w])
      BY <2>3, FitsVectors
    <3> QED
      BY <2>2, <3>1 DEF w
  <2> QED
    BY <1>0, <2>2, <2>4 DEF CountInv
<1>4. CASE JournalWrite
  <2>1. PICK x \in EntrySet : LineWritten(x)
    BY <1>4, JournalWriteIs
  <2>2. /\ op.stage = "journal" /\ op'.stage = "journal_sync" /\ op'.record = op.record
        /\ mem' = mem /\ x.seq = seq' /\ x.record = op'.record /\ file' = file \o LineCells(x)
    BY <2>1 DEF LineWritten
  <2>3. PICK f \in Seq(CellSet) : f = file
    BY <1>0
  <2>4. Written(f, x)' /\ FileGood(f, mem')
    BY <1>0, <2>2, <2>3 DEF Written
  <2>5. Fits(mem', op'.record) /\ Counts(mem')
    BY <1>0, <1>I, <2>2
  <2>6. \E g \in Seq(CellSet), y \in EntrySet : Written(g, y)' /\ FileGood(g, mem')
    BY <2>4
  <2> QED
    BY <2>2, <2>5, <2>6 DEF CountInv
<1>5. CASE JournalSync
  <2>1. LineSynced
    BY <1>5, JournalSyncIs
  <2>2. /\ op.stage = "journal_sync" /\ mem' = Apply(mem, len, op.record) /\ mem' \in StateSet
        /\ op' = Idle /\ file' = file /\ op.record \in RecordSet
    BY <2>1 DEF LineSynced
  <2>3. PICK front \in Seq(CellSet), x \in EntrySet : Written(front, x) /\ FileGood(front, mem)
    BY <2>2 DEF CountInv
  <2>4. Fits(mem, op.record)
    BY <1>0, <1>I, <2>2
  <2>5. x.record = op.record /\ file = front \o LineCells(x)
    BY <2>3 DEF Written
  <2>6. FileGood(file, mem')
    BY <1>0, <2>2, <2>3, <2>4, <2>5, FileGoodOneMore
  <2>7. Counts(mem')
    BY <1>0, <2>2, <2>4, ApplyCounts, NotBehindItself
  <2> QED
    BY <1>I, <2>2, <2>6, <2>7 DEF CountInv
<1>6. CASE DiskFault
  <2>1. Faults
    BY <1>6, FaultIs
  <2>2. op' = Idle /\ mem' = mem
    BY <2>1 DEF Faults
  <2>3. FileGood(file', mem)
    <3>1. CASE op.stage # "journal_sync" /\ file' = file
      BY <1>0, <3>1
    <3>2. CASE op.stage = "journal_sync" /\ file' = file
      <4>1. PICK front \in Seq(CellSet), x \in EntrySet : Written(front, x) /\ FileGood(front, mem)
        BY <3>2 DEF CountInv
      <4>2. x.record = op.record /\ file = front \o LineCells(x)
        BY <4>1 DEF Written
      <4>3. Fits(mem, op.record)
        BY <1>0, <1>I, <3>2
      <4> QED
        BY <1>0, <3>2, <4>1, <4>2, <4>3, FileGoodOneMore
    <3>3. CASE op.stage = "journal" /\ \E c \in CellSet : c.part = "head" /\ file' = Append(file, c)
      <4>1. PICK c \in CellSet : c.part = "head" /\ file' = Append(file, c)
        BY <3>3
      <4>2. FileGood(file, mem)
        BY <1>0, <3>3
      <4> QED
        BY <1>0, <4>1, <4>2, FileGoodFragment
    <3> QED
      BY <2>1, <3>1, <3>2, <3>3 DEF Faults
  <2> QED
    BY <1>0, <1>I, <2>2, <2>3 DEF CountInv
<1>7. CASE Kill \/ PowerLoss
  <2>1. Dies
    BY <1>7, DeathIs
  <2>2. op' = Idle /\ mem' = EmptyState
    BY <2>1 DEF Dies
  <2>3. CountsTo(file)
    <3>1. CASE op.stage # "journal_sync"
      BY <1>0, <3>1 DEF FileGood
    <3>2. CASE op.stage = "journal_sync"
      <4>1. PICK front \in Seq(CellSet), x \in EntrySet : Written(front, x) /\ FileGood(front, mem)
        BY <3>2 DEF CountInv
      <4>2. x.record = op.record /\ file = front \o LineCells(x)
        BY <4>1 DEF Written
      <4>3. Fits(mem, op.record)
        BY <1>0, <1>I, <3>2
      <4>4. FileGood(file, mem)
        BY <1>0, <4>1, <4>2, <4>3, FileGoodOneMore
      <4> QED
        BY <4>4 DEF FileGood
    <3> QED
      BY <3>1, <3>2
  <2>4. PICK n \in synced .. Len(file) : file' \in Torn(file, n)
    BY <2>1 DEF Dies
  <2>5. n \in 0 .. Len(file)
    <3>1. synced \in Nat
      BY DEF StoreTypes, DiskOK
    <3> QED
      BY <2>4, <3>1
  <2>6. CountsTo(file') /\ file' \in Seq(CellSet)
    BY <1>0, <2>3, <2>4, <2>5, CountsToTorn, TornTypes
  <2>7. AtLeast(Fold(Entries(file')), EmptyState)
    <3>1. Fold(Entries(file')) \in StateSet
      BY <2>6, EntriesIs, FoldTypes
    <3> QED
      BY <3>1 DEF StateSet, AtLeast, EmptyState
  <2>8. Counts(EmptyState)
    BY DEF Counts, EmptyState
  <2> QED
    BY <1>I, <2>2, <2>6, <2>7, <2>8 DEF CountInv, FileGood
<1>8. CASE Open
  <2>1. Opens
    BY <1>8, OpenIs
  <2>2. /\ mem' = Fold(Entries(file)) /\ Entries(file') = Entries(file) /\ Readable(file)
        /\ mem' \in StateSet /\ op' = op /\ ~up
    BY <2>1 DEF Opens
  <2>3. op = Idle
    BY <2>2 DEF StoreTypes, OperationOK
  <2>6. CountsTo(file)
    BY <1>0, <1>I, <2>3 DEF FileGood
  <2>4. Counts(mem')
    BY <1>0, <2>2, <2>6, ReadableIs, WholePrefix
  <2>7. CountsTo(file')
    <3>1. file' = SubSeq(file, 1, EndOfLastLine(file)) /\ EndOfLastLine(file) \in 0 .. Len(file)
      BY <1>0, <1>8, EndOfLastLineEnds DEF Open, WithoutTornLine, EndsAt
    <3> DEFINE n == EndOfLastLine(file)
    <3>2. n \in 0 .. Len(file) /\ file' = SubSeq(file, 1, n)
      BY <3>1
    <3> HIDE DEF n
    <3>3. file' \in Seq(CellSet) /\ Len(file') = n /\ \A i \in 1 .. n : file'[i] = file[i]
      BY <1>0, <3>2
    <3>4. Len(file') <= Len(file)
      BY <1>0, <3>2, <3>3
    <3> QED
      BY <1>0, <2>6, <3>3, <3>4, CountsToPrefix
  <2>5. FileGood(file', mem')
    BY <2>2, <2>7, NotBehindItself DEF FileGood
  <2> QED
    BY <1>I, <2>2, <2>3, <2>4, <2>5 DEF CountInv
<1>9. CASE UNCHANGED vars
  <2>1. mem' = mem /\ op' = op /\ file' = file /\ seq' = seq
    BY <1>9 DEF vars, files
  <2> QED
    BY <2>1 DEF CountInv, Written
<1> QED
  BY <1>1, <1>2, <1>3, <1>4, <1>5, <1>6, <1>7, <1>8, <1>9 DEF Next, Write

LEMMA StepUncut ==
  ASSUME StoreTypes, UncutInv, [Next]_vars
  PROVE  UncutInv'
<1> SUFFICES ASSUME ~MultiByte PROVE \A i \in DOMAIN file' : file'[i].part # "cut"
  BY DEF UncutInv
<1>1. file \in Seq(CellSet) /\ Len(file) \in Nat /\ \A i \in 1 .. Len(file) : file[i].part # "cut"
  BY DEF StoreTypes, UncutInv
<1>2. CASE file' = file
  BY <1>1, <1>2
<1>3. CASE JournalWrite
  <2>1. PICK x \in EntrySet : LineWritten(x)
    BY <1>3, JournalWriteIs
  <2>2. file' = file \o LineCells(x)
    BY <2>1 DEF LineWritten
  <2>3. /\ file' \in Seq(CellSet) /\ Len(file') = Len(file) + 2
        /\ \A i \in 1 .. Len(file) : file'[i] = file[i]
        /\ file'[Len(file) + 1] = [entry |-> x, part |-> "head"]
        /\ file'[Len(file) + 2] = [entry |-> x, part |-> "tail"]
    BY <1>1, <2>2, LineCellsIs
  <2>4. file'[Len(file) + 1].part # "cut" /\ file'[Len(file) + 2].part # "cut"
    BY <2>3
  <2> QED
    BY <1>1, <2>3, <2>4
<1>4. CASE DiskFault
  <2>1. Faults
    BY <1>4, FaultIs
  <2>2. file' = file \/ \E c \in CellSet : c.part = "head" /\ file' = Append(file, c)
    BY <2>1 DEF Faults
  <2>3. ASSUME NEW c \in CellSet, c.part = "head", file' = Append(file, c)
        PROVE  \A i \in DOMAIN file' : file'[i].part # "cut"
    <3>1. Len(file') = Len(file) + 1 /\ file'[Len(file) + 1] = c /\ file' \in Seq(CellSet)
          /\ \A i \in 1 .. Len(file) : file'[i] = file[i]
      BY <1>1, <2>3
    <3> QED
      BY <1>1, <2>3, <3>1
  <2> QED
    BY <1>2, <2>2, <2>3
<1>5. CASE Kill \/ PowerLoss
  <2>1. Dies /\ synced \in Nat
    BY <1>5, DeathIs DEF StoreTypes, DiskOK
  <2>2. PICK n \in synced .. Len(file) : file' \in Torn(file, n)
    BY <2>1 DEF Dies
  <2>3. n \in 0 .. Len(file)
    BY <2>1, <2>2
  <2>4. file' \in Seq(CellSet) /\ Len(file') = n /\ \A i \in 1 .. n : file'[i] = file[i]
    BY <1>1, <2>2, <2>3, TornTypes
  <2> QED
    BY <1>1, <1>2, <2>3, <2>4
<1>6. CASE Open
  <2>1. EndOfLastLine(file) \in 0 .. Len(file)
    BY <1>1, EndOfLastLineEnds DEF EndsAt
  <2>2. file' = SubSeq(file, 1, EndOfLastLine(file))
    BY <1>6 DEF Open, WithoutTornLine
  <2> QED
    BY <1>1, <2>1, <2>2
<1>7. CASE Operation \/ VectorWrite \/ VectorSync \/ JournalSync \/ UNCHANGED vars
  <2>1. file' = file
    BY <1>7 DEF Operation, AppendEvent, CommitProposal, SetCursor, BumpFailures, TakeSnapshot, Begin,
                VectorWrite, VectorSync, JournalSync, vars, files
  <2> QED
    BY <1>2, <2>1
<1> QED
  BY <1>3, <1>4, <1>5, <1>6, <1>7 DEF Next, Write

-----------------------------------------------------------------------------
(* The log, on a disk that returns no error.                               *)

LEMMA VectorsStay ==
  ASSUME NEW w \in MapsTo(Nat), NEW v, NEW u, NEW n \in Nat, NEW k \in Nat,
         VectorsHold(w, v, n), n <= k, \A i \in 1 .. 2 * n : u[i] = v[i]
  PROVE  VectorsHold(w, u, k)
<1>1. \A o \in DOMAIN w : w[o] \in Nat
  BY MapsToIs
<1>2. ASSUME NEW o \in DOMAIN w
      PROVE  /\ w[o] < k
             /\ u[2 * w[o] + 1] = v[2 * w[o] + 1] /\ u[2 * w[o] + 2] = v[2 * w[o] + 2]
  <2>1. w[o] \in Nat /\ w[o] < n
    BY <1>1 DEF VectorsHold
  <2>2. w[o] < k /\ 2 * w[o] + 1 \in 1 .. 2 * n /\ 2 * w[o] + 2 \in 1 .. 2 * n
    BY <2>1
  <2> QED
    BY <2>2
<1> QED
  BY <1>2 DEF VectorsHold

LEMMA OverlaidHolds ==
  ASSUME NEW f \in MapsTo(Nat), NEW g \in MapsTo(Nat), NEW v, NEW n,
         VectorsHold(f, v, n), VectorsHold(g, v, n)
  PROVE  VectorsHold(Overlaid(f, g), v, n)
<1> DEFINE h == Overlaid(f, g)
<1>1. /\ DOMAIN h = DOMAIN f \cup DOMAIN g
      /\ \A x \in DOMAIN f : h[x] = f[x]
      /\ \A x \in DOMAIN g \ DOMAIN f : h[x] = g[x]
  BY DEF Overlaid
<1> HIDE DEF h
<1>2. VectorsHold(h, v, n)
  BY <1>1 DEF VectorsHold
<1> QED
  BY <1>2 DEF h

\* One more acknowledged line.
LEMMA Grows ==
  ASSUME NEW es \in Seq(LineSet), NEW c \in Nat, Len(es) = c + 1,
         NEW v, NEW n,
         es[c + 1].offset = 2 * c,
         Numbered(Fold(SubSeq(es, 1, c))), Backed(SubSeq(es, 1, c), Fold(SubSeq(es, 1, c))),
         VectorsHold(Fold(SubSeq(es, 1, c)).slots, v, n),
         Fits(Fold(SubSeq(es, 1, c)), es[c + 1].record),
         VectorsHold(es[c + 1].record.vectors, v, n)
  PROVE  /\ Fold(es) = Apply(Fold(SubSeq(es, 1, c)), 2 * c, es[c + 1].record)
         /\ Numbered(Fold(es))
         /\ Backed(es, Fold(es))
         /\ VectorsHold(Fold(es).slots, v, n)
<1> DEFINE fs == SubSeq(es, 1, c)
           e == es[c + 1]
           r == e.record
           m == Fold(fs)
<1>1. /\ fs \in Seq(LineSet) /\ Len(fs) = c /\ e \in LineSet /\ es = Append(fs, e)
      /\ \A i \in 1 .. c : fs[i] = es[i]
  BY OverEntries!SplitLast
<1>2. Numbered(m) /\ Backed(fs, m) /\ VectorsHold(m.slots, v, n) /\ Fits(m, r) /\ VectorsHold(r.vectors, v, n)
      /\ e.offset = 2 * c
  OBVIOUS
<1> HIDE DEF fs, e
<1>3. m \in StateSet /\ r \in RecordSet
  BY <1>1, FoldTypes DEF LineSet
<1>4. Fold(es) = Apply(m, 2 * c, r)
  BY <1>1, <1>2, FoldOneMore DEF ApplyEntry
<1> HIDE DEF m, r
<1> DEFINE k == Apply(m, 2 * c, r)
<1>5. /\ m.events \in Seq(EventSet) /\ m.transitions \in Seq(TransitionSet)
      /\ m.snapshots \in Seq(SnapshotSet) /\ m.slots \in MapsTo(Nat)
  BY <1>3 DEF StateSet
<1>6. r.vectors \in MapsTo(Nat)
  BY <1>3 DEF RecordSet
<1>7. VectorsHold(Overlaid(r.vectors, m.slots), v, n)
  BY <1>2, <1>5, <1>6, OverlaidHolds
<1>8. ASSUME k.snapshots = m.snapshots PROVE Backed(es, k)
  <2>1. DOMAIN fs = 1 .. c /\ DOMAIN es = 1 .. c + 1
    BY <1>1
  <2>2. \A s, j : j \in 1 .. c /\ SnapshotOf(s, fs, j) => SnapshotOf(s, es, j)
    BY <1>1 DEF SnapshotOf
  <2> QED
    BY <1>2, <1>8, <2>1, <2>2 DEF Backed
<1>9. ASSUME r.kind = "event"
      PROVE  Numbered(k) /\ Backed(es, k) /\ VectorsHold(k.slots, v, n)
  <2> DEFINE d == [id |-> r.id, object |-> r.object]
  <2>1. k = StateOf(Append(m.events, d), m.rows, m.transitions, m.proposals, m.cursor,
                    m.snapshots, Overlaid(r.vectors, m.slots))
    BY <1>3, <1>9, ApplyIs
  <2>2. d \in EventSet /\ d.id = Len(m.events) + 1
    BY <1>2, <1>3, <1>9 DEF RecordSet, EventSet, Fits
  <2> HIDE DEF d
  <2>3. /\ k.events = Append(m.events, d) /\ k.transitions = m.transitions
        /\ k.snapshots = m.snapshots /\ k.slots = Overlaid(r.vectors, m.slots)
    BY <2>1 DEF StateOf
  <2>5. Backed(es, k) /\ VectorsHold(k.slots, v, n)
    BY <1>7, <1>8, <2>3
  <2> HIDE DEF k
  <2>4. \A i \in DOMAIN k.events : k.events[i].id = i
    BY <1>2, <1>5, <2>2, <2>3 DEF Numbered
  <2> QED
    BY <1>2, <2>3, <2>4, <2>5 DEF Numbered
<1>10. ASSUME r.kind = "commit"
       PROVE  Numbered(k) /\ Backed(es, k) /\ VectorsHold(k.slots, v, n)
  <2> DEFINE ts == r.transitions
  <2>1. k = StateOf(m.events, Upsert(m.rows, ts), m.transitions \o ts, m.proposals + 1,
                    m.cursor, m.snapshots, Overlaid(r.vectors, m.slots))
    BY <1>3, <1>10, ApplyIs
  <2>2. ts \in Seq(TransitionSet) /\ \A i \in 1 .. Len(ts) : ts[i].id = Len(m.transitions) + i
    BY <1>2, <1>3, <1>10 DEF RecordSet, Fits
  <2> HIDE DEF ts
  <2>3. /\ k.events = m.events /\ k.transitions = m.transitions \o ts
        /\ k.snapshots = m.snapshots /\ k.slots = Overlaid(r.vectors, m.slots)
    BY <2>1 DEF StateOf
  <2>5. Backed(es, k) /\ VectorsHold(k.slots, v, n)
    BY <1>7, <1>8, <2>3
  <2> HIDE DEF k
  <2>4. \A i \in DOMAIN k.transitions : k.transitions[i].id = i
    <3>1. /\ Len(m.transitions) \in Nat /\ Len(ts) \in Nat
          /\ DOMAIN k.transitions = 1 .. Len(m.transitions) + Len(ts)
          /\ \A i \in 1 .. Len(m.transitions) : k.transitions[i] = m.transitions[i]
          /\ \A i \in 1 .. Len(ts) : k.transitions[Len(m.transitions) + i] = ts[i]
      BY <1>5, <2>2, <2>3
    <3>2. \A i \in 1 .. Len(m.transitions) : m.transitions[i].id = i
      BY <1>2, <1>5 DEF Numbered
    <3>3. ASSUME NEW i \in 1 .. Len(m.transitions) + Len(ts), ~(i <= Len(m.transitions))
          PROVE  k.transitions[i].id = i
      <4>1. i - Len(m.transitions) \in 1 .. Len(ts) /\ Len(m.transitions) + (i - Len(m.transitions)) = i
        BY <3>1, <3>3
      <4> QED
        BY <2>2, <3>1, <4>1
    <3> QED
      BY <3>1, <3>2, <3>3
  <2> QED
    BY <1>2, <2>3, <2>4, <2>5 DEF Numbered
<1>11. ASSUME r.kind = "cursor"
       PROVE  Numbered(k) /\ Backed(es, k) /\ VectorsHold(k.slots, v, n)
  <2>1. k = StateOf(m.events, m.rows, m.transitions, m.proposals,
                    [last |-> r.last, failures |-> r.failures], m.snapshots, m.slots)
    BY <1>3, <1>11, ApplyIs
  <2>2. /\ k.events = m.events /\ k.transitions = m.transitions
        /\ k.snapshots = m.snapshots /\ k.slots = m.slots
    BY <2>1 DEF StateOf
  <2>3. Backed(es, k) /\ VectorsHold(k.slots, v, n)
    BY <1>2, <1>8, <2>2
  <2> HIDE DEF k
  <2> QED
    BY <1>2, <2>2, <2>3 DEF Numbered
<1>12. ASSUME r.kind = "snapshot"
       PROVE  Numbered(k) /\ Backed(es, k) /\ VectorsHold(k.slots, v, n)
  <2> DEFINE s == [id |-> r.id, last |-> r.last, offset |-> 2 * c]
  <2>1. k = StateOf(m.events, m.rows, m.transitions, m.proposals, m.cursor,
                    Append(m.snapshots, s), m.slots)
    BY <1>3, <1>12, ApplyIs
  <2>2. s \in SnapshotSet /\ s.id = Len(m.snapshots) + 1 /\ s.id = r.id /\ s.last = r.last
        /\ s.offset = 2 * c
    BY <1>2, <1>3, <1>12 DEF RecordSet, SnapshotSet, Fits
  <2> HIDE DEF s
  <2>3. /\ k.events = m.events /\ k.transitions = m.transitions
        /\ k.snapshots = Append(m.snapshots, s) /\ k.slots = m.slots
    BY <2>1 DEF StateOf
  <2> HIDE DEF k
  <2>4. /\ Len(m.snapshots) \in Nat /\ DOMAIN m.snapshots = 1 .. Len(m.snapshots)
        /\ DOMAIN k.snapshots = 1 .. Len(m.snapshots) + 1
        /\ k.snapshots[Len(m.snapshots) + 1] = s
        /\ \A i \in 1 .. Len(m.snapshots) : k.snapshots[i] = m.snapshots[i]
    BY <1>5, <2>2, <2>3
  <2>5. \A i \in DOMAIN k.snapshots : k.snapshots[i].id = i
    BY <1>2, <2>2, <2>4 DEF Numbered
  <2>6. Backed(es, k)
    <3>1. DOMAIN fs = 1 .. c /\ DOMAIN es = 1 .. c + 1 /\ es[c + 1] = e /\ 2 * (c + 1 - 1) = 2 * c
      BY <1>1 DEF e
    <3>2. \A q, j : j \in 1 .. c /\ SnapshotOf(q, fs, j) => SnapshotOf(q, es, j)
      BY <1>1 DEF SnapshotOf
    <3>3. c + 1 \in DOMAIN es /\ SnapshotOf(s, es, c + 1)
      BY <1>12, <2>2, <3>1 DEF SnapshotOf, r
    <3>4. ASSUME NEW i \in DOMAIN k.snapshots
          PROVE  \E j \in DOMAIN es : SnapshotOf(k.snapshots[i], es, j)
      <4>1. CASE i = Len(m.snapshots) + 1
        BY <2>4, <3>3, <4>1
      <4>2. CASE i \in DOMAIN m.snapshots
        <5>1. PICK j \in DOMAIN fs : SnapshotOf(m.snapshots[i], fs, j)
          BY <1>2, <4>2 DEF Backed
        <5> QED
          BY <2>4, <3>1, <3>2, <4>2, <5>1
      <4> QED
        BY <2>4, <4>1, <4>2
    <3> QED
      BY <3>4 DEF Backed
  <2> QED
    BY <1>2, <2>3, <2>5, <2>6 DEF Numbered
<1>13. r.kind \in {"event", "commit", "cursor", "snapshot"}
  BY <1>3 DEF RecordSet
<1> QED
  <2>1. Numbered(k) /\ Backed(es, k) /\ VectorsHold(k.slots, v, n)
    BY <1>9, <1>10, <1>11, <1>12, <1>13
  <2> QED
    BY <1>4, <2>1 DEF m, r, fs, e

LEMMA LineTypes ==
  ASSUME NEW x \in EntrySet, NEW n \in Nat
  PROVE  [offset |-> n, seq |-> x.seq, record |-> x.record] \in LineSet
BY DEF LineSet, EntrySet

LEMMA Appended ==
  ASSUME NEW S, NEW es \in Seq(S), NEW e \in S
  PROVE  /\ Append(es, e) \in Seq(S) /\ Len(Append(es, e)) = Len(es) + 1 /\ Len(es) \in Nat
         /\ Append(es, e)[Len(es) + 1] = e
         /\ \A i \in 1 .. Len(es) : Append(es, e)[i] = es[i]
         /\ SubSeq(Append(es, e), 1, Len(es)) = es
OBVIOUS

\* A first part of a first part.
LEMMA FirstParts ==
  ASSUME NEW S, NEW es \in Seq(S), NEW j \in 0 .. Len(es)
  PROVE  /\ SubSeq(es, 1, j) \in Seq(S) /\ Len(SubSeq(es, 1, j)) = j /\ j \in Nat
         /\ \A i \in 1 .. j : SubSeq(es, 1, j)[i] = es[i]
         /\ \A k \in 0 .. j : SubSeq(SubSeq(es, 1, j), 1, k) = SubSeq(es, 1, k) /\ k \in 0 .. Len(es)
<1>1. /\ SubSeq(es, 1, j) \in Seq(S) /\ Len(SubSeq(es, 1, j)) = j /\ j \in Nat
      /\ \A i \in 1 .. j : SubSeq(es, 1, j)[i] = es[i]
  OBVIOUS
<1>2. ASSUME NEW k \in 0 .. j
      PROVE  SubSeq(SubSeq(es, 1, j), 1, k) = SubSeq(es, 1, k) /\ k \in 0 .. Len(es)
  <2> DEFINE fs == SubSeq(es, 1, j)
  <2>1. fs \in Seq(S) /\ Len(fs) = j /\ \A i \in 1 .. j : fs[i] = es[i]
    BY <1>1
  <2>2. k \in 0 .. Len(es) /\ k \in 0 .. Len(fs) /\ k \in Nat
    BY <1>1
  <2> HIDE DEF fs
  <2>3. /\ SubSeq(fs, 1, k) \in Seq(S) /\ Len(SubSeq(fs, 1, k)) = k
        /\ \A i \in 1 .. k : SubSeq(fs, 1, k)[i] = fs[i]
    BY <2>1, <2>2
  <2>4. /\ SubSeq(es, 1, k) \in Seq(S) /\ Len(SubSeq(es, 1, k)) = k
        /\ \A i \in 1 .. k : SubSeq(es, 1, k)[i] = es[i]
    BY <2>2
  <2>5. \A i \in 1 .. k : fs[i] = es[i]
    BY <2>1, <2>2
  <2>6. SubSeq(fs, 1, k) = SubSeq(es, 1, k)
    BY <2>3, <2>4, <2>5, SameSequence
  <2> QED
    BY <2>2, <2>6 DEF fs
<1> QED
  BY <1>1, <1>2

LEMMA WholeSound ==
  ASSUME NEW es \in Seq(LineSet), NEW v, NEW n, AllSound(es, v, n)
  PROVE  Sound(es, v, n)
<1>1. SubSeq(es, 1, Len(es)) = es /\ Len(es) \in 0 .. Len(es)
  OBVIOUS
<1> QED
  BY <1>1 DEF AllSound

\* Lines stay sound when more vectors are kept ...
LEMMA SoundStays ==
  ASSUME NEW es \in Seq(LineSet), NEW v, NEW u, NEW n \in Nat, NEW k \in Nat,
         AllSound(es, v, n), n <= k, \A i \in 1 .. 2 * n : u[i] = v[i]
  PROVE  AllSound(es, u, k)
<1> SUFFICES ASSUME NEW j \in 0 .. Len(es) PROVE Sound(SubSeq(es, 1, j), u, k)
  BY DEF AllSound
<1>1. SubSeq(es, 1, j) \in Seq(LineSet)
  BY FirstParts
<1>2. Fold(SubSeq(es, 1, j)).slots \in MapsTo(Nat)
  BY <1>1, FoldTypes DEF StateSet
<1>3. Sound(SubSeq(es, 1, j), v, n)
  BY DEF AllSound
<1> QED
  BY <1>2, <1>3, VectorsStay DEF Sound

\* ... when the last ones are lost ...
LEMMA SoundFirst ==
  ASSUME NEW es \in Seq(LineSet), NEW v, NEW n, AllSound(es, v, n), NEW j \in 0 .. Len(es)
  PROVE  AllSound(SubSeq(es, 1, j), v, n)
BY FirstParts DEF AllSound

\* ... and when a record that fits is written behind them.
LEMMA SoundMore ==
  ASSUME NEW es \in Seq(LineSet), NEW e \in LineSet, NEW v, NEW n, AllSound(es, v, n),
         e.offset = 2 * Len(es), Fits(Fold(es), e.record), VectorsHold(e.record.vectors, v, n)
  PROVE  AllSound(Append(es, e), v, n)
<1> DEFINE fs == Append(es, e)
           c == Len(es)
<1>1. /\ fs \in Seq(LineSet) /\ Len(fs) = c + 1 /\ c \in Nat /\ fs[c + 1] = e
      /\ SubSeq(fs, 1, c) = es
  BY Appended
<1>2. Sound(es, v, n)
  BY WholeSound
<1>3. Numbered(Fold(es)) /\ Backed(es, Fold(es)) /\ VectorsHold(Fold(es).slots, v, n)
  BY <1>2 DEF Sound
<1>4. e.offset = 2 * c
  OBVIOUS
<1> HIDE DEF fs, c
<1>5. Sound(fs, v, n)
  <2>1. /\ Numbered(Fold(SubSeq(fs, 1, c))) /\ Backed(SubSeq(fs, 1, c), Fold(SubSeq(fs, 1, c)))
        /\ VectorsHold(Fold(SubSeq(fs, 1, c)).slots, v, n)
        /\ Fits(Fold(SubSeq(fs, 1, c)), fs[c + 1].record)
        /\ VectorsHold(fs[c + 1].record.vectors, v, n) /\ fs[c + 1].offset = 2 * c
    BY <1>1, <1>3, <1>4
  <2>2. Numbered(Fold(fs)) /\ Backed(fs, Fold(fs)) /\ VectorsHold(Fold(fs).slots, v, n)
    BY <1>1, <2>1, Grows
  <2> QED
    BY <2>2 DEF Sound
<1>6. ASSUME NEW k \in 0 .. Len(fs) PROVE Sound(SubSeq(fs, 1, k), v, n)
  <2>1. CASE k = c + 1
    <3>1. SubSeq(fs, 1, k) = fs
      BY <1>1, <2>1
    <3> QED
      BY <1>5, <3>1
  <2>2. CASE k # c + 1
    <3>1. k \in 0 .. c /\ c \in 0 .. Len(fs) /\ k \in 0 .. Len(es)
      BY <1>1, <2>2 DEF c
    <3>2. SubSeq(es, 1, k) = SubSeq(fs, 1, k)
      BY <1>1, <3>1, FirstParts
    <3> QED
      BY <3>1, <3>2 DEF AllSound
  <2> QED
    BY <2>1, <2>2
<1> QED
  BY <1>6 DEF AllSound, fs

\* What is left of whole lines when their end is lost: the first of them.
LEMMA Truncated ==
  ASSUME NEW f \in Seq(CellSet), Shape(f), Len(Entries(f)) = Len(f) \div 2,
         NEW n \in 0 .. Len(f), NEW g \in Torn(f, n)
  PROVE  /\ g \in Seq(CellSet) /\ Len(g) = n /\ Shape(g)
         /\ Entries(g) = SubSeq(Entries(f), 1, n \div 2)
         /\ Len(Entries(g)) = n \div 2
         /\ n \div 2 \in 0 .. Len(Entries(f))
<1> DEFINE c == EndOfLastLine(f)
           k == n \div 2
           m == 2 * k
<1>1. /\ c \in 0 .. Len(f) /\ Len(f) \in Nat /\ n \in Nat
      /\ \A i \in c + 1 .. Len(f) : f[i].part # "tail"
  BY EndOfLastLineEnds DEF EndsAt
<1>2. /\ c % 2 = 0
      /\ \A i \in 1 .. c \div 2 : f[2 * i - 1].part = "head" /\ f[2 * i].part = "tail"
  BY DEF Shape, LinesTo
<1>3. /\ Entries(f) \in Seq(LineSet) /\ Len(Entries(f)) = c \div 2
      /\ \A i \in 1 .. c \div 2 : Entries(f)[i] = Line(f, i)
  BY EntriesIs
<1>4. /\ g \in Seq(CellSet) /\ Len(g) = n
      /\ \A i \in 1 .. n : \/ g[i] = f[i]
                           \/ i = n /\ f[i].part = "head" /\ g[i].part = "cut"
  BY TornTypes
<1>5. c \div 2 = Len(f) \div 2
  BY <1>3
<1> HIDE DEF c
<1>6. /\ k \in Nat /\ m \in Nat /\ m <= n /\ n <= m + 1 /\ k <= c \div 2 /\ c = 2 * (c \div 2)
      /\ c \div 2 \in Nat /\ m <= c /\ n <= c + 1
  BY <1>1, <1>2, <1>5
<1> HIDE DEF k
<1>7. ASSUME NEW i \in 1 .. k
      PROVE  /\ f[2 * i - 1].part = "head" /\ f[2 * i].part = "tail"
             /\ g[2 * i] = f[2 * i] /\ g[2 * i - 1] = f[2 * i - 1]
  <2>1. i \in 1 .. c \div 2 /\ 2 * i \in 1 .. n /\ 2 * i - 1 \in 1 .. n /\ 2 * i - 1 # n
    BY <1>6
  <2>2. f[2 * i - 1].part = "head" /\ f[2 * i].part = "tail"
    BY <1>2, <2>1
  <2> QED
    BY <1>4, <2>1, <2>2
<1>8. EndsAt(g, m)
  <2>1. m \in 0 .. Len(g)
    BY <1>4, <1>6
  <2>2. ASSUME m > 0 PROVE g[m].part = "tail"
    <3>1. k \in 1 .. k
      BY <1>6, <2>2
    <3> QED
      BY <1>7, <3>1
  <2>3. ASSUME NEW i \in m + 1 .. Len(g) PROVE g[i].part # "tail"
    <3>1. i = n /\ n = m + 1 /\ n \in 1 .. n
      BY <1>4, <1>6
    <3>2. f[n].part # "tail"
      <4>1. CASE n <= c
        <5>1. k + 1 \in 1 .. c \div 2 /\ 2 * (k + 1) - 1 = n
          BY <1>6, <3>1, <4>1
        <5>2. f[n].part = "head"
          BY <1>2, <5>1
        <5> QED
          BY <5>2
      <4>2. CASE ~(n <= c)
        <5>1. n \in c + 1 .. Len(f)
          BY <1>1, <4>2
        <5> QED
          BY <1>1, <5>1
      <4> QED
        BY <4>1, <4>2
    <3> QED
      BY <1>4, <3>1, <3>2
  <2> QED
    BY <2>1, <2>2, <2>3 DEF EndsAt
<1>9. EndOfLastLine(g) = m
  BY <1>4, <1>8, EndsOnce
<1>10. m % 2 = 0 /\ m \div 2 = k
  BY <1>6
<1>11. Shape(g)
  BY <1>7, <1>9, <1>10 DEF Shape, LinesTo
<1>12. /\ Entries(g) \in Seq(LineSet) /\ Len(Entries(g)) = k
       /\ \A i \in 1 .. k : Entries(g)[i] = Line(g, i)
  BY <1>4, <1>9, <1>10, EntriesIs
<1>13. Entries(g) = SubSeq(Entries(f), 1, k)
  <2> DEFINE es == Entries(f)
             fs == Entries(g)
  <2>1. es \in Seq(LineSet) /\ k \in 0 .. Len(es) /\ fs \in Seq(LineSet) /\ Len(fs) = k
    BY <1>3, <1>6, <1>12
  <2>2. \A i \in 1 .. k : fs[i] = es[i]
    <3> SUFFICES ASSUME NEW i \in 1 .. k PROVE fs[i] = es[i]
      OBVIOUS
    <3>1. i \in 1 .. c \div 2
      BY <1>6
    <3>2. Line(g, i) = Line(f, i)
      BY <1>7 DEF Line
    <3> QED
      BY <1>3, <1>12, <3>1, <3>2
  <2> HIDE DEF es, fs
  <2>3. /\ SubSeq(es, 1, k) \in Seq(LineSet) /\ Len(SubSeq(es, 1, k)) = k
        /\ \A i \in 1 .. k : SubSeq(es, 1, k)[i] = es[i]
    BY <2>1, FirstParts
  <2>4. fs = SubSeq(es, 1, k)
    BY <2>1, <2>2, <2>3, SameSequence
  <2> QED
    BY <2>4 DEF es, fs
<1> QED
  BY <1>3, <1>4, <1>6, <1>11, <1>12, <1>13 DEF k

LEMMA KeptGrows ==
  ASSUME NEW m \in Nat, NEW n \in Nat, m <= n
  PROVE  m \div 2 \in Nat /\ n \div 2 \in Nat /\ m \div 2 <= n \div 2
         /\ 2 * (m \div 2) <= m /\ m <= 2 * (m \div 2) + 1
OBVIOUS

\* The two files and what a sync has covered.
LEMMA Sizes ==
  ASSUME StoreTypes
  PROVE  /\ file \in Seq(CellSet) /\ vfile \in Seq(VectorCellSet)
         /\ Len(file) \in Nat /\ Len(vfile) \in Nat
         /\ synced \in Nat /\ synced <= Len(file)
         /\ vsynced \in Nat /\ vsynced <= Len(vfile)
         /\ Kept \in Nat /\ 2 * Kept <= vsynced
         /\ Entries(file) \in Seq(LineSet) /\ Len(Entries(file)) \in Nat
<1>1. /\ file \in Seq(CellSet) /\ vfile \in Seq(VectorCellSet)
      /\ synced \in 0 .. Len(file) /\ vsynced \in 0 .. Len(vfile)
  BY DEF StoreTypes, DiskOK
<1>2. Len(file) \in Nat /\ Len(vfile) \in Nat
  BY <1>1
<1>3. synced \in Nat /\ synced <= Len(file) /\ vsynced \in Nat /\ vsynced <= Len(vfile)
  BY <1>1, <1>2
<1>4. Kept \in Nat /\ 2 * Kept <= vsynced
  BY <1>3, KeptGrows DEF Kept
<1>5. Entries(file) \in Seq(LineSet)
  BY <1>1, EntriesIs
<1>6. Len(Entries(file)) \in Nat
  BY <1>5
<1> QED
  BY <1>1, <1>2, <1>3, <1>4, <1>5, <1>6

\* The lines are what they were, and no vector that was kept has changed.
LEMMA LogStays ==
  ASSUME StoreTypes, LogInv, Entries(file') = Entries(file), Shape(file'),
         Len(Entries(file')) = Len(file') \div 2,
         Kept' \in Nat, Kept <= Kept', \A i \in 1 .. 2 * Kept : vfile'[i] = vfile[i]
  PROVE  LogInv'
<1>1. Entries(file) \in Seq(LineSet) /\ Kept \in Nat
  BY Sizes
<1>2. AllSound(Entries(file), vfile', Kept')
  BY <1>1, SoundStays DEF LogInv
<1> QED
  BY <1>2 DEF LogInv

LEMMA NothingChanges ==
  ASSUME StoreTypes, IntactInv, UNCHANGED <<up, file, vfile, vsynced, mem, len, seq, vslots, op>>
  PROVE  IntactInv' /\ Acked' = Acked
<1>1. Kept' = Kept /\ Kept \in Nat /\ Kept <= Kept
  BY Sizes DEF Kept
<1>2. LogInv'
  BY <1>1, LogStays DEF IntactInv, LogInv
<1> QED
  BY <1>1, <1>2 DEF IntactInv, LiveInv, Acked, Count

\* What the invariant says of the numbers of lines.
LEMMA LogNumbers ==
  ASSUME StoreTypes, LogInv, LiveInv
  PROVE  /\ Count \in Nat /\ 2 * Count = len /\ Entries(file) \in Seq(LineSet)
         /\ Len(Entries(file)) \in {Count, Count + 1}
         /\ Acked \in Seq(LineSet) /\ Len(Acked) = Count
         /\ \A i \in 1 .. Count : Acked[i] = Entries(file)[i]
         /\ Len(Entries(file)) = Count => Acked = Entries(file)
         /\ \A i \in 1 .. Len(Entries(file)) : Entries(file)[i].offset = 2 * (i - 1)
<1>1. len \in Nat /\ len % 2 = 0 /\ file \in Seq(CellSet)
  BY DEF StoreTypes, LiveInv
<1>2. Count \in Nat /\ 2 * Count = len
  BY <1>1 DEF Count
<1>3. Entries(file) \in Seq(LineSet) /\ Len(Entries(file)) \in {Count, Count + 1}
  BY <1>1, EntriesIs DEF LiveInv
<1>4. \A i \in 1 .. Len(Entries(file)) : Entries(file)[i] = Line(file, i)
  BY <1>1, EntriesIs
<1>5. \A i \in 1 .. Len(Entries(file)) : Entries(file)[i].offset = 2 * (i - 1)
  <2>1. \A i : Line(file, i).offset = 2 * (i - 1)
    BY DEF Line
  <2> QED
    BY <1>4, <2>1
<1> DEFINE es == Entries(file)
           c == Count
<1>6. es \in Seq(LineSet) /\ Len(es) \in {c, c + 1} /\ c \in Nat
  BY <1>2, <1>3
<1>7. Acked = SubSeq(es, 1, c)
  BY DEF Acked
<1> HIDE DEF es, c
<1>8. /\ SubSeq(es, 1, c) \in Seq(LineSet) /\ Len(SubSeq(es, 1, c)) = c
      /\ \A i \in 1 .. c : SubSeq(es, 1, c)[i] = es[i]
      /\ Len(es) = c => SubSeq(es, 1, c) = es
  BY <1>6
<1> QED
  BY <1>2, <1>3, <1>5, <1>7, <1>8 DEF es, c

LEMMA InitIntact == Init => IntactInv
<1> SUFFICES ASSUME Init PROVE IntactInv
  OBVIOUS
<1>1. /\ mem = EmptyState /\ file = <<>> /\ vfile = <<>> /\ op = Idle /\ len = 0 /\ seq = 0
      /\ vslots = 0 /\ up = TRUE
  BY DEF Init
<1>2. file \in Seq(CellSet) /\ Len(file) = 0 /\ 0 % 2 = 0 /\ 0 \div 2 = 0
  BY <1>1
<1>3. Lines(file)
  BY <1>2 DEF Lines, LinesTo
<1>4. Shape(file) /\ Len(Entries(file)) = 0 /\ Entries(file) \in Seq(LineSet)
  BY <1>2, <1>3, LinesEnd, EntriesIs
<1>5. Entries(file) = <<>> /\ Count = 0
  BY <1>1, <1>2, <1>4 DEF Count
<1>6. Acked = <<>>
  BY <1>5 DEF Acked
<1>7. AllSound(<<>>, vfile, Kept)
  <2> SUFFICES ASSUME NEW k \in 0 .. Len(<<>>) PROVE Sound(SubSeq(<<>>, 1, k), vfile, Kept)
    BY DEF AllSound
  <2>1. k = 0
    OBVIOUS
  <2>2. SubSeq(<<>>, 1, k) = <<>>
    BY <2>1
  <2>3. Fold(SubSeq(<<>>, 1, k)) = EmptyState
    BY <2>2, FoldNothing
  <2> QED
    BY <2>3 DEF Sound, EmptyState, Numbered, Backed, VectorsHold
<1>8. LogInv
  <2>1. Len(file) \div 2 = 0
    BY <1>2
  <2> QED
    BY <1>2, <1>4, <1>5, <1>7, <2>1 DEF LogInv
<1>9. LiveInv
  BY <1>1, <1>2, <1>3, <1>5, <1>6, FoldNothing DEF LiveInv, Idle
<1> QED
  BY <1>1, <1>8, <1>9 DEF IntactInv

\* The line that has been written and not synced is the last one.
LEMMA LastLineIsWritten ==
  ASSUME StoreTypes, CountInv, LogInv, LiveInv, op.stage = "journal_sync"
  PROVE  /\ up /\ Len(Entries(file)) = Count + 1
         /\ Entries(file)[Count + 1].record = op.record
         /\ \E front \in Seq(CellSet), x \in EntrySet :
              /\ file = front \o LineCells(x) /\ Lines(front) /\ Entries(front) = Acked
              /\ Len(front) = len
<1>1. PICK front \in Seq(CellSet), x \in EntrySet : Written(front, x)
  BY DEF CountInv
<1>2. file = front \o LineCells(x) /\ x.record = op.record
  BY <1>1 DEF Written
<1>3. up /\ Lines(file) /\ Len(Entries(file)) = Count + 1
  BY Busy DEF LiveInv
<1>4. /\ Lines(front)
      /\ Entries(file) = Append(Entries(front), [offset |-> Len(front), seq |-> x.seq, record |-> x.record])
  BY <1>2, <1>3, OneMoreLine
<1> DEFINE e == [offset |-> Len(front), seq |-> x.seq, record |-> x.record]
<1>5. e \in LineSet /\ e.record = op.record
  <2>1. e \in LineSet
    <3>1. Len(front) \in Nat
      BY <1>1
    <3> QED
      BY <3>1, LineTypes
  <2> QED
    BY <1>2, <2>1
<1>6. /\ Entries(front) \in Seq(LineSet) /\ Count \in Nat /\ Acked \in Seq(LineSet)
      /\ Len(Acked) = Count /\ 2 * Count = len
      /\ \A i \in 1 .. Count : Acked[i] = Entries(file)[i]
  BY EntriesIs, LogNumbers
<1> HIDE DEF e
<1>7. Entries(file) = Append(Entries(front), e)
  BY <1>4 DEF e
<1>8. Len(Entries(front)) = Count /\ Entries(file)[Count + 1] = e
      /\ \A i \in 1 .. Count : Entries(file)[i] = Entries(front)[i]
  <2>1. /\ Len(Entries(file)) = Len(Entries(front)) + 1 /\ Len(Entries(front)) \in Nat
        /\ Entries(file)[Len(Entries(front)) + 1] = e
        /\ \A i \in 1 .. Len(Entries(front)) : Entries(file)[i] = Entries(front)[i]
    <3> DEFINE fs == Entries(front)
    <3>1. fs \in Seq(LineSet) /\ Entries(file) = Append(fs, e)
      BY <1>6, <1>7
    <3> HIDE DEF fs
    <3>2. e \in LineSet
      BY <1>5
    <3>3. /\ Len(Append(fs, e)) = Len(fs) + 1 /\ Len(fs) \in Nat /\ Append(fs, e)[Len(fs) + 1] = e
          /\ \A i \in 1 .. Len(fs) : Append(fs, e)[i] = fs[i]
      BY <3>1, <3>2, Appended
    <3>4. /\ Len(Entries(file)) = Len(fs) + 1 /\ Len(fs) \in Nat /\ Entries(file)[Len(fs) + 1] = e
          /\ \A i \in 1 .. Len(fs) : Entries(file)[i] = fs[i]
      BY <3>1, <3>3
    <3> QED
      BY <3>4 DEF fs
  <2>2. Len(Entries(front)) = Count
    <3> DEFINE k == Len(Entries(front))
               c == Count
    <3>1. k \in Nat /\ c \in Nat /\ k + 1 = c + 1
      BY <1>3, <1>6, <2>1
    <3> HIDE DEF k, c
    <3>2. \A a, b \in Nat : a + 1 = b + 1 => a = b
      OBVIOUS
    <3>3. k = c
      BY <3>1, <3>2
    <3> QED
      BY <3>3 DEF k, c
  <2> QED
    BY <2>1, <2>2
<1>9. Entries(front) = Acked
  <2> DEFINE s == Entries(front)
             a == Acked
             c == Count
  <2>1. s \in Seq(LineSet) /\ a \in Seq(LineSet) /\ Len(s) = c /\ Len(a) = c /\ c \in Nat
        /\ \A i \in 1 .. c : s[i] = a[i]
    BY <1>6, <1>8
  <2> HIDE DEF s, a, c
  <2>2. s = a
    BY <2>1, SameSequence
  <2> QED
    BY <2>2 DEF s, a
<1>10. Len(front) = len
  BY <1>4, <1>6, <1>8, LinesEnd
<1> QED
  BY <1>2, <1>3, <1>4, <1>5, <1>8, <1>9, <1>10

LEMMA OperationIntact ==
  ASSUME StoreTypes, CountInv, IntactInv, Operation
  PROVE  IntactInv' /\ UNCHANGED <<up, Acked, synced, mem>>
<1>1. PICK r \in RecordSet, S \in SUBSET Object : Begin(r, S) /\ r.vectors = <<>>
  BY OperationBegins DEF CountInv
<1>2. /\ up /\ op = Idle /\ op'.record = r /\ op'.stage \in {"journal", "vector"}
      /\ UNCHANGED <<up, file, vfile, synced, vsynced, mem, len, seq, vslots>>
  BY <1>1 DEF Begin, files, disk
<1>3. Kept' = Kept /\ Count' = Count /\ Acked' = Acked
  BY <1>2 DEF Kept, Count, Acked
<1>4. LogInv'
  <2>1. Kept \in Nat /\ Kept <= Kept
    BY Sizes
  <2> QED
    BY <1>2, <1>3, <2>1, LogStays DEF IntactInv, LogInv
<1>5. VectorsHold(op'.record.vectors, vfile, Kept)
  BY <1>1, <1>2 DEF VectorsHold
<1>6. LiveInv'
  BY <1>2, <1>3, <1>5 DEF IntactInv, LiveInv, Idle
<1> QED
  BY <1>2, <1>3, <1>4, <1>6 DEF IntactInv

LEMMA VectorWriteIntact ==
  ASSUME StoreTypes, IntactInv, VectorWrite
  PROVE  IntactInv' /\ UNCHANGED <<up, Acked, synced, mem>>
<1>1. PICK o \in Object : VectorWritten(o)
  BY VectorWriteIs
<1>2. /\ up /\ op.stage = "vector" /\ op.vectorOf = {o}
      /\ Len(vfile') = Len(vfile) + 2
      /\ \A i \in 1 .. Len(vfile) : vfile'[i] = vfile[i]
      /\ vfile'[Len(vfile) + 1] = [of |-> o, half |-> 1]
      /\ vfile'[Len(vfile) + 2] = [of |-> o, half |-> 2]
      /\ op'.stage = "vector_sync" /\ op'.vectorOf = op.vectorOf
      /\ UNCHANGED <<up, file, synced, vsynced, mem, len, seq, vslots>>
  BY <1>1 DEF VectorWritten
<1>3. Kept' = Kept /\ Count' = Count /\ Acked' = Acked
  BY <1>2 DEF Kept, Count, Acked
<1>4. Len(vfile) = 2 * vslots /\ vslots \in Nat
  <2>1. Len(vfile) = 2 * vslots
    BY <1>2 DEF IntactInv, LiveInv
  <2>2. vslots \in Nat
    BY DEF StoreTypes
  <2> QED
    BY <2>1, <2>2
<1>5. LogInv'
  <2>1. Kept \in Nat /\ Kept <= Kept /\ 2 * Kept <= Len(vfile)
    BY Sizes
  <2>2. \A i \in 1 .. 2 * Kept : vfile'[i] = vfile[i]
    <3>1. 1 .. 2 * Kept \subseteq 1 .. Len(vfile)
      BY <2>1, Sizes
    <3> QED
      BY <1>2, <3>1
  <2> QED
    BY <1>2, <1>3, <2>1, <2>2, LogStays DEF IntactInv, LogInv
<1>6. VectorsHold([q \in op'.vectorOf |-> vslots], vfile', vslots + 1)
  <2> DEFINE w == [q \in op'.vectorOf |-> vslots]
  <2>1. DOMAIN w = {o} /\ w[o] = vslots
    BY <1>2
  <2> HIDE DEF w
  <2>2. vslots < vslots + 1
    BY <1>4
  <2>3. VectorsHold(w, vfile', vslots + 1)
    BY <1>2, <1>4, <2>1, <2>2 DEF VectorsHold
  <2> QED
    BY <2>3 DEF w
<1>7. LiveInv'
  <2>1. /\ Lines(file) /\ len % 2 = 0 /\ mem = Fold(Acked) /\ seq = Len(Entries(file))
        /\ Len(Entries(file)) = Count
    BY <1>2 DEF IntactInv, LiveInv
  <2>2. Len(vfile') = 2 * vslots + 2
    BY <1>2, <1>4
  <2> QED
    BY <1>2, <1>3, <1>6, <2>1, <2>2 DEF LiveInv
<1> QED
  BY <1>2, <1>3, <1>5, <1>7 DEF IntactInv

LEMMA VectorSyncIntact ==
  ASSUME StoreTypes, IntactInv, VectorSync
  PROVE  IntactInv' /\ UNCHANGED <<up, Acked, synced, mem>>
<1>1. VectorSynced
  BY VectorSyncIs
<1>2. /\ up /\ op.stage = "vector_sync" /\ vslots' = vslots + 1 /\ op'.stage = "journal"
      /\ op'.record.vectors = [o \in op.vectorOf |-> vslots]
      /\ vsynced' = Len(vfile)
      /\ UNCHANGED <<up, file, vfile, synced, mem, len, seq>>
  BY <1>1 DEF VectorSynced
<1>3. Count' = Count /\ Acked' = Acked
  BY <1>2 DEF Count, Acked
<1>4. Len(vfile) = 2 * vslots + 2 /\ vslots \in Nat
  <2>1. Len(vfile) = 2 * vslots + 2
    BY <1>2 DEF IntactInv, LiveInv
  <2>2. vslots \in Nat
    BY DEF StoreTypes
  <2> QED
    BY <2>1, <2>2
<1>5. Kept' = vslots + 1 /\ Kept' \in Nat /\ Kept <= Kept'
  <2>1. \A n \in Nat : (2 * n + 2) \div 2 = n + 1
    OBVIOUS
  <2>2. Kept' = vslots + 1
    BY <1>2, <1>4, <2>1 DEF Kept
  <2>3. Kept \in Nat /\ 2 * Kept <= Len(vfile)
    BY Sizes
  <2> QED
    BY <1>4, <2>2, <2>3
<1>6. LogInv'
  BY <1>2, <1>5, LogStays DEF IntactInv, LogInv
<1>7. VectorsHold([o \in op.vectorOf |-> vslots], vfile, vslots + 1)
  BY <1>2 DEF IntactInv, LiveInv
<1>8. LiveInv'
  <2>1. /\ Lines(file) /\ len % 2 = 0 /\ mem = Fold(Acked) /\ seq = Len(Entries(file))
        /\ Len(Entries(file)) = Count
    BY <1>2 DEF IntactInv, LiveInv
  <2>2. Len(vfile') = 2 * vslots'
    <3>1. vslots' = vslots + 1 /\ vfile' = vfile
      BY <1>2
    <3> QED
      BY <1>4, <3>1
  <2> QED
    BY <1>2, <1>3, <1>5, <1>7, <2>1, <2>2 DEF LiveInv
<1> QED
  BY <1>2, <1>3, <1>6, <1>8 DEF IntactInv

LEMMA JournalWriteIntact ==
  ASSUME StoreTypes, CountInv, IntactInv, JournalWrite
  PROVE  IntactInv' /\ UNCHANGED <<up, Acked, synced, mem>>
<1>1. PICK x \in EntrySet : LineWritten(x)
  BY JournalWriteIs
<1>2. /\ up /\ op.stage = "journal" /\ seq' = seq + 1 /\ x.seq = seq' /\ x.record = op.record
      /\ file' = file \o LineCells(x) /\ op'.stage = "journal_sync" /\ op'.record = op.record
      /\ UNCHANGED <<up, vfile, synced, vsynced, mem, len, vslots>>
  BY <1>1 DEF LineWritten
<1> DEFINE es == Entries(file)
           c == Count
           e == [offset |-> Len(file), seq |-> x.seq, record |-> x.record]
<1>3. /\ file \in Seq(CellSet) /\ Lines(file) /\ seq = Len(es) /\ Len(es) = c /\ len % 2 = 0
      /\ mem = Fold(Acked) /\ VectorsHold(op.record.vectors, vfile, Kept)
      /\ Len(vfile) = 2 * vslots
  <2>1. /\ Lines(file) /\ seq = Len(es) /\ Len(es) = c /\ len % 2 = 0 /\ mem = Fold(Acked)
        /\ VectorsHold(op.record.vectors, vfile, Kept) /\ Len(vfile) = 2 * vslots
    BY <1>2 DEF IntactInv, LiveInv
  <2> QED
    BY <2>1 DEF StoreTypes
<1>4. /\ c \in Nat /\ es \in Seq(LineSet) /\ Acked = es
      /\ \A i \in 1 .. Len(es) : es[i].seq = i
      /\ AllSound(es, vfile, Kept)
  <2>1. (\A i \in DOMAIN es : es[i].seq = i) /\ AllSound(es, vfile, Kept)
    BY DEF IntactInv, LogInv
  <2>2. /\ c \in Nat /\ es \in Seq(LineSet) /\ Acked = es
    BY <1>2, <1>3, LogNumbers DEF IntactInv
  <2> QED
    BY <2>1, <2>2
<1>5. e \in LineSet /\ e.seq = seq + 1 /\ e.record = op.record
  <2>1. e \in LineSet
    <3>1. Len(file) \in Nat
      BY <1>3
    <3> QED
      BY <3>1, LineTypes
  <2> QED
    BY <1>2, <2>1
<1>6. Lines(file') /\ Entries(file') = Append(es, e) /\ Shape(file')
  <2>1. Lines(file') /\ Entries(file') = Append(es, e)
    BY <1>2, <1>3, OneMoreLine
  <2>2. file' \in Seq(CellSet)
    BY <1>1 DEF LineWritten
  <2> QED
    BY <2>1, <2>2, LinesEnd
<1>7. Len(file) = 2 * Len(es) /\ e.offset = 2 * Len(es)
  <2>1. Len(file) = 2 * Len(es)
    BY <1>3, <1>4, LinesEnd, EntriesIs
  <2> QED
    BY <2>1
<1> HIDE DEF e
<1>8. /\ Append(es, e) \in Seq(LineSet) /\ Len(Append(es, e)) = Len(es) + 1
      /\ Append(es, e)[Len(es) + 1] = e
      /\ \A i \in 1 .. Len(es) : Append(es, e)[i] = es[i]
      /\ SubSeq(Append(es, e), 1, Len(es)) = es
  BY <1>4, <1>5, Appended
<1>9. Kept' = Kept /\ Count' = c /\ Acked' = Acked
  <2>1. Kept' = Kept /\ Count' = c
    BY <1>2 DEF Kept, Count
  <2> QED
    BY <1>3, <1>4, <1>6, <1>8, <2>1 DEF Acked
<1>10. AllSound(Append(es, e), vfile, Kept)
  <2>1. Fits(mem, op.record)
    <3>1. op # Idle
      BY <1>2 DEF Idle
    <3> QED
      BY <3>1 DEF CountInv
  <2>2. Fits(Fold(es), e.record) /\ VectorsHold(e.record.vectors, vfile, Kept)
    BY <1>3, <1>4, <1>5, <2>1
  <2> HIDE DEF es
  <2> QED
    BY <1>4, <1>5, <1>7, <2>2, SoundMore
<1>11. ASSUME NEW i \in DOMAIN Append(es, e) PROVE Append(es, e)[i].seq = i
  <2>1. Len(es) \in Nat /\ i \in 1 .. Len(es) + 1
    BY <1>4, <1>8
  <2>2. CASE i = Len(es) + 1
    BY <1>3, <1>5, <1>8, <2>2
  <2>3. CASE i # Len(es) + 1
    <3>1. i \in 1 .. Len(es)
      BY <2>1, <2>3
    <3> QED
      BY <1>4, <1>8, <3>1
  <2> QED
    BY <2>2, <2>3
<1>12. LogInv'
  <2>1. Len(Entries(file')) = Len(file') \div 2
    <3>1. file' \in Seq(CellSet)
      BY <1>1 DEF LineWritten
    <3> QED
      BY <1>6, <3>1, LinesEnd, EntriesIs
  <2> QED
    BY <1>2, <1>6, <1>9, <1>10, <1>11, <2>1 DEF LogInv
<1>13. LiveInv'
  <2>1. seq' = Len(Entries(file')) /\ Len(Entries(file')) = c + 1
    BY <1>2, <1>3, <1>6, <1>8
  <2> QED
    BY <1>2, <1>3, <1>6, <1>9, <2>1 DEF LiveInv
<1> QED
  BY <1>2, <1>9, <1>12, <1>13 DEF IntactInv

\* The one step that acknowledges a line, with every line before it.
LEMMA JournalSyncIntact ==
  ASSUME StoreTypes, CountInv, IntactInv, JournalSync
  PROVE  /\ IntactInv' /\ up /\ up'
         /\ Acked' = Entries(file) /\ Len(Entries(file)) = Count + 1
         /\ synced' \div 2 = Len(Entries(file))
<1>1. LineSynced
  BY JournalSyncIs
<1>2. /\ up /\ op.stage = "journal_sync" /\ len' = len + 2 /\ op' = Idle
      /\ mem' = Apply(mem, len, op.record) /\ synced' = Len(file)
      /\ UNCHANGED <<up, file, vfile, vsynced, seq, vslots>>
  BY <1>1 DEF LineSynced
<1>3. LogInv /\ LiveInv
  BY <1>2 DEF IntactInv
<1>4. /\ Count \in Nat /\ 2 * Count = len /\ Entries(file) \in Seq(LineSet)
      /\ Len(Entries(file)) = Count + 1
  BY <1>2, <1>3, LogNumbers DEF LiveInv
<1>5. Count' = Count + 1
  <2>1. len' = 2 * (Count + 1)
    BY <1>2, <1>4
  <2>2. \A n \in Nat : (2 * (n + 1)) \div 2 = n + 1
    OBVIOUS
  <2> QED
    BY <1>4, <2>1, <2>2 DEF Count
<1>6. Acked' = Entries(file)
  <2>1. Acked' = SubSeq(Entries(file), 1, Len(Entries(file)))
    BY <1>2, <1>4, <1>5 DEF Acked
  <2> QED
    BY <1>4, <2>1
<1>7. mem' = Fold(Entries(file))
  <2>1. PICK front \in Seq(CellSet), x \in EntrySet :
          /\ file = front \o LineCells(x) /\ Lines(front) /\ Entries(front) = Acked
          /\ Len(front) = len /\ x.record = op.record
    <3>1. PICK front \in Seq(CellSet), x \in EntrySet :
            /\ file = front \o LineCells(x) /\ Lines(front) /\ Entries(front) = Acked
            /\ Len(front) = len
      BY <1>2, <1>3, LastLineIsWritten
    <3>2. x.record = op.record
      <4>1. Entries(file) = Append(Entries(front), [offset |-> Len(front), seq |-> x.seq, record |-> x.record])
        BY <3>1, OneMoreLine
      <4>2. Acked \in Seq(LineSet) /\ Len(Acked) = Count
        BY <1>3, LogNumbers
      <4>3. Entries(file)[Count + 1].record = op.record
        BY <1>2, <1>3, LastLineIsWritten
      <4> DEFINE e == [offset |-> Len(front), seq |-> x.seq, record |-> x.record]
      <4>4. e \in LineSet /\ e.record = x.record
        <5>1. Len(front) \in Nat
          BY <3>1
        <5> QED
          BY <5>1, LineTypes
      <4> HIDE DEF e
      <4>5. Append(Acked, e)[Len(Acked) + 1] = e
        BY <4>2, <4>4, Appended
      <4>6. Entries(file) = Append(Acked, e)
        BY <3>1, <4>1 DEF e
      <4> QED
        BY <4>2, <4>3, <4>4, <4>5, <4>6
    <3> QED
      BY <3>1, <3>2
  <2>2. Fold(Entries(file)) = Apply(Fold(Entries(front)), Len(front), x.record)
    BY <2>1, FoldOneMoreLine
  <2> QED
    BY <1>2, <1>3, <2>1, <2>2 DEF LiveInv
<1>8. LogInv'
  <2>1. Kept' = Kept /\ Kept \in Nat /\ Kept <= Kept
    BY <1>2, Sizes DEF Kept
  <2> QED
    BY <1>2, <1>3, <2>1, LogStays DEF LogInv
<1>9. LiveInv'
  <2>1. len' % 2 = 0
    <3>1. \A n \in Nat : n % 2 = 0 => (n + 2) % 2 = 0
      OBVIOUS
    <3> QED
      BY <1>2, <1>3, <3>1 DEF LiveInv, StoreTypes
  <2>2. Len(Entries(file)) = Count'
    BY <1>4, <1>5
  <2>3. Lines(file) /\ seq = Len(Entries(file)) /\ Len(vfile) = 2 * vslots
    BY <1>2, <1>3 DEF LiveInv
  <2> QED
    BY <1>2, <1>6, <1>7, <2>1, <2>2, <2>3 DEF LiveInv, Idle
<1>10. synced' \div 2 = Len(Entries(file))
  BY <1>2, <1>3 DEF LogInv
<1> QED
  BY <1>2, <1>4, <1>6, <1>8, <1>9, <1>10 DEF IntactInv

\* What is left when the process dies: a first part of the lines, at least those
\* that a sync has covered, with every vector they name.
LEMMA DeathIntact ==
  ASSUME StoreTypes, IntactInv, Kill \/ PowerLoss
  PROVE  /\ IntactInv' /\ ~up'
         /\ synced' \div 2 >= synced \div 2
         /\ synced' \div 2 <= Len(Entries(file'))
         /\ synced \div 2 \in Nat /\ synced' \div 2 \in Nat
         /\ \E j \in synced \div 2 .. Len(Entries(file)) : Entries(file') = SubSeq(Entries(file), 1, j)
<1>1. Dies
  BY DeathIs
<1>2. /\ file \in Seq(CellSet) /\ vfile \in Seq(VectorCellSet)
      /\ Len(file) \in Nat /\ Len(vfile) \in Nat
      /\ synced \in Nat /\ synced <= Len(file)
      /\ vsynced \in Nat /\ vsynced <= Len(vfile)
      /\ Kept \in Nat /\ 2 * Kept <= vsynced
      /\ Entries(file) \in Seq(LineSet)
  BY Sizes
<1>3. PICK n \in synced .. Len(file) : file' \in Torn(file, n)
  BY <1>1 DEF Dies
<1>4. PICK k \in vsynced .. Len(vfile) : vfile' = SubSeq(vfile, 1, k)
  BY <1>1 DEF Dies
<1>5. n \in 0 .. Len(file) /\ n \in Nat /\ k \in 0 .. Len(vfile) /\ k \in Nat
  BY <1>2
<1> DEFINE j == n \div 2
<1>6. /\ file' \in Seq(CellSet) /\ Len(file') = n /\ Shape(file')
      /\ Entries(file') = SubSeq(Entries(file), 1, j)
      /\ Len(Entries(file')) = j /\ j \in 0 .. Len(Entries(file))
  BY <1>2, <1>3, <1>5, Truncated DEF IntactInv, LogInv
<1>7. Len(vfile') = k /\ \A i \in 1 .. k : vfile'[i] = vfile[i]
  BY <1>2, <1>4, <1>5
<1>8. /\ synced' \in Nat /\ synced <= synced' /\ synced' <= n
      /\ vsynced' \in Nat /\ vsynced <= vsynced'
  <2>1. synced' \in synced .. Len(file') /\ vsynced' \in vsynced .. Len(vfile')
    BY <1>1 DEF Dies
  <2> QED
    BY <1>2, <1>5, <1>6, <1>7, <2>1
<1>9. /\ synced \div 2 \in Nat /\ synced' \div 2 \in Nat
      /\ synced \div 2 <= synced' \div 2 /\ synced' \div 2 <= j /\ synced \div 2 <= j
  <2>1. synced <= n
    BY <1>2, <1>5, <1>8
  <2>2. synced \div 2 \in Nat /\ synced' \div 2 \in Nat /\ synced \div 2 <= synced' \div 2
    BY <1>2, <1>8, KeptGrows
  <2>3. synced' \div 2 <= j
    BY <1>5, <1>8, KeptGrows
  <2>4. synced \div 2 <= j
    BY <1>2, <1>5, <2>1, KeptGrows
  <2> QED
    BY <2>2, <2>3, <2>4
<1>10. Kept' \in Nat /\ Kept <= Kept'
  BY <1>2, <1>8, KeptGrows DEF Kept
<1> HIDE DEF j
<1>11. AllSound(Entries(file'), vfile', Kept')
  <2> DEFINE es == Entries(file)
             fs == Entries(file')
  <2>1. AllSound(es, vfile, Kept) /\ es \in Seq(LineSet) /\ j \in 0 .. Len(es) /\ fs = SubSeq(es, 1, j)
    BY <1>2, <1>6 DEF IntactInv, LogInv
  <2>2. \A i \in 1 .. 2 * Kept : vfile'[i] = vfile[i]
    <3>1. 1 .. 2 * Kept \subseteq 1 .. k
      BY <1>2, <1>5
    <3> QED
      BY <1>7, <3>1
  <2> HIDE DEF es, fs
  <2>3. AllSound(fs, vfile, Kept) /\ fs \in Seq(LineSet)
    BY <2>1, SoundFirst, FirstParts
  <2>4. AllSound(fs, vfile', Kept')
    BY <1>2, <1>10, <2>2, <2>3, SoundStays
  <2> QED
    BY <2>4 DEF fs
<1>12. \A i \in DOMAIN Entries(file') : Entries(file')[i].seq = i
  <2> DEFINE es == Entries(file)
             fs == Entries(file')
  <2>1. /\ es \in Seq(LineSet) /\ j \in 0 .. Len(es) /\ fs = SubSeq(es, 1, j)
        /\ \A i \in DOMAIN es : es[i].seq = i
    BY <1>2, <1>6 DEF IntactInv, LogInv
  <2> HIDE DEF es, fs
  <2>2. fs \in Seq(LineSet) /\ Len(fs) = j /\ \A i \in 1 .. j : fs[i] = es[i]
    BY <2>1, FirstParts
  <2>3. DOMAIN fs = 1 .. j /\ 1 .. j \subseteq DOMAIN es
    BY <2>1, <2>2
  <2>4. \A i \in DOMAIN fs : fs[i].seq = i
    BY <2>1, <2>2, <2>3
  <2> QED
    BY <2>4 DEF fs
<1>13. LogInv'
  <2>1. Len(Entries(file')) = Len(file') \div 2
    BY <1>6 DEF j
  <2> QED
    BY <1>6, <1>11, <1>12, <2>1 DEF LogInv
<1>14. ~up' /\ mem' = EmptyState
  BY <1>1 DEF Dies
<1>15. j \in synced \div 2 .. Len(Entries(file))
  BY <1>6, <1>9
<1> QED
  BY <1>6, <1>9, <1>13, <1>14, <1>15 DEF IntactInv

\* What open serves: the whole lines of the file, synced or not.
LEMMA OpenIntact ==
  ASSUME StoreTypes, IntactInv, Open
  PROVE  /\ IntactInv' /\ ~up /\ up'
         /\ Acked' = Entries(file) /\ synced' \div 2 = synced \div 2
<1>1. Opens
  BY OpenIs
<1> DEFINE es == Entries(file)
<1>2. /\ ~up /\ up' /\ Lines(file') /\ Entries(file') = es
      /\ Len(vfile') = 2 * (Len(vfile) \div 2)
      /\ \A i \in 1 .. Len(vfile') : vfile'[i] = vfile[i]
      /\ mem' = Fold(es) /\ len' = Len(file') /\ vslots' = Len(vfile) \div 2
      /\ es = <<>> => seq' = 0
      /\ es # <<>> => seq' = es[Len(es)].seq
      /\ synced' = Least(synced, Len(file')) /\ vsynced' = Least(vsynced, Len(vfile'))
      /\ file' = WithoutTornLine(file) /\ op' = op
  BY <1>1 DEF Opens
<1>3. /\ file \in Seq(CellSet) /\ Len(file) \in Nat /\ Len(vfile) \in Nat
      /\ synced \in Nat /\ synced <= Len(file) /\ vsynced \in Nat /\ vsynced <= Len(vfile)
      /\ Kept \in Nat /\ 2 * Kept <= vsynced
      /\ es \in Seq(LineSet) /\ Len(es) \in Nat
  BY Sizes
<1>4. file' \in Seq(CellSet)
  BY <1>2, <1>3, WithoutTornLineIs DEF IntactInv, LogInv
<1>5. Len(es) = Len(file') \div 2 /\ 2 * Len(es) = Len(file') /\ Shape(file')
  BY <1>2, <1>4, LinesEnd, EntriesIs
<1>6. Len(es) = Len(file) \div 2 /\ (\A i \in DOMAIN es : es[i].seq = i) /\ AllSound(es, vfile, Kept)
  BY DEF IntactInv, LogInv
<1> HIDE DEF es
<1>7. /\ Len(file') \in Nat /\ Len(file) <= Len(file') + 1 /\ Len(file') <= Len(file)
      /\ Len(vfile') \in Nat /\ Len(vfile) <= Len(vfile') + 1 /\ Len(vfile') <= Len(vfile)
      /\ Len(vfile') % 2 = 0 /\ Len(file') % 2 = 0
  <2>1. ASSUME NEW a \in Nat, NEW b, b = 2 * (a \div 2)
        PROVE  b \in Nat /\ a <= b + 1 /\ b <= a /\ b % 2 = 0
    BY <2>1
  <2>2. Len(file') = 2 * (Len(file) \div 2) /\ Len(vfile') = 2 * (Len(vfile) \div 2)
    BY <1>2, <1>5, <1>6
  <2> QED
    BY <1>3, <2>1, <2>2
<1>8. ASSUME NEW a \in Nat, NEW b \in Nat, NEW d \in Nat, a <= d, d <= b + 1, b <= d, b % 2 = 0
      PROVE  Least(a, b) \div 2 = a \div 2
  <2>1. CASE a <= b
    BY <2>1 DEF Least
  <2>2. CASE ~(a <= b)
    <3>1. a = b + 1 /\ Least(a, b) = b
      BY <1>8, <2>2 DEF Least
    <3>2. \A m \in Nat : m % 2 = 0 => (m + 1) \div 2 = m \div 2
      OBVIOUS
    <3> QED
      BY <1>8, <3>1, <3>2
  <2> QED
    BY <2>1, <2>2
<1>9. synced' \div 2 = synced \div 2
  BY <1>2, <1>3, <1>7, <1>8
<1>10. Kept' = Kept
  BY <1>2, <1>3, <1>7, <1>8 DEF Kept
<1>11. Count' = Len(es) /\ len' % 2 = 0
  BY <1>2, <1>5, <1>7 DEF Count
<1>12. Acked' = es
  <2>1. Acked' = SubSeq(es, 1, Len(es))
    BY <1>2, <1>11 DEF Acked
  <2> QED
    BY <1>3, <2>1
<1>13. LogInv'
  <2>1. \A i \in 1 .. 2 * Kept : vfile'[i] = vfile[i]
    <3>1. 2 * Kept <= Len(vfile')
      <4>1. \A a, b \in Nat : 2 * a <= b + 1 /\ b % 2 = 0 => 2 * a <= b
        OBVIOUS
      <4> QED
        BY <1>3, <1>7, <4>1
    <3>2. 1 .. 2 * Kept \subseteq 1 .. Len(vfile')
      BY <1>3, <1>7, <3>1
    <3> QED
      BY <1>2, <3>2
  <2>2. Kept <= Kept
    BY <1>3
  <2>3. LogInv
    BY DEF IntactInv
  <2> QED
    BY <1>2, <1>3, <1>5, <1>10, <2>1, <2>2, <2>3, LogStays DEF es
<1>14. LiveInv'
  <2>1. op = Idle
    BY <1>2 DEF StoreTypes, OperationOK
  <2>2. seq' = Len(es)
    <3>1. CASE es = <<>>
      BY <1>2, <3>1
    <3>2. CASE es # <<>>
      <4>1. Len(es) \in DOMAIN es
        BY <1>3, <3>2
      <4> QED
        BY <1>2, <1>6, <3>2, <4>1
    <3> QED
      BY <3>1, <3>2
  <2>3. Len(vfile') = 2 * vslots'
    BY <1>2
  <2> QED
    BY <1>2, <1>11, <1>12, <2>1, <2>2, <2>3 DEF LiveInv, Idle
<1> QED
  BY <1>2, <1>9, <1>12, <1>13, <1>14 DEF IntactInv, es

\* Only an error of the disk changes diskFaults.
LEMMA IntactBefore ==
  ASSUME StoreTypes, [Next]_vars, Intact'
  PROVE  ~DiskFault /\ Intact
<1>1. CASE DiskFault
  <2>1. Faults
    BY <1>1, FaultIs
  <2>2. diskFaults' \in 1 .. MaxDiskFaults
    BY <2>1 DEF Faults
  <2> QED
    BY <2>2 DEF Intact
<1>2. CASE ~DiskFault
  <2>1. diskFaults' = diskFaults
    BY <1>2 DEF Next, Operation, Write, AppendEvent, CommitProposal, SetCursor, BumpFailures,
                TakeSnapshot, Begin, VectorWrite, VectorSync, JournalWrite, JournalSync, Kill,
                PowerLoss, Die, Open, vars
  <2> QED
    BY <1>2, <2>1 DEF Intact
<1> QED
  BY <1>1, <1>2

LEMMA StepIntact ==
  ASSUME StoreTypes, CountInv, Intact => IntactInv, [Next]_vars
  PROVE  Intact' => IntactInv'
<1> SUFFICES ASSUME Intact' PROVE IntactInv'
  OBVIOUS
<1>1. ~DiskFault /\ IntactInv
  BY IntactBefore
<1>2. CASE UNCHANGED vars
  <2>1. UNCHANGED <<up, file, vfile, vsynced, mem, len, seq, vslots, op>>
    BY <1>2 DEF vars, files, disk
  <2> QED
    BY <1>1, <2>1, NothingChanges
<1> QED
  BY <1>1, <1>2, OperationIntact, VectorWriteIntact, VectorSyncIntact, JournalWriteIntact,
     JournalSyncIntact, DeathIntact, OpenIntact DEF Next, Write

-----------------------------------------------------------------------------
(* The theorems.                                                           *)

\* The invariant of the store: in every reachable state, torn by any crash or
\* failed write, the file is whole lines and at most a torn one where it must
\* be, memory counts what the file counts, and on a disk without errors memory is
\* the fold of the lines served, and whatever first part of them a loss of power
\* leaves finds its vectors and offsets on the disk.
THEOREM StoreInvariant == Spec => []StoreInv
<1>1. Init => StoreInv
  <2> SUFFICES ASSUME Init PROVE StoreInv
    OBVIOUS
  <2>1. UncutInv
    BY DEF Init, UncutInv
  <2> QED
    BY <2>1, InitTypes, InitCounts, InitIntact DEF StoreInv
<1>2. StoreInv /\ [Next]_vars => StoreInv'
  <2> SUFFICES ASSUME StoreInv, [Next]_vars PROVE StoreInv'
    OBVIOUS
  <2>1. StoreTypes /\ CountInv /\ UncutInv /\ (Intact => IntactInv) /\ Counts(mem)
    BY DEF StoreInv, CountInv
  <2>2. StoreTypes' /\ CountInv' /\ UncutInv' /\ (Intact' => IntactInv')
    BY <2>1, StepTypes, StepCounts, StepUncut, StepIntact
  <2> QED
    BY <2>2 DEF StoreInv
<1> QED
  BY <1>1, <1>2, PTL DEF Spec

\* Types and ranges: what memory counts is there (an object's row was written by
\* a transition of the list, the cursor points at an event of the list), whatever
\* the crashes, torn lines and failed writes.
THEOREM StoreTypeCorrect == Spec => []TypeOK
<1>1. StoreInv => TypeOK
  <2> SUFFICES ASSUME StoreInv PROVE TypeOK
    OBVIOUS
  <2>1. StoreTypes /\ Counts(mem)
    BY DEF StoreInv, CountInv
  <2>2. /\ up \in BOOLEAN /\ file \in Seq(CellSet) /\ vfile \in Seq(VectorCellSet)
        /\ mem \in StateSet /\ len \in Nat /\ seq \in 0 .. MaxRecords /\ vslots \in Nat
        /\ OperationOK /\ nextId \in 1 .. MaxObjects + 1 /\ crashes \in 0 .. MaxCrashes
        /\ diskFaults \in 0 .. MaxDiskFaults
        /\ synced \in 0 .. Len(file) /\ vsynced \in 0 .. Len(vfile)
    BY <2>1 DEF StoreTypes, DiskOK
  <2>3. \A i \in DOMAIN file : file[i].part \in {"head", "tail", "cut"}
    <3>1. \A i \in DOMAIN file : file[i] \in CellSet
      BY <2>2
    <3> QED
      BY <3>1 DEF CellSet
  <2>4. \A i \in DOMAIN vfile : vfile[i].of \in Object /\ vfile[i].half \in 1 .. 2
    <3>1. \A i \in DOMAIN vfile : vfile[i] \in VectorCellSet
      BY <2>2
    <3> QED
      BY <3>1 DEF VectorCellSet
  <2>5. op.stage \in Stage
    BY <2>2 DEF OperationOK, OperationSet, Idle, Stage
  <2>6. mem.events \in Seq(EventSet) /\ mem.slots \in MapsTo(Nat)
    BY <2>2 DEF StateSet
  <2>7. \A i \in DOMAIN mem.events : mem.events[i].object \in Object
    <3>1. \A i \in DOMAIN mem.events : mem.events[i] \in EventSet
      BY <2>6
    <3> QED
      BY <3>1 DEF EventSet
  <2>8. \A o \in DOMAIN mem.slots : o \in Object
    BY <2>6, MapsToIs
  <2>9. /\ \A o \in DOMAIN mem.rows : mem.rows[o] \in 1 .. Len(mem.transitions)
        /\ mem.cursor.last \in 0 .. Len(mem.events)
    BY <2>1 DEF Counts
  <2> QED
    BY <2>2, <2>3, <2>4, <2>5, <2>7, <2>8, <2>9 DEF TypeOK
<1> QED
  BY <1>1, StoreInvariant, PTL

\* A journal of one-byte characters that is torn by any number of crashes is
\* always readable again.  (With characters of several bytes it is not: the run
\* store_torn_text.)
THEOREM StoreOpens == ~MultiByte => (Spec => []AlwaysOpens)
<1> SUFFICES ASSUME ~MultiByte PROVE Spec => []AlwaysOpens
  OBVIOUS
<1>1. StoreInv => AlwaysOpens
  <2> SUFFICES ASSUME StoreInv, Intact PROVE Readable(file)
    BY DEF AlwaysOpens
  <2>1. Shape(file) /\ \A i \in DOMAIN file : file[i].part # "cut"
    BY DEF StoreInv, UncutInv, IntactInv, LogInv
  <2> QED
    BY <2>1, ReadableIs
<1> QED
  BY <1>1, StoreInvariant, PTL

\* Every slot the journal has told memory of is a whole vector of the object it
\* is kept for: no record is durable before its vector.
THEOREM StoreSlots == Spec => []SlotsHoldVectors
<1>1. StoreInv => SlotsHoldVectors
  <2> SUFFICES ASSUME StoreInv, up, Intact, NEW o \in DOMAIN mem.slots
               PROVE  /\ mem.slots[o] < vslots
                      /\ SubSeq(vfile, Stride * mem.slots[o] + 1, Stride * mem.slots[o] + 2)
                           = VectorCells(o)
    BY DEF SlotsHoldVectors
  <2> DEFINE n == mem.slots[o]
             k == 2 * n
  <2>6. StoreTypes /\ LogInv /\ LiveInv
    BY DEF StoreInv, IntactInv
  <2>7. VectorsHold(mem.slots, vfile, Kept)
    <3>1. Entries(file) \in Seq(LineSet) /\ Count \in 0 .. Len(Entries(file))
      BY <2>6, LogNumbers
    <3> QED
      BY <2>6, <3>1 DEF LogInv, LiveInv, AllSound, Sound, Acked
  <2>8. Kept \in Nat /\ 2 * Kept <= Len(vfile) /\ Kept <= vslots
    <3>1. /\ Kept \in Nat /\ 2 * Kept <= vsynced /\ vsynced \in Nat /\ vsynced <= Len(vfile)
          /\ Len(vfile) \in Nat
      BY <2>6, Sizes
    <3>2. vslots \in Nat
      BY <2>6 DEF StoreTypes
    <3>3. vsynced <= 2 * vslots
      <4>1. op.stage = "vector_sync" => vsynced + 2 <= Len(vfile) /\ Len(vfile) = 2 * vslots + 2
        BY <2>6 DEF StoreTypes, DiskOK, LiveInv
      <4>2. op.stage # "vector_sync" => Len(vfile) = 2 * vslots
        BY <2>6 DEF LiveInv
      <4> QED
        BY <3>1, <3>2, <4>1, <4>2
    <3> QED
      BY <3>1, <3>2, <3>3
  <2>9. /\ n < Kept /\ vfile[k + 1] = [of |-> o, half |-> 1]
        /\ vfile[k + 2] = [of |-> o, half |-> 2]
    BY <2>7 DEF VectorsHold
  <2>2. vfile \in Seq(VectorCellSet) /\ vslots \in Nat /\ mem.slots \in MapsTo(Nat)
    BY DEF StoreInv, StoreTypes, StateSet
  <2>3. n \in Nat
    BY <2>2, MapsToIs
  <2>4. k \in Nat /\ k + 2 <= Len(vfile) /\ Len(vfile) \in Nat /\ n < vslots
    <3> HIDE DEF n
    <3> QED
      BY <2>2, <2>3, <2>8, <2>9
  <2> HIDE DEF k
  <2>5. SubSeq(vfile, k + 1, k + 2) = << vfile[k + 1], vfile[k + 2] >>
    <3>1. k + 1 \in 1 .. Len(vfile) /\ k + 2 \in 1 .. Len(vfile) /\ (k + 2) - (k + 1) + 1 = 2
      BY <2>4
    <3> DEFINE s == SubSeq(vfile, k + 1, k + 2)
               t == << vfile[k + 1], vfile[k + 2] >>
    <3>2. vfile[k + 1] \in VectorCellSet /\ vfile[k + 2] \in VectorCellSet
      BY <2>2, <3>1
    <3>3. t \in Seq(VectorCellSet) /\ Len(t) = 2
      BY <3>2
    <3>4. s \in Seq(VectorCellSet) /\ Len(s) = 2 /\ s[1] = vfile[k + 1] /\ s[2] = vfile[k + 2]
      BY <2>2, <2>4, <3>1
    <3>5. t[1] = vfile[k + 1] /\ t[2] = vfile[k + 2]
      OBVIOUS
    <3> HIDE DEF s, t
    <3>6. \A i \in 1 .. Len(s) : s[i] = t[i]
      BY <3>3, <3>4, <3>5
    <3>7. s = t
      BY <3>3, <3>4, <3>6, SameSequence
    <3> QED
      BY <3>7 DEF s, t
  <2> QED
    BY <2>4, <2>5, <2>9 DEF k, VectorCells, Stride
<1> QED
  BY <1>1, StoreInvariant, PTL

\* Each snapshot is read back from the offset memory keeps for it, whether it
\* was taken when the line was written or computed by open.
THEOREM StoreSnapshots == Spec => []SnapshotsReadable
<1>1. StoreInv => SnapshotsReadable
  <2> SUFFICES ASSUME StoreInv, up, Intact, NEW i \in DOMAIN mem.snapshots
               PROVE  /\ mem.snapshots[i].offset + Stride <= Len(file)
                      /\ ReadAt(file, mem.snapshots[i].offset).kind = "snapshot"
                      /\ ReadAt(file, mem.snapshots[i].offset).id = mem.snapshots[i].id
                      /\ ReadAt(file, mem.snapshots[i].offset).last = mem.snapshots[i].last
    BY DEF SnapshotsReadable
  <2>1. StoreTypes /\ LogInv /\ LiveInv /\ Backed(Acked, mem)
    <3>1. StoreTypes /\ LogInv /\ LiveInv
      BY DEF StoreInv, IntactInv
    <3>2. Entries(file) \in Seq(LineSet) /\ Count \in 0 .. Len(Entries(file))
      BY <3>1, LogNumbers
    <3> QED
      BY <3>1, <3>2 DEF LogInv, LiveInv, AllSound, Sound, Acked
  <2>2. PICK k \in DOMAIN Acked : SnapshotOf(mem.snapshots[i], Acked, k)
    BY <2>1 DEF Backed
  <2>3. file \in Seq(CellSet)
    BY <2>1 DEF StoreTypes
  <2>4. k \in 1 .. Count /\ Acked[k] = Entries(file)[k] /\ k \in 1 .. Len(Entries(file))
    BY <2>1, <2>2, LogNumbers
  <2>5. /\ EndOfLastLine(file) \in 0 .. Len(file) /\ Len(file) \in Nat
        /\ Len(Entries(file)) = EndOfLastLine(file) \div 2
        /\ Entries(file)[k] = Line(file, k)
    BY <2>3, <2>4, EntriesIs, EndOfLastLineEnds DEF EndsAt
  <2>6. 2 * (k - 1) + 2 = 2 * k /\ 2 * k <= Len(file)
    BY <2>4, <2>5
  <2>7. mem.snapshots[i].offset = 2 * (k - 1)
    BY <2>2 DEF SnapshotOf
  <2>8. ReadAt(file, mem.snapshots[i].offset) = Acked[k].record
    BY <2>4, <2>5, <2>6, <2>7 DEF ReadAt, Line
  <2> QED
    BY <2>2, <2>6, <2>7, <2>8 DEF SnapshotOf, Stride
<1> QED
  BY <1>1, StoreInvariant, PTL

\* Ids are positions, across crashes and recovered records.
THEOREM StoreIds == Spec => []IdsArePositions
<1>1. StoreInv => IdsArePositions
  <2> SUFFICES ASSUME StoreInv, Intact PROVE IdsArePositions
    BY DEF IdsArePositions
  <2>1. StoreTypes /\ LogInv
    BY DEF StoreInv, IntactInv
  <2>2. CASE up
    <3>1. LiveInv
      BY <2>2 DEF StoreInv, IntactInv
    <3>2. Entries(file) \in Seq(LineSet) /\ Count \in 0 .. Len(Entries(file))
      BY <2>1, <3>1, LogNumbers
    <3>3. Numbered(mem)
      BY <2>1, <3>1, <3>2 DEF LogInv, LiveInv, AllSound, Sound, Acked
    <3> QED
      BY <2>1, <3>3 DEF LogInv, Numbered, IdsArePositions
  <2>3. CASE ~up
    <3>1. Numbered(mem)
      BY <2>3 DEF StoreInv, IntactInv, EmptyState, Numbered
    <3> QED
      BY <2>1, <3>1 DEF LogInv, Numbered, IdsArePositions
  <2> QED
    BY <2>2, <2>3
<1> QED
  BY <1>1, StoreInvariant, PTL

\* The log of the promise.
LEMMA LogIs == (up => Log = Acked) /\ (~up => Log = Entries(file))
BY DEF Log, Acked, Count, Stride

\* Of two first parts of the lines the shorter one is a prefix of the longer one.
LEMMA PrefixOfPrefix ==
  ASSUME NEW S, NEW es \in Seq(S), NEW c \in 0 .. Len(es), NEW j \in 0 .. c
  PROVE  /\ IsPrefix(SubSeq(es, 1, j), SubSeq(es, 1, c))
         /\ Len(SubSeq(es, 1, j)) = j /\ Len(SubSeq(es, 1, c)) = c
<1>1. j \in 0 .. Len(es) /\ j <= c
  OBVIOUS
<1>2. /\ Len(SubSeq(es, 1, c)) = c /\ SubSeq(SubSeq(es, 1, c), 1, j) = SubSeq(es, 1, j)
      /\ Len(SubSeq(es, 1, j)) = j
  BY <1>1, FirstParts
<1>3. SubSeq(SubSeq(es, 1, j), 1, j) = SubSeq(es, 1, j)
  BY <1>1, FirstParts
<1> DEFINE a == SubSeq(es, 1, j)
           b == SubSeq(es, 1, c)
<1>4. Len(a) = j /\ Len(b) = c /\ SubSeq(b, 1, j) = a /\ SubSeq(a, 1, j) = a
  BY <1>2, <1>3
<1> HIDE DEF a, b
<1>5. IsPrefix(a, b)
  BY <1>1, <1>4 DEF IsPrefix
<1> QED
  BY <1>4, <1>5 DEF a, b

\* On a disk that returns no error the files, the offsets and the syncs of the
\* store keep what Ledger promises: an operation that returns has put its record,
\* with every record before it, where nothing takes it from; a death leaves a
\* first part of the log or the log and the record under way; open serves what is
\* left and makes none of it safer than it was (journal.rs:67 syncs nothing).
THEOREM StoreKeepsPromise == Spec => ImplementsLedger
<1>1. Init => Promise!Init
  <2> SUFFICES ASSUME Init PROVE Promise!Init
    OBVIOUS
  <2>1. StoreTypes /\ LogInv /\ LiveInv /\ up /\ mem = EmptyState /\ synced = 0 /\ len = 0
        /\ 0 \div 2 = 0 /\ up = TRUE
    BY InitTypes, InitIntact DEF Init, IntactInv
  <2>2. Count = 0
    BY <2>1 DEF Count
  <2>3. Acked \in Seq(LineSet) /\ Len(Acked) = 0
    BY <2>1, <2>2, LogNumbers
  <2>4. Log = <<>>
    BY <2>1, <2>3, LogIs
  <2> QED
    BY <2>1, <2>4, FoldNothing DEF Promise!Init, Stride
<1>2. StoreInv /\ StoreInv' /\ [Next]_vars =>
        [Intact' => [Promise!Next]_<<up, Log, synced \div Stride, mem>>]_vars
  <2> SUFFICES ASSUME StoreInv, StoreInv', [Next]_vars, Intact'
               PROVE  [Promise!Next]_<<up, Log, synced \div Stride, mem>>
    OBVIOUS
  <2>1. StoreTypes /\ CountInv /\ ~DiskFault /\ IntactInv /\ IntactInv'
    BY IntactBefore DEF StoreInv
  <2>2. /\ up => Log = Acked
        /\ ~up => Log = Entries(file)
        /\ up' => Log' = Acked' /\ mem' = Fold(Acked')
        /\ ~up' => Log' = Entries(file')
    BY <2>1, LogIs DEF IntactInv, LiveInv, Log, Acked, Count, Stride
  <2>3. CASE UNCHANGED vars
    BY <2>3 DEF vars, files, disk, Log
  <2>4. CASE Operation \/ VectorWrite \/ VectorSync \/ JournalWrite
    <3>1. up /\ up' = up /\ Acked' = Acked /\ synced' = synced /\ mem' = mem
      <4>1. UNCHANGED <<up, Acked, synced, mem>>
        BY <2>1, <2>4, OperationIntact, VectorWriteIntact, VectorSyncIntact, JournalWriteIntact
      <4>2. up
        BY <2>4 DEF Operation, AppendEvent, CommitProposal, SetCursor, BumpFailures, TakeSnapshot,
                    Begin, VectorWrite, VectorSync, JournalWrite
      <4> QED
        BY <4>1, <4>2
    <3> QED
      BY <2>2, <3>1
  <2>5. CASE JournalSync
    <3> DEFINE es == Entries(file)
               c == Count
    <3>1. up /\ up' /\ Acked' = es /\ Len(es) = c + 1 /\ synced' \div 2 = Len(es)
      BY <2>1, <2>5, JournalSyncIntact
    <3>2. c \in Nat /\ es \in Seq(LineSet) /\ Acked = SubSeq(es, 1, c)
      BY <2>1, <3>1, LogNumbers DEF IntactInv, Acked
    <3> HIDE DEF es, c
    <3>3. c \in 0 .. Len(es) /\ Len(es) \in 0 .. Len(es) /\ c \in 0 .. Len(es) /\ SubSeq(es, 1, Len(es)) = es
      BY <3>1, <3>2
    <3>4. IsPrefix(SubSeq(es, 1, c), es) /\ Len(SubSeq(es, 1, c)) = c
      BY <3>2, <3>3, PrefixOfPrefix
    <3>5. Promise!OneMore
      BY <2>2, <3>1, <3>2, <3>4 DEF Promise!OneMore, Promise!IsPrefix, IsPrefix
    <3>6. Promise!Write
      BY <2>2, <3>1, <3>5 DEF Promise!Write, Stride
    <3> QED
      BY <2>2, <3>1, <3>6 DEF Promise!Next
  <2>6. CASE Kill \/ PowerLoss
    <3> DEFINE es == Entries(file)
               c == Count
               k == synced \div 2
               l == synced' \div 2
    <3>1. /\ ~up' /\ l >= k /\ l <= Len(Log') /\ k \in Nat /\ l \in Nat
          /\ \E j \in k .. Len(es) : Log' = SubSeq(es, 1, j)
      BY <2>1, <2>2, <2>6, DeathIntact
    <3>2. PICK j \in k .. Len(es) : Log' = SubSeq(es, 1, j)
      BY <3>1
    <3>3. es \in Seq(LineSet)
      BY <2>1, Sizes
    <3> HIDE DEF es, c, k, l
    <3>4. j \in 0 .. Len(es) /\ Len(es) \in 0 .. Len(es) /\ SubSeq(es, 1, Len(es)) = es
      BY <3>1, <3>3
    <3>5. Len(Log') = j /\ Len(Log') >= k /\ l \in k .. Len(Log')
      BY <3>1, <3>2, <3>3, <3>4, PrefixOfPrefix
    <3>6. CASE ~up
      <4>1. IsPrefix(Log', Log)
        <5>1. Log = es
          BY <2>2, <3>6 DEF es
        <5>2. IsPrefix(SubSeq(es, 1, j), SubSeq(es, 1, Len(es)))
          BY <3>3, <3>4, PrefixOfPrefix
        <5> QED
          BY <3>2, <3>4, <5>1, <5>2
      <4>2. Promise!Stop
        BY <3>1, <3>5, <4>1 DEF Promise!Stop, Promise!IsPrefix, IsPrefix, Stride, k, l
      <4> QED
        BY <3>1, <4>2 DEF Promise!Next
    <3>7. CASE up
      <4>1. c \in Nat /\ Len(es) \in {c, c + 1} /\ Log = SubSeq(es, 1, c)
        BY <2>1, <2>2, <3>7, LogNumbers DEF IntactInv, Acked, es, c
      <4>2. c \in 0 .. Len(es)
        BY <4>1
      <4>3. CASE j <= c
        <5>1. j \in 0 .. c
          BY <3>4, <4>3
        <5>2. IsPrefix(Log', Log)
          BY <3>2, <3>3, <4>1, <4>2, <5>1, PrefixOfPrefix
        <5>3. Promise!Stop
          BY <3>1, <3>5, <5>2 DEF Promise!Stop, Promise!IsPrefix, IsPrefix, Stride, k, l
        <5> QED
          BY <3>1, <5>3 DEF Promise!Next
      <4>4. CASE ~(j <= c)
        <5>1. j = c + 1 /\ c \in 0 .. j
          <6>1. j \in Nat /\ j <= Len(es) /\ Len(es) <= c + 1 /\ c \in Nat /\ Len(es) \in Nat
            <7>1. c \in Nat /\ (Len(es) = c \/ Len(es) = c + 1)
              BY <4>1
            <7>2. Len(es) \in Nat /\ Len(es) <= c + 1
              BY <7>1
            <7>3. j \in 0 .. Len(es)
              BY <3>4
            <7> DEFINE m == Len(es)
            <7>4. m \in Nat /\ m <= c + 1 /\ j \in 0 .. m /\ c \in Nat
              BY <7>1, <7>2, <7>3
            <7> HIDE DEF m
            <7>5. j \in Nat /\ j <= m
              BY <7>4
            <7> QED
              BY <7>4, <7>5 DEF m
          <6> QED
            BY <4>4, <6>1
        <5>2. IsPrefix(Log, Log') /\ Len(Log) = c
          BY <3>2, <3>3, <3>4, <4>1, <4>2, <5>1, PrefixOfPrefix
        <5>3. Promise!OneMore
          BY <3>5, <5>1, <5>2 DEF Promise!OneMore, Promise!IsPrefix, IsPrefix
        <5>4. Promise!Stop
          BY <3>1, <3>5, <3>7, <5>3 DEF Promise!Stop, Stride, k, l
        <5> QED
          BY <3>1, <5>4 DEF Promise!Next
      <4> QED
        BY <4>3, <4>4
    <3> QED
      BY <3>6, <3>7
  <2>7. CASE Open
    <3>1. ~up /\ up' /\ Acked' = Entries(file) /\ synced' \div 2 = synced \div 2
      BY <2>1, <2>7, OpenIntact
    <3>2. Promise!Start
      BY <2>2, <3>1 DEF Promise!Start, Stride
    <3> QED
      BY <2>2, <3>1, <3>2 DEF Promise!Next
  <2> QED
    BY <2>1, <2>3, <2>4, <2>5, <2>6, <2>7 DEF Next, Write
<1> QED
  BY <1>1, <1>2, StoreInvariant, PTL DEF Spec, ImplementsLedger

-----------------------------------------------------------------------------
(* Replay.                                                                 *)

LEMMA RetainedNothing == \A upTo : Retained(<<>>, upTo) = <<>>
BY RetainedIs, OverRetained!FoldEmpty

LEMMA RetainedOneMore ==
  ASSUME NEW S, NEW ts \in Seq(S), NEW t \in S, NEW upTo
  PROVE  Retained(Append(ts, t), upTo)
           = IF t.id <= upTo THEN Append(Retained(ts, upTo), t) ELSE Retained(ts, upTo)
<1> DEFINE none == <<>>
<1>0. Retained(ts, upTo) = OverRetained!Folded(upTo, none, ts)
      /\ Retained(Append(ts, t), upTo) = OverRetained!Folded(upTo, none, Append(ts, t))
  BY RetainedIs
<1> HIDE DEF none
<1>1. OverRetained!Folded(upTo, none, Append(ts, t))
        = RetainStep(upTo, OverRetained!Folded(upTo, none, ts), t)
  BY OverRetained!FoldAppend
<1> QED
  BY <1>0, <1>1 DEF RetainStep, Retain

\* All transitions are kept if none comes after up_to.
LEMMA RetainedAll ==
  ASSUME NEW ts \in Seq(TransitionSet), NEW upTo, \A i \in 1 .. Len(ts) : ts[i].id <= upTo
  PROVE  Retained(ts, upTo) = ts
<1> DEFINE P == {s \in Seq(TransitionSet) :
                   (\A i \in 1 .. Len(s) : s[i].id <= upTo) => Retained(s, upTo) = s}
<1>1. <<>> \in P
  BY RetainedNothing
<1>2. ASSUME NEW s \in Seq(TransitionSet), NEW t \in TransitionSet, s \in P
      PROVE  Append(s, t) \in P
  <2>0. Append(s, t) \in Seq(TransitionSet)
    OBVIOUS
  <2> SUFFICES ASSUME \A i \in 1 .. Len(Append(s, t)) : Append(s, t)[i].id <= upTo
               PROVE  Retained(Append(s, t), upTo) = Append(s, t)
    BY <2>0
  <2>1. /\ Len(Append(s, t)) = Len(s) + 1 /\ Len(s) \in Nat /\ Append(s, t)[Len(s) + 1] = t
        /\ \A i \in 1 .. Len(s) : Append(s, t)[i] = s[i]
    OBVIOUS
  <2>2. /\ \A i \in 1 .. Len(s) : i \in 1 .. Len(s) + 1
        /\ Len(s) + 1 \in 1 .. Len(s) + 1
    BY <2>1
  <2>3. (\A i \in 1 .. Len(s) : s[i].id <= upTo) /\ t.id <= upTo
    BY <2>1, <2>2
  <2>4. Retained(s, upTo) = s
    BY <1>2, <2>3
  <2> QED
    BY <2>3, <2>4, RetainedOneMore
<1> HIDE DEF P
<1>3. Seq(TransitionSet) \subseteq P
  BY <1>1, <1>2, OverEntries!SequencesOver
<1> QED
  BY <1>3 DEF P

\* None is kept if all come after up_to.
LEMMA RetainedNone ==
  ASSUME NEW ts \in Seq(TransitionSet), NEW upTo, \A i \in 1 .. Len(ts) : ~(ts[i].id <= upTo)
  PROVE  Retained(ts, upTo) = <<>>
<1> DEFINE P == {s \in Seq(TransitionSet) :
                   (\A i \in 1 .. Len(s) : ~(s[i].id <= upTo)) => Retained(s, upTo) = <<>>}
<1>1. <<>> \in P
  BY RetainedNothing
<1>2. ASSUME NEW s \in Seq(TransitionSet), NEW t \in TransitionSet, s \in P
      PROVE  Append(s, t) \in P
  <2>0. Append(s, t) \in Seq(TransitionSet)
    OBVIOUS
  <2> SUFFICES ASSUME \A i \in 1 .. Len(Append(s, t)) : ~(Append(s, t)[i].id <= upTo)
               PROVE  Retained(Append(s, t), upTo) = <<>>
    BY <2>0
  <2>1. /\ Len(Append(s, t)) = Len(s) + 1 /\ Len(s) \in Nat /\ Append(s, t)[Len(s) + 1] = t
        /\ \A i \in 1 .. Len(s) : Append(s, t)[i] = s[i]
    OBVIOUS
  <2>2. /\ \A i \in 1 .. Len(s) : i \in 1 .. Len(s) + 1
        /\ Len(s) + 1 \in 1 .. Len(s) + 1
    BY <2>1
  <2>3. (\A i \in 1 .. Len(s) : ~(s[i].id <= upTo)) /\ ~(t.id <= upTo)
    BY <2>1, <2>2
  <2>4. Retained(s, upTo) = <<>>
    BY <1>2, <2>3
  <2> QED
    BY <2>3, <2>4, RetainedOneMore
<1> HIDE DEF P
<1>3. Seq(TransitionSet) \subseteq P
  BY <1>1, <1>2, OverEntries!SequencesOver
<1> QED
  BY <1>3 DEF P

LEMMA UpToIs ==
  ASSUME NEW e \in LineSet, NEW upTo
  PROVE  /\ e.record.kind # "commit" => UpTo(e, upTo) = e
         /\ e.record.kind = "commit" /\ Retained(e.record.transitions, upTo) = e.record.transitions
              => UpTo(e, upTo) = e
         /\ e.record.kind = "commit" /\ Retained(e.record.transitions, upTo) = <<>>
              => /\ UpTo(e, upTo) \in LineSet
                 /\ UpTo(e, upTo).record.kind = "commit"
                 /\ UpTo(e, upTo).record.transitions = <<>>
<1> DEFINE r == e.record
           ts == Retained(r.transitions, upTo)
<1>1. e = [offset |-> e.offset, seq |-> e.seq, record |-> r]
      /\ e.offset \in Nat /\ e.seq \in 1 .. MaxRecords /\ r \in RecordSet
  BY DEF LineSet
<1>2. r.kind = "commit" =>
        r = [kind |-> r.kind, transitions |-> r.transitions, vectors |-> r.vectors]
        /\ r.vectors \in MapsTo(Nat)
  BY <1>1 DEF RecordSet
<1>3. r.kind = "commit" => UpTo(e, upTo) = [e EXCEPT !.record.transitions = ts]
  BY DEF UpTo
<1> HIDE DEF r, ts
<1>4. r.kind = "commit" =>
        UpTo(e, upTo) = [offset |-> e.offset, seq |-> e.seq,
                         record |-> [kind |-> r.kind, transitions |-> ts, vectors |-> r.vectors]]
  BY <1>1, <1>2, <1>3
<1>5. CASE r.kind = "commit" /\ ts = r.transitions
  <2>1. UpTo(e, upTo) = e
    BY <1>1, <1>2, <1>4, <1>5
  <2>2. ts = <<>> => UpTo(e, upTo) \in LineSet /\ e.record.transitions = <<>>
    BY <1>5, <2>1 DEF r
  <2> QED
    BY <1>5, <2>1, <2>2 DEF r, ts
<1>6. CASE r.kind = "commit" /\ ts = <<>>
  <2>1. [kind |-> r.kind, transitions |-> ts, vectors |-> r.vectors] \in RecordSet
    BY <1>2, <1>6 DEF RecordSet
  <2>2. UpTo(e, upTo) \in LineSet
    BY <1>1, <1>4, <1>6, <2>1 DEF LineSet
  <2>3. UpTo(e, upTo).record.kind = "commit" /\ UpTo(e, upTo).record.transitions = <<>>
    BY <1>4, <1>6
  <2>4. ts = r.transitions => UpTo(e, upTo) = e
    BY <1>1, <1>2, <1>4, <1>6
  <2> QED
    BY <1>6, <2>2, <2>3, <2>4 DEF r, ts
<1>7. r.kind # "commit" => UpTo(e, upTo) = e
  BY DEF UpTo, r
<1> QED
  BY <1>5, <1>6, <1>7 DEF r, ts

\* What memory holds after the first n lines.
After(es, n) == Fold(SubSeq(es, 1, n))

LEMMA AfterAll ==
  ASSUME NEW es \in Seq(LineSet)
  PROVE  After(es, Len(es)) = Fold(es) /\ Len(es) \in Nat
<1>1. SubSeq(es, 1, Len(es)) = es /\ Len(es) \in Nat
  OBVIOUS
<1> QED
  BY <1>1 DEF After

LEMMA AfterTypes ==
  ASSUME NEW es \in Seq(LineSet), NEW n \in Nat, n <= Len(es)
  PROVE  /\ After(es, n) \in StateSet
         /\ After(es, n).transitions \in Seq(TransitionSet)
         /\ Len(After(es, n).transitions) \in Nat
<1>1. SubSeq(es, 1, n) \in Seq(LineSet)
  OBVIOUS
<1>2. After(es, n) \in StateSet
  BY <1>1, FoldTypes DEF After
<1> QED
  BY <1>2 DEF StateSet

\* A commit, and only a commit, adds transitions and writes rows.
LEMMA RowsOfEntry ==
  ASSUME NEW m \in StateSet, NEW e \in LineSet
  PROVE  /\ e.record.kind = "commit" =>
              /\ ApplyEntry(m, e).transitions = m.transitions \o e.record.transitions
              /\ ApplyEntry(m, e).rows = Upsert(m.rows, e.record.transitions)
         /\ e.record.kind # "commit" =>
              ApplyEntry(m, e).transitions = m.transitions /\ ApplyEntry(m, e).rows = m.rows
<1> DEFINE r == e.record
           n == e.offset
           k == Apply(m, n, r)
<1>1. r.kind \in {"event", "commit", "cursor", "snapshot"}
  BY DEF LineSet, RecordSet
<1>2. ApplyEntry(m, e) = k
  BY DEF ApplyEntry
<1> HIDE DEF r, n
<1>3. r.kind = "commit" => k.transitions = m.transitions \o r.transitions
                           /\ k.rows = Upsert(m.rows, r.transitions)
  BY DEF Apply, StateSet
<1>4. r.kind = "event" => k.transitions = m.transitions /\ k.rows = m.rows
  BY DEF Apply, StateSet
<1>5. r.kind = "cursor" => k.transitions = m.transitions /\ k.rows = m.rows
  BY DEF Apply, StateSet
<1>6. r.kind = "snapshot" => k.transitions = m.transitions /\ k.rows = m.rows
  BY DEF Apply, StateSet
<1> HIDE DEF k
<1> QED
  BY <1>1, <1>2, <1>3, <1>4, <1>5, <1>6 DEF r

\* One more line.
LEMMA AfterOneMore ==
  ASSUME NEW es \in Seq(LineSet), NEW n \in Nat, n + 1 <= Len(es)
  PROVE  /\ es[n + 1].record.kind = "commit" =>
              /\ After(es, n + 1).transitions
                   = After(es, n).transitions \o es[n + 1].record.transitions
              /\ After(es, n + 1).rows = Upsert(After(es, n).rows, es[n + 1].record.transitions)
         /\ es[n + 1].record.kind # "commit" =>
              /\ After(es, n + 1).transitions = After(es, n).transitions
              /\ After(es, n + 1).rows = After(es, n).rows
<1> DEFINE fs == SubSeq(es, 1, n)
           e == es[n + 1]
           m == After(es, n)
<1>1. fs \in Seq(LineSet) /\ e \in LineSet /\ SubSeq(es, 1, n + 1) = Append(fs, e)
  <2> DEFINE gs == SubSeq(es, 1, n + 1)
  <2>1. gs \in Seq(LineSet) /\ Len(gs) = n + 1 /\ gs[n + 1] = es[n + 1]
        /\ SubSeq(gs, 1, n) = SubSeq(es, 1, n)
    OBVIOUS
  <2> HIDE DEF gs
  <2>2. SubSeq(gs, 1, n) \in Seq(LineSet) /\ gs[n + 1] \in LineSet
        /\ gs = Append(SubSeq(gs, 1, n), gs[n + 1])
    BY <2>1, OverEntries!SplitLast
  <2> QED
    BY <2>1, <2>2 DEF gs
<1> HIDE DEF fs, e
<1>2. m = Fold(fs) /\ m \in StateSet
  BY <1>1, FoldTypes DEF After, fs
<1>3. After(es, n + 1) = ApplyEntry(m, e)
  BY <1>1, <1>2, FoldOneMore DEF After
<1> HIDE DEF m
<1>4. /\ e.record.kind = "commit" =>
           /\ ApplyEntry(m, e).transitions = m.transitions \o e.record.transitions
           /\ ApplyEntry(m, e).rows = Upsert(m.rows, e.record.transitions)
      /\ e.record.kind # "commit" =>
           ApplyEntry(m, e).transitions = m.transitions /\ ApplyEntry(m, e).rows = m.rows
  BY <1>1, <1>2, RowsOfEntry
<1> QED
  BY <1>3, <1>4 DEF m, e

\* s comes first in t.
Starts(s, t) == Len(s) <= Len(t) /\ \A i \in 1 .. Len(s) : t[i] = s[i]

LEMMA StartsOn ==
  ASSUME NEW S, NEW s \in Seq(S), NEW t \in Seq(S), NEW u \in Seq(S)
  PROVE  /\ Starts(s, s)
         /\ Starts(s, t) /\ Starts(t, u) => Starts(s, u)
         /\ Starts(s, s \o t)
<1>1. Len(s) \in Nat /\ Len(t) \in Nat /\ Len(u) \in Nat /\ Len(s \o t) = Len(s) + Len(t)
      /\ \A i \in 1 .. Len(s) : (s \o t)[i] = s[i]
  OBVIOUS
<1>2. Starts(s, s) /\ Starts(s, s \o t)
  BY <1>1 DEF Starts
<1>3. ASSUME Starts(s, t), Starts(t, u) PROVE Starts(s, u)
  <2>1. Len(s) <= Len(u) /\ \A i \in 1 .. Len(s) : i \in 1 .. Len(t)
    BY <1>1, <1>3 DEF Starts
  <2> QED
    BY <1>3, <2>1 DEF Starts
<1> QED
  BY <1>2, <1>3

\* No line takes a transition away.
LEMMA TransitionsKept ==
  ASSUME NEW es \in Seq(LineSet), NEW k \in Nat, NEW n \in Nat, k <= n, n <= Len(es)
  PROVE  Starts(After(es, k).transitions, After(es, n).transitions)
<1> DEFINE T == {d \in Nat : k + d <= Len(es) =>
                   Starts(After(es, k).transitions, After(es, k + d).transitions)}
<1>0. Len(es) \in Nat
  OBVIOUS
<1>1. 0 \in T
  <2>1. k <= Len(es) /\ k + 0 = k
    BY <1>0
  <2>2. After(es, k).transitions \in Seq(TransitionSet)
    BY <2>1, AfterTypes
  <2> QED
    BY <2>1, <2>2, StartsOn
<1>2. ASSUME NEW d \in Nat, d \in T PROVE d + 1 \in T
  <2> SUFFICES ASSUME k + (d + 1) <= Len(es)
               PROVE  Starts(After(es, k).transitions, After(es, k + (d + 1)).transitions)
    OBVIOUS
  <2> DEFINE q == k + d
  <2>1. k <= Len(es) /\ q <= Len(es) /\ q + 1 <= Len(es) /\ q \in Nat /\ k + (d + 1) = q + 1
    BY <1>0
  <2>2. Starts(After(es, k).transitions, After(es, q).transitions)
    BY <1>2, <2>1
  <2> HIDE DEF q
  <2>3. /\ After(es, k).transitions \in Seq(TransitionSet)
        /\ After(es, q).transitions \in Seq(TransitionSet)
        /\ After(es, q + 1).transitions \in Seq(TransitionSet)
    BY <2>1, AfterTypes
  <2>4. es[q + 1].record.kind = "commit" => es[q + 1].record.transitions \in Seq(TransitionSet)
    <3>1. es[q + 1] \in LineSet
      BY <2>1
    <3> QED
      BY <3>1 DEF LineSet, RecordSet
  <2>5. Starts(After(es, q).transitions, After(es, q + 1).transitions)
    <3>1. CASE es[q + 1].record.kind = "commit"
      <4>1. After(es, q + 1).transitions
              = After(es, q).transitions \o es[q + 1].record.transitions
        BY <2>1, <3>1, AfterOneMore
      <4>2. es[q + 1].record.transitions \in Seq(TransitionSet)
        BY <2>4, <3>1
      <4>3. \A s, t \in Seq(TransitionSet) : Starts(s, s \o t)
        BY StartsOn
      <4> QED
        BY <2>3, <4>1, <4>2, <4>3
    <3>2. CASE es[q + 1].record.kind # "commit"
      <4>1. After(es, q + 1).transitions = After(es, q).transitions
        BY <2>1, <3>2, AfterOneMore
      <4>2. \A s \in Seq(TransitionSet) : Starts(s, s)
        BY StartsOn
      <4> QED
        BY <2>3, <4>1, <4>2
    <3> QED
      BY <3>1, <3>2
  <2>6. Starts(After(es, k).transitions, After(es, q + 1).transitions)
    BY <2>2, <2>3, <2>5, StartsOn
  <2> QED
    BY <2>1, <2>6
<1> HIDE DEF T
<1>3. Nat \subseteq T
  BY <1>1, <1>2, OverEntries!InductionOver
<1>4. n - k \in Nat /\ k + (n - k) = n
  OBVIOUS
<1> QED
  BY <1>3, <1>4 DEF T

\* Where ids are positions, a commit's transitions carry the next ones.
LEMMA LineNumbers ==
  ASSUME NEW es \in Seq(LineSet), Numbered(Fold(es)), NEW n \in Nat, n + 1 <= Len(es),
         es[n + 1].record.kind = "commit"
  PROVE  LET ts == es[n + 1].record.transitions
         IN /\ ts \in Seq(TransitionSet)
            /\ Len(After(es, n + 1).transitions) = Len(After(es, n).transitions) + Len(ts)
            /\ \A i \in 1 .. Len(ts) : ts[i].id = Len(After(es, n).transitions) + i
<1> DEFINE ts == es[n + 1].record.transitions
           a == After(es, n).transitions
           b == After(es, n + 1).transitions
           c == Fold(es).transitions
<1>1. ts \in Seq(TransitionSet)
  <2>1. es[n + 1] \in LineSet
    OBVIOUS
  <2> QED
    BY <2>1 DEF LineSet, RecordSet
<1>2. b = a \o ts
  BY AfterOneMore
<1>3. a \in Seq(TransitionSet) /\ n + 1 \in Nat /\ n <= Len(es) /\ Len(es) \in Nat
  BY AfterTypes
<1>4. Starts(b, c)
  BY <1>3, TransitionsKept, AfterAll
<1>5. \A i \in DOMAIN c : c[i].id = i
  BY DEF Numbered
<1>6. c \in Seq(TransitionSet)
  BY <1>3, AfterAll, AfterTypes
<1> HIDE DEF ts, a, b, c
<1>7. /\ Len(a) \in Nat /\ Len(ts) \in Nat /\ Len(b) = Len(a) + Len(ts) /\ Len(c) \in Nat
      /\ \A i \in 1 .. Len(ts) : b[Len(a) + i] = ts[i]
  BY <1>1, <1>2, <1>3, <1>6
<1>8. ASSUME NEW i \in 1 .. Len(ts) PROVE ts[i].id = Len(a) + i
  <2>1. Len(a) + i \in 1 .. Len(b) /\ Len(b) <= Len(c)
    BY <1>4, <1>7 DEF Starts
  <2>2. c[Len(a) + i] = ts[i]
    BY <1>4, <1>7, <2>1 DEF Starts
  <2>3. Len(a) + i \in DOMAIN c
    <3>1. DOMAIN c = 1 .. Len(c)
      BY <1>6
    <3> QED
      BY <1>7, <2>1, <3>1
  <2> QED
    BY <1>5, <2>2, <2>3
<1> QED
  BY <1>1, <1>7, <1>8 DEF ts, a, b, c

\* The lines up to the commit that wrote up_to are replayed as they are, those
\* behind it without their transitions.
LEMMA ReplayedLines ==
  ASSUME NEW es \in Seq(LineSet), Numbered(Fold(es)), NEW k \in Nat, k <= Len(es),
         NEW n \in Nat, n + 1 <= Len(es)
  PROVE  LET e == es[n + 1]
             u == UpTo(e, Len(After(es, k).transitions))
         IN /\ n + 1 <= k => u = e
            /\ u \in LineSet
            /\ k <= n => /\ u.record.kind = e.record.kind
                         /\ e.record.kind = "commit" => u.record.transitions = <<>>
<1> DEFINE e == es[n + 1]
           last == Len(After(es, k).transitions)
           ts == e.record.transitions
           before == Len(After(es, n).transitions)
<1>1. e \in LineSet /\ Len(es) \in Nat /\ n <= Len(es) /\ n + 1 \in Nat
  OBVIOUS
<1>2. CASE e.record.kind # "commit"
  <2>1. UpTo(e, last) = e
    BY <1>1, <1>2, UpToIs
  <2> QED
    BY <1>1, <1>2, <2>1
<1>3. CASE e.record.kind = "commit"
  <2>1. /\ ts \in Seq(TransitionSet) /\ Len(After(es, n + 1).transitions) = before + Len(ts)
        /\ \A i \in 1 .. Len(ts) : ts[i].id = before + i
    BY <1>3, LineNumbers
  <2>2. last \in Nat /\ before \in Nat /\ Len(ts) \in Nat
    BY <1>1, <2>1, AfterTypes
  <2>3. CASE n + 1 <= k
    <3>1. before + Len(ts) <= last
      BY <1>1, <2>1, <2>3, TransitionsKept DEF Starts
    <3> HIDE DEF ts, last, before
    <3>2. \A i \in 1 .. Len(ts) : ts[i].id <= last
      BY <2>1, <2>2, <3>1
    <3>3. Retained(ts, last) = ts
      BY <2>1, <3>2, RetainedAll
    <3>4. UpTo(e, last) = e
      BY <1>1, <1>3, <3>3, UpToIs DEF ts
    <3>5. ~(k <= n)
      BY <2>3
    <3> QED
      BY <1>1, <3>4, <3>5 DEF last
  <2>4. CASE k <= n
    <3>1. last <= before
      BY <1>1, <2>4, TransitionsKept DEF Starts
    <3> HIDE DEF ts, last, before
    <3>2. \A i \in 1 .. Len(ts) : ~(ts[i].id <= last)
      BY <2>1, <2>2, <3>1
    <3>3. Retained(ts, last) = <<>>
      BY <2>1, <3>2, RetainedNone
    <3>4. /\ UpTo(e, last) \in LineSet /\ UpTo(e, last).record.kind = "commit"
          /\ UpTo(e, last).record.transitions = <<>>
      BY <1>1, <1>3, <3>3, UpToIs DEF ts
    <3>5. ~(n + 1 <= k)
      BY <2>4
    <3> QED
      BY <1>3, <3>4, <3>5 DEF last
  <2> QED
    BY <2>3, <2>4
<1> QED
  BY <1>2, <1>3

\* The rows of the replay are those after line k.
LEMMA ReplayIs ==
  ASSUME NEW es \in Seq(LineSet), Numbered(Fold(es)), NEW k \in Nat, k <= Len(es)
  PROVE  Fold([j \in DOMAIN es |-> UpTo(es[j], Len(After(es, k).transitions))]).rows
           = After(es, k).rows
<1> DEFINE last == Len(After(es, k).transitions)
           us == [j \in DOMAIN es |-> UpTo(es[j], last)]
<1>0. Len(es) \in Nat /\ DOMAIN es = 1 .. Len(es)
  OBVIOUS
<1>1. ASSUME NEW j \in 1 .. Len(es)
      PROVE  /\ us[j] \in LineSet
             /\ j <= k => us[j] = es[j]
             /\ k < j => /\ us[j].record.kind = es[j].record.kind
                         /\ es[j].record.kind = "commit" => us[j].record.transitions = <<>>
  <2> DEFINE n == j - 1
  <2>1. n \in Nat /\ n + 1 = j /\ n + 1 <= Len(es) /\ (k < j => k <= n)
    BY <1>0
  <2>2. us[j] = UpTo(es[n + 1], last)
    BY <1>0, <2>1
  <2> HIDE DEF n, us
  <2>3. LET u == UpTo(es[n + 1], last)
        IN /\ n + 1 <= k => u = es[n + 1]
           /\ u \in LineSet
           /\ k <= n => /\ u.record.kind = es[n + 1].record.kind
                        /\ es[n + 1].record.kind = "commit" => u.record.transitions = <<>>
    BY <2>1, ReplayedLines
  <2> QED
    BY <2>1, <2>2, <2>3
<1>2. us \in Seq(LineSet) /\ Len(us) = Len(es)
  <2>1. us \in [1 .. Len(es) -> LineSet]
    BY <1>0, <1>1
  <2> HIDE DEF us
  <2> QED
    BY <1>0, <2>1
<1> HIDE DEF us
<1>3. After(us, k) = After(es, k)
  <2>1. /\ SubSeq(us, 1, k) \in Seq(LineSet) /\ SubSeq(es, 1, k) \in Seq(LineSet)
        /\ Len(SubSeq(us, 1, k)) = k /\ Len(SubSeq(es, 1, k)) = k
        /\ \A i \in 1 .. k : SubSeq(us, 1, k)[i] = us[i] /\ SubSeq(es, 1, k)[i] = es[i]
    BY <1>0, <1>2
  <2>2. \A i \in 1 .. k : us[i] = es[i]
    <3>1. \A i \in 1 .. k : i \in 1 .. Len(es) /\ i <= k
      BY <1>0
    <3> QED
      BY <1>1, <3>1
  <2>3. SubSeq(us, 1, k) = SubSeq(es, 1, k)
    BY <2>1, <2>2, SameSequence
  <2> QED
    BY <2>3 DEF After
<1> DEFINE T == {d \in Nat : k + d <= Len(es) => After(us, k + d).rows = After(es, k).rows}
<1>4. 0 \in T
  <2>1. k + 0 = k
    OBVIOUS
  <2> QED
    BY <1>3, <2>1
<1>5. ASSUME NEW d \in Nat, d \in T PROVE d + 1 \in T
  <2> SUFFICES ASSUME k + (d + 1) <= Len(es) PROVE After(us, k + (d + 1)).rows = After(es, k).rows
    OBVIOUS
  <2> DEFINE q == k + d
  <2>1. q \in Nat /\ q <= Len(es) /\ q + 1 <= Len(us) /\ k + (d + 1) = q + 1 /\ k < q + 1
        /\ q + 1 \in 1 .. Len(es)
    BY <1>0, <1>2
  <2>2. After(us, q).rows = After(es, k).rows
    BY <1>5, <2>1
  <2> HIDE DEF q
  <2>3. After(us, q + 1).rows = After(us, q).rows
    <3>1. CASE us[q + 1].record.kind = "commit"
      <4>1. us[q + 1].record.transitions = <<>>
        BY <1>1, <2>1, <3>1
      <4>2. After(us, q + 1).rows = Upsert(After(us, q).rows, us[q + 1].record.transitions)
        BY <1>2, <2>1, <3>1, AfterOneMore
      <4> QED
        BY <4>1, <4>2, UpsertNothing
    <3>2. CASE us[q + 1].record.kind # "commit"
      BY <1>2, <2>1, <3>2, AfterOneMore
    <3> QED
      BY <3>1, <3>2
  <2> QED
    BY <2>1, <2>2, <2>3
<1> HIDE DEF T
<1>6. Nat \subseteq T
  BY <1>4, <1>5, OverEntries!InductionOver
<1>7. Len(es) - k \in Nat /\ k + (Len(es) - k) = Len(es)
  BY <1>0
<1>8. After(us, Len(es)).rows = After(es, k).rows
  <2>1. Len(es) <= Len(es)
    BY <1>0
  <2> QED
    BY <1>6, <1>7, <2>1 DEF T
<1> QED
  BY <1>2, <1>8, AfterAll DEF us

\* Replaying the journal up to the last transition of a commit finds the rows
\* that the live state had right after that commit, whatever was written behind
\* it and however often the store was opened again.
THEOREM StoreReplay == Spec => []ReplayRows
<1>1. StoreInv => ReplayRows
  <2> SUFFICES ASSUME StoreInv, Intact, NEW k \in DOMAIN Entries(file),
                      Entries(file)[k].record.kind = "commit",
                      Entries(file)[k].record.transitions # <<>>
               PROVE  Replay(Last(Entries(file)[k].record.transitions).id).rows
                        = Fold(SubSeq(Entries(file), 1, k)).rows
    BY DEF ReplayRows
  <2> DEFINE es == Entries(file)
             ts == es[k].record.transitions
             n == k - 1
  <2>1. es \in Seq(LineSet) /\ Numbered(Fold(es))
    BY EntriesIs, WholeSound DEF StoreInv, StoreTypes, IntactInv, LogInv, Sound
  <2>2. \A upTo : Replay(upTo) = Fold([j \in DOMAIN es |-> UpTo(es[j], upTo)])
    BY DEF Replay
  <2>3. es[k].record.kind = "commit" /\ ts # <<>> /\ k \in DOMAIN es
    OBVIOUS
  <2> HIDE DEF es
  <2>4. n \in Nat /\ n + 1 = k /\ n + 1 <= Len(es) /\ k \in Nat /\ k <= Len(es) /\ n <= Len(es)
    BY <2>1, <2>3
  <2>5. /\ ts \in Seq(TransitionSet)
        /\ Len(After(es, k).transitions) = Len(After(es, n).transitions) + Len(ts)
        /\ \A i \in 1 .. Len(ts) : ts[i].id = Len(After(es, n).transitions) + i
    <3> HIDE DEF n
    <3>1. es[n + 1].record.kind = "commit" /\ ts = es[n + 1].record.transitions
      BY <2>3, <2>4
    <3> QED
      BY <2>1, <2>4, <3>1, LineNumbers
  <2> HIDE DEF ts, n
  <2>6. Last(ts).id = Len(After(es, k).transitions)
    <3>1. Len(ts) \in 1 .. Len(ts)
      BY <2>3, <2>5
    <3> QED
      BY <2>5, <3>1 DEF Last
  <2>7. Replay(Last(ts).id).rows = After(es, k).rows
    BY <2>1, <2>2, <2>4, <2>6, ReplayIs
  <2> QED
    BY <2>7 DEF es, ts, After
<1> QED
  BY <1>1, StoreInvariant, PTL

=============================================================================
