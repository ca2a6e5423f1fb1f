---------------------------- MODULE Engine_proofs ----------------------------
(* Machine-checked proofs about Engine, and about it under Harness.        *)
EXTENDS Harness, TLAPS

-----------------------------------------------------------------------------
(* The folds.                                                              *)

WriteStep(none, db, t) == WriteRow(db, t)
HistoryStep(key, h, t) == IF KeyOf(t) = key THEN Append(h, t) ELSE h

OverWrites == INSTANCE FoldTheorems WITH Op <- WriteStep
OverHistory == INSTANCE FoldTheorems WITH Op <- HistoryStep

\* The transitions of one object among others.
Of(key, ts) == OverHistory!Folded(key, <<>>, ts)

LEMMA WrittenIs ==
  ASSUME NEW ts
  PROVE  Written(ts) = OverWrites!Folded(0, tables, ts)
BY DEF Written, FoldLeft, MapThenFoldSet, Max, WriteStep, OverWrites!Folded, OverWrites!FoldLeft,
       OverWrites!MapThenFoldSet, OverWrites!Max

LEMMA HistoryIs ==
  ASSUME NEW table, NEW id
  PROVE  History(table, id) = Of(<<table, id>>, transitions)
BY DEF History, Of, FoldLeft, MapThenFoldSet, Max, HistoryStep, OverHistory!Folded,
       OverHistory!FoldLeft, OverHistory!MapThenFoldSet, OverHistory!Max

LEMMA WrittenNothing == Written(<<>>) = tables
BY WrittenIs, OverWrites!FoldEmpty

LEMMA WrittenOneMore ==
  ASSUME NEW S, NEW ts \in Seq(S), NEW t \in S
  PROVE  Written(Append(ts, t)) = WriteRow(Written(ts), t)
<1>1. OverWrites!Folded(0, tables, Append(ts, t)) = WriteStep(0, OverWrites!Folded(0, tables, ts), t)
  BY OverWrites!FoldAppend
<1> QED
  BY <1>1, WrittenIs DEF WriteStep

LEMMA OfNothing == \A key : Of(key, <<>>) = <<>>
BY OverHistory!FoldEmpty DEF Of

LEMMA OfOneMore ==
  ASSUME NEW S, NEW ts \in Seq(S), NEW t \in S, NEW key
  PROVE  Of(key, Append(ts, t)) = IF KeyOf(t) = key THEN Append(Of(key, ts), t) ELSE Of(key, ts)
<1>1. OverHistory!Folded(key, <<>>, Append(ts, t))
        = HistoryStep(key, OverHistory!Folded(key, <<>>, ts), t)
  BY OverHistory!FoldAppend
<1> QED
  BY <1>1 DEF Of, HistoryStep

-----------------------------------------------------------------------------
(* Sequences of anything.                                                  *)

IsSeq(s) == \E S : s \in Seq(S)

LEMMA SeqFacts ==
  ASSUME NEW s, IsSeq(s)
  PROVE  Len(s) \in Nat /\ DOMAIN s = 1 .. Len(s) /\ (s = <<>> <=> Len(s) = 0)
<1>1. PICK S : s \in Seq(S)
  BY DEF IsSeq
<1> QED
  BY <1>1

LEMMA AppendFacts ==
  ASSUME NEW s, IsSeq(s), NEW e
  PROVE  /\ IsSeq(Append(s, e)) /\ Len(Append(s, e)) = Len(s) + 1
         /\ DOMAIN Append(s, e) = 1 .. Len(s) + 1
         /\ \A i \in 1 .. Len(s) : Append(s, e)[i] = s[i]
         /\ Append(s, e)[Len(s) + 1] = e
<1>1. PICK S : s \in Seq(S)
  BY DEF IsSeq
<1>2. s \in Seq(S \cup {e}) /\ e \in S \cup {e}
  BY <1>1
<1>3. Append(s, e) \in Seq(S \cup {e})
  BY <1>2
<1>4. IsSeq(Append(s, e))
  BY <1>3 DEF IsSeq
<1> QED
  BY <1>2, <1>4

LEMMA ConcatOneMore ==
  ASSUME NEW s, IsSeq(s), NEW S, NEW r \in Seq(S), NEW e \in S
  PROVE  /\ s \o Append(r, e) = Append(s \o r, e)
         /\ \E A : s \o r \in Seq(A) /\ e \in A
<1>1. PICK B : s \in Seq(B)
  BY DEF IsSeq
<1> DEFINE A == B \cup S
<1>2. s \in Seq(A) /\ r \in Seq(A) /\ e \in A
  BY <1>1
<1> HIDE DEF A
<1>3. s \o r \in Seq(A)
  BY <1>2
<1>4. s \o Append(r, e) = Append(s \o r, e)
  BY <1>2
<1> QED
  BY <1>2, <1>3, <1>4

LEMMA ConcatNothing ==
  ASSUME NEW s, IsSeq(s)
  PROVE  s \o <<>> = s
<1>1. PICK B : s \in Seq(B)
  BY DEF IsSeq
<1> QED
  BY <1>1

-----------------------------------------------------------------------------
(* What a commit may write.                                                *)

\* The fields of the rows, and the statuses they may have.
RowFits(table, row) ==
  /\ table = "memories" =>
       /\ DOMAIN row = {"text", "kind", "status", "version", "sources", "evidence", "accesses"}
       /\ row.status \in MemoryStatus
  /\ table = "beliefs" =>
       /\ DOMAIN row = {"text", "status", "version", "supporting", "contradicting"}
       /\ row.status \in BeliefStatus
  /\ table = "goals" =>
       /\ DOMAIN row = {"description", "status", "evidence", "version"}
       /\ row.status \in GoalStatus
  /\ table = "predictions" => DOMAIN row = {"verified", "evidence", "version"}
  /\ table = "entities" => DOMAIN row = {"name", "kind", "evidence", "version"}
  /\ table \in Singletons => DOMAIN row = {"data", "version"}

Versioned == Tables \ {"entity_relationships"}

\* A transition that writes the next row of a table.
Creates(t) ==
  /\ t.table \in Tables \ Singletons
  /\ t.id = NextIdOf(t.table)
  /\ t.before = None
  /\ t.table \in Versioned => t.after.version = 1

\* A row keeps what it was based on.
Keeps(table, before, after) ==
  /\ table = "memories" => before.sources \subseteq after.sources
  /\ table \in {"memories", "goals", "predictions", "entities"} =>
       before.evidence \subseteq after.evidence
  /\ table = "beliefs" => /\ before.supporting \subseteq after.supporting
                          /\ before.contradicting \subseteq after.contradicting

\* A transition that changes a row there is.
Updates(t) ==
  /\ t.table \in Versioned
  /\ t.id \in IdsOf(t.table)
  /\ t.before = tables[t.table][t.id]
  /\ t.after.version = t.before.version + 1
  /\ Keeps(t.table, t.before, t.after)

\* The text that is embedded goes to rows that have it, and the others keep theirs.
EmbedFits(t, text) ==
  /\ t.embed => /\ t.table \in {"memories", "beliefs"}
                /\ text # None
                /\ t.after.text = text
  /\ ~t.embed /\ t.table \in {"memories", "beliefs"} =>
       Updates(t) /\ t.after.text = t.before.text

\* A new entity has a name and kind of its own, a relationship has two ends.
EntityFits(t) ==
  /\ t.table = "entities" =>
       \/ Creates(t) /\ \A i \in IdsOf("entities") :
            ~(tables["entities"][i].name = t.after.name /\ tables["entities"][i].kind = t.after.kind)
       \/ Updates(t) /\ t.after.name = t.before.name /\ t.after.kind = t.before.kind
  /\ t.table = "entity_relationships" =>
       t.after.src \in IdsOf("entities") /\ t.after.dst \in IdsOf("entities")

Fits(t, text) ==
  /\ Creates(t) \/ Updates(t)
  /\ RowFits(t.table, t.after)
  /\ EmbedFits(t, text)
  /\ EntityFits(t)

\* The transitions of a commit, each of another object.
Steps(ts, text) ==
  /\ \A i \in DOMAIN ts : Fits(ts[i], text)
  /\ \A i, j \in DOMAIN ts : KeyOf(ts[i]) = KeyOf(ts[j]) => i = j

-----------------------------------------------------------------------------
(* The inductive invariant.                                                *)

\* The tables, as far as the engine relies on it.
Shape(db) ==
  /\ DOMAIN db = Tables
  /\ \A table \in Tables : IsSeq(db[table])
  /\ \A table \in Tables : \A id \in DOMAIN db[table] : RowFits(table, db[table][id])
  /\ \A table \in Singletons : Len(db[table]) = 1

\* Each transition is of a row there is.
Logged(db, ts) ==
  /\ IsSeq(ts)
  /\ \A i \in DOMAIN ts : ts[i].table \in Tables /\ ts[i].id \in DOMAIN db[ts[i].table]

\* h leads to this row without a gap, and its version counts h.
Leads(table, row, h) ==
  /\ h = <<>> => table \in Singletons
  /\ h # <<>> =>
       /\ table \notin Singletons => h[1].before = None
       /\ \A i \in 2 .. Len(h) : h[i].before = h[i - 1].after
       /\ h[Len(h)].after = row
  /\ table \in Versioned => row.version = Len(h) + IF table \in Singletons THEN 1 ELSE 0

\* Every row has been traced by the log, and the log speaks of no other row.
Traced(db, ts) ==
  \A table \in Tables : \A id \in Nat :
    /\ IsSeq(Of(<<table, id>>, ts))
    /\ id \notin DOMAIN db[table] => Of(<<table, id>>, ts) = <<>>
    /\ id \in DOMAIN db[table] => Leads(table, db[table][id], Of(<<table, id>>, ts))

VectorsInv ==
  /\ \A k \in DOMAIN vectors : k[1] \in Tables /\ k[2] \in IdsOf(k[1])
  /\ VectorsMatchText

EngineInv ==
  /\ Shape(tables)
  /\ Logged(tables, transitions)
  /\ Traced(tables, transitions)
  /\ VectorsInv
  /\ EntitiesResolve

\* The rows of a commit's transitions are written, and no others.
OnlyKeys(db, ts) ==
  /\ \A table \in Tables : IdsOf(table) \subseteq DOMAIN db[table]
  /\ \A table \in Tables : \A id \in Nat :
       <<table, id>> \notin KeysOf(ts, DOMAIN ts) =>
         /\ id \in DOMAIN db[table] => id \in IdsOf(table)
         /\ id \in IdsOf(table) => db[table][id] = tables[table][id]
  /\ \A i \in DOMAIN ts : /\ ts[i].id \in DOMAIN db[ts[i].table]
                          /\ db[ts[i].table][ts[i].id] = ts[i].after

Done(ts) ==
  /\ Shape(Written(ts))
  /\ Logged(Written(ts), transitions \o ts)
  /\ Traced(Written(ts), transitions \o ts)
  /\ OnlyKeys(Written(ts), ts)

LEMMA ShapeFacts ==
  ASSUME NEW db, Shape(db), NEW table \in Tables
  PROVE  /\ IsSeq(db[table]) /\ Len(db[table]) \in Nat
         /\ DOMAIN db[table] = 1 .. Len(db[table]) /\ DOMAIN db[table] \subseteq Nat
         /\ \A id \in DOMAIN db[table] : RowFits(table, db[table][id])
<1>1. IsSeq(db[table]) /\ \A id \in DOMAIN db[table] : RowFits(table, db[table][id])
  BY DEF Shape
<1> QED
  BY <1>1, SeqFacts

LEMMA WriteRowIs ==
  ASSUME NEW db, Shape(db), NEW t, t.table \in Tables,
         t.id \in DOMAIN db[t.table] \/ t.id = Len(db[t.table]) + 1
  PROVE  /\ DOMAIN WriteRow(db, t) = Tables
         /\ \A table \in Tables \ {t.table} : WriteRow(db, t)[table] = db[table]
         /\ IsSeq(WriteRow(db, t)[t.table])
         /\ DOMAIN WriteRow(db, t)[t.table] = DOMAIN db[t.table] \cup {t.id}
         /\ WriteRow(db, t)[t.table][t.id] = t.after
         /\ \A id \in DOMAIN db[t.table] \ {t.id} :
              WriteRow(db, t)[t.table][id] = db[t.table][id]
         /\ t.id \in DOMAIN db[t.table] => Len(WriteRow(db, t)[t.table]) = Len(db[t.table])
<1> DEFINE rows == db[t.table]
           new == Upsert(rows, t.id, t.after)
<1>1. IsSeq(rows) /\ Len(rows) \in Nat /\ DOMAIN rows = 1 .. Len(rows)
  BY ShapeFacts
<1>2. DOMAIN db = Tables
  BY DEF Shape
<1>3. /\ DOMAIN WriteRow(db, t) = Tables
      /\ \A table \in Tables \ {t.table} : WriteRow(db, t)[table] = db[table]
      /\ WriteRow(db, t)[t.table] = new
  BY <1>2 DEF WriteRow
<1>4. /\ IsSeq(new) /\ DOMAIN new = DOMAIN rows \cup {t.id} /\ new[t.id] = t.after
      /\ \A id \in DOMAIN rows \ {t.id} : new[id] = rows[id]
      /\ t.id \in DOMAIN rows => Len(new) = Len(rows)
  <2>1. CASE t.id \in DOMAIN rows
    <3>1. PICK S : rows \in Seq(S)
      BY <1>1 DEF IsSeq
    <3>2. new = [rows EXCEPT ![t.id] = t.after]
      BY <2>1 DEF Upsert
    <3> HIDE DEF rows, new
    <3>3. rows \in Seq(S \cup {t.after}) /\ t.after \in S \cup {t.after}
      BY <3>1
    <3>4. new \in Seq(S \cup {t.after}) /\ Len(new) = Len(rows)
      BY <3>2, <3>3, <2>1, <1>1
    <3>5. IsSeq(new)
      BY <3>4 DEF IsSeq
    <3> QED
      BY <3>2, <3>4, <3>5, <2>1, <1>1
  <2>2. CASE t.id \notin DOMAIN rows
    <3>1. new = Append(rows, t.after) /\ t.id = Len(rows) + 1
      BY <2>2 DEF Upsert
    <3> HIDE DEF rows, new
    <3>2. /\ IsSeq(new) /\ DOMAIN new = 1 .. Len(rows) + 1 /\ new[Len(rows) + 1] = t.after
          /\ \A i \in 1 .. Len(rows) : new[i] = rows[i]
      BY <3>1, <1>1, AppendFacts
    <3>3. 1 .. Len(rows) + 1 = (1 .. Len(rows)) \cup {Len(rows) + 1}
      BY <1>1
    <3> QED
      BY <3>1, <3>2, <3>3, <2>2, <1>1
  <2> QED
    BY <2>1, <2>2
<1> QED
  BY <1>3, <1>4

-----------------------------------------------------------------------------
(* A commit writes its transitions one by one.                             *)

LEMMA StepsBefore ==
  ASSUME NEW S, NEW ts \in Seq(S), NEW t \in S, NEW text, Steps(Append(ts, t), text)
  PROVE  Steps(ts, text) /\ Fits(t, text) /\ KeyOf(t) \notin KeysOf(ts, DOMAIN ts)
<1> DEFINE r == Append(ts, t)
           n == Len(ts)
<1>1. /\ n \in Nat /\ DOMAIN ts = 1 .. n /\ DOMAIN r = 1 .. n + 1 /\ r[n + 1] = t
      /\ \A i \in 1 .. n : r[i] = ts[i]
  OBVIOUS
<1>2. /\ \A i \in DOMAIN r : Fits(r[i], text)
      /\ \A i, j \in DOMAIN r : KeyOf(r[i]) = KeyOf(r[j]) => i = j
  BY DEF Steps
<1> HIDE DEF r, n
<1>3. \A i \in 1 .. n : i \in DOMAIN r /\ i # n + 1
  BY <1>1
<1>4. n + 1 \in DOMAIN r
  BY <1>1
<1>5. \A i \in DOMAIN ts : Fits(ts[i], text)
  BY <1>1, <1>2, <1>3
<1>6. \A i, j \in DOMAIN ts : KeyOf(ts[i]) = KeyOf(ts[j]) => i = j
  BY <1>1, <1>2, <1>3
<1>7. Steps(ts, text)
  BY <1>5, <1>6 DEF Steps
<1>8. Fits(t, text)
  BY <1>1, <1>2, <1>4
<1>9. \A i \in DOMAIN ts : KeyOf(ts[i]) # KeyOf(t)
  BY <1>1, <1>2, <1>3, <1>4
<1> QED
  BY <1>7, <1>8, <1>9 DEF KeysOf

\* What t says of the tables before the commit is still true when it is written.
LEMMA StillFits ==
  ASSUME Shape(tables), NEW S, NEW ts \in Seq(S), NEW t, NEW text, Fits(t, text),
         KeyOf(t) \notin KeysOf(ts, DOMAIN ts), Done(ts)
  PROVE  /\ t.table \in Tables /\ t.id \in Nat
         /\ \/ /\ Creates(t) /\ t.id = Len(Written(ts)[t.table]) + 1
               /\ t.id \notin DOMAIN Written(ts)[t.table]
            \/ /\ Updates(t) /\ t.id \in DOMAIN Written(ts)[t.table]
               /\ Written(ts)[t.table][t.id] = t.before
<1> DEFINE db == Written(ts)
           table == t.table
<1>1. Shape(db) /\ OnlyKeys(db, ts)
  BY DEF Done
<1>2. Creates(t) \/ Updates(t)
  BY DEF Fits
<1>3. table \in Tables
  BY <1>2 DEF Creates, Updates, Versioned
<1>4. /\ Len(db[table]) \in Nat /\ DOMAIN db[table] = 1 .. Len(db[table])
      /\ Len(tables[table]) \in Nat /\ IdsOf(table) = 1 .. Len(tables[table])
  BY <1>1, <1>3, ShapeFacts DEF IdsOf
<1>5. t.id \in Nat
  BY <1>2, <1>4 DEF Creates, Updates, NextIdOf
<1>6. <<table, t.id>> \notin KeysOf(ts, DOMAIN ts)
  BY DEF KeyOf
<1>7. /\ IdsOf(table) \subseteq DOMAIN db[table]
      /\ t.id \in DOMAIN db[table] => t.id \in IdsOf(table)
      /\ t.id \in IdsOf(table) => db[table][t.id] = tables[table][t.id]
  BY <1>1, <1>3, <1>5, <1>6 DEF OnlyKeys
<1>8. CASE Creates(t)
  <2>1. t.id = Len(tables[table]) + 1
    BY <1>8 DEF Creates, NextIdOf
  <2>2. \A m, n \in Nat : 1 .. m \subseteq 1 .. n /\ m + 1 \notin 1 .. n => n = m
    OBVIOUS
  <2>3. t.id \notin IdsOf(table)
    BY <1>4, <2>1
  <2>4. 1 .. Len(tables[table]) \subseteq 1 .. Len(db[table])
        /\ Len(tables[table]) + 1 \notin 1 .. Len(db[table])
    BY <1>4, <1>7, <2>1, <2>3
  <2>5. Len(db[table]) = Len(tables[table])
    BY <1>4, <2>2, <2>4
  <2> QED
    BY <1>3, <1>5, <1>7, <1>8, <2>1, <2>3, <2>5
<1>9. CASE Updates(t)
  BY <1>3, <1>5, <1>7, <1>9 DEF Updates
<1> QED
  BY <1>2, <1>8, <1>9

LEMMA ShapeOneMore ==
  ASSUME NEW db, Shape(db), NEW t, NEW text, Fits(t, text), t.table \in Tables,
         \/ Creates(t) /\ t.id = Len(db[t.table]) + 1
         \/ Updates(t) /\ t.id \in DOMAIN db[t.table]
  PROVE  Shape(WriteRow(db, t))
<1> DEFINE d == WriteRow(db, t)
<1>1. t.id \in DOMAIN db[t.table] \/ t.id = Len(db[t.table]) + 1
  OBVIOUS
<1>2. /\ DOMAIN d = Tables
      /\ \A table \in Tables \ {t.table} : d[table] = db[table]
      /\ IsSeq(d[t.table])
      /\ DOMAIN d[t.table] = DOMAIN db[t.table] \cup {t.id}
      /\ d[t.table][t.id] = t.after
      /\ \A id \in DOMAIN db[t.table] \ {t.id} : d[t.table][id] = db[t.table][id]
      /\ t.id \in DOMAIN db[t.table] => Len(d[t.table]) = Len(db[t.table])
  BY <1>1, WriteRowIs
<1> HIDE DEF d
<1>3. RowFits(t.table, t.after)
  BY DEF Fits
<1>4. \A table \in Tables : IsSeq(d[table])
  BY <1>2 DEF Shape
<1>5. ASSUME NEW table \in Tables, NEW id \in DOMAIN d[table]
      PROVE  RowFits(table, d[table][id])
  <2>1. CASE table = t.table /\ id = t.id
    BY <1>2, <1>3, <2>1
  <2>2. CASE table = t.table /\ id # t.id
    <3>1. id \in DOMAIN db[table] /\ d[table][id] = db[table][id]
      BY <1>2, <1>5, <2>2
    <3> QED
      BY <3>1 DEF Shape
  <2>3. CASE table # t.table
    <3>1. d[table] = db[table]
      BY <1>2, <2>3
    <3> QED
      BY <3>1, <1>5 DEF Shape
  <2> QED
    BY <2>1, <2>2, <2>3
<1>6. ASSUME NEW table \in Singletons
      PROVE  Len(d[table]) = 1
  <2>1. table \in Tables /\ Len(db[table]) = 1
    BY <1>6 DEF Shape, Tables, Singletons
  <2>2. table = t.table => t.id \in DOMAIN db[table]
    BY <1>6 DEF Creates
  <2> QED
    BY <1>2, <2>1, <2>2
<1> QED
  BY <1>2, <1>4, <1>5, <1>6 DEF Shape, d

LEMMA LoggedOneMore ==
  ASSUME NEW db, Shape(db), NEW log, Logged(db, log), NEW t, t.table \in Tables,
         t.id \in DOMAIN db[t.table] \/ t.id = Len(db[t.table]) + 1
  PROVE  Logged(WriteRow(db, t), Append(log, t))
<1> DEFINE d == WriteRow(db, t)
           r == Append(log, t)
           n == Len(log)
<1>1. /\ \A table \in Tables \ {t.table} : d[table] = db[table]
      /\ DOMAIN d[t.table] = DOMAIN db[t.table] \cup {t.id}
  BY WriteRowIs
<1>2. /\ n \in Nat /\ DOMAIN log = 1 .. n
      /\ \A i \in 1 .. n : log[i].table \in Tables /\ log[i].id \in DOMAIN db[log[i].table]
  BY SeqFacts DEF Logged
<1>3. /\ IsSeq(r) /\ DOMAIN r = 1 .. n + 1 /\ r[n + 1] = t
      /\ \A i \in 1 .. n : r[i] = log[i]
  BY AppendFacts DEF Logged
<1> HIDE DEF d, r, n
<1>4. \A i \in 1 .. n + 1 : i \in 1 .. n \/ i = n + 1
  BY <1>2
<1>5. ASSUME NEW i \in DOMAIN r
      PROVE  r[i].table \in Tables /\ r[i].id \in DOMAIN d[r[i].table]
  <2>1. CASE i = n + 1
    BY <2>1, <1>1, <1>3
  <2>2. CASE i \in 1 .. n
    BY <2>2, <1>1, <1>2, <1>3
  <2> QED
    BY <2>1, <2>2, <1>3, <1>4
<1> QED
  BY <1>3, <1>5 DEF Logged, d, r

LEMMA LeadsOneMore ==
  ASSUME NEW table \in Tables, NEW h, IsSeq(h), NEW t, t.table = table,
         NEW row, NEW old,
         row = t.after,
         \/ Creates(t) /\ h = <<>>
         \/ Updates(t) /\ Leads(table, old, h) /\ old = t.before
  PROVE  Leads(table, row, Append(h, t))
<1> DEFINE r == Append(h, t)
           n == Len(h)
<1>1. /\ n \in Nat /\ Len(r) = n + 1 /\ r[n + 1] = t
      /\ \A i \in 1 .. n : r[i] = h[i]
      /\ h = <<>> <=> n = 0
  BY SeqFacts, AppendFacts
<1>2. r # <<>>
  <2>1. IsSeq(r)
    BY AppendFacts
  <2>2. Len(r) # 0
    BY <1>1
  <2> QED
    BY <2>1, <2>2, SeqFacts
<1> HIDE DEF r, n
<1>3. r[Len(r)].after = row
  BY <1>1
<1>4. CASE Creates(t) /\ h = <<>>
  <2>1. n = 0
    BY <1>1, <1>4
  <2>2. Len(r) = 1 /\ r[1] = t
    BY <1>1, <2>1
  <2>3. t.before = None /\ table \notin Singletons /\ (table \in Versioned => row.version = 1)
    BY <1>4 DEF Creates
  <2>4. \A i \in 2 .. Len(r) : FALSE
    BY <2>2
  <2> QED
    BY <1>2, <1>3, <2>2, <2>3, <2>4 DEF Leads, r
<1>5. CASE Updates(t) /\ Leads(table, old, h) /\ old = t.before
  <2>1. /\ h = <<>> => table \in Singletons
        /\ h # <<>> => /\ table \notin Singletons => h[1].before = None
                       /\ \A i \in 2 .. n : h[i].before = h[i - 1].after
                       /\ h[n].after = old
        /\ old.version = n + IF table \in Singletons THEN 1 ELSE 0
    BY <1>5 DEF Leads, Updates, n
  <2>2. table \notin Singletons => r[1].before = None
    <3>1. SUFFICES ASSUME table \notin Singletons PROVE r[1].before = None
      OBVIOUS
    <3>2. n # 0
      BY <1>1, <2>1, <3>1
    <3>3. 1 \in 1 .. n
      BY <1>1, <3>2
    <3> QED
      BY <1>1, <2>1, <3>1, <3>2, <3>3
  <2>3. ASSUME NEW i \in 2 .. Len(r)
        PROVE  r[i].before = r[i - 1].after
    <3>1. CASE i = n + 1
      <4>1. i - 1 = n /\ n \in 1 .. n
        BY <1>1, <3>1
      <4>2. r[i] = t /\ r[i - 1] = h[n] /\ h # <<>>
        BY <1>1, <3>1, <4>1
      <4> QED
        BY <2>1, <4>2, <1>5
    <3>2. CASE i # n + 1
      <4>1. i \in 1 .. n /\ i - 1 \in 1 .. n /\ i \in 2 .. n
        BY <1>1, <3>2
      <4>2. r[i] = h[i] /\ r[i - 1] = h[i - 1] /\ h # <<>>
        BY <1>1, <4>1
      <4> QED
        BY <2>1, <4>1, <4>2
    <3> QED
      BY <3>1, <3>2
  <2>4. row.version = Len(r) + IF table \in Singletons THEN 1 ELSE 0
    <3>1. row.version = old.version + 1
      BY <1>5 DEF Updates
    <3> QED
      BY <1>1, <2>1, <3>1
  <2> QED
    BY <1>2, <1>3, <2>2, <2>3, <2>4 DEF Leads, r
<1> QED
  BY <1>4, <1>5

LEMMA TracedOneMore ==
  ASSUME NEW db, Shape(db), NEW A, NEW log \in Seq(A), NEW t \in A, Traced(db, log),
         t.table \in Tables, t.id \in Nat,
         \/ Creates(t) /\ t.id = Len(db[t.table]) + 1 /\ t.id \notin DOMAIN db[t.table]
         \/ Updates(t) /\ t.id \in DOMAIN db[t.table] /\ db[t.table][t.id] = t.before
  PROVE  Traced(WriteRow(db, t), Append(log, t))
<1> DEFINE d == WriteRow(db, t)
<1>1. /\ \A table \in Tables \ {t.table} : d[table] = db[table]
      /\ DOMAIN d[t.table] = DOMAIN db[t.table] \cup {t.id}
      /\ d[t.table][t.id] = t.after
      /\ \A id \in DOMAIN db[t.table] \ {t.id} : d[t.table][id] = db[t.table][id]
  BY WriteRowIs
<1> HIDE DEF d
<1>2. ASSUME NEW table \in Tables, NEW id \in Nat
      PROVE  /\ IsSeq(Of(<<table, id>>, Append(log, t)))
             /\ id \notin DOMAIN d[table] => Of(<<table, id>>, Append(log, t)) = <<>>
             /\ id \in DOMAIN d[table] =>
                  Leads(table, d[table][id], Of(<<table, id>>, Append(log, t)))
  <2> DEFINE key == <<table, id>>
             h == Of(key, log)
             r == Of(key, Append(log, t))
  <2>1. /\ IsSeq(h)
        /\ id \notin DOMAIN db[table] => h = <<>>
        /\ id \in DOMAIN db[table] => Leads(table, db[table][id], h)
    BY DEF Traced
  <2>2. r = IF KeyOf(t) = key THEN Append(h, t) ELSE h
    BY OfOneMore
  <2> HIDE DEF h, r
  <2>3. CASE table = t.table /\ id = t.id
    <3>1. r = Append(h, t)
      BY <2>2, <2>3 DEF KeyOf
    <3>2. IsSeq(r)
      BY <2>1, <3>1, AppendFacts
    <3>3. d[table][id] = t.after /\ id \in DOMAIN d[table]
      BY <1>1, <2>3
    <3>4. \/ Creates(t) /\ h = <<>>
          \/ Updates(t) /\ Leads(table, db[table][id], h) /\ db[table][id] = t.before
      BY <2>1, <2>3
    <3>5. Leads(table, d[table][id], Append(h, t))
      BY <2>1, <2>3, <3>3, <3>4, LeadsOneMore
    <3> QED
      BY <3>1, <3>2, <3>3, <3>5 DEF r
  <2>4. CASE ~(table = t.table /\ id = t.id)
    <3>1. r = h
      BY <2>2, <2>4 DEF KeyOf
    <3>2. /\ id \in DOMAIN d[table] <=> id \in DOMAIN db[table]
          /\ id \in DOMAIN db[table] => d[table][id] = db[table][id]
      BY <1>1, <2>4
    <3> QED
      BY <2>1, <3>1, <3>2 DEF r
  <2> QED
    BY <2>3, <2>4
<1> QED
  BY <1>2 DEF Traced, d

LEMMA OnlyKeysOneMore ==
  ASSUME NEW db, Shape(db), NEW S, NEW ts \in Seq(S), NEW t \in S, OnlyKeys(db, ts),
         t.table \in Tables, t.id \in Nat, KeyOf(t) \notin KeysOf(ts, DOMAIN ts),
         \A i \in DOMAIN ts : ts[i].table \in Tables,
         t.id \in DOMAIN db[t.table] \/ t.id = Len(db[t.table]) + 1
  PROVE  OnlyKeys(WriteRow(db, t), Append(ts, t))
<1> DEFINE d == WriteRow(db, t)
           r == Append(ts, t)
           n == Len(ts)
<1>1. /\ \A table \in Tables \ {t.table} : d[table] = db[table]
      /\ DOMAIN d[t.table] = DOMAIN db[t.table] \cup {t.id}
      /\ d[t.table][t.id] = t.after
      /\ \A id \in DOMAIN db[t.table] \ {t.id} : d[t.table][id] = db[t.table][id]
  BY WriteRowIs
<1>2. /\ n \in Nat /\ DOMAIN ts = 1 .. n /\ DOMAIN r = 1 .. n + 1 /\ r[n + 1] = t
      /\ \A i \in 1 .. n : r[i] = ts[i]
  OBVIOUS
<1> HIDE DEF d, r, n
<1>3. \A i \in 1 .. n + 1 : i \in 1 .. n \/ i = n + 1
  BY <1>2
<1>4. KeysOf(r, DOMAIN r) = KeysOf(ts, DOMAIN ts) \cup {KeyOf(t)}
  <2>1. n + 1 \in DOMAIN r /\ \A i \in 1 .. n : i \in DOMAIN r
    BY <1>2
  <2> QED
    BY <2>1, <1>2, <1>3 DEF KeysOf
<1>5. \A table \in Tables : IdsOf(table) \subseteq DOMAIN d[table]
  BY <1>1 DEF OnlyKeys
<1>6. ASSUME NEW table \in Tables, NEW id \in Nat, <<table, id>> \notin KeysOf(r, DOMAIN r)
      PROVE  /\ id \in DOMAIN d[table] => id \in IdsOf(table)
             /\ id \in IdsOf(table) => d[table][id] = tables[table][id]
  <2>1. <<table, id>> \notin KeysOf(ts, DOMAIN ts) /\ ~(table = t.table /\ id = t.id)
    BY <1>4, <1>6 DEF KeyOf
  <2>2. /\ id \in DOMAIN db[table] => id \in IdsOf(table)
        /\ id \in IdsOf(table) => db[table][id] = tables[table][id] /\ id \in DOMAIN db[table]
    BY <2>1 DEF OnlyKeys
  <2>3. /\ id \in DOMAIN d[table] <=> id \in DOMAIN db[table]
        /\ id \in DOMAIN db[table] => d[table][id] = db[table][id]
    BY <1>1, <2>1
  <2> QED
    BY <2>2, <2>3
<1>7. ASSUME NEW i \in DOMAIN r
      PROVE  r[i].id \in DOMAIN d[r[i].table] /\ d[r[i].table][r[i].id] = r[i].after
  <2>1. CASE i = n + 1
    BY <2>1, <1>1, <1>2
  <2>2. CASE i \in 1 .. n
    <3>1. /\ ts[i].id \in DOMAIN db[ts[i].table] /\ db[ts[i].table][ts[i].id] = ts[i].after
          /\ ts[i].table \in Tables
      BY <2>2, <1>2 DEF OnlyKeys
    <3>2. KeyOf(ts[i]) # KeyOf(t)
      BY <2>2, <1>2 DEF KeysOf
    <3>3. ~(ts[i].table = t.table /\ ts[i].id = t.id)
      BY <3>2 DEF KeyOf
    <3> QED
      BY <1>1, <1>2, <2>2, <3>1, <3>3
  <2> QED
    BY <1>2, <1>3, <2>1, <2>2
<1> QED
  BY <1>5, <1>6, <1>7 DEF OnlyKeys, d, r

LEMMA DoneOneMore ==
  ASSUME Shape(tables), Logged(tables, transitions), NEW S, NEW ts \in Seq(S), NEW t \in S, NEW text,
         Steps(Append(ts, t), text), Done(ts)
  PROVE  Done(Append(ts, t))
<1> DEFINE db == Written(ts)
           log == transitions \o ts
<1>1. Steps(ts, text) /\ Fits(t, text) /\ KeyOf(t) \notin KeysOf(ts, DOMAIN ts)
  BY StepsBefore
<1>2. Shape(db) /\ Logged(db, log) /\ Traced(db, log) /\ OnlyKeys(db, ts)
  BY DEF Done
<1>3. /\ t.table \in Tables /\ t.id \in Nat
      /\ \/ /\ Creates(t) /\ t.id = Len(db[t.table]) + 1 /\ t.id \notin DOMAIN db[t.table]
         \/ /\ Updates(t) /\ t.id \in DOMAIN db[t.table] /\ db[t.table][t.id] = t.before
  BY <1>1, StillFits
<1>4. Written(Append(ts, t)) = WriteRow(db, t)
  BY WrittenOneMore
<1>5. /\ transitions \o Append(ts, t) = Append(log, t)
      /\ \E A : log \in Seq(A) /\ t \in A
  BY ConcatOneMore DEF Logged
<1>6. PICK A : log \in Seq(A) /\ t \in A
  BY <1>5
<1>7. \A i \in DOMAIN ts : ts[i].table \in Tables
  BY <1>1 DEF Steps, Fits, Creates, Updates, Versioned
<1> HIDE DEF db, log
<1>8. Shape(WriteRow(db, t))
  BY <1>1, <1>2, <1>3, ShapeOneMore
<1>9. Logged(WriteRow(db, t), Append(log, t))
  BY <1>2, <1>3, LoggedOneMore
<1>10. Traced(WriteRow(db, t), Append(log, t))
  BY <1>2, <1>3, <1>6, TracedOneMore
<1>11. OnlyKeys(WriteRow(db, t), Append(ts, t))
  BY <1>1, <1>2, <1>3, <1>7, OnlyKeysOneMore
<1> QED
  BY <1>4, <1>5, <1>8, <1>9, <1>10, <1>11 DEF Done

\* All transitions of a commit are written as the first one is.
LEMMA AllDone ==
  ASSUME Shape(tables), Logged(tables, transitions), Traced(tables, transitions),
         NEW ts, IsSeq(ts), NEW text, Steps(ts, text)
  PROVE  Done(ts)
<1>1. PICK S : ts \in Seq(S)
  BY DEF IsSeq
<1> DEFINE P == {r \in Seq(S) : Steps(r, text) => Done(r)}
<1>2. <<>> \in P
  <2>1. Written(<<>>) = tables /\ transitions \o <<>> = transitions
    BY WrittenNothing, ConcatNothing DEF Logged
  <2>2. OnlyKeys(tables, <<>>)
    BY DEF OnlyKeys, IdsOf
  <2>3. Done(<<>>)
    BY <2>1, <2>2 DEF Done
  <2> QED
    BY <2>3
<1>3. ASSUME NEW r \in Seq(S), NEW t \in S, r \in P
      PROVE  Append(r, t) \in P
  <2>1. SUFFICES ASSUME Steps(Append(r, t), text) PROVE Done(Append(r, t))
    OBVIOUS
  <2>2. Steps(r, text)
    BY <2>1, StepsBefore
  <2>3. Done(r)
    BY <1>3, <2>2
  <2> QED
    BY <2>1, <2>3, DoneOneMore
<1> HIDE DEF P
<1>4. Seq(S) \subseteq P
  BY <1>2, <1>3, OverWrites!SequencesOver
<1> QED
  BY <1>1, <1>4 DEF P

-----------------------------------------------------------------------------
(* The operations, one by one: what they write fits.                       *)

LEMMA NothingFits == \A text : IsSeq(<<>>) /\ Steps(<<>>, text)
<1>1. <<>> \in Seq({}) /\ DOMAIN <<>> = {}
  OBVIOUS
<1>2. IsSeq(<<>>)
  BY <1>1 DEF IsSeq
<1> QED
  BY <1>1, <1>2 DEF Steps

LEMMA OneFits ==
  ASSUME NEW t, NEW text, Fits(t, text)
  PROVE  IsSeq(<<t>>) /\ Steps(<<t>>, text)
<1>1. <<t>> \in Seq({t}) /\ DOMAIN <<t>> = {1} /\ <<t>>[1] = t
  OBVIOUS
<1>2. IsSeq(<<t>>)
  BY <1>1 DEF IsSeq
<1> QED
  BY <1>1, <1>2 DEF Steps

LEMMA CreateMemoryFits ==
  ASSUME NEW p, p.payload.text \in Text, p.payload.status \in MemoryStatus
  PROVE  \E t : CreateMemory(p) = <<t>> /\ Fits(t, p.payload.text)
<1> DEFINE row == [text |-> p.payload.text, kind |-> p.payload.kind, status |-> p.payload.status,
                   version |-> 1, sources |-> SourcesGiven(p), evidence |-> p.evidence,
                   accesses |-> 0]
           t == Transition("memories", NextIdOf("memories"), None, row, TRUE)
<1>1. CreateMemory(p) = <<t>>
  BY DEF CreateMemory
<1>2. /\ DOMAIN row = {"text", "kind", "status", "version", "sources", "evidence", "accesses"}
      /\ row.status = p.payload.status /\ row.text = p.payload.text /\ row.version = 1
  OBVIOUS
<1> HIDE DEF row
<1>3. /\ t.table = "memories" /\ t.id = NextIdOf("memories") /\ t.before = None /\ t.after = row
      /\ t.embed
  BY DEF Transition
<1> HIDE DEF t
<1>4. Creates(t)
  BY <1>2, <1>3 DEF Creates, Tables, Singletons
<1>5. RowFits(t.table, t.after)
  BY <1>2, <1>3 DEF RowFits, Singletons
<1>6. EmbedFits(t, p.payload.text) /\ EntityFits(t)
  BY <1>2, <1>3, EngineAssumption DEF EmbedFits, EntityFits
<1> QED
  BY <1>1, <1>4, <1>5, <1>6 DEF Fits

LEMMA UpdateMemoryFits ==
  ASSUME Shape(tables), NEW p, p.target \in IdsOf("memories"),
         p.payload.text \in Text \cup {None}, p.payload.status \in MemoryStatus \cup {None},
         NEW text, p.payload.text # None => text = p.payload.text
  PROVE  \E t : UpdateMemory(p) = <<t>> /\ Fits(t, text)
<1> DEFINE before == tables["memories"][p.target]
           status == IF p.payload.status # None THEN p.payload.status
                     ELSE IF p.payload.reinforce THEN "reinforced" ELSE None
           row == [before EXCEPT
                     !.text = IF p.payload.text # None THEN p.payload.text ELSE @,
                     !.status = IF status # None THEN status ELSE @,
                     !.accesses = IF p.payload.reinforce THEN @ + 1 ELSE @,
                     !.sources = @ \cup p.payload.addSources,
                     !.evidence = Evidence(before, p),
                     !.version = NextVersion(before)]
           t == Transition("memories", p.target, before, row, p.payload.text # None)
<1>1. UpdateMemory(p) = <<t>>
  BY DEF UpdateMemory
<1>2. RowFits("memories", before)
  BY ShapeFacts DEF IdsOf, Tables
<1>3. /\ DOMAIN before = {"text", "kind", "status", "version", "sources", "evidence", "accesses"}
      /\ before.status \in MemoryStatus
  BY <1>2 DEF RowFits
<1> HIDE DEF before
<1>4. status = None \/ status \in MemoryStatus
  BY DEF MemoryStatus, LiveMemory
<1> HIDE DEF status
<1>5. /\ DOMAIN row = {"text", "kind", "status", "version", "sources", "evidence", "accesses"}
      /\ row.text = IF p.payload.text # None THEN p.payload.text ELSE before.text
      /\ row.status = IF status # None THEN status ELSE before.status
      /\ row.sources = before.sources \cup p.payload.addSources
      /\ row.evidence = Evidence(before, p)
      /\ row.version = NextVersion(before)
  BY <1>3
<1> HIDE DEF row
<1>6. /\ t.table = "memories" /\ t.id = p.target /\ t.before = before /\ t.after = row
      /\ t.embed = (p.payload.text # None)
  BY DEF Transition
<1> HIDE DEF t
<1>7. Updates(t)
  BY <1>5, <1>6 DEF Updates, Keeps, Versioned, Tables, before, Evidence, NextVersion
<1>8. RowFits(t.table, t.after)
  BY <1>3, <1>4, <1>5, <1>6 DEF RowFits, Singletons
<1>9. EmbedFits(t, text) /\ EntityFits(t)
  <2>1. EntityFits(t)
    BY <1>6 DEF EntityFits
  <2>2. t.embed => p.payload.text # None /\ t.after.text = p.payload.text
    BY <1>5, <1>6
  <2>3. ~t.embed => t.after.text = t.before.text
    BY <1>5, <1>6
  <2> QED
    BY <1>6, <1>7, <2>1, <2>2, <2>3 DEF EmbedFits
<1> QED
  BY <1>1, <1>7, <1>8, <1>9 DEF Fits

LEMMA CreateBeliefFits ==
  ASSUME NEW p, p.payload.text \in Text, p.payload.status \in BeliefStatus
  PROVE  \E t : CreateBelief(p) = <<t>> /\ Fits(t, p.payload.text)
<1> DEFINE row == [text |-> p.payload.text, status |-> p.payload.status, version |-> 1,
                   supporting |-> p.evidence, contradicting |-> {}]
           t == Transition("beliefs", NextIdOf("beliefs"), None, row, TRUE)
<1>1. CreateBelief(p) = <<t>>
  BY DEF CreateBelief
<1>2. /\ DOMAIN row = {"text", "status", "version", "supporting", "contradicting"}
      /\ row.status = p.payload.status /\ row.text = p.payload.text /\ row.version = 1
  OBVIOUS
<1> HIDE DEF row
<1>3. /\ t.table = "beliefs" /\ t.id = NextIdOf("beliefs") /\ t.before = None /\ t.after = row
      /\ t.embed
  BY DEF Transition
<1> HIDE DEF t
<1>4. Creates(t)
  BY <1>2, <1>3 DEF Creates, Tables, Singletons
<1>5. RowFits(t.table, t.after)
  BY <1>2, <1>3 DEF RowFits, Singletons
<1>6. EmbedFits(t, p.payload.text) /\ EntityFits(t)
  BY <1>2, <1>3, EngineAssumption DEF EmbedFits, EntityFits
<1> QED
  BY <1>1, <1>4, <1>5, <1>6 DEF Fits

LEMMA UpdateBeliefFits ==
  ASSUME Shape(tables), NEW p, p.target \in IdsOf("beliefs"),
         p.payload.status \in BeliefStatus \cup {None}, NEW text
  PROVE  \E t : UpdateBelief(p) = <<t>> /\ Fits(t, text)
<1> DEFINE before == tables["beliefs"][p.target]
           row == [before EXCEPT
                     !.status = IF p.payload.status # None THEN p.payload.status ELSE @,
                     !.supporting = @ \cup p.payload.addSupporting,
                     !.contradicting = @ \cup p.payload.addContradicting,
                     !.version = NextVersion(before)]
           t == Transition("beliefs", p.target, before, row, FALSE)
<1>1. UpdateBelief(p) = <<t>>
  BY DEF UpdateBelief
<1>2. RowFits("beliefs", before)
  BY ShapeFacts DEF IdsOf, Tables
<1>3. /\ DOMAIN before = {"text", "status", "version", "supporting", "contradicting"}
      /\ before.status \in BeliefStatus
  BY <1>2 DEF RowFits
<1> HIDE DEF before
<1>4. /\ DOMAIN row = {"text", "status", "version", "supporting", "contradicting"}
      /\ row.text = before.text
      /\ row.status = IF p.payload.status # None THEN p.payload.status ELSE before.status
      /\ row.supporting = before.supporting \cup p.payload.addSupporting
      /\ row.contradicting = before.contradicting \cup p.payload.addContradicting
      /\ row.version = NextVersion(before)
  BY <1>3
<1> HIDE DEF row
<1>5. /\ t.table = "beliefs" /\ t.id = p.target /\ t.before = before /\ t.after = row
      /\ ~t.embed
  BY DEF Transition
<1> HIDE DEF t
<1>6. Updates(t)
  BY <1>4, <1>5 DEF Updates, Keeps, Versioned, Tables, before, NextVersion
<1>7. RowFits(t.table, t.after)
  BY <1>3, <1>4, <1>5 DEF RowFits, Singletons
<1>8. EmbedFits(t, text) /\ EntityFits(t)
  BY <1>4, <1>5, <1>6 DEF EmbedFits, EntityFits
<1> QED
  BY <1>1, <1>6, <1>7, <1>8 DEF Fits

LEMMA CreateGoalFits ==
  ASSUME NEW p, p.payload.status \in GoalStatus, NEW text
  PROVE  \E t : CreateGoal(p) = <<t>> /\ Fits(t, text)
<1> DEFINE row == [description |-> p.payload.description, status |-> p.payload.status,
                   evidence |-> p.evidence, version |-> 1]
           t == Transition("goals", NextIdOf("goals"), None, row, FALSE)
<1>1. CreateGoal(p) = <<t>>
  BY DEF CreateGoal
<1>2. /\ DOMAIN row = {"description", "status", "evidence", "version"}
      /\ row.status = p.payload.status /\ row.version = 1
  OBVIOUS
<1> HIDE DEF row
<1>3. /\ t.table = "goals" /\ t.id = NextIdOf("goals") /\ t.before = None /\ t.after = row
      /\ ~t.embed
  BY DEF Transition
<1> HIDE DEF t
<1>4. Creates(t)
  BY <1>2, <1>3 DEF Creates, Tables, Singletons
<1>5. RowFits(t.table, t.after)
  BY <1>2, <1>3 DEF RowFits, Singletons
<1>6. EmbedFits(t, text) /\ EntityFits(t)
  BY <1>3 DEF EmbedFits, EntityFits
<1> QED
  BY <1>1, <1>4, <1>5, <1>6 DEF Fits

LEMMA UpdateGoalFits ==
  ASSUME Shape(tables), NEW p, p.target \in IdsOf("goals"),
         p.payload.status \in GoalStatus \cup {None}, NEW text
  PROVE  \E t : UpdateGoal(p) = <<t>> /\ Fits(t, text)
<1> DEFINE before == tables["goals"][p.target]
           row == [before EXCEPT
                     !.status = IF p.payload.status # None THEN p.payload.status ELSE @,
                     !.evidence = Evidence(before, p),
                     !.version = NextVersion(before)]
           t == Transition("goals", p.target, before, row, FALSE)
<1>1. UpdateGoal(p) = <<t>>
  BY DEF UpdateGoal
<1>2. RowFits("goals", before)
  BY ShapeFacts DEF IdsOf, Tables
<1>3. /\ DOMAIN before = {"description", "status", "evidence", "version"}
      /\ before.status \in GoalStatus
  BY <1>2 DEF RowFits
<1> HIDE DEF before
<1>4. /\ DOMAIN row = {"description", "status", "evidence", "version"}
      /\ row.status = IF p.payload.status # None THEN p.payload.status ELSE before.status
      /\ row.evidence = Evidence(before, p)
      /\ row.version = NextVersion(before)
  BY <1>3
<1> HIDE DEF row
<1>5. /\ t.table = "goals" /\ t.id = p.target /\ t.before = before /\ t.after = row
      /\ ~t.embed
  BY DEF Transition
<1> HIDE DEF t
<1>6. Updates(t)
  BY <1>4, <1>5 DEF Updates, Keeps, Versioned, Tables, before, Evidence, NextVersion
<1>7. RowFits(t.table, t.after)
  BY <1>3, <1>4, <1>5 DEF RowFits, Singletons
<1>8. EmbedFits(t, text) /\ EntityFits(t)
  BY <1>5 DEF EmbedFits, EntityFits
<1> QED
  BY <1>1, <1>6, <1>7, <1>8 DEF Fits

LEMMA CreatePredictionFits ==
  ASSUME NEW p, NEW text
  PROVE  \E t : CreatePrediction(p) = <<t>> /\ Fits(t, text)
<1> DEFINE row == [verified |-> None, evidence |-> p.evidence, version |-> 1]
           t == Transition("predictions", NextIdOf("predictions"), None, row, FALSE)
<1>1. CreatePrediction(p) = <<t>>
  BY DEF CreatePrediction
<1>2. DOMAIN row = {"verified", "evidence", "version"} /\ row.version = 1
  OBVIOUS
<1> HIDE DEF row
<1>3. /\ t.table = "predictions" /\ t.id = NextIdOf("predictions") /\ t.before = None
      /\ t.after = row /\ ~t.embed
  BY DEF Transition
<1> HIDE DEF t
<1>4. Creates(t)
  BY <1>2, <1>3 DEF Creates, Tables, Singletons
<1>5. RowFits(t.table, t.after)
  BY <1>2, <1>3 DEF RowFits, Singletons
<1>6. EmbedFits(t, text) /\ EntityFits(t)
  BY <1>3 DEF EmbedFits, EntityFits
<1> QED
  BY <1>1, <1>4, <1>5, <1>6 DEF Fits

LEMMA VerifyPredictionFits ==
  ASSUME Shape(tables), NEW p, p.target \in IdsOf("predictions"), NEW text
  PROVE  \E t : VerifyPrediction(p) = <<t>> /\ Fits(t, text)
<1> DEFINE before == tables["predictions"][p.target]
           row == [before EXCEPT !.verified = p.payload.verified,
                                 !.evidence = Evidence(before, p),
                                 !.version = NextVersion(before)]
           t == Transition("predictions", p.target, before, row, FALSE)
<1>1. VerifyPrediction(p) = <<t>>
  BY DEF VerifyPrediction
<1>2. RowFits("predictions", before)
  BY ShapeFacts DEF IdsOf, Tables
<1>3. DOMAIN before = {"verified", "evidence", "version"}
  BY <1>2 DEF RowFits
<1> HIDE DEF before
<1>4. /\ DOMAIN row = {"verified", "evidence", "version"}
      /\ row.evidence = Evidence(before, p)
      /\ row.version = NextVersion(before)
  BY <1>3
<1> HIDE DEF row
<1>5. /\ t.table = "predictions" /\ t.id = p.target /\ t.before = before /\ t.after = row
      /\ ~t.embed
  BY DEF Transition
<1> HIDE DEF t
<1>6. Updates(t)
  BY <1>4, <1>5 DEF Updates, Keeps, Versioned, Tables, before, Evidence, NextVersion
<1>7. RowFits(t.table, t.after)
  BY <1>4, <1>5 DEF RowFits, Singletons
<1>8. EmbedFits(t, text) /\ EntityFits(t)
  BY <1>5 DEF EmbedFits, EntityFits
<1> QED
  BY <1>1, <1>6, <1>7, <1>8 DEF Fits

LEMMA PatchStateFits ==
  ASSUME Shape(tables), NEW table \in Singletons, NEW p, NEW text
  PROVE  \E t : PatchState(table, p) = <<t>> /\ Fits(t, text)
<1> DEFINE before == tables[table][1]
           row == [data |-> Overlaid(p.payload.patch, before.data), version |-> NextVersion(before)]
           t == Transition(table, 1, before, row, FALSE)
<1>1. PatchState(table, p) = <<t>>
  BY DEF PatchState
<1>2. 1 \in IdsOf(table)
  <2>1. table \in Tables /\ Len(tables[table]) = 1
    BY DEF Shape, Singletons, Tables
  <2>2. DOMAIN tables[table] = 1 .. 1
    BY <2>1, ShapeFacts
  <2> QED
    BY <2>2 DEF IdsOf
<1> DEFINE data == Overlaid(p.payload.patch, before.data)
<1> HIDE DEF data, before
<1>3. DOMAIN row = {"data", "version"} /\ row.version = NextVersion(before)
  OBVIOUS
<1> HIDE DEF row
<1>4. t.table = table /\ t.id = 1 /\ t.before = before /\ t.after = row /\ ~t.embed
  BY DEF Transition
<1> HIDE DEF t
<1>5. Updates(t)
  BY <1>2, <1>3, <1>4 DEF Updates, Keeps, Versioned, Tables, Singletons, before, NextVersion
<1>6. RowFits(t.table, t.after)
  BY <1>3, <1>4 DEF RowFits, Singletons
<1>7. EmbedFits(t, text) /\ EntityFits(t)
  BY <1>4 DEF EmbedFits, EntityFits, Singletons
<1> QED
  BY <1>1, <1>5, <1>6, <1>7 DEF Fits

-----------------------------------------------------------------------------
(* Look-ups, and the operations that need them.                            *)

LEMMA MinIn ==
  ASSUME NEW T \in SUBSET Nat, T # {}
  PROVE  Min(T) \in T /\ \A m \in T : Min(T) <= m
<1>1. \E n \in T : \A m \in T : n <= m
  BY OverWrites!Least
<1> QED
  BY <1>1 DEF Min

LEMMA NearestIs ==
  ASSUME Shape(tables), NEW table \in Tables, NEW text, NEW statuses,
         Nearest(table, text, statuses) # None
  PROVE  /\ Nearest(table, text, statuses) \in IdsOf(table)
         /\ tables[table][Nearest(table, text, statuses)].status \in statuses
<1> DEFINE hits == {i \in IdsOf(table) : /\ tables[table][i].status \in statuses
                                         /\ <<table, i>> \in DOMAIN vectors
                                         /\ vectors[<<table, i>>] = text}
<1>1. hits # {} /\ Nearest(table, text, statuses) = Min(hits)
  BY DEF Nearest
<1>2. hits \in SUBSET Nat
  BY ShapeFacts DEF IdsOf
<1>3. Min(hits) \in hits
  BY <1>1, <1>2, MinIn
<1> QED
  BY <1>1, <1>3

LEMMA FindEntityIs ==
  ASSUME Shape(tables), NEW name, NEW kind
  PROVE  /\ FindEntity(name, kind) # None => FindEntity(name, kind) \in IdsOf("entities")
         /\ FindEntity(name, kind) = None =>
              \A i \in IdsOf("entities") :
                ~(tables["entities"][i].name = name
                  /\ (kind = None \/ tables["entities"][i].kind = kind))
<1> DEFINE hits == {i \in IdsOf("entities") :
                      /\ tables["entities"][i].name = name
                      /\ kind = None \/ tables["entities"][i].kind = kind}
<1>1. FindEntity(name, kind) = IF hits = {} THEN None ELSE Min(hits)
  BY DEF FindEntity
<1>2. hits \in SUBSET Nat
  BY ShapeFacts DEF IdsOf, Tables
<1>3. hits # {} => Min(hits) \in hits
  BY <1>2, MinIn
<1>4. hits # {} => Min(hits) # None
  BY <1>2, <1>3, EngineAssumption
<1> QED
  BY <1>1, <1>3, <1>4

LEMMA UpsertEntityFits ==
  ASSUME Shape(tables), NEW p, NEW text
  PROVE  \E t : UpsertEntity(p) = <<t>> /\ Fits(t, text)
<1> DEFINE found == FindEntity(p.payload.name, p.payload.kind)
<1>1. CASE found = None
  <2> DEFINE row == [name |-> p.payload.name, kind |-> p.payload.kind, evidence |-> p.evidence,
                     version |-> 1]
             t == Transition("entities", NextIdOf("entities"), None, row, FALSE)
  <2>1. UpsertEntity(p) = <<t>>
    BY <1>1 DEF UpsertEntity
  <2>2. /\ DOMAIN row = {"name", "kind", "evidence", "version"} /\ row.version = 1
        /\ row.name = p.payload.name /\ row.kind = p.payload.kind
    OBVIOUS
  <2>3. \A i \in IdsOf("entities") :
          ~(tables["entities"][i].name = p.payload.name /\ tables["entities"][i].kind = p.payload.kind)
    BY <1>1, FindEntityIs
  <2> HIDE DEF row, found
  <2>4. /\ t.table = "entities" /\ t.id = NextIdOf("entities") /\ t.before = None /\ t.after = row
        /\ ~t.embed
    BY DEF Transition
  <2> HIDE DEF t
  <2>5. Creates(t)
    BY <2>2, <2>4 DEF Creates, Tables, Singletons
  <2>6. RowFits(t.table, t.after)
    BY <2>2, <2>4 DEF RowFits, Singletons
  <2>7. EmbedFits(t, text) /\ EntityFits(t)
    BY <2>2, <2>3, <2>4, <2>5 DEF EmbedFits, EntityFits
  <2> QED
    BY <2>1, <2>5, <2>6, <2>7 DEF Fits
<1>2. CASE found # None
  <2> DEFINE before == tables["entities"][found]
             row == [before EXCEPT !.evidence = Evidence(before, p),
                                   !.version = NextVersion(before)]
             t == Transition("entities", found, before, row, FALSE)
  <2>1. UpsertEntity(p) = <<t>>
    BY <1>2 DEF UpsertEntity
  <2>2. found \in IdsOf("entities")
    BY <1>2, FindEntityIs
  <2> HIDE DEF found
  <2>3. RowFits("entities", before)
    BY <2>2, ShapeFacts DEF IdsOf, Tables
  <2>4. DOMAIN before = {"name", "kind", "evidence", "version"}
    BY <2>3 DEF RowFits
  <2> HIDE DEF before
  <2>5. /\ DOMAIN row = {"name", "kind", "evidence", "version"}
        /\ row.name = before.name /\ row.kind = before.kind
        /\ row.evidence = Evidence(before, p) /\ row.version = NextVersion(before)
    BY <2>4
  <2> HIDE DEF row
  <2>6. /\ t.table = "entities" /\ t.id = found /\ t.before = before /\ t.after = row
        /\ ~t.embed
    BY DEF Transition
  <2> HIDE DEF t
  <2>7. Updates(t)
    BY <2>2, <2>5, <2>6 DEF Updates, Keeps, Versioned, Tables, before, Evidence, NextVersion
  <2>8. RowFits(t.table, t.after)
    BY <2>5, <2>6 DEF RowFits, Singletons
  <2>9. EmbedFits(t, text) /\ EntityFits(t)
    BY <2>5, <2>6, <2>7 DEF EmbedFits, EntityFits
  <2> QED
    BY <2>1, <2>7, <2>8, <2>9 DEF Fits
<1> QED
  BY <1>1, <1>2

LEMMA AddRelationshipFits ==
  ASSUME Shape(tables), NEW p, KnowsBoth(p), NEW text
  PROVE  \E t : AddRelationship(p) = <<t>> /\ Fits(t, text)
<1> DEFINE src == FindEntity(p.payload.src, None)
           dst == FindEntity(p.payload.dst, None)
           row == [src |-> src, dst |-> dst, evidence |-> p.evidence]
           t == Transition("entity_relationships", NextIdOf("entity_relationships"), None, row, FALSE)
<1>1. AddRelationship(p) = <<t>>
  BY DEF AddRelationship
<1>2. src \in IdsOf("entities") /\ dst \in IdsOf("entities")
  BY FindEntityIs DEF KnowsBoth
<1> HIDE DEF src, dst
<1>3. row.src = src /\ row.dst = dst
  OBVIOUS
<1> HIDE DEF row
<1>4. /\ t.table = "entity_relationships" /\ t.id = NextIdOf("entity_relationships")
      /\ t.before = None /\ t.after = row /\ ~t.embed
  BY DEF Transition
<1> HIDE DEF t
<1>5. Creates(t)
  BY <1>4 DEF Creates, Tables, Singletons, Versioned
<1>6. RowFits(t.table, t.after)
  BY <1>4 DEF RowFits, Singletons
<1>7. EmbedFits(t, text) /\ EntityFits(t)
  BY <1>2, <1>3, <1>4 DEF EmbedFits, EntityFits
<1> QED
  BY <1>1, <1>5, <1>6, <1>7 DEF Fits

\* A merge creates one memory and replaces each of those it names.
LEMMA MergeIs ==
  ASSUME NEW p, p.payload.sources \in Seq(Nat)
  PROVE  /\ IsSeq(MergeMemories(p)) /\ DOMAIN MergeMemories(p) = 1 .. Len(p.payload.sources) + 1
         /\ MergeMemories(p)[1]
              = Transition("memories", NextIdOf("memories"), None, MergedRow(p), TRUE)
         /\ \A i \in 2 .. Len(p.payload.sources) + 1 :
              /\ i - 1 \in DOMAIN p.payload.sources
              /\ MergeMemories(p)[i] = ReplacedBy(NextIdOf("memories"), p.payload.sources[i - 1])
<1> DEFINE ids == p.payload.sources
           n == Len(ids)
           new == NextIdOf("memories")
           first == Transition("memories", new, None, MergedRow(p), TRUE)
           others == [i \in DOMAIN ids |-> ReplacedBy(new, ids[i])]
           ts == <<first>> \o others
           A == {first} \cup {others[i] : i \in DOMAIN ids}
<1>1. MergeMemories(p) = ts
  BY DEF MergeMemories
<1>2. n \in Nat /\ DOMAIN ids = 1 .. n
  OBVIOUS
<1>3. <<first>> \in Seq(A) /\ others \in Seq(A) /\ Len(others) = n
  <2>1. \A i \in 1 .. n : others[i] \in A
    BY <1>2
  <2>2. others \in [1 .. n -> A]
    BY <1>2, <2>1
  <2> HIDE DEF A, others
  <2>3. first \in A
    BY DEF A
  <2> HIDE DEF first, ids
  <2> QED
    BY <1>2, <2>2, <2>3
<1>4. /\ ts \in Seq(A) /\ Len(ts) = n + 1 /\ DOMAIN ts = 1 .. n + 1 /\ ts[1] = first
      /\ \A i \in 2 .. n + 1 : ts[i] = others[i - 1]
  <2> HIDE DEF A, others, first, ids
  <2> QED
    BY <1>2, <1>3
<1>5. \A i \in 2 .. n + 1 : /\ i - 1 \in DOMAIN ids
                            /\ ts[i] = ReplacedBy(new, ids[i - 1])
  <2>1. \A i \in 2 .. n + 1 : i - 1 \in 1 .. n
    BY <1>2
  <2> QED
    BY <1>2, <1>4, <2>1
<1> HIDE DEF A, others, first, ids, new
<1>6. IsSeq(ts)
  BY <1>4 DEF IsSeq
<1> QED
  BY <1>1, <1>4, <1>5, <1>6 DEF first, ids, new

\* A merge creates one memory and deprecates those it names.
LEMMA MergeFits ==
  ASSUME Shape(tables), NEW p, p.payload.text \in Text, p.payload.sources \in Seq(Nat),
         IsInjective(p.payload.sources),
         \A i \in DOMAIN p.payload.sources : p.payload.sources[i] \in IdsOf("memories")
  PROVE  /\ IsSeq(MergeMemories(p)) /\ Steps(MergeMemories(p), p.payload.text)
         /\ MergeMemories(p) # <<>>
<1> DEFINE ids == p.payload.sources
           n == Len(ids)
           new == NextIdOf("memories")
           first == Transition("memories", new, None, MergedRow(p), TRUE)
           ts == MergeMemories(p)
<1>1. n \in Nat /\ DOMAIN ids = 1 .. n
  OBVIOUS
<1>2. IdsOf("memories") \subseteq Nat /\ new \notin IdsOf("memories")
  BY ShapeFacts DEF IdsOf, NextIdOf, Tables
<1>3. Fits(first, p.payload.text) /\ KeyOf(first) = <<"memories", new>>
  <2> DEFINE row == MergedRow(p)
  <2>1. /\ DOMAIN row = {"text", "kind", "status", "version", "sources", "evidence", "accesses"}
        /\ row.status = "consolidated" /\ row.text = p.payload.text /\ row.version = 1
    BY DEF MergedRow
  <2> HIDE DEF row
  <2>2. /\ first.table = "memories" /\ first.id = new /\ first.before = None /\ first.after = row
        /\ first.embed
    BY DEF Transition, row
  <2> HIDE DEF first
  <2>3. Creates(first)
    BY <2>1, <2>2 DEF Creates, Tables, Singletons
  <2>4. RowFits(first.table, first.after)
    BY <2>1, <2>2 DEF RowFits, Singletons, MemoryStatus, LiveMemory
  <2>5. EmbedFits(first, p.payload.text) /\ EntityFits(first)
    BY <2>1, <2>2, EngineAssumption DEF EmbedFits, EntityFits
  <2> QED
    BY <2>2, <2>3, <2>4, <2>5 DEF Fits, KeyOf
<1>4. ASSUME NEW id \in IdsOf("memories")
      PROVE  Fits(ReplacedBy(new, id), p.payload.text) /\ KeyOf(ReplacedBy(new, id)) = <<"memories", id>>
  <2> DEFINE before == tables["memories"][id]
             row == [before EXCEPT !.status = "deprecated", !.version = NextVersion(before),
                                   !.evidence = @ \cup {<<"memories", new>>}]
             t == Transition("memories", id, before, row, FALSE)
  <2>1. ReplacedBy(new, id) = t
    BY DEF ReplacedBy
  <2>2. RowFits("memories", before)
    BY ShapeFacts DEF IdsOf, Tables
  <2>3. DOMAIN before = {"text", "kind", "status", "version", "sources", "evidence", "accesses"}
    BY <2>2 DEF RowFits
  <2> HIDE DEF before
  <2>4. /\ DOMAIN row = {"text", "kind", "status", "version", "sources", "evidence", "accesses"}
        /\ row.text = before.text /\ row.status = "deprecated" /\ row.sources = before.sources
        /\ row.evidence = before.evidence \cup {<<"memories", new>>}
        /\ row.version = NextVersion(before)
    BY <2>3
  <2> HIDE DEF row
  <2>5. t.table = "memories" /\ t.id = id /\ t.before = before /\ t.after = row /\ ~t.embed
    BY DEF Transition
  <2> HIDE DEF t
  <2>6. Updates(t)
    BY <2>4, <2>5 DEF Updates, Keeps, Versioned, Tables, before, NextVersion
  <2>7. RowFits(t.table, t.after)
    BY <2>4, <2>5 DEF RowFits, Singletons, MemoryStatus, TerminalMemory
  <2>8. EmbedFits(t, p.payload.text) /\ EntityFits(t)
    BY <2>4, <2>5, <2>6 DEF EmbedFits, EntityFits
  <2> QED
    BY <2>1, <2>5, <2>6, <2>7, <2>8 DEF Fits, KeyOf
<1>5. /\ IsSeq(ts) /\ DOMAIN ts = 1 .. n + 1 /\ ts[1] = first
      /\ \A i \in 2 .. n + 1 : i - 1 \in DOMAIN ids /\ ts[i] = ReplacedBy(new, ids[i - 1])
  BY MergeIs
<1> HIDE DEF ts, first, ids, n, new
<1>6. \A i \in 2 .. n + 1 : /\ ids[i - 1] \in IdsOf("memories") /\ i - 1 \in DOMAIN ids
                            /\ ts[i] = ReplacedBy(new, ids[i - 1])
  BY <1>5 DEF ids
<1>7. \A i \in 1 .. n + 1 : i = 1 \/ i \in 2 .. n + 1
  BY <1>1
<1>8. \A i \in 2 .. n + 1 : KeyOf(ts[i]) = <<"memories", ids[i - 1]>> /\ Fits(ts[i], p.payload.text)
  BY <1>4, <1>6
<1>9. \A i \in DOMAIN ts : Fits(ts[i], p.payload.text)
  BY <1>3, <1>5, <1>7, <1>8
<1>10. ASSUME NEW i \in DOMAIN ts, NEW j \in DOMAIN ts, KeyOf(ts[i]) = KeyOf(ts[j])
       PROVE  i = j
  <2>1. CASE i = 1 /\ j = 1
    BY <2>1
  <2>2. CASE i \in 2 .. n + 1 /\ j \in 2 .. n + 1
    <3>1. ids[i - 1] = ids[j - 1]
      BY <1>8, <1>10, <2>2
    <3>2. i - 1 = j - 1
      BY <1>6, <2>2, <3>1 DEF IsInjective, ids
    <3> QED
      BY <2>2, <3>2, <1>1
  <2>3. CASE i = 1 /\ j \in 2 .. n + 1
    BY <1>2, <1>3, <1>5, <1>6, <1>8, <1>10, <2>3
  <2>4. CASE i \in 2 .. n + 1 /\ j = 1
    BY <1>2, <1>3, <1>5, <1>6, <1>8, <1>10, <2>4
  <2> QED
    BY <1>5, <1>7, <2>1, <2>2, <2>3, <2>4
<1>11. IsSeq(ts)
  BY <1>5 DEF IsSeq
<1>12. ts # <<>>
  <2>1. 1 \in DOMAIN ts
    BY <1>1, <1>5
  <2> QED
    BY <1>11, <2>1, SeqFacts
<1> QED
  BY <1>9, <1>10, <1>11, <1>12 DEF Steps, ts

\* Whatever apply_op returns is either nothing or fits.
Fitting(ts, text) == IsSeq(ts) /\ Steps(ts, text)

LEMMA ApplyFits ==
  ASSUME Shape(tables), NEW p, Parses(p),
         p.operation = "merge_memories" => IsInjective(p.payload.sources),
         NEW text, p.operation \in Embedded /\ p.payload.text # None => text = p.payload.text
  PROVE  Fitting(Apply(p), text)
<1> USE DEF Fitting
<1>1. \A t : Fits(t, text) => Fitting(<<t>>, text)
  BY OneFits
<1>2. Fitting(<<>>, text)
  BY NothingFits
<1>3. p.operation \in Operations
  BY DEF Parses
<1> HIDE DEF Fitting
<1>4. CASE p.operation = "create_memory"
  <2>1. Apply(p) = CreateMemory(p)
    BY <1>4 DEF Apply
  <2>2. p.payload.text \in Text /\ p.payload.status \in MemoryStatus /\ text = p.payload.text
    BY <1>4, EngineAssumption DEF Parses, Embedded
  <2> QED
    BY <1>1, <1>2, <2>1, <2>2, CreateMemoryFits
<1>5. CASE p.operation = "update_memory"
  <2>1. \/ Apply(p) = <<>>
        \/ Apply(p) = UpdateMemory(p) /\ p.target \in IdsOf("memories")
    BY <1>5 DEF Apply, Loads
  <2>2. /\ p.payload.text \in Text \cup {None} /\ p.payload.status \in MemoryStatus \cup {None}
        /\ p.payload.text # None => text = p.payload.text
    BY <1>5 DEF Parses, Embedded
  <2> QED
    BY <1>1, <1>2, <2>1, <2>2, UpdateMemoryFits
<1>6. CASE p.operation = "create_belief"
  <2>1. Apply(p) = CreateBelief(p)
    BY <1>6 DEF Apply
  <2>2. p.payload.text \in Text /\ p.payload.status \in BeliefStatus /\ text = p.payload.text
    BY <1>6, EngineAssumption DEF Parses, Embedded
  <2> QED
    BY <1>1, <1>2, <2>1, <2>2, CreateBeliefFits
<1>7. CASE p.operation = "update_belief"
  <2>1. \/ Apply(p) = <<>>
        \/ Apply(p) = UpdateBelief(p) /\ p.target \in IdsOf("beliefs")
    BY <1>7 DEF Apply, Loads
  <2>2. p.payload.status \in BeliefStatus \cup {None}
    BY <1>7 DEF Parses
  <2> QED
    BY <1>1, <1>2, <2>1, <2>2, UpdateBeliefFits
<1>8. CASE p.operation = "create_goal"
  <2>1. \/ Apply(p) = <<>>
        \/ Apply(p) = CreateGoal(p) /\ ~DuplicateGoal(p)
    BY <1>8 DEF Apply
  <2>2. p.payload.status \in GoalStatus
    BY <1>8 DEF Parses
  <2> QED
    BY <1>1, <1>2, <2>1, <2>2, CreateGoalFits
<1>9. CASE p.operation = "update_goal"
  <2>1. \/ Apply(p) = <<>>
        \/ Apply(p) = UpdateGoal(p) /\ p.target \in IdsOf("goals")
    BY <1>9 DEF Apply, Loads
  <2>2. p.payload.status \in GoalStatus \cup {None}
    BY <1>9 DEF Parses
  <2> QED
    BY <1>1, <1>2, <2>1, <2>2, UpdateGoalFits
<1>10. CASE p.operation = "create_prediction"
  <2>1. Apply(p) = CreatePrediction(p)
    BY <1>10 DEF Apply
  <2> QED
    BY <1>1, <1>2, <2>1, CreatePredictionFits
<1>11. CASE p.operation = "verify_prediction"
  <2>1. \/ Apply(p) = <<>>
        \/ Apply(p) = VerifyPrediction(p) /\ p.target \in IdsOf("predictions")
    BY <1>11 DEF Apply, Loads
  <2> QED
    BY <1>1, <1>2, <2>1, VerifyPredictionFits
<1>12. CASE p.operation = "upsert_entity"
  <2>1. Apply(p) = UpsertEntity(p)
    BY <1>12 DEF Apply
  <2> QED
    BY <1>1, <1>2, <2>1, UpsertEntityFits
<1>13. CASE p.operation = "add_relationship"
  <2>1. \/ Apply(p) = <<>>
        \/ Apply(p) = AddRelationship(p) /\ KnowsBoth(p)
    BY <1>13 DEF Apply
  <2> QED
    BY <1>1, <1>2, <2>1, AddRelationshipFits
<1>14. CASE p.operation = "merge_memories"
  <2>1. \/ Apply(p) = <<>>
        \/ /\ Apply(p) = MergeMemories(p)
           /\ \A i \in DOMAIN p.payload.sources : p.payload.sources[i] \in IdsOf("memories")
    BY <1>14 DEF Apply, Loads
  <2>2. /\ p.payload.text \in Text /\ p.payload.sources \in Seq(Nat) /\ text = p.payload.text
        /\ IsInjective(p.payload.sources)
    BY <1>14, EngineAssumption DEF Parses, Embedded
  <2> QED
    BY <1>2, <2>1, <2>2, MergeFits DEF Fitting
<1>15. CASE p.operation = "set_working_state"
  <2>1. Apply(p) = <<>> \/ Apply(p) = PatchState("working_state", p)
    BY <1>15 DEF Apply
  <2> QED
    BY <1>1, <1>2, <2>1, PatchStateFits DEF Singletons
<1>16. CASE p.operation = "update_self_state"
  <2>1. Apply(p) = <<>> \/ Apply(p) = PatchState("self_state", p)
    BY <1>16 DEF Apply
  <2> QED
    BY <1>1, <1>2, <2>1, PatchStateFits DEF Singletons
<1> QED
  BY <1>3, <1>4, <1>5, <1>6, <1>7, <1>8, <1>9, <1>10, <1>11, <1>12, <1>13, <1>14, <1>15, <1>16 DEF Operations, Embedded

LEMMA FoldTargetIs ==
  ASSUME Shape(tables), NEW p, FoldTarget(p) # None
  PROVE  \/ /\ p.operation = "create_memory" /\ FoldTarget(p) \in IdsOf("memories")
            /\ tables["memories"][FoldTarget(p)].status \in LiveMemory
         \/ /\ p.operation = "create_belief" /\ FoldTarget(p) \in IdsOf("beliefs")
            /\ tables["beliefs"][FoldTarget(p)].status \in LiveBelief
<1>1. CASE p.operation = "create_memory"
  <2>1. FoldTarget(p) = Nearest("memories", p.payload.text, LiveMemory)
    BY <1>1 DEF FoldTarget
  <2> QED
    BY <1>1, <2>1, NearestIs DEF Tables
<1>2. CASE p.operation = "create_belief"
  <2>1. FoldTarget(p) = Nearest("beliefs", p.payload.text, LiveBelief)
    BY <1>2 DEF FoldTarget
  <2> QED
    BY <1>2, <2>1, NearestIs DEF Tables
<1>3. p.operation = "create_memory" \/ p.operation = "create_belief"
  BY DEF FoldTarget
<1> QED
  BY <1>1, <1>2, <1>3

\* A near-duplicate becomes an update of a row there is, without a text.
LEMMA FoldedIs ==
  ASSUME Shape(tables), NEW p, Folds(p)
  PROVE  /\ Parses(Folded(p)) /\ Folded(p).operation \in {"update_memory", "update_belief"}
         /\ Folded(p).operation = "update_memory" => Folded(p).payload.text = None
<1>1. FoldTarget(p) # None
  BY DEF Folds
<1>2. p.operation = "create_memory" \/ p.operation = "create_belief"
  BY <1>1, FoldTargetIs
<1>3. CASE p.operation = "create_memory"
  <2>1. /\ Folded(p).operation = "update_memory" /\ Folded(p).payload.text = None
        /\ Folded(p).payload.status = None
    BY <1>3 DEF Folded, Propose
  <2> QED
    BY <2>1 DEF Parses, Operations, Embedded
<1>4. CASE p.operation = "create_belief"
  <2>1. Folded(p).operation = "update_belief" /\ Folded(p).payload.status = None
    BY <1>4 DEF Folded, Propose
  <2> QED
    BY <2>1 DEF Parses, Operations, Embedded
<1> QED
  BY <1>2, <1>3, <1>4

LEMMA CommitFits ==
  ASSUME Shape(tables), NEW p, p.operation = "merge_memories" => IsInjective(p.payload.sources)
  PROVE  Fitting(TransitionsOf(p), EmbedText(p, Folds(p)))
<1> DEFINE text == EmbedText(p, Folds(p))
<1>1. CASE ~Valid(p)
  <2>1. TransitionsOf(p) = <<>>
    BY <1>1 DEF TransitionsOf
  <2> QED
    BY <2>1, NothingFits DEF Fitting
<1>2. CASE Valid(p) /\ Folds(p)
  <2>1. TransitionsOf(p) = Apply(Folded(p))
    BY <1>2 DEF TransitionsOf
  <2> DEFINE q == Folded(p)
  <2>2. /\ Parses(q) /\ q.operation \in {"update_memory", "update_belief"}
        /\ q.operation = "update_memory" => q.payload.text = None
    BY <1>2, FoldedIs
  <2> HIDE DEF q, text
  <2>3. q.operation # "merge_memories"
    BY <2>2
  <2>4. ~(q.operation \in Embedded /\ q.payload.text # None)
    BY <2>2 DEF Embedded
  <2>5. Fitting(Apply(q), text)
    BY <2>2, <2>3, <2>4, ApplyFits
  <2> QED
    BY <2>1, <2>5 DEF q, text
<1>3. CASE Valid(p) /\ ~Folds(p)
  <2>1. TransitionsOf(p) = Apply(p) /\ Parses(p)
    BY <1>3 DEF TransitionsOf, Valid
  <2>2. p.operation \in Embedded => text = p.payload.text
    BY <1>3 DEF EmbedText
  <2>3. Fitting(Apply(p), text)
    BY <2>1, <2>2, ApplyFits
  <2> QED
    BY <2>1, <2>3
<1> QED
  BY <1>1, <1>2, <1>3

-----------------------------------------------------------------------------
(* A commit keeps the invariant.                                           *)

\* A row that one of the transitions ts wrote, and one that none did.
WrittenBy(ts, text, table, id, row) ==
  \E i \in DOMAIN ts : /\ KeyOf(ts[i]) = <<table, id>> /\ Fits(ts[i], text)
                       /\ ts[i].table = table /\ ts[i].id = id /\ row = ts[i].after

Untouched(ts, table, id, row) ==
  /\ <<table, id>> \notin KeysOf(ts, DOMAIN ts)
  /\ id \in IdsOf(table) /\ row = tables[table][id]

LEMMA RowOf ==
  ASSUME Shape(tables), NEW db, Shape(db), NEW ts, OnlyKeys(db, ts), NEW text, Steps(ts, text),
         NEW table \in Tables, NEW id \in DOMAIN db[table]
  PROVE  WrittenBy(ts, text, table, id, db[table][id]) \/ Untouched(ts, table, id, db[table][id])
<1>1. id \in Nat
  BY ShapeFacts
<1>2. CASE <<table, id>> \in KeysOf(ts, DOMAIN ts)
  <2>1. PICK i \in DOMAIN ts : KeyOf(ts[i]) = <<table, id>>
    BY <1>2 DEF KeysOf
  <2>2. ts[i].table = table /\ ts[i].id = id
    BY <2>1 DEF KeyOf
  <2>3. db[table][id] = ts[i].after /\ Fits(ts[i], text)
    BY <2>2 DEF OnlyKeys, Steps
  <2> QED
    BY <2>1, <2>2, <2>3 DEF WrittenBy
<1>3. CASE <<table, id>> \notin KeysOf(ts, DOMAIN ts)
  BY <1>1, <1>3 DEF OnlyKeys, Untouched
<1> QED
  BY <1>2, <1>3

\* The vectors after a commit.
VectorsAfter(ts, text) ==
  IF text = None THEN vectors ELSE Overlaid([k \in KeysOf(ts, Embeds(ts)) |-> text], vectors)

LEMMA VectorsAfterIs ==
  ASSUME NEW ts, NEW text, Steps(ts, text)
  PROVE  /\ \A k \in DOMAIN VectorsAfter(ts, text) : k \in DOMAIN vectors \/ k \in KeysOf(ts, Embeds(ts))
         /\ \A k \in KeysOf(ts, Embeds(ts)) :
              k \in DOMAIN VectorsAfter(ts, text) /\ VectorsAfter(ts, text)[k] = text
         /\ \A k \in DOMAIN vectors \ KeysOf(ts, Embeds(ts)) :
              k \in DOMAIN VectorsAfter(ts, text) /\ VectorsAfter(ts, text)[k] = vectors[k]
<1> DEFINE K == KeysOf(ts, Embeds(ts))
<1>1. CASE text = None
  <2>1. \A i \in DOMAIN ts : ~ts[i].embed
    BY <1>1 DEF Steps, Fits, EmbedFits
  <2>2. K = {}
    BY <2>1 DEF KeysOf, Embeds
  <2> HIDE DEF K
  <2> QED
    BY <1>1, <2>2 DEF VectorsAfter, K
<1>2. CASE text # None
  <2> HIDE DEF K
  <2>1. VectorsAfter(ts, text) = Overlaid([k \in K |-> text], vectors)
    BY <1>2 DEF VectorsAfter, K
  <2>2. /\ DOMAIN VectorsAfter(ts, text) = K \cup DOMAIN vectors
        /\ \A k \in K : VectorsAfter(ts, text)[k] = text
        /\ \A k \in DOMAIN vectors \ K : VectorsAfter(ts, text)[k] = vectors[k]
    BY <2>1 DEF Overlaid
  <2> QED
    BY <2>2 DEF K
<1> QED
  BY <1>1, <1>2

\* Each row of db is found by the vector in vs of the text it has.
Found(db, vs) ==
  /\ \A k \in DOMAIN vs : k[1] \in Tables /\ k[2] \in DOMAIN db[k[1]]
  /\ \A table \in {"memories", "beliefs"} : \A id \in DOMAIN db[table] :
       <<table, id>> \in DOMAIN vs /\ vs[<<table, id>>] = db[table][id].text

LEMMA FoundAfter ==
  ASSUME Shape(tables), VectorsInv, NEW db, Shape(db), NEW ts, OnlyKeys(db, ts),
         NEW text, Steps(ts, text)
  PROVE  Found(db, VectorsAfter(ts, text))
<1> DEFINE K == KeysOf(ts, Embeds(ts))
           vs == VectorsAfter(ts, text)
<1>1. /\ \A k \in DOMAIN vs : k \in DOMAIN vectors \/ k \in K
      /\ \A k \in K : k \in DOMAIN vs /\ vs[k] = text
      /\ \A k \in DOMAIN vectors \ K : k \in DOMAIN vs /\ vs[k] = vectors[k]
  BY VectorsAfterIs
<1> HIDE DEF vs
<1>2. ASSUME NEW k \in DOMAIN vs
      PROVE  k[1] \in Tables /\ k[2] \in DOMAIN db[k[1]]
  <2>1. CASE k \in K
    <3>1. PICK i \in DOMAIN ts : k = <<ts[i].table, ts[i].id>>
      BY <2>1 DEF KeysOf, Embeds, KeyOf
    <3>2. ts[i].table \in Tables
      BY DEF Steps, Fits, Creates, Updates, Versioned
    <3> QED
      BY <3>1, <3>2 DEF OnlyKeys
  <2>2. CASE k \in DOMAIN vectors
    BY <2>2 DEF VectorsInv, OnlyKeys
  <2> QED
    BY <1>1, <2>1, <2>2
<1>3. ASSUME NEW table \in {"memories", "beliefs"}, NEW id \in DOMAIN db[table]
      PROVE  <<table, id>> \in DOMAIN vs /\ vs[<<table, id>>] = db[table][id].text
  <2>1. table \in Tables
    BY DEF Tables
  <2>2. id \in IdsOf(table) =>
          /\ <<table, id>> \in DOMAIN vectors /\ vectors[<<table, id>>] = tables[table][id].text
    BY DEF VectorsInv, VectorsMatchText
  <2>3. CASE Untouched(ts, table, id, db[table][id])
    <3>1. <<table, id>> \notin K
      BY <2>3 DEF Untouched, KeysOf, Embeds
    <3> QED
      BY <1>1, <2>2, <2>3, <3>1 DEF Untouched
  <2>4. ASSUME NEW i \in DOMAIN ts, KeyOf(ts[i]) = <<table, id>>, Fits(ts[i], text),
               ts[i].table = table, ts[i].id = id, db[table][id] = ts[i].after
        PROVE  <<table, id>> \in DOMAIN vs /\ vs[<<table, id>>] = db[table][id].text
    <3>1. CASE ts[i].embed
      <4>1. KeyOf(ts[i]) \in K
        BY <3>1 DEF KeysOf, Embeds
      <4>2. ts[i].after.text = text
        BY <2>4, <3>1 DEF Fits, EmbedFits
      <4> QED
        BY <1>1, <2>4, <4>1, <4>2
    <3>2. CASE ~ts[i].embed
      <4>1. KeyOf(ts[i]) \notin K
        <5>1. \A j \in DOMAIN ts : KeyOf(ts[j]) = KeyOf(ts[i]) => ~ts[j].embed
          BY <3>2 DEF Steps
        <5> QED
          BY <5>1 DEF KeysOf, Embeds
      <4>2. Updates(ts[i]) /\ ts[i].after.text = ts[i].before.text
        BY <2>4, <3>2 DEF Fits, EmbedFits
      <4>3. id \in IdsOf(table) /\ ts[i].before = tables[table][id]
        BY <2>4, <4>2 DEF Updates
      <4> QED
        BY <1>1, <2>2, <2>4, <4>1, <4>2, <4>3
    <3> QED
      BY <3>1, <3>2
  <2> QED
    BY <2>1, <2>3, <2>4, RowOf DEF WrittenBy
<1> QED
  BY <1>2, <1>3 DEF Found, vs

\* Entities of db are known by one row each, and relationships are between them.
Resolved(db) ==
  /\ \A i, j \in DOMAIN db["entities"] :
       /\ db["entities"][i].name = db["entities"][j].name
       /\ db["entities"][i].kind = db["entities"][j].kind
       => i = j
  /\ \A i \in DOMAIN db["entity_relationships"] :
       /\ db["entity_relationships"][i].src \in DOMAIN db["entities"]
       /\ db["entity_relationships"][i].dst \in DOMAIN db["entities"]

\* An entity of db, as it was, or as the one that was created.
LEMMA EntityIs ==
  ASSUME Shape(tables), NEW db, Shape(db), NEW ts, OnlyKeys(db, ts), NEW text, Steps(ts, text),
         NEW id \in DOMAIN db["entities"]
  PROVE  \/ /\ id \in IdsOf("entities")
            /\ db["entities"][id].name = tables["entities"][id].name
            /\ db["entities"][id].kind = tables["entities"][id].kind
         \/ /\ id = NextIdOf("entities")
            /\ \A i \in IdsOf("entities") :
                 ~(tables["entities"][i].name = db["entities"][id].name
                   /\ tables["entities"][i].kind = db["entities"][id].kind)
<1>1. "entities" \in Tables
  BY DEF Tables
<1>2. ASSUME NEW i \in DOMAIN ts, Fits(ts[i], text), ts[i].table = "entities", ts[i].id = id,
             db["entities"][id] = ts[i].after
      PROVE  \/ /\ id \in IdsOf("entities")
                /\ db["entities"][id].name = tables["entities"][id].name
                /\ db["entities"][id].kind = tables["entities"][id].kind
             \/ /\ id = NextIdOf("entities")
                /\ \A k \in IdsOf("entities") :
                     ~(tables["entities"][k].name = db["entities"][id].name
                       /\ tables["entities"][k].kind = db["entities"][id].kind)
  BY <1>2 DEF Fits, EntityFits, Creates, Updates
<1>3. \/ WrittenBy(ts, text, "entities", id, db["entities"][id])
      \/ Untouched(ts, "entities", id, db["entities"][id])
  BY <1>1, RowOf
<1>4. CASE Untouched(ts, "entities", id, db["entities"][id])
  BY <1>4 DEF Untouched
<1>5. CASE WrittenBy(ts, text, "entities", id, db["entities"][id])
  BY <1>2, <1>5 DEF WrittenBy
<1> QED
  BY <1>3, <1>4, <1>5

LEMMA ResolvedAfter ==
  ASSUME Shape(tables), EntitiesResolve, NEW db, Shape(db), NEW ts, OnlyKeys(db, ts),
         NEW text, Steps(ts, text)
  PROVE  Resolved(db)
<1>1. /\ \A i, j \in IdsOf("entities") :
           /\ tables["entities"][i].name = tables["entities"][j].name
           /\ tables["entities"][i].kind = tables["entities"][j].kind
           => i = j
      /\ \A i \in IdsOf("entity_relationships") :
           /\ tables["entity_relationships"][i].src \in IdsOf("entities")
           /\ tables["entity_relationships"][i].dst \in IdsOf("entities")
  BY DEF EntitiesResolve
<1>2. IdsOf("entities") \subseteq DOMAIN db["entities"]
  BY DEF OnlyKeys, Tables
<1>3. ASSUME NEW i \in DOMAIN db["entities"], NEW j \in DOMAIN db["entities"],
             db["entities"][i].name = db["entities"][j].name,
             db["entities"][i].kind = db["entities"][j].kind
      PROVE  i = j
  <2> DEFINE Old(k) == /\ k \in IdsOf("entities")
                       /\ db["entities"][k].name = tables["entities"][k].name
                       /\ db["entities"][k].kind = tables["entities"][k].kind
             New(k) == /\ k = NextIdOf("entities")
                       /\ \A l \in IdsOf("entities") :
                            ~(tables["entities"][l].name = db["entities"][k].name
                              /\ tables["entities"][l].kind = db["entities"][k].kind)
  <2>1. (Old(i) \/ New(i)) /\ (Old(j) \/ New(j))
    BY EntityIs
  <2>2. CASE Old(i) /\ Old(j)
    BY <1>1, <1>3, <2>2
  <2>3. CASE New(i) /\ New(j)
    BY <2>3
  <2>4. CASE (Old(i) /\ New(j)) \/ (New(i) /\ Old(j))
    BY <1>3, <2>4
  <2> QED
    BY <2>1, <2>2, <2>3, <2>4
<1>4. ASSUME NEW id \in DOMAIN db["entity_relationships"]
      PROVE  /\ db["entity_relationships"][id].src \in DOMAIN db["entities"]
             /\ db["entity_relationships"][id].dst \in DOMAIN db["entities"]
  <2>1. "entity_relationships" \in Tables
    BY DEF Tables
  <2>2. ASSUME NEW i \in DOMAIN ts, Fits(ts[i], text), ts[i].table = "entity_relationships",
               db["entity_relationships"][id] = ts[i].after
        PROVE  /\ db["entity_relationships"][id].src \in IdsOf("entities")
               /\ db["entity_relationships"][id].dst \in IdsOf("entities")
    BY <2>2 DEF Fits, EntityFits
  <2>3. \/ WrittenBy(ts, text, "entity_relationships", id, db["entity_relationships"][id])
        \/ Untouched(ts, "entity_relationships", id, db["entity_relationships"][id])
    BY <2>1, RowOf
  <2>4. /\ db["entity_relationships"][id].src \in IdsOf("entities")
        /\ db["entity_relationships"][id].dst \in IdsOf("entities")
    BY <1>1, <2>2, <2>3 DEF WrittenBy, Untouched
  <2> QED
    BY <1>2, <2>4
<1> QED
  BY <1>3, <1>4 DEF Resolved

\* The rows there were are still based on what they were based on.
Grown(db) ==
  \A table \in Tables : \A id \in IdsOf(table) : Keeps(table, tables[table][id], db[table][id])

LEMMA NextIdIsNew ==
  ASSUME Shape(tables), NEW table \in Tables
  PROVE  NextIdOf(table) \notin IdsOf(table)
BY ShapeFacts DEF NextIdOf, IdsOf

LEMMA GrownAfter ==
  ASSUME Shape(tables), NEW db, Shape(db), NEW ts, OnlyKeys(db, ts), NEW text, Steps(ts, text)
  PROVE  Grown(db)
<1>1. ASSUME NEW table \in Tables, NEW id \in IdsOf(table)
      PROVE  Keeps(table, tables[table][id], db[table][id])
  <2>1. id \in DOMAIN db[table]
    BY DEF OnlyKeys
  <2>2. \/ WrittenBy(ts, text, table, id, db[table][id])
        \/ Untouched(ts, table, id, db[table][id])
    BY <2>1, RowOf
  <2>3. CASE Untouched(ts, table, id, db[table][id])
    BY <2>3 DEF Untouched, Keeps
  <2>4. CASE WrittenBy(ts, text, table, id, db[table][id])
    <3>1. PICK i \in DOMAIN ts : /\ Fits(ts[i], text) /\ ts[i].table = table /\ ts[i].id = id
                                 /\ db[table][id] = ts[i].after
      BY <2>4 DEF WrittenBy
    <3>2. ~Creates(ts[i])
      BY <3>1, NextIdIsNew DEF Creates
    <3> QED
      BY <3>1, <3>2 DEF Fits, Updates
  <2> QED
    BY <2>2, <2>3, <2>4
<1> QED
  BY <1>1 DEF Grown

\* What a commit leaves.
LEMMA CommitLeaves ==
  ASSUME EngineInv, NEW p, p.operation = "merge_memories" => IsInjective(p.payload.sources),
         CommitOne(p)
  PROVE  /\ tables' = Written(TransitionsOf(p))
         /\ transitions' = transitions \o TransitionsOf(p)
         /\ vectors' = VectorsAfter(TransitionsOf(p), EmbedText(p, Folds(p)))
         /\ Done(TransitionsOf(p))
         /\ Steps(TransitionsOf(p), EmbedText(p, Folds(p)))
<1>1. /\ tables' = Written(TransitionsOf(p))
      /\ transitions' = transitions \o TransitionsOf(p)
      /\ vectors' = VectorsAfter(TransitionsOf(p), EmbedText(p, Folds(p)))
  BY DEF CommitOne, VectorsAfter
<1>2. IsSeq(TransitionsOf(p)) /\ Steps(TransitionsOf(p), EmbedText(p, Folds(p)))
  BY CommitFits DEF EngineInv, Fitting
<1>3. Done(TransitionsOf(p))
  BY <1>2, AllDone DEF EngineInv
<1> QED
  BY <1>1, <1>2, <1>3

LEMMA CommitKeeps ==
  ASSUME EngineInv, NEW p, p.operation = "merge_memories" => IsInjective(p.payload.sources),
         CommitOne(p)
  PROVE  EngineInv' /\ Grown(tables')
<1> DEFINE ts == TransitionsOf(p)
           text == EmbedText(p, Folds(p))
<1>1. /\ tables' = Written(ts) /\ transitions' = transitions \o ts
      /\ vectors' = VectorsAfter(ts, text) /\ Done(ts) /\ Steps(ts, text)
  BY CommitLeaves
<1> HIDE DEF ts, text
<1>2. /\ Shape(tables') /\ Logged(tables', transitions') /\ Traced(tables', transitions')
      /\ OnlyKeys(tables', ts)
  BY <1>1 DEF Done
<1>3. Found(tables', vectors')
  BY <1>1, <1>2, FoundAfter DEF EngineInv
<1>4. Resolved(tables')
  BY <1>1, <1>2, ResolvedAfter DEF EngineInv
<1>5. Grown(tables')
  BY <1>1, <1>2, GrownAfter DEF EngineInv
<1>6. VectorsInv'
  BY <1>3 DEF Found, VectorsInv, VectorsMatchText, IdsOf
<1>7. EntitiesResolve'
  BY <1>4 DEF Resolved, EntitiesResolve, IdsOf
<1>8. Shape(tables)' /\ Logged(tables, transitions)' /\ Traced(tables, transitions)'
  BY <1>2
<1> QED
  BY <1>5, <1>6, <1>7, <1>8 DEF EngineInv

LEMMA EngineStarts == EngineInit => EngineInv
<1> SUFFICES ASSUME EngineInit PROVE EngineInv
  OBVIOUS
<1> DEFINE state == [data |-> <<>>, version |-> 1]
<1>1. DOMAIN state = {"data", "version"} /\ state.version = 1
  OBVIOUS
<1>2. /\ DOMAIN tables = Tables /\ transitions = <<>> /\ vectors = <<>>
      /\ \A table \in Tables : tables[table] = IF table \in Singletons THEN <<state>> ELSE <<>>
  BY DEF EngineInit
<1> HIDE DEF state
<1>3. /\ IsSeq(<<>>) /\ DOMAIN <<>> = {} /\ IsSeq(<<state>>) /\ DOMAIN <<state>> = {1}
      /\ Len(<<state>>) = 1 /\ <<state>>[1] = state
  <2>1. <<>> \in Seq({}) /\ <<state>> \in Seq({state})
    OBVIOUS
  <2>2. IsSeq(<<>>)
    BY <2>1 DEF IsSeq
  <2>3. IsSeq(<<state>>)
    BY <2>1 DEF IsSeq
  <2>4. DOMAIN <<>> = {}
    <3>1. Len(<<>>) = 0
      OBVIOUS
    <3> QED
      BY <3>1, <2>2, SeqFacts
  <2>5. Len(<<state>>) = 1 /\ <<state>>[1] = state
    OBVIOUS
  <2>6. DOMAIN <<state>> = {1}
    BY <2>3, <2>5, SeqFacts
  <2> QED
    BY <2>2, <2>3, <2>4, <2>5, <2>6
<1>4. RowFits("working_state", state) /\ RowFits("self_state", state)
  BY <1>1 DEF RowFits, Singletons
<1>5. ASSUME NEW table \in Tables
      PROVE  /\ IsSeq(tables[table])
             /\ \A id \in DOMAIN tables[table] :
                  table \in Singletons /\ tables[table][id] = state /\ RowFits(table, state)
             /\ table \in Singletons => Len(tables[table]) = 1
  <2>1. CASE table \in Singletons
    <3>1. tables[table] = <<state>>
      BY <1>2, <2>1
    <3>2. table = "working_state" \/ table = "self_state"
      BY <2>1 DEF Singletons
    <3> QED
      BY <2>1, <3>1, <3>2, <1>3, <1>4
  <2>2. CASE table \notin Singletons
    <3>1. tables[table] = <<>>
      BY <1>2, <2>2
    <3> QED
      BY <2>2, <3>1, <1>3
  <2> QED
    BY <2>1, <2>2
<1>6. Singletons \subseteq Tables
  BY DEF Singletons, Tables
<1>7. Shape(tables)
  BY <1>2, <1>5, <1>6 DEF Shape
<1>8. Logged(tables, transitions)
  BY <1>2, <1>3 DEF Logged
<1>9. Traced(tables, transitions)
  <2>1. ASSUME NEW table \in Tables, NEW id \in DOMAIN tables[table]
        PROVE  Leads(table, tables[table][id], <<>>)
    <3>1. table \in Singletons /\ tables[table][id].version = 1 /\ Len(<<>>) = 0
      BY <1>1, <1>5, <2>1
    <3> QED
      BY <3>1 DEF Leads
  <2> QED
    BY <1>2, <1>3, <2>1, OfNothing DEF Traced
<1>10. VectorsInv
  <2>1. ASSUME NEW table \in {"memories", "beliefs"}
        PROVE  DOMAIN tables[table] = {}
    BY <1>2, <1>3 DEF Tables, Singletons
  <2>2. DOMAIN vectors = {}
    BY <1>2, <1>3
  <2> QED
    BY <2>1, <2>2 DEF VectorsInv, VectorsMatchText, IdsOf
<1>11. EntitiesResolve
  <2>1. DOMAIN tables["entities"] = {} /\ DOMAIN tables["entity_relationships"] = {}
    BY <1>2, <1>3 DEF Tables, Singletons
  <2> QED
    BY <2>1 DEF EntitiesResolve, IdsOf
<1> QED
  BY <1>7, <1>8, <1>9, <1>10, <1>11 DEF EngineInv

LEMMA EngineStep == EngineInv /\ [EngineNext]_engineVars => EngineInv'
<1> SUFFICES ASSUME EngineInv, [EngineNext]_engineVars PROVE EngineInv'
  OBVIOUS
<1>1. CASE EngineNext
  BY <1>1, CommitKeeps DEF EngineNext
<1>2. CASE UNCHANGED engineVars
  BY <1>2 DEF engineVars, EngineInv, VectorsInv, VectorsMatchText, EntitiesResolve, IdsOf
<1> QED
  BY <1>1, <1>2

\* Whatever is proposed to the engine, in any order: the shape of the tables, a log
\* that traces every row, vectors of the present texts, entities known once.
THEOREM EngineInvariant == EngineSpec => []EngineInv
BY EngineStarts, EngineStep, PTL DEF EngineSpec

-----------------------------------------------------------------------------
(* The properties.                                                         *)

LEMMA InvTypeOK == EngineInv => EngineTypeOK
<1> SUFFICES ASSUME EngineInv PROVE EngineTypeOK
  OBVIOUS
<1>1. \A table \in Tables : \A id \in IdsOf(table) : RowFits(table, tables[table][id])
  BY DEF EngineInv, Shape, IdsOf
<1>2. /\ \A i \in IdsOf("memories") : tables["memories"][i].status \in MemoryStatus
      /\ \A i \in IdsOf("beliefs") : tables["beliefs"][i].status \in BeliefStatus
      /\ \A i \in IdsOf("goals") : tables["goals"][i].status \in GoalStatus
  BY <1>1 DEF Tables, RowFits
<1>3. /\ DOMAIN tables = Tables /\ \A table \in Singletons : Len(tables[table]) = 1
      /\ \A k \in DOMAIN vectors : k[2] \in IdsOf(k[1])
      /\ \A i \in DOMAIN transitions : transitions[i].id \in IdsOf(transitions[i].table)
  BY DEF EngineInv, Shape, VectorsInv, Logged, IdsOf
<1> QED
  BY <1>2, <1>3 DEF EngineTypeOK

\* What the log says of a row.
LEMMA HistoryLeads ==
  ASSUME EngineInv, NEW table \in Tables, NEW id \in IdsOf(table)
  PROVE  IsSeq(History(table, id)) /\ Leads(table, tables[table][id], History(table, id))
<1>1. id \in Nat
  BY ShapeFacts DEF EngineInv, IdsOf
<1> QED
  BY <1>1, HistoryIs DEF EngineInv, Traced, IdsOf

LEMMA InvAuditTrail == EngineInv => AuditTrail
<1> SUFFICES ASSUME EngineInv, NEW table \in Tables, NEW id \in IdsOf(table)
             PROVE  LET h == History(table, id)
                    IN IF h = <<>> THEN table \in Singletons
                       ELSE /\ table \notin Singletons => h[1].before = None
                            /\ \A i \in 2 .. Len(h) : h[i].before = h[i - 1].after
                            /\ Last(h).after = tables[table][id]
  BY DEF AuditTrail
<1> DEFINE h == History(table, id)
<1>1. Leads(table, tables[table][id], h)
  BY HistoryLeads
<1> HIDE DEF h
<1>2. IF h = <<>> THEN table \in Singletons
      ELSE /\ table \notin Singletons => h[1].before = None
           /\ \A i \in 2 .. Len(h) : h[i].before = h[i - 1].after
           /\ Last(h).after = tables[table][id]
  BY <1>1 DEF Leads, Last
<1> QED
  BY <1>2 DEF h

LEMMA InvVersions == EngineInv => VersionsCountTransitions
<1> SUFFICES ASSUME EngineInv, NEW table \in Versioned, NEW id \in IdsOf(table)
             PROVE  tables[table][id].version =
                      Len(History(table, id)) + IF table \in Singletons THEN 1 ELSE 0
  BY DEF VersionsCountTransitions, Versioned
<1>1. Leads(table, tables[table][id], History(table, id))
  BY HistoryLeads DEF Versioned
<1> QED
  BY <1>1 DEF Leads

LEMMA StepGrows ==
  EngineInv /\ [EngineNext]_engineVars =>
    [/\ \A id \in IdsOf("memories") :
          /\ tables["memories"][id].sources \subseteq tables'["memories"][id].sources
          /\ tables["memories"][id].evidence \subseteq tables'["memories"][id].evidence
     /\ \A id \in IdsOf("beliefs") :
          /\ tables["beliefs"][id].supporting \subseteq tables'["beliefs"][id].supporting
          /\ tables["beliefs"][id].contradicting \subseteq tables'["beliefs"][id].contradicting
     /\ \A table \in {"goals", "predictions", "entities"} : \A id \in IdsOf(table) :
          tables[table][id].evidence \subseteq tables'[table][id].evidence]_engineVars
<1> SUFFICES ASSUME EngineInv, EngineNext
             PROVE  /\ \A id \in IdsOf("memories") :
                         /\ tables["memories"][id].sources \subseteq tables'["memories"][id].sources
                         /\ tables["memories"][id].evidence \subseteq tables'["memories"][id].evidence
                    /\ \A id \in IdsOf("beliefs") :
                         /\ tables["beliefs"][id].supporting \subseteq tables'["beliefs"][id].supporting
                         /\ tables["beliefs"][id].contradicting \subseteq tables'["beliefs"][id].contradicting
                    /\ \A table \in {"goals", "predictions", "entities"} : \A id \in IdsOf(table) :
                         tables[table][id].evidence \subseteq tables'[table][id].evidence
  OBVIOUS
<1>1. Grown(tables')
  BY CommitKeeps DEF EngineNext
<1> QED
  BY <1>1 DEF Grown, Keeps, Tables

\* The tables hold what they may, and the log and the vectors name rows there are.
THEOREM EngineTypeCorrect == EngineSpec => []EngineTypeOK
BY EngineInvariant, InvTypeOK, PTL

\* The log tells the life of every row without a gap, up to the row of today.
THEOREM AuditTrailHolds == EngineSpec => []AuditTrail
BY EngineInvariant, InvAuditTrail, PTL

\* No two updates of a row share a version.
THEOREM VersionsHold == EngineSpec => []VersionsCountTransitions
BY EngineInvariant, InvVersions, PTL

\* A memory or a belief is found by the text it has.
THEOREM VectorsHold == EngineSpec => []VectorsMatchText
<1>1. EngineInv => VectorsMatchText
  BY DEF EngineInv, VectorsInv
<1> QED
  BY <1>1, EngineInvariant, PTL

\* One entity for each name and kind, and relationships between entities there are.
THEOREM EntitiesHold == EngineSpec => []EntitiesResolve
<1>1. EngineInv => EntitiesResolve
  BY DEF EngineInv
<1> QED
  BY <1>1, EngineInvariant, PTL

\* No update of whatever kind forgets what a row was based on.
THEOREM ProvenanceHolds == EngineSpec => ProvenanceGrows
BY EngineInvariant, StepGrows, PTL DEF EngineSpec, ProvenanceGrows

-----------------------------------------------------------------------------
(* The engine under Harness.                                               *)

\* What Harness proposes merges two different memories, if any, and gives only
\* events as evidence.
Offered(p) ==
  /\ p.operation = "merge_memories" => IsInjective(p.payload.sources)
  /\ p.evidence \subseteq {Fresh}

LEMMA PairsAreInjective ==
  ASSUME NEW S, NEW pair \in PairsOf(S)
  PROVE  IsInjective(pair)
<1>1. /\ pair \in S \X S /\ pair[1] # pair[2]
  BY DEF PairsOf
<1>2. DOMAIN pair = {1, 2}
  BY <1>1
<1> QED
  BY <1>1, <1>2 DEF IsInjective

LEMMA HarnessOffers ==
  ASSUME NEW p \in AnyMemory \cup AnyBelief \cup AnyGoal \cup AnyPrediction \cup AnyEntity \cup AnyPatch
  PROVE  Offered(p)
<1>1. CASE p \in AnyMemory
  <2> DEFINE creates == {Propose("agent", "create_memory", None, evidence,
                                 [text |-> text, kind |-> "episodic", status |-> "active",
                                  sources |-> {}]) :
                           text \in Text, evidence \in {{}, {Fresh}}}
             updates == {Change("update_memory", target, u) :
                           target \in Target("memories"), u \in MemoryUpdates}
             merges == {Change("merge_memories", None,
                              [sources |-> pair, text |-> text, kind |-> "episodic"]) :
                          pair \in PairsOf(Target("memories")), text \in Text}
  <2>1. p \in creates \/ p \in updates \/ p \in merges
    <3>1. AnyMemory = creates \cup updates \cup merges
      BY DEF AnyMemory
    <3> HIDE DEF creates, updates, merges
    <3> QED
      BY <1>1, <3>1
  <2>2. CASE p \in creates
    BY <2>2 DEF Offered, Propose
  <2>3. CASE p \in updates
    BY <2>3 DEF Offered, Change, Propose
  <2>4. CASE p \in merges
    <3>1. PICK pair \in PairsOf(Target("memories")) : p.payload.sources = pair /\ p.evidence = {Fresh}
      BY <2>4 DEF Change, Propose
    <3> QED
      BY <3>1, PairsAreInjective DEF Offered
  <2> QED
    BY <2>1, <2>2, <2>3, <2>4
<1>2. CASE p \in AnyBelief
  BY <1>2 DEF AnyBelief, Offered, Change, Propose
<1>3. CASE p \in AnyGoal
  BY <1>3 DEF AnyGoal, Offered, Change, Propose
<1>4. CASE p \in AnyPrediction
  BY <1>4 DEF AnyPrediction, Offered, Change, Propose
<1>5. CASE p \in AnyEntity
  BY <1>5 DEF AnyEntity, Offered, Change, Propose
<1>6. CASE p \in AnyPatch
  BY <1>6 DEF AnyPatch, Offered, Change, Propose
<1> QED
  BY <1>1, <1>2, <1>3, <1>4, <1>5, <1>6

LEMMA HarnessCommits == HarnessNext => \E p : Offered(p) /\ CommitOne(p)
BY HarnessOffers DEF HarnessNext, CommitAny

\* Harness drives the engine, so all that holds of the engine holds of it.
THEOREM HarnessDrivesEngine == HarnessSpec => EngineSpec
<1>1. HarnessNext => EngineNext
  BY HarnessCommits DEF EngineNext, Offered
<1> QED
  BY <1>1, PTL DEF HarnessSpec, EngineSpec

\* Where a memory's row comes from: it was there, it is the row of a merge, or it has
\* the evidence of its proposal.
ComesFrom(t, p) ==
  \/ t.table # "memories"
  \/ t.id \in IdsOf("memories")
  \/ t.after.evidence = p.evidence
  \/ p.operation = "merge_memories" /\ t.after = MergedRow(p)

LEMMA ApplyComesFrom ==
  ASSUME NEW p, Parses(p), NEW i \in DOMAIN Apply(p)
  PROVE  ComesFrom(Apply(p)[i], p)
<1> DEFINE ts == Apply(p)
<1>1. CASE p.operation = "create_memory"
  <2>1. ts = CreateMemory(p)
    BY <1>1 DEF Apply
  <2>2. ts[i].after.evidence = p.evidence
    BY <2>1 DEF CreateMemory, Transition
  <2> QED
    BY <2>2 DEF ComesFrom
<1>2. CASE p.operation = "update_memory"
  <2>1. ts = <<>> \/ (ts = UpdateMemory(p) /\ p.target \in IdsOf("memories"))
    BY <1>2 DEF Apply, Loads
  <2>2. ts[i].id = p.target /\ p.target \in IdsOf("memories")
    BY <2>1 DEF UpdateMemory, Transition
  <2> QED
    BY <2>2 DEF ComesFrom
<1>3. CASE p.operation = "merge_memories"
  <2>1. \/ ts = <<>>
        \/ /\ ts = MergeMemories(p)
           /\ \A j \in DOMAIN p.payload.sources : p.payload.sources[j] \in IdsOf("memories")
    BY <1>3 DEF Apply, Loads
  <2>2. /\ ts = MergeMemories(p)
        /\ \A j \in DOMAIN p.payload.sources : p.payload.sources[j] \in IdsOf("memories")
    BY <2>1
  <2>3. p.payload.sources \in Seq(Nat)
    BY <1>3 DEF Parses
  <2> DEFINE all == MergeMemories(p)
             n == Len(p.payload.sources)
             first == Transition("memories", NextIdOf("memories"), None, MergedRow(p), TRUE)
  <2>4. /\ DOMAIN all = 1 .. n + 1 /\ all[1] = first
        /\ \A j \in 2 .. n + 1 : /\ j - 1 \in DOMAIN p.payload.sources
                                 /\ all[j] = ReplacedBy(NextIdOf("memories"), p.payload.sources[j - 1])
    BY <2>3, MergeIs
  <2>5. first.after = MergedRow(p)
    BY DEF Transition
  <2>6. n \in Nat
    BY <2>3
  <2> HIDE DEF all, first, n
  <2>7. ts = all
    BY <2>2 DEF all
  <2>8. CASE i = 1
    <3>1. ts[i].after = MergedRow(p)
      BY <2>4, <2>5, <2>7, <2>8
    <3> QED
      BY <1>3, <3>1 DEF ComesFrom
  <2>9. CASE i \in 2 .. n + 1
    <3>1. /\ i - 1 \in DOMAIN p.payload.sources
          /\ ts[i] = ReplacedBy(NextIdOf("memories"), p.payload.sources[i - 1])
      BY <2>4, <2>7, <2>9
    <3>2. ts[i].id = p.payload.sources[i - 1]
      BY <3>1 DEF ReplacedBy, Transition
    <3> QED
      BY <2>2, <3>1, <3>2 DEF ComesFrom
  <2>10. \A m \in Nat : \A j \in 1 .. m + 1 : j = 1 \/ j \in 2 .. m + 1
    OBVIOUS
  <2> QED
    BY <2>4, <2>6, <2>7, <2>8, <2>9, <2>10
<1>4. CASE p.operation \in {"create_belief", "update_belief"}
  <2>1. ts \in {<<>>, CreateBelief(p), UpdateBelief(p)}
    BY <1>4 DEF Apply
  <2>2. ts[i].table = "beliefs"
    BY <2>1 DEF CreateBelief, UpdateBelief, Transition
  <2> QED
    BY <2>2 DEF ComesFrom
<1>5. CASE p.operation \in {"create_goal", "update_goal"}
  <2>1. ts \in {<<>>, CreateGoal(p), UpdateGoal(p)}
    BY <1>5 DEF Apply
  <2>2. ts[i].table = "goals"
    BY <2>1 DEF CreateGoal, UpdateGoal, Transition
  <2> QED
    BY <2>2 DEF ComesFrom
<1>6. CASE p.operation \in {"create_prediction", "verify_prediction"}
  <2>1. ts \in {<<>>, CreatePrediction(p), VerifyPrediction(p)}
    BY <1>6 DEF Apply
  <2>2. ts[i].table = "predictions"
    BY <2>1 DEF CreatePrediction, VerifyPrediction, Transition
  <2> QED
    BY <2>2 DEF ComesFrom
<1>7. CASE p.operation = "upsert_entity"
  <2>1. ts = UpsertEntity(p)
    BY <1>7 DEF Apply
  <2>2. ts[i].table = "entities"
    BY <2>1 DEF UpsertEntity, Transition
  <2> QED
    BY <2>2 DEF ComesFrom
<1>8. CASE p.operation = "add_relationship"
  <2>1. ts \in {<<>>, AddRelationship(p)}
    BY <1>8 DEF Apply
  <2>2. ts[i].table = "entity_relationships"
    BY <2>1 DEF AddRelationship, Transition
  <2> QED
    BY <2>2 DEF ComesFrom
<1>9. CASE p.operation = "set_working_state"
  <2>1. ts \in {<<>>, PatchState("working_state", p)}
    BY <1>9 DEF Apply
  <2>2. ts[i].table = "working_state"
    BY <2>1 DEF PatchState, Transition
  <2> QED
    BY <2>2 DEF ComesFrom
<1>10. CASE p.operation = "update_self_state"
  <2>1. ts \in {<<>>, PatchState("self_state", p)}
    BY <1>10 DEF Apply
  <2>2. ts[i].table = "self_state"
    BY <2>1 DEF PatchState, Transition
  <2> QED
    BY <2>2 DEF ComesFrom
<1> QED
  BY <1>1, <1>2, <1>3, <1>4, <1>5, <1>6, <1>7, <1>8, <1>9, <1>10 DEF Parses, Operations, Embedded

LEMMA CommitComesFrom ==
  ASSUME Shape(tables), NEW p, NEW i \in DOMAIN TransitionsOf(p)
  PROVE  ComesFrom(TransitionsOf(p)[i], p)
<1>1. CASE ~Valid(p)
  <2>1. TransitionsOf(p) = <<>>
    BY <1>1 DEF TransitionsOf
  <2> QED
    BY <2>1
<1>2. CASE Valid(p) /\ Folds(p)
  <2>1. TransitionsOf(p) = Apply(Folded(p))
    BY <1>2 DEF TransitionsOf
  <2>2. Parses(Folded(p)) /\ Folded(p).operation # "merge_memories"
    BY <1>2, FoldedIs
  <2>3. ComesFrom(Apply(Folded(p))[i], Folded(p))
    BY <2>1, <2>2, ApplyComesFrom
  <2>4. Folded(p).evidence = p.evidence
    BY DEF Folded, Propose
  <2> QED
    BY <2>1, <2>2, <2>3, <2>4 DEF ComesFrom
<1>3. CASE Valid(p) /\ ~Folds(p)
  <2>1. TransitionsOf(p) = Apply(p) /\ Parses(p)
    BY <1>3 DEF TransitionsOf, Valid
  <2> QED
    BY <2>1, ApplyComesFrom
<1> QED
  BY <1>1, <1>2, <1>3

LEMMA OfferedKeepsSources ==
  ASSUME EngineInv, NEW p, Offered(p), CommitOne(p),
         NEW id \in IdsOf("memories"), NEW new \in DOMAIN tables'["memories"],
         <<"memories", id>> \in tables'["memories"][new].evidence, new \notin IdsOf("memories")
  PROVE  tables["memories"][id].sources \subseteq tables'["memories"][new].sources
<1> DEFINE ts == TransitionsOf(p)
           text == EmbedText(p, Folds(p))
           row == tables'["memories"][new]
<1>1. Steps(ts, text) /\ Shape(tables') /\ OnlyKeys(tables', ts)
  BY CommitLeaves DEF Offered, Done
<1> HIDE DEF text, ts
<1>2. "memories" \in Tables /\ Shape(tables)
  BY DEF Tables, EngineInv
<1>3. WrittenBy(ts, text, "memories", new, row) \/ Untouched(ts, "memories", new, row)
  BY <1>1, <1>2, RowOf
<1>4. PICK i \in DOMAIN ts : ts[i].table = "memories" /\ ts[i].id = new /\ ts[i].after = row
  BY <1>3 DEF WrittenBy, Untouched
<1>5. ComesFrom(ts[i], p)
  BY <1>2, CommitComesFrom DEF ts
<1>6. <<"memories", id>> \notin p.evidence
  BY DEF Offered, Fresh
<1>7. row = MergedRow(p)
  BY <1>4, <1>5, <1>6 DEF ComesFrom
<1>8. /\ row.sources = SourcesOf(p.payload.sources)
      /\ row.evidence = p.evidence \cup {<<"memories", m>> : m \in ToSet(p.payload.sources)}
  BY <1>7 DEF MergedRow
<1> HIDE DEF row
<1>9. PICK j \in DOMAIN p.payload.sources : p.payload.sources[j] = id
  <2>1. <<"memories", id>> \in row.evidence
    BY DEF row
  <2>2. id \in ToSet(p.payload.sources)
    BY <1>6, <1>8, <2>1
  <2> QED
    BY <2>2 DEF ToSet
<1>10. tables["memories"][id].sources \subseteq row.sources
  BY <1>8, <1>9 DEF SourcesOf
<1> QED
  BY <1>10 DEF row

\* The memory that a merge leaves comes from every event that the merged ones came from.
THEOREM MergeKeepsSourcesHolds == HarnessSpec => MergeKeepsSources
<1>1. EngineInv /\ [HarnessNext]_engineVars =>
        [\A id \in IdsOf("memories") : \A new \in DOMAIN tables'["memories"] :
           <<"memories", id>> \in tables'["memories"][new].evidence /\ new \notin IdsOf("memories")
             => tables["memories"][id].sources \subseteq tables'["memories"][new].sources]_engineVars
  BY HarnessCommits, OfferedKeepsSources
<1>2. HarnessSpec => []EngineInv
  BY HarnessDrivesEngine, EngineInvariant, PTL
<1> QED
  BY <1>1, <1>2, PTL DEF HarnessSpec, MergeKeepsSources

=============================================================================
