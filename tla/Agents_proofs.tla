---------------------------- MODULE Agents_proofs ----------------------------
(* Machine-checked proofs about Agents, over those about the engine.       *)
EXTENDS Agents, Engine_proofs, FiniteSetTheorems

-----------------------------------------------------------------------------
(* The inductive invariant.                                                *)

\* The tables whose rows live and end.
Living == {"memories", "beliefs", "goals"}

LiveOf(table) ==
  IF table = "memories" THEN LiveMemory ELSE IF table = "beliefs" THEN LiveBelief ELSE LiveGoal

UpdateOf(table) ==
  IF table = "memories" THEN "update_memory"
  ELSE IF table = "beliefs" THEN "update_belief" ELSE "update_goal"

TextOf(table, row) == IF table = "goals" THEN row.description ELSE row.text

Live(table) == WithStatus(table, LiveOf(table))

\* The rows of a table that a proposal changes.
Touches(table, p) ==
  IF p.operation = UpdateOf(table) THEN {p.target}
  ELSE IF table = "memories" /\ p.operation = "merge_memories" THEN ToSet(p.payload.sources)
  ELSE {}

\* Those of them that it ends.
Ends(table, p) ==
  IF p.operation = UpdateOf(table) /\ p.payload.status \in LiveOf(table) \cup {None}
  THEN {} ELSE Touches(table, p)

\* What every proposal of an agent has in common: it merges different memories, into an
\* episodic one only with one that came from an event, gives no memory a new text, and
\* what else it creates comes from events or rests on something that is there.
Meant(p) ==
  /\ p.operation = "merge_memories" =>
       /\ IsInjective(p.payload.sources)
       /\ p.payload.kind = "episodic" =>
            \E i \in DOMAIN p.payload.sources :
              /\ p.payload.sources[i] \in IdsOf("memories")
              /\ FromEvent(tables["memories"][p.payload.sources[i]].sources)
  /\ p.operation = "update_memory" => p.payload.text = None
  /\ p.operation = "create_memory" /\ p.payload.kind = "episodic" => FromEvent(p.payload.sources)
  /\ p.operation = "create_belief" => Traceable(p.evidence)
  /\ p.operation = "create_goal" => FromEvent(p.evidence)

\* A batch that is still to be committed touches live memories, none of which it has
\* ended before; only the worker's batches do.
Ready(task, ps) ==
  /\ IsSeq(ps)
  /\ \A i \in DOMAIN ps : Meant(ps[i]) /\ Touches("memories", ps[i]) \subseteq Live("memories")
  /\ \A i, j \in DOMAIN ps :
       i < j => Ends("memories", ps[i]) \cap Touches("memories", ps[j]) = {}
  /\ task \in Clients => \A i \in DOMAIN ps : Touches("memories", ps[i]) = {}

Queued ==
  /\ DOMAIN queue = Task
  /\ \A task \in Task : Ready(task, queue[task])

AgentsInv ==
  /\ EngineInv
  /\ Queued
  /\ Grounded
  /\ LiveMemoriesDistinct
  /\ LiveRowsDistinct

-----------------------------------------------------------------------------
(* What an applied proposal does to the rows that live and end.            *)

\* It changes a row there is, which keeps its text, and its life unless it is ended.
Changed(table, id, row, p) ==
  /\ id \in Touches(table, p) /\ id \in IdsOf(table)
  /\ TextOf(table, row) = TextOf(table, tables[table][id])
  /\ id \in Live(table) \ Ends(table, p) => row.status \in LiveOf(table)
  /\ table = "memories" => row.kind = tables[table][id].kind

\* It creates the next row, from what it says and what it is based on.
Created(table, id, row, p) ==
  /\ id = NextIdOf(table)
  /\ table = "memories" =>
       \/ /\ p.operation = "create_memory"
          /\ row.text = p.payload.text /\ row.kind = p.payload.kind
          /\ row.sources = SourcesGiven(p)
       \/ /\ p.operation = "merge_memories" /\ row = MergedRow(p)
          /\ ToSet(p.payload.sources) \subseteq IdsOf("memories")
  /\ table = "beliefs" => /\ p.operation = "create_belief"
                          /\ row.text = p.payload.text /\ row.supporting = p.evidence
  /\ table = "goals" => /\ p.operation = "create_goal" /\ ~DuplicateGoal(p)
                        /\ row.description = p.payload.description /\ row.evidence = p.evidence

Explained(t, p) ==
  \A table \in Living : t.table = table =>
    Changed(table, t.id, t.after, p) \/ Created(table, t.id, t.after, p)

LEMMA LivingFacts ==
  /\ Living \subseteq Tables /\ "memories" \in Living
  /\ \A table \in Tables \ Living : table \notin {"memories", "beliefs", "goals"}
BY DEF Living, Tables

LEMMA LiveIs == \A table \in Living : \A id :
  id \in Live(table) <=> id \in IdsOf(table) /\ tables[table][id].status \in LiveOf(table)
BY DEF Live, WithStatus

LEMMA UpdateMemoryExplained ==
  ASSUME Shape(tables), NEW p, p.operation = "update_memory", p.payload.text = None,
         p.target \in IdsOf("memories"), NEW t, UpdateMemory(p) = <<t>>
  PROVE  Changed("memories", t.id, t.after, p) /\ t.table = "memories"
<1> DEFINE before == tables["memories"][p.target]
           status == IF p.payload.status # None THEN p.payload.status
                     ELSE IF p.payload.reinforce THEN "reinforced" ELSE None
           row == [before EXCEPT
                     !.text = IF p.payload.text # None THEN p.payload.text ELSE @,
                     !.status = IF status # None THEN status ELSE @,
                     !.accesses = IF p.payload.reinforce THEN @ + 1 ELSE @,
                     !.sources = @ \cup p.payload.addSources,
                     !.evidence = Evidence(before, p),
                     !.version = NextVersion(before)]
           u == Transition("memories", p.target, before, row, p.payload.text # None)
<1>1. UpdateMemory(p) = <<u>>
  BY DEF UpdateMemory
<1>2. RowFits("memories", before)
  BY ShapeFacts DEF IdsOf, Tables
<1>3. DOMAIN before = {"text", "kind", "status", "version", "sources", "evidence", "accesses"}
  BY <1>2 DEF RowFits
<1> HIDE DEF before
<1>4. /\ row.text = before.text /\ row.kind = before.kind
      /\ row.status = IF status # None THEN status ELSE before.status
  BY <1>3
<1>5. u.table = "memories" /\ u.id = p.target /\ u.after = row
  BY DEF Transition
<1> HIDE DEF row, u
<1>6. t = u
  BY <1>1
<1>7. p.target \in Touches("memories", p)
  BY DEF Touches, UpdateOf
<1>8. ASSUME p.target \in Live("memories") \ Ends("memories", p)
      PROVE  row.status \in LiveMemory
  <2>1. p.payload.status \in LiveMemory \cup {None}
    BY <1>8, <1>7 DEF Ends, UpdateOf, LiveOf
  <2>2. before.status \in LiveMemory
    BY <1>8, LiveIs DEF LiveOf, Living, before
  <2>3. status \in LiveMemory \cup {None}
    BY <2>1 DEF LiveMemory
  <2> QED
    BY <1>4, <2>2, <2>3
<1> QED
  BY <1>4, <1>5, <1>6, <1>7, <1>8 DEF Changed, TextOf, LiveOf, before

LEMMA UpdateBeliefExplained ==
  ASSUME Shape(tables), NEW p, p.operation = "update_belief",
         p.target \in IdsOf("beliefs"), NEW t, UpdateBelief(p) = <<t>>
  PROVE  Changed("beliefs", t.id, t.after, p) /\ t.table = "beliefs"
<1> DEFINE before == tables["beliefs"][p.target]
           row == [before EXCEPT
                     !.status = IF p.payload.status # None THEN p.payload.status ELSE @,
                     !.supporting = @ \cup p.payload.addSupporting,
                     !.contradicting = @ \cup p.payload.addContradicting,
                     !.version = NextVersion(before)]
           u == Transition("beliefs", p.target, before, row, FALSE)
<1>1. UpdateBelief(p) = <<u>>
  BY DEF UpdateBelief
<1>2. RowFits("beliefs", before)
  BY ShapeFacts DEF IdsOf, Tables
<1>3. DOMAIN before = {"text", "status", "version", "supporting", "contradicting"}
  BY <1>2 DEF RowFits
<1> HIDE DEF before
<1>4. /\ row.text = before.text
      /\ row.status = IF p.payload.status # None THEN p.payload.status ELSE before.status
  BY <1>3
<1>5. u.table = "beliefs" /\ u.id = p.target /\ u.after = row
  BY DEF Transition
<1> HIDE DEF row, u
<1>6. t = u
  BY <1>1
<1>7. p.target \in Touches("beliefs", p)
  BY DEF Touches, UpdateOf
<1>8. ASSUME p.target \in Live("beliefs") \ Ends("beliefs", p)
      PROVE  row.status \in LiveBelief
  <2>1. p.payload.status \in LiveBelief \cup {None}
    BY <1>8, <1>7 DEF Ends, UpdateOf, LiveOf
  <2>2. before.status \in LiveBelief
    BY <1>8, LiveIs DEF LiveOf, Living, before
  <2> QED
    BY <1>4, <2>1, <2>2
<1> QED
  BY <1>4, <1>5, <1>6, <1>7, <1>8 DEF Changed, TextOf, LiveOf, before

LEMMA UpdateGoalExplained ==
  ASSUME Shape(tables), NEW p, p.operation = "update_goal",
         p.target \in IdsOf("goals"), NEW t, UpdateGoal(p) = <<t>>
  PROVE  Changed("goals", t.id, t.after, p) /\ t.table = "goals"
<1> DEFINE before == tables["goals"][p.target]
           row == [before EXCEPT
                     !.status = IF p.payload.status # None THEN p.payload.status ELSE @,
                     !.evidence = Evidence(before, p),
                     !.version = NextVersion(before)]
           u == Transition("goals", p.target, before, row, FALSE)
<1>1. UpdateGoal(p) = <<u>>
  BY DEF UpdateGoal
<1>2. RowFits("goals", before)
  BY ShapeFacts DEF IdsOf, Tables
<1>3. DOMAIN before = {"description", "status", "evidence", "version"}
  BY <1>2 DEF RowFits
<1> HIDE DEF before
<1>4. /\ row.description = before.description
      /\ row.status = IF p.payload.status # None THEN p.payload.status ELSE before.status
  BY <1>3
<1>5. u.table = "goals" /\ u.id = p.target /\ u.after = row
  BY DEF Transition
<1> HIDE DEF row, u
<1>6. t = u
  BY <1>1
<1>7. p.target \in Touches("goals", p)
  BY DEF Touches, UpdateOf
<1>8. ASSUME p.target \in Live("goals") \ Ends("goals", p)
      PROVE  row.status \in LiveGoal
  <2>1. p.payload.status \in LiveGoal \cup {None}
    BY <1>8, <1>7 DEF Ends, UpdateOf, LiveOf
  <2>2. before.status \in LiveGoal
    BY <1>8, LiveIs DEF LiveOf, Living, before
  <2> QED
    BY <1>4, <2>1, <2>2
<1> QED
  BY <1>4, <1>5, <1>6, <1>7, <1>8 DEF Changed, TextOf, LiveOf, before

LEMMA MergeExplained ==
  ASSUME Shape(tables), NEW p, p.operation = "merge_memories", p.payload.sources \in Seq(Nat),
         \A j \in DOMAIN p.payload.sources : p.payload.sources[j] \in IdsOf("memories"),
         NEW i \in DOMAIN MergeMemories(p)
  PROVE  /\ MergeMemories(p)[i].table = "memories"
         /\ \/ Changed("memories", MergeMemories(p)[i].id, MergeMemories(p)[i].after, p)
            \/ Created("memories", MergeMemories(p)[i].id, MergeMemories(p)[i].after, p)
<1> DEFINE ids == p.payload.sources
           n == Len(ids)
           new == NextIdOf("memories")
           first == Transition("memories", new, None, MergedRow(p), TRUE)
           ts == MergeMemories(p)
<1>1. /\ DOMAIN ts = 1 .. n + 1 /\ ts[1] = first
      /\ \A j \in 2 .. n + 1 : j - 1 \in DOMAIN ids /\ ts[j] = ReplacedBy(new, ids[j - 1])
  BY MergeIs
<1>2. n \in Nat
  OBVIOUS
<1>3. first.table = "memories" /\ first.id = new /\ first.after = MergedRow(p)
  BY DEF Transition
<1>4. ToSet(ids) \subseteq IdsOf("memories") /\ Touches("memories", p) = ToSet(ids)
  BY DEF ToSet, Touches, UpdateOf
<1> HIDE DEF ts, first, n
<1>5. CASE i = 1
  BY <1>1, <1>3, <1>4, <1>5 DEF Created, ts
<1>6. CASE i \in 2 .. n + 1
  <2> DEFINE id == ids[i - 1]
             before == tables["memories"][id]
             row == [before EXCEPT !.status = "deprecated", !.version = NextVersion(before),
                                   !.evidence = @ \cup {<<"memories", new>>}]
             t == Transition("memories", id, before, row, FALSE)
  <2>1. ts[i] = t /\ i - 1 \in DOMAIN ids
    BY <1>1, <1>6 DEF ReplacedBy
  <2>2. id \in IdsOf("memories") /\ id \in ToSet(ids)
    BY <2>1 DEF ToSet
  <2>3. RowFits("memories", before)
    BY <2>2, ShapeFacts DEF IdsOf, Tables
  <2>4. DOMAIN before = {"text", "kind", "status", "version", "sources", "evidence", "accesses"}
    BY <2>3 DEF RowFits
  <2> HIDE DEF before
  <2>5. row.text = before.text /\ row.kind = before.kind
    BY <2>4
  <2>6. t.table = "memories" /\ t.id = id /\ t.after = row
    BY DEF Transition
  <2> HIDE DEF row, t, id
  <2>7. id \in Ends("memories", p)
    BY <1>4, <2>2 DEF Ends, UpdateOf
  <2>8. Changed("memories", id, row, p)
    BY <1>4, <2>2, <2>5, <2>7 DEF Changed, TextOf, before
  <2> QED
    BY <2>1, <2>6, <2>8 DEF ts
<1>7. \A m \in Nat : \A j \in 1 .. m + 1 : j = 1 \/ j \in 2 .. m + 1
  OBVIOUS
<1> QED
  BY <1>1, <1>2, <1>5, <1>6, <1>7 DEF ts

LEMMA ApplyExplained ==
  ASSUME Shape(tables), NEW p, Parses(p), p.operation = "update_memory" => p.payload.text = None,
         NEW i \in DOMAIN Apply(p)
  PROVE  Explained(Apply(p)[i], p)
<1> DEFINE ts == Apply(p)
<1>1. CASE p.operation = "create_memory"
  <2>1. ts = CreateMemory(p)
    BY <1>1 DEF Apply
  <2>2. /\ ts[i].table = "memories" /\ ts[i].id = NextIdOf("memories")
        /\ ts[i].after.text = p.payload.text /\ ts[i].after.kind = p.payload.kind
        /\ ts[i].after.sources = SourcesGiven(p)
    BY <2>1 DEF CreateMemory, Transition
  <2>3. Created("memories", ts[i].id, ts[i].after, p)
    BY <1>1, <2>2 DEF Created
  <2> QED
    BY <2>2, <2>3 DEF Explained
<1>2. CASE p.operation = "update_memory"
  <2>1. ts = <<>> \/ (ts = UpdateMemory(p) /\ p.target \in IdsOf("memories"))
    BY <1>2 DEF Apply, Loads
  <2>2. PICK t : UpdateMemory(p) = <<t>>
    BY DEF UpdateMemory
  <2>3. ts[i] = t /\ p.target \in IdsOf("memories")
    BY <2>1, <2>2
  <2>4. Changed("memories", t.id, t.after, p) /\ t.table = "memories"
    BY <1>2, <2>2, <2>3, UpdateMemoryExplained
  <2> QED
    BY <2>3, <2>4 DEF Explained
<1>3. CASE p.operation = "merge_memories"
  <2>1. \/ ts = <<>>
        \/ /\ ts = MergeMemories(p)
           /\ \A j \in DOMAIN p.payload.sources : p.payload.sources[j] \in IdsOf("memories")
    BY <1>3 DEF Apply, Loads
  <2>2. /\ ts = MergeMemories(p)
        /\ \A j \in DOMAIN p.payload.sources : p.payload.sources[j] \in IdsOf("memories")
    BY <2>1
  <2>3. p.payload.sources \in Seq(Nat)
    BY <1>3 DEF Parses
  <2>4. /\ ts[i].table = "memories"
        /\ \/ Changed("memories", ts[i].id, ts[i].after, p)
           \/ Created("memories", ts[i].id, ts[i].after, p)
    BY <1>3, <2>2, <2>3, MergeExplained
  <2> QED
    BY <2>4 DEF Explained
<1>4. CASE p.operation = "create_belief"
  <2>1. ts = CreateBelief(p)
    BY <1>4 DEF Apply
  <2>2. /\ ts[i].table = "beliefs" /\ ts[i].id = NextIdOf("beliefs")
        /\ ts[i].after.text = p.payload.text /\ ts[i].after.supporting = p.evidence
    BY <2>1 DEF CreateBelief, Transition
  <2>3. Created("beliefs", ts[i].id, ts[i].after, p)
    BY <1>4, <2>2 DEF Created
  <2> QED
    BY <2>2, <2>3 DEF Explained
<1>5. CASE p.operation = "update_belief"
  <2>1. ts = <<>> \/ (ts = UpdateBelief(p) /\ p.target \in IdsOf("beliefs"))
    BY <1>5 DEF Apply, Loads
  <2>2. PICK t : UpdateBelief(p) = <<t>>
    BY DEF UpdateBelief
  <2>3. ts[i] = t /\ p.target \in IdsOf("beliefs")
    BY <2>1, <2>2
  <2>4. Changed("beliefs", t.id, t.after, p) /\ t.table = "beliefs"
    BY <1>5, <2>2, <2>3, UpdateBeliefExplained
  <2> QED
    BY <2>3, <2>4 DEF Explained
<1>6. CASE p.operation = "create_goal"
  <2>1. ts = <<>> \/ (ts = CreateGoal(p) /\ ~DuplicateGoal(p))
    BY <1>6 DEF Apply
  <2>2. /\ ts[i].table = "goals" /\ ts[i].id = NextIdOf("goals") /\ ~DuplicateGoal(p)
        /\ ts[i].after.description = p.payload.description /\ ts[i].after.evidence = p.evidence
    BY <2>1 DEF CreateGoal, Transition
  <2>3. Created("goals", ts[i].id, ts[i].after, p)
    BY <1>6, <2>2 DEF Created
  <2> QED
    BY <2>2, <2>3 DEF Explained
<1>7. CASE p.operation = "update_goal"
  <2>1. ts = <<>> \/ (ts = UpdateGoal(p) /\ p.target \in IdsOf("goals"))
    BY <1>7 DEF Apply, Loads
  <2>2. PICK t : UpdateGoal(p) = <<t>>
    BY DEF UpdateGoal
  <2>3. ts[i] = t /\ p.target \in IdsOf("goals")
    BY <2>1, <2>2
  <2>4. Changed("goals", t.id, t.after, p) /\ t.table = "goals"
    BY <1>7, <2>2, <2>3, UpdateGoalExplained
  <2> QED
    BY <2>3, <2>4 DEF Explained
<1>8. CASE p.operation \in {"create_prediction", "verify_prediction"}
  <2>1. ts \in {<<>>, CreatePrediction(p), VerifyPrediction(p)}
    BY <1>8 DEF Apply
  <2>2. ts[i].table = "predictions"
    BY <2>1 DEF CreatePrediction, VerifyPrediction, Transition
  <2> QED
    BY <2>2 DEF Explained, Living
<1>9. CASE p.operation = "upsert_entity"
  <2>1. ts = UpsertEntity(p)
    BY <1>9 DEF Apply
  <2>2. ts[i].table = "entities"
    BY <2>1 DEF UpsertEntity, Transition
  <2> QED
    BY <2>2 DEF Explained, Living
<1>10. CASE p.operation = "add_relationship"
  <2>1. ts \in {<<>>, AddRelationship(p)}
    BY <1>10 DEF Apply
  <2>2. ts[i].table = "entity_relationships"
    BY <2>1 DEF AddRelationship, Transition
  <2> QED
    BY <2>2 DEF Explained, Living
<1>11. CASE p.operation = "set_working_state"
  <2>1. ts \in {<<>>, PatchState("working_state", p)}
    BY <1>11 DEF Apply
  <2>2. ts[i].table = "working_state"
    BY <2>1 DEF PatchState, Transition
  <2> QED
    BY <2>2 DEF Explained, Living
<1>12. CASE p.operation = "update_self_state"
  <2>1. ts \in {<<>>, PatchState("self_state", p)}
    BY <1>12 DEF Apply
  <2>2. ts[i].table = "self_state"
    BY <2>1 DEF PatchState, Transition
  <2> QED
    BY <2>2 DEF Explained, Living
<1> QED
  BY <1>1, <1>2, <1>3, <1>4, <1>5, <1>6, <1>7, <1>8, <1>9, <1>10, <1>11, <1>12 DEF Parses, Operations, Embedded

-----------------------------------------------------------------------------
(* What a commit does to those rows.                                       *)

\* The proposal that is applied in the end.
Applied(p) == IF Folds(p) THEN Folded(p) ELSE p

LEMMA CommitExplained ==
  ASSUME Shape(tables), NEW p, Meant(p), NEW i \in DOMAIN TransitionsOf(p)
  PROVE  Valid(p) /\ Explained(TransitionsOf(p)[i], Applied(p))
<1>1. Valid(p)
  BY DEF TransitionsOf
<1>2. CASE Folds(p)
  <2>1. TransitionsOf(p) = Apply(Folded(p)) /\ Applied(p) = Folded(p)
    BY <1>1, <1>2 DEF TransitionsOf, Applied
  <2>2. /\ Parses(Folded(p))
        /\ Folded(p).operation = "update_memory" => Folded(p).payload.text = None
    BY <1>2, FoldedIs
  <2> QED
    BY <1>1, <2>1, <2>2, ApplyExplained
<1>3. CASE ~Folds(p)
  <2>1. TransitionsOf(p) = Apply(p) /\ Applied(p) = p /\ Parses(p)
    BY <1>1, <1>3 DEF TransitionsOf, Applied, Valid
  <2>2. p.operation = "update_memory" => p.payload.text = None
    BY DEF Meant
  <2> QED
    BY <1>1, <2>1, <2>2, ApplyExplained
<1> QED
  BY <1>2, <1>3

\* A near-duplicate touches the live row it folds into, and ends none.
LEMMA FoldedTouches ==
  ASSUME Shape(tables), NEW p, Folds(p), NEW table \in Living
  PROVE  /\ Touches(table, Folded(p)) \subseteq Live(table)
         /\ Ends(table, Folded(p)) = {}
         /\ Folded(p).operation \in {"update_memory", "update_belief"}
<1>1. FoldTarget(p) # None
  BY DEF Folds
<1>2. \/ /\ p.operation = "create_memory" /\ FoldTarget(p) \in IdsOf("memories")
         /\ tables["memories"][FoldTarget(p)].status \in LiveMemory
      \/ /\ p.operation = "create_belief" /\ FoldTarget(p) \in IdsOf("beliefs")
         /\ tables["beliefs"][FoldTarget(p)].status \in LiveBelief
  BY <1>1, FoldTargetIs
<1>3. CASE p.operation = "create_memory"
  <2>1. /\ Folded(p).operation = "update_memory" /\ Folded(p).target = FoldTarget(p)
        /\ Folded(p).payload.status = None
    BY <1>3 DEF Folded, Propose
  <2>2. FoldTarget(p) \in Live("memories")
    BY <1>2, <1>3, LiveIs DEF LiveOf, Living
  <2>3. /\ Touches(table, Folded(p)) \subseteq IF table = "memories" THEN {FoldTarget(p)} ELSE {}
        /\ Ends(table, Folded(p)) = {}
    BY <2>1 DEF Touches, Ends, UpdateOf, Living
  <2> QED
    BY <2>1, <2>2, <2>3
<1>4. CASE p.operation = "create_belief"
  <2>1. /\ Folded(p).operation = "update_belief" /\ Folded(p).target = FoldTarget(p)
        /\ Folded(p).payload.status = None
    BY <1>4 DEF Folded, Propose
  <2>2. FoldTarget(p) \in Live("beliefs")
    BY <1>2, <1>4, LiveIs DEF LiveOf, Living
  <2>3. /\ Touches(table, Folded(p)) \subseteq IF table = "beliefs" THEN {FoldTarget(p)} ELSE {}
        /\ Ends(table, Folded(p)) = {}
    BY <2>1 DEF Touches, Ends, UpdateOf, Living
  <2> QED
    BY <2>1, <2>2, <2>3
<1> QED
  BY <1>2, <1>3, <1>4

Kept(table, id, row) == id \in IdsOf(table) /\ row = tables[table][id]

LEMMA RowAfter ==
  ASSUME EngineInv, NEW p, Meant(p), CommitOne(p),
         NEW table \in Living, NEW id \in DOMAIN tables'[table]
  PROVE  \/ Kept(table, id, tables'[table][id])
         \/ /\ Valid(p)
            /\ \/ Changed(table, id, tables'[table][id], Applied(p))
               \/ Created(table, id, tables'[table][id], Applied(p))
<1> DEFINE ts == TransitionsOf(p)
           text == EmbedText(p, Folds(p))
           row == tables'[table][id]
<1>1. Steps(ts, text) /\ Shape(tables') /\ OnlyKeys(tables', ts)
  BY CommitLeaves DEF Meant, Done
<1> HIDE DEF text, ts
<1>2. table \in Tables /\ Shape(tables)
  BY LivingFacts DEF EngineInv
<1>3. WrittenBy(ts, text, table, id, row) \/ Untouched(ts, table, id, row)
  BY <1>1, <1>2, RowOf
<1>4. CASE Untouched(ts, table, id, row)
  BY <1>4 DEF Untouched, Kept
<1>5. CASE WrittenBy(ts, text, table, id, row)
  <2>1. PICK i \in DOMAIN ts : ts[i].table = table /\ ts[i].id = id /\ row = ts[i].after
    BY <1>5 DEF WrittenBy
  <2>2. Valid(p) /\ Explained(ts[i], Applied(p))
    BY <1>2, CommitExplained DEF ts
  <2> QED
    BY <2>1, <2>2 DEF Explained
<1> QED
  BY <1>3, <1>4, <1>5

LEMMA OldRow ==
  ASSUME EngineInv, NEW p, Meant(p), CommitOne(p), NEW table \in Living, NEW id \in IdsOf(table)
  PROVE  /\ id \in DOMAIN tables'[table]
         /\ TextOf(table, tables'[table][id]) = TextOf(table, tables[table][id])
         /\ id \in Live(table) \ Ends(table, p) => tables'[table][id].status \in LiveOf(table)
         /\ table = "memories" => tables'[table][id].kind = tables[table][id].kind
         /\ Touches(table, p) \subseteq Live(table) =>
              id \in Live(table) \/ tables'[table][id] = tables[table][id]
<1> DEFINE row == tables'[table][id]
<1>1. Shape(tables) /\ table \in Tables
  BY LivingFacts DEF EngineInv
<1>2. id \in DOMAIN tables'[table]
  BY <1>1, CommitLeaves DEF Meant, Done, OnlyKeys
<1>3. id # NextIdOf(table)
  BY <1>1, NextIdIsNew
<1>4. Kept(table, id, row) \/ Changed(table, id, row, Applied(p))
  BY <1>2, <1>3, RowAfter DEF Created
<1>5. CASE Kept(table, id, row)
  BY <1>2, <1>5, LiveIs DEF Kept
<1>6. CASE Changed(table, id, row, Applied(p))
  <2>1. CASE Folds(p)
    <3>1. Applied(p) = Folded(p)
      BY <2>1 DEF Applied
    <3> QED
      BY <1>1, <1>2, <1>6, <2>1, <3>1, FoldedTouches DEF Changed
  <2>2. CASE ~Folds(p)
    <3>1. Applied(p) = p
      BY <2>2 DEF Applied
    <3> QED
      BY <1>2, <1>6, <3>1 DEF Changed
  <2> QED
    BY <2>1, <2>2
<1> QED
  BY <1>4, <1>5, <1>6

LEMMA NewRow ==
  ASSUME EngineInv, NEW p, Meant(p), CommitOne(p), NEW table \in Living,
         NEW id \in DOMAIN tables'[table], id \notin IdsOf(table)
  PROVE  Valid(p) /\ ~Folds(p) /\ Created(table, id, tables'[table][id], p)
<1>1. Valid(p) /\ Created(table, id, tables'[table][id], Applied(p))
  BY RowAfter DEF Kept, Changed
<1>2. ASSUME Folds(p)
      PROVE  FALSE
  <2>1. Applied(p) = Folded(p) /\ Shape(tables)
    BY <1>2 DEF Applied, EngineInv
  <2>2. Folded(p).operation \in {"update_memory", "update_belief"}
    BY <1>2, <2>1, FoldedTouches
  <2> QED
    BY <1>1, <2>1, <2>2 DEF Created, Living
<1> QED
  BY <1>1, <1>2 DEF Applied

LEMMA LiveAfterIs == \A table \in Living : \A id :
  id \in Live(table)' <=> id \in DOMAIN tables'[table] /\ tables'[table][id].status \in LiveOf(table)
BY DEF Live, WithStatus, IdsOf

LEMMA RowsGrow ==
  ASSUME EngineInv, NEW p, Meant(p), CommitOne(p)
  PROVE  /\ \A id \in IdsOf("memories") :
              /\ tables["memories"][id].sources \subseteq tables'["memories"][id].sources
              /\ tables["memories"][id].evidence \subseteq tables'["memories"][id].evidence
         /\ \A id \in IdsOf("beliefs") :
              tables["beliefs"][id].supporting \subseteq tables'["beliefs"][id].supporting
         /\ \A id \in IdsOf("goals") :
              tables["goals"][id].evidence \subseteq tables'["goals"][id].evidence
<1>1. Grown(tables')
  BY CommitKeeps DEF Meant
<1> QED
  BY <1>1 DEF Grown, Keeps, Tables

\* What can be traced goes on being so.
LEMMA StillTraceable ==
  ASSUME EngineInv, NEW p, Meant(p), CommitOne(p), NEW ids, Traceable(ids)
  PROVE  Traceable(ids)'
<1>1. CASE FromEvent(ids)
  BY <1>1 DEF Traceable, FromEvent
<1>2. CASE ids \cap MemoryIds(IdsOf("memories")) # {}
  <2>1. PICK id \in IdsOf("memories") : <<"memories", id>> \in ids
    BY <1>2 DEF MemoryIds
  <2>2. id \in DOMAIN tables'["memories"]
    BY <2>1, OldRow, LivingFacts
  <2> QED
    BY <2>1, <2>2 DEF Traceable, MemoryIds, IdsOf
<1> QED
  BY <1>1, <1>2 DEF Traceable

LEMMA MoreFromEvent ==
  ASSUME NEW a, NEW b, a \subseteq b
  PROVE  /\ FromEvent(a) => FromEvent(b)
         /\ Traceable(a) => Traceable(b)
BY DEF FromEvent, Traceable

LEMMA StillMeant ==
  ASSUME EngineInv, NEW p, Meant(p), CommitOne(p), NEW r, Meant(r)
  PROVE  Meant(r)'
<1>1. ASSUME r.operation = "create_belief"
      PROVE  Traceable(r.evidence)'
  BY <1>1, StillTraceable DEF Meant
<1>2. ASSUME r.operation = "merge_memories", r.payload.kind = "episodic"
      PROVE  \E i \in DOMAIN r.payload.sources :
               /\ r.payload.sources[i] \in DOMAIN tables'["memories"]
               /\ FromEvent(tables'["memories"][r.payload.sources[i]].sources)
  <2>1. PICK i \in DOMAIN r.payload.sources :
          /\ r.payload.sources[i] \in IdsOf("memories")
          /\ FromEvent(tables["memories"][r.payload.sources[i]].sources)
    BY <1>2 DEF Meant
  <2> DEFINE id == r.payload.sources[i]
  <2>2. id \in DOMAIN tables'["memories"]
    BY <2>1, OldRow, LivingFacts
  <2>3. tables["memories"][id].sources \subseteq tables'["memories"][id].sources
    BY <2>1, RowsGrow
  <2> QED
    BY <2>1, <2>2, <2>3, MoreFromEvent
<1>3. FromEvent(r.evidence) => FromEvent(r.evidence)'
  BY DEF FromEvent
<1>4. FromEvent(r.payload.sources) => FromEvent(r.payload.sources)'
  BY DEF FromEvent
<1>5. \A i : FromEvent(tables'["memories"][r.payload.sources[i]].sources)
               => FromEvent(tables["memories"][r.payload.sources[i]].sources)'
  BY DEF FromEvent
<1> QED
  BY <1>1, <1>2, <1>3, <1>4, <1>5 DEF Meant, IdsOf

\* A batch that waits is still ready after another commit that ends none of its memories.
LEMMA ReadyAfter ==
  ASSUME EngineInv, NEW p, Meant(p), CommitOne(p), NEW task, NEW ps, Ready(task, ps),
         \A i \in DOMAIN ps : Ends("memories", p) \cap Touches("memories", ps[i]) = {}
  PROVE  Ready(task, ps)'
<1>1. ASSUME NEW i \in DOMAIN ps
      PROVE  Meant(ps[i])'
  <2>1. Meant(ps[i])
    BY DEF Ready
  <2> QED
    BY <2>1, StillMeant
<1>2. ASSUME NEW i \in DOMAIN ps, NEW id \in Touches("memories", ps[i])
      PROVE  id \in Live("memories")'
  <2>1. id \in Live("memories")
    BY DEF Ready
  <2>2. id \notin Ends("memories", p)
    BY <1>2
  <2>3. id \in IdsOf("memories")
    BY <2>1, LiveIs, LivingFacts
  <2>4. id \in DOMAIN tables'["memories"] /\ tables'["memories"][id].status \in LiveOf("memories")
    BY <2>1, <2>2, <2>3, OldRow, LivingFacts
  <2> QED
    BY <2>4, LiveAfterIs, LivingFacts
<1> QED
  BY <1>1, <1>2 DEF Ready

LEMMA TailReady ==
  ASSUME NEW task, NEW ps, Ready(task, ps), ps # <<>>
  PROVE  /\ Ready(task, Tail(ps)) /\ Meant(Head(ps))
         /\ Touches("memories", Head(ps)) \subseteq Live("memories")
         /\ \A i \in DOMAIN Tail(ps) :
              Ends("memories", Head(ps)) \cap Touches("memories", Tail(ps)[i]) = {}
         /\ task \in Clients => Touches("memories", Head(ps)) = {}
<1> DEFINE n == Len(ps)
           rest == Tail(ps)
<1>1. PICK S : ps \in Seq(S)
  BY DEF Ready, IsSeq
<1>2. /\ n \in Nat /\ n > 0 /\ DOMAIN ps = 1 .. n /\ Head(ps) = ps[1]
  BY <1>1
<1>3. /\ rest \in Seq(S) /\ DOMAIN rest = 1 .. n - 1
      /\ \A i \in 1 .. n - 1 : rest[i] = ps[i + 1]
  BY <1>1
<1> HIDE DEF n, rest
<1>4. \A i \in DOMAIN rest : i \in Int /\ i + 1 \in DOMAIN ps /\ rest[i] = ps[i + 1] /\ 1 < i + 1
  BY <1>2, <1>3
<1>5. 1 \in DOMAIN ps
  BY <1>2
<1>6. IsSeq(rest)
  BY <1>3 DEF IsSeq
<1>7. ASSUME NEW i \in DOMAIN rest, NEW j \in DOMAIN rest, i < j
      PROVE  Ends("memories", rest[i]) \cap Touches("memories", rest[j]) = {}
  <2>1. i + 1 < j + 1
    BY <1>4, <1>7
  <2> QED
    BY <1>4, <2>1 DEF Ready
<1>8. Ready(task, rest)
  BY <1>4, <1>6, <1>7 DEF Ready
<1>9. /\ Meant(Head(ps)) /\ Touches("memories", Head(ps)) \subseteq Live("memories")
      /\ task \in Clients => Touches("memories", Head(ps)) = {}
  BY <1>2, <1>5 DEF Ready
<1>10. \A i \in DOMAIN rest : Ends("memories", ps[1]) \cap Touches("memories", rest[i]) = {}
  BY <1>4, <1>5 DEF Ready
<1> QED
  BY <1>2, <1>8, <1>9, <1>10 DEF rest

-----------------------------------------------------------------------------
(* What is created is unlike what lives.                                   *)

LEMMA NearestNone ==
  ASSUME Shape(tables), VectorsMatchText, NEW table \in {"memories", "beliefs"}, NEW text,
         Nearest(table, text, LiveOf(table)) = None
  PROVE  \A i \in Live(table) : tables[table][i].text # text
<1> DEFINE hits == {i \in IdsOf(table) :
                      /\ tables[table][i].status \in LiveOf(table)
                      /\ <<table, i>> \in DOMAIN vectors
                      /\ vectors[<<table, i>>] = text}
<1>1. table \in Tables /\ table \in Living
  BY DEF Tables, Living
<1>2. hits \in SUBSET Nat
  BY <1>1, ShapeFacts DEF IdsOf
<1>3. Nearest(table, text, LiveOf(table)) = IF hits = {} THEN None ELSE Min(hits)
  BY DEF Nearest
<1>4. ASSUME NEW i \in Live(table), tables[table][i].text = text
      PROVE  i \in hits
  BY <1>1, <1>4, LiveIs DEF VectorsMatchText
<1> HIDE DEF hits
<1>5. ASSUME hits # {}
      PROVE  Nearest(table, text, LiveOf(table)) # None
  <2>1. Min(hits) \in Nat
    BY <1>2, <1>5, MinIn
  <2> QED
    BY <1>3, <1>5, <2>1, EngineAssumption
<1> QED
  BY <1>4, <1>5

WroteMerge(p, row) == Valid(p) /\ p.operation = "merge_memories" /\ row = MergedRow(p)

\* A new row says what no live row says, unless a merge wrote it.
LEMMA NewIsUnlike ==
  ASSUME EngineInv, NEW p, Meant(p), CommitOne(p), NEW table \in Living,
         NEW id \in DOMAIN tables'[table], id \notin IdsOf(table)
  PROVE  \/ \A i \in Live(table) : TextOf(table, tables[table][i]) # TextOf(table, tables'[table][id])
         \/ table = "memories" /\ WroteMerge(p, tables'[table][id])
<1> DEFINE row == tables'[table][id]
<1>1. Valid(p) /\ ~Folds(p) /\ Created(table, id, row, p)
  BY NewRow
<1>2. FoldTarget(p) = None /\ Shape(tables) /\ VectorsMatchText
  BY <1>1 DEF Folds, EngineInv, VectorsInv
<1>3. CASE table = "memories"
  <2>1. CASE p.operation = "create_memory"
    <3>1. /\ Nearest("memories", p.payload.text, LiveOf("memories")) = None
          /\ row.text = p.payload.text
      BY <1>1, <1>2, <1>3, <2>1 DEF FoldTarget, LiveOf, Created
    <3>2. \A i \in Live("memories") : tables["memories"][i].text # p.payload.text
      BY <1>2, <3>1, NearestNone
    <3> QED
      BY <1>3, <3>1, <3>2 DEF TextOf
  <2>2. CASE p.operation = "merge_memories" /\ row = MergedRow(p)
    BY <1>1, <1>3, <2>2 DEF WroteMerge
  <2> QED
    BY <1>1, <1>3, <2>1, <2>2 DEF Created
<1>4. CASE table = "beliefs"
  <2>1. /\ Nearest("beliefs", p.payload.text, LiveOf("beliefs")) = None
        /\ row.text = p.payload.text
    BY <1>1, <1>2, <1>4 DEF FoldTarget, LiveOf, Created
  <2>2. \A i \in Live("beliefs") : tables["beliefs"][i].text # p.payload.text
    BY <1>2, <2>1, NearestNone
  <2> QED
    BY <1>4, <2>1, <2>2 DEF TextOf
<1>5. CASE table = "goals"
  <2>1. /\ p.operation = "create_goal" /\ ~DuplicateGoal(p)
        /\ row.description = p.payload.description
    BY <1>1, <1>5 DEF Created
  <2>2. \A i \in Live("goals") : tables["goals"][i].description # p.payload.description
    BY <2>1, LiveIs DEF DuplicateGoal, LiveOf, Living
  <2> QED
    BY <1>5, <2>1, <2>2 DEF TextOf
<1> QED
  BY <1>3, <1>4, <1>5 DEF Living

-----------------------------------------------------------------------------
(* What the log says after a commit.                                       *)

LEMMA ConcatHolds ==
  ASSUME NEW a, IsSeq(a), NEW b, IsSeq(b)
  PROVE  /\ \A i \in DOMAIN a : \E n \in DOMAIN (a \o b) : (a \o b)[n] = a[i]
         /\ \A i \in DOMAIN b : \E n \in DOMAIN (a \o b) : (a \o b)[n] = b[i]
<1>1. PICK A : a \in Seq(A)
  BY DEF IsSeq
<1>2. PICK B : b \in Seq(B)
  BY DEF IsSeq
<1>3. a \in Seq(A \cup B) /\ b \in Seq(A \cup B)
  BY <1>1, <1>2
<1>4. /\ Len(a) \in Nat /\ Len(b) \in Nat
      /\ DOMAIN a = 1 .. Len(a) /\ DOMAIN b = 1 .. Len(b)
      /\ DOMAIN (a \o b) = 1 .. Len(a) + Len(b)
      /\ \A i \in 1 .. Len(a) + Len(b) :
           (a \o b)[i] = IF i <= Len(a) THEN a[i] ELSE b[i - Len(a)]
  BY <1>3
<1>5. ASSUME NEW i \in DOMAIN a
      PROVE  i \in DOMAIN (a \o b) /\ (a \o b)[i] = a[i]
  BY <1>4
<1>6. ASSUME NEW i \in DOMAIN b
      PROVE  Len(a) + i \in DOMAIN (a \o b) /\ (a \o b)[Len(a) + i] = b[i]
  BY <1>4
<1> QED
  BY <1>5, <1>6

LEMMA LogGrows ==
  ASSUME EngineInv, NEW p, Meant(p), CommitOne(p)
  PROVE  /\ \A i \in DOMAIN transitions : \E n \in DOMAIN transitions' : transitions'[n] = transitions[i]
         /\ \A i \in DOMAIN TransitionsOf(p) :
              \E n \in DOMAIN transitions' : transitions'[n] = TransitionsOf(p)[i]
<1>1. IsSeq(transitions)
  BY DEF EngineInv, Logged
<1>2. IsSeq(TransitionsOf(p))
  BY CommitFits DEF EngineInv, Fitting, Meant
<1>3. transitions' = transitions \o TransitionsOf(p)
  BY CommitLeaves DEF Meant
<1> QED
  BY <1>1, <1>2, <1>3, ConcatHolds

\* The log names what this commit did to a row that is not as it was.
LEMMA RowLogged ==
  ASSUME EngineInv, NEW p, Meant(p), CommitOne(p), NEW table \in Tables,
         NEW id \in DOMAIN tables'[table], ~Kept(table, id, tables'[table][id])
  PROVE  \E n \in DOMAIN transitions' :
           /\ transitions'[n].table = table /\ transitions'[n].id = id
           /\ transitions'[n].after = tables'[table][id]
           /\ Creates(transitions'[n]) \/ Updates(transitions'[n])
<1> DEFINE ts == TransitionsOf(p)
           text == EmbedText(p, Folds(p))
           row == tables'[table][id]
<1>1. Steps(ts, text) /\ Shape(tables') /\ OnlyKeys(tables', ts)
  BY CommitLeaves DEF Meant, Done
<1>2. \A i \in DOMAIN ts : \E n \in DOMAIN transitions' : transitions'[n] = ts[i]
  BY LogGrows
<1> HIDE DEF text, ts
<1>3. WrittenBy(ts, text, table, id, row) \/ Untouched(ts, table, id, row)
  BY <1>1, RowOf DEF EngineInv
<1>4. ~Untouched(ts, table, id, row)
  BY DEF Untouched, Kept
<1>5. PICK i \in DOMAIN ts : /\ Fits(ts[i], text) /\ ts[i].table = table /\ ts[i].id = id
                             /\ row = ts[i].after
  BY <1>3, <1>4 DEF WrittenBy
<1>6. PICK n \in DOMAIN transitions' : transitions'[n] = ts[i]
  BY <1>2, <1>5
<1> QED
  BY <1>5, <1>6 DEF Fits

LEMMA StillRevived ==
  ASSUME EngineInv, NEW p, Meant(p), CommitOne(p), NEW table, NEW id, NEW live,
         Revived(table, id, live)
  PROVE  Revived(table, id, live)'
BY LogGrows DEF Revived

LEMMA StillWrittenByMerge ==
  ASSUME EngineInv, NEW p, Meant(p), CommitOne(p), NEW id, WrittenByMerge(id)
  PROVE  WrittenByMerge(id)'
BY LogGrows DEF WrittenByMerge

\* A row there was that lives only after the commit has been revived.
LEMMA RevivedNow ==
  ASSUME EngineInv, NEW p, Meant(p), CommitOne(p), NEW table \in Living,
         NEW id \in IdsOf(table), id \notin Live(table), id \in Live(table)'
  PROVE  Revived(table, id, LiveOf(table))'
<1>1. table \in Tables /\ table \notin Singletons /\ table \in Versioned
  BY DEF Living, Tables, Singletons, Versioned
<1>2. id \in DOMAIN tables'[table] /\ tables'[table][id].status \in LiveOf(table)
  BY LiveAfterIs
<1>3. tables[table][id].status \notin LiveOf(table)
  BY LiveIs
<1>4. ~Kept(table, id, tables'[table][id])
  BY <1>2, <1>3 DEF Kept
<1>5. PICK n \in DOMAIN transitions' :
        /\ transitions'[n].table = table /\ transitions'[n].id = id
        /\ transitions'[n].after = tables'[table][id]
        /\ Creates(transitions'[n]) \/ Updates(transitions'[n])
  BY <1>1, <1>2, <1>4, RowLogged
<1>6. ~Creates(transitions'[n])
  BY <1>1, <1>5, NextIdIsNew DEF Creates, EngineInv
<1>7. /\ transitions'[n].before = tables[table][id]
      /\ transitions'[n].after.version = tables[table][id].version + 1
  BY <1>5, <1>6 DEF Updates
<1>8. tables[table][id].version \in Nat /\ tables[table][id].version >= 1
  <2> DEFINE h == History(table, id)
  <2>1. IsSeq(h) /\ Leads(table, tables[table][id], h)
    BY <1>1, HistoryLeads
  <2> HIDE DEF h
  <2>2. h # <<>> /\ tables[table][id].version = Len(h) + 0
    BY <1>1, <2>1 DEF Leads
  <2>3. Len(h) \in Nat /\ Len(h) # 0
    BY <2>1, <2>2, SeqFacts
  <2> QED
    BY <2>2, <2>3
<1>9. transitions'[n].after.version > 1
  BY <1>7, <1>8
<1>10. /\ transitions'[n].before.status \notin LiveOf(table)
       /\ transitions'[n].after.status \in LiveOf(table)
  BY <1>2, <1>3, <1>5, <1>7
<1>11. (Revived(table, id, LiveOf(table)))' <=>
         \E m \in DOMAIN transitions' :
           LET t == transitions'[m]
           IN /\ t.table = table /\ t.id = id /\ t.after.version > 1
              /\ t.before.status \notin LiveOf(table) /\ t.after.status \in LiveOf(table)
  BY DEF Revived, LiveOf
<1> QED
  BY <1>5, <1>9, <1>10, <1>11

\* A row that a merge writes is written by a merge.
LEMMA MergeLogged ==
  ASSUME EngineInv, NEW p, Meant(p), CommitOne(p), NEW id \in DOMAIN tables'["memories"],
         id \notin IdsOf("memories"), WroteMerge(p, tables'["memories"][id])
  PROVE  WrittenByMerge(id)'
<1>1. "memories" \in Tables /\ ~Kept("memories", id, tables'["memories"][id])
  BY DEF Tables, Kept
<1>2. PICK n \in DOMAIN transitions' :
        /\ transitions'[n].table = "memories" /\ transitions'[n].id = id
        /\ transitions'[n].after = tables'["memories"][id]
        /\ Creates(transitions'[n]) \/ Updates(transitions'[n])
  BY <1>1, RowLogged
<1>3. transitions'[n].before = None
  BY <1>2 DEF Creates, Updates
<1>4. transitions'[n].after.status = "consolidated"
  BY <1>2 DEF WroteMerge, MergedRow
<1> QED
  BY <1>2, <1>3, <1>4 DEF WrittenByMerge

-----------------------------------------------------------------------------
(* The properties after a commit.                                          *)

LEMMA GroundedAfter ==
  ASSUME EngineInv, Grounded, NEW p, Meant(p), CommitOne(p)
  PROVE  Grounded'
<1>1. ASSUME NEW id \in DOMAIN tables'["memories"], tables'["memories"][id].kind = "episodic"
      PROVE  FromEvent(tables'["memories"][id].sources)
  <2>1. CASE id \in IdsOf("memories")
    <3>1. tables["memories"][id].kind = "episodic"
      BY <1>1, <2>1, OldRow, LivingFacts
    <3>2. FromEvent(tables["memories"][id].sources)
      BY <2>1, <3>1 DEF Grounded
    <3> QED
      BY <2>1, <3>2, RowsGrow, MoreFromEvent
  <2>2. CASE id \notin IdsOf("memories")
    <3>1. Valid(p) /\ Created("memories", id, tables'["memories"][id], p)
      BY <2>2, NewRow, LivingFacts
    <3>2. CASE /\ p.operation = "create_memory"
               /\ tables'["memories"][id].kind = p.payload.kind
               /\ tables'["memories"][id].sources = SourcesGiven(p)
      <4>1. FromEvent(p.payload.sources)
        BY <1>1, <3>2 DEF Meant
      <4>2. SourcesGiven(p) = p.payload.sources
        BY <4>1 DEF SourcesGiven, FromEvent
      <4> QED
        BY <3>2, <4>1, <4>2
    <3>3. CASE p.operation = "merge_memories" /\ tables'["memories"][id] = MergedRow(p)
      <4>1. /\ MergedRow(p).sources = SourcesOf(p.payload.sources)
            /\ MergedRow(p).kind = p.payload.kind
        BY DEF MergedRow
      <4>2. PICK i \in DOMAIN p.payload.sources :
              FromEvent(tables["memories"][p.payload.sources[i]].sources)
        BY <1>1, <3>3, <4>1 DEF Meant
      <4>3. tables["memories"][p.payload.sources[i]].sources \subseteq SourcesOf(p.payload.sources)
        BY <4>2 DEF SourcesOf
      <4> QED
        BY <3>3, <4>1, <4>2, <4>3, MoreFromEvent
    <3> QED
      BY <3>1, <3>2, <3>3 DEF Created
  <2> QED
    BY <2>1, <2>2
<1>2. ASSUME NEW id \in DOMAIN tables'["beliefs"]
      PROVE  (Traceable(tables["beliefs"][id].supporting))'
  <2>1. CASE id \in IdsOf("beliefs")
    <3>1. PICK old : old = tables["beliefs"][id].supporting
      OBVIOUS
    <3>2. Traceable(old) /\ old \subseteq tables'["beliefs"][id].supporting
      BY <2>1, <3>1, RowsGrow DEF Grounded
    <3>3. Traceable(old)'
      BY <3>2, StillTraceable
    <3> QED
      BY <3>2, <3>3 DEF Traceable, FromEvent
  <2>2. CASE id \notin IdsOf("beliefs")
    <3>1. Created("beliefs", id, tables'["beliefs"][id], p)
      BY <2>2, NewRow DEF Living
    <3>2. p.operation = "create_belief" /\ tables'["beliefs"][id].supporting = p.evidence
      BY <3>1 DEF Created
    <3>3. Traceable(p.evidence)'
      BY <3>2, StillTraceable DEF Meant
    <3> QED
      BY <3>2, <3>3 DEF Traceable, FromEvent
  <2> QED
    BY <2>1, <2>2
<1>3. ASSUME NEW id \in DOMAIN tables'["goals"]
      PROVE  FromEvent(tables'["goals"][id].evidence)
  <2>1. CASE id \in IdsOf("goals")
    BY <2>1, RowsGrow, MoreFromEvent DEF Grounded
  <2>2. CASE id \notin IdsOf("goals")
    <3>1. Created("goals", id, tables'["goals"][id], p)
      BY <2>2, NewRow DEF Living
    <3>2. p.operation = "create_goal" /\ tables'["goals"][id].evidence = p.evidence
      BY <3>1 DEF Created
    <3> QED
      BY <3>2 DEF Meant
  <2> QED
    BY <2>1, <2>2
<1> QED
  BY <1>1, <1>2, <1>3 DEF Grounded, IdsOf, FromEvent

LEMMA LiveRowsDistinctIs ==
  LiveRowsDistinct <=> \A table \in {"goals", "beliefs"} : \A i, j \in Live(table) :
                         TextOf(table, tables[table][i]) = TextOf(table, tables[table][j]) /\ i # j
                           => \E k \in {i, j} : Revived(table, k, LiveOf(table))
BY DEF LiveRowsDistinct, Live, LiveOf, TextOf

\* A row that lives and says what the new row says has been revived by this commit.
LEMMA UnlikeNew ==
  ASSUME EngineInv, NEW p, Meant(p), CommitOne(p), NEW table \in {"goals", "beliefs"},
         NEW i \in Live(table)', i \notin IdsOf(table), NEW j \in Live(table)', i # j,
         TextOf(table, tables'[table][i]) = TextOf(table, tables'[table][j])
  PROVE  Revived(table, j, LiveOf(table))'
<1>1. table \in Living /\ table \in Tables /\ table # "memories"
  BY DEF Living, Tables
<1>2. i \in DOMAIN tables'[table] /\ j \in DOMAIN tables'[table]
  BY <1>1, LiveAfterIs
<1>3. i = NextIdOf(table)
  BY <1>1, <1>2, NewRow DEF Created
<1>4. j \in IdsOf(table)
  BY <1>1, <1>2, <1>3, NewRow DEF Created
<1>5. \A k \in Live(table) : TextOf(table, tables[table][k]) # TextOf(table, tables'[table][i])
  BY <1>1, <1>2, NewIsUnlike
<1>6. TextOf(table, tables'[table][j]) = TextOf(table, tables[table][j])
  BY <1>1, <1>4, OldRow
<1>7. j \notin Live(table)
  BY <1>5, <1>6
<1> QED
  BY <1>1, <1>4, <1>7, RevivedNow

LEMMA LiveRowsDistinctAfter ==
  ASSUME EngineInv, NEW p, Meant(p), CommitOne(p), LiveRowsDistinct
  PROVE  LiveRowsDistinct'
<1>1. ASSUME NEW table \in {"goals", "beliefs"}, NEW i \in Live(table)', NEW j \in Live(table)',
             TextOf(table, tables'[table][i]) = TextOf(table, tables'[table][j]), i # j
      PROVE  \E k \in {i, j} : Revived(table, k, LiveOf(table))'
  <2>1. table \in Living
    BY DEF Living
  <2>2. CASE i \notin IdsOf(table)
    BY <1>1, <2>2, UnlikeNew
  <2>3. CASE j \notin IdsOf(table)
    BY <1>1, <2>3, UnlikeNew
  <2>4. CASE i \in IdsOf(table) /\ j \in IdsOf(table)
    <3>1. CASE i \in Live(table) /\ j \in Live(table)
      <4>1. TextOf(table, tables[table][i]) = TextOf(table, tables[table][j])
        BY <1>1, <2>1, <2>4, OldRow
      <4>2. PICK k \in {i, j} : Revived(table, k, LiveOf(table))
        BY <1>1, <3>1, <4>1, LiveRowsDistinctIs
      <4>3. PICK live : live = LiveOf(table)
        OBVIOUS
      <4>4. Revived(table, k, live)'
        BY <4>2, <4>3, StillRevived
      <4> QED
        BY <4>3, <4>4 DEF Revived, LiveOf
    <3>2. CASE i \notin Live(table)
      BY <2>1, <2>4, <3>2, RevivedNow
    <3>3. CASE j \notin Live(table)
      BY <2>1, <2>4, <3>3, RevivedNow
    <3> QED
      BY <3>1, <3>2, <3>3
  <2> QED
    BY <2>2, <2>3, <2>4
<1>2. LiveRowsDistinct' <=>
        \A table \in {"goals", "beliefs"} : \A i, j \in Live(table)' :
          TextOf(table, tables'[table][i]) = TextOf(table, tables'[table][j]) /\ i # j
            => \E k \in {i, j} : Revived(table, k, LiveOf(table))'
  BY DEF LiveRowsDistinct, Live, LiveOf, TextOf
<1> QED
  BY <1>1, <1>2

\* A memory that lives after a commit that touches live ones only lived before, or is new.
LEMMA LiveBefore ==
  ASSUME EngineInv, NEW p, Meant(p), CommitOne(p),
         Touches("memories", p) \subseteq Live("memories"), NEW i \in Live("memories")'
  PROVE  /\ i \in DOMAIN tables'["memories"]
         /\ \/ /\ i \in Live("memories") /\ i \in IdsOf("memories")
               /\ tables'["memories"][i].text = tables["memories"][i].text
            \/ i \notin IdsOf("memories") /\ i = NextIdOf("memories")
<1>1. i \in DOMAIN tables'["memories"] /\ tables'["memories"][i].status \in LiveOf("memories")
  BY LiveAfterIs, LivingFacts
<1>2. CASE i \in IdsOf("memories")
  <2>1. /\ tables'["memories"][i].text = tables["memories"][i].text
        /\ i \in Live("memories") \/ tables'["memories"][i] = tables["memories"][i]
    BY <1>2, OldRow, LivingFacts DEF TextOf
  <2>2. i \in Live("memories")
    BY <1>1, <1>2, <2>1, LiveIs, LivingFacts
  <2> QED
    BY <1>1, <1>2, <2>1, <2>2
<1>3. CASE i \notin IdsOf("memories")
  <2>1. Created("memories", i, tables'["memories"][i], p)
    BY <1>1, <1>3, NewRow, LivingFacts
  <2> QED
    BY <1>1, <1>3, <2>1 DEF Created
<1> QED
  BY <1>2, <1>3

\* A live memory that says what the new one says is there only if a merge wrote that.
LEMMA LikeNew ==
  ASSUME EngineInv, NEW p, Meant(p), CommitOne(p),
         Touches("memories", p) \subseteq Live("memories"),
         NEW i \in Live("memories")', i \notin IdsOf("memories"), NEW j \in Live("memories")', i # j,
         tables'["memories"][i].text = tables'["memories"][j].text
  PROVE  WrittenByMerge(i)'
<1>1. i \in DOMAIN tables'["memories"] /\ i = NextIdOf("memories")
  BY LiveBefore
<1>2. j \in Live("memories") /\ tables'["memories"][j].text = tables["memories"][j].text
  BY <1>1, LiveBefore
<1>3. WroteMerge(p, tables'["memories"][i])
  BY <1>1, <1>2, NewIsUnlike, LivingFacts DEF TextOf
<1> QED
  BY <1>1, <1>3, MergeLogged

LEMMA LiveMemoriesDistinctAfter ==
  ASSUME EngineInv, NEW p, Meant(p), CommitOne(p), LiveMemoriesDistinct,
         Touches("memories", p) \subseteq Live("memories")
  PROVE  LiveMemoriesDistinct'
<1>1. ASSUME NEW i \in Live("memories")', NEW j \in Live("memories")', i # j,
             tables'["memories"][i].text = tables'["memories"][j].text
      PROVE  WrittenByMerge(i)' \/ WrittenByMerge(j)'
  <2>1. CASE i \notin IdsOf("memories")
    BY <1>1, <2>1, LikeNew
  <2>2. CASE j \notin IdsOf("memories")
    BY <1>1, <2>2, LikeNew
  <2>3. CASE i \in IdsOf("memories") /\ j \in IdsOf("memories")
    <3>1. /\ i \in Live("memories") /\ j \in Live("memories")
          /\ tables["memories"][i].text = tables["memories"][j].text
      BY <1>1, <2>3, LiveBefore
    <3>2. WrittenByMerge(i) \/ WrittenByMerge(j)
      BY <1>1, <3>1 DEF LiveMemoriesDistinct, Live, LiveOf
    <3> QED
      BY <3>2, StillWrittenByMerge
  <2> QED
    BY <2>1, <2>2, <2>3
<1> QED
  BY <1>1 DEF LiveMemoriesDistinct, Live, LiveOf

-----------------------------------------------------------------------------
(* Batches.                                                                *)

\* A proposal that an agent makes of what it has read.
Offers(task, p) ==
  /\ Meant(p)
  /\ Touches("memories", p) \subseteq Live("memories")
  /\ task \in Clients => Touches("memories", p) = {}

\* The memories that a batch touches are among those of a set.
Within(ps, rows) == \A i \in DOMAIN ps : Touches("memories", ps[i]) \subseteq rows

LEMMA ReadyNothing ==
  ASSUME NEW task
  PROVE  Ready(task, <<>>) /\ Within(<<>>, {})
<1>1. IsSeq(<<>>)
  BY NothingFits
<1>2. DOMAIN <<>> = {}
  OBVIOUS
<1> QED
  BY <1>1, <1>2 DEF Ready, Within

LEMMA ReadyOne ==
  ASSUME NEW task, NEW p, Offers(task, p)
  PROVE  Ready(task, <<p>>)
<1> DEFINE ps == <<p>>
<1>1. ps \in Seq({p}) /\ DOMAIN ps = {1} /\ ps[1] = p
  OBVIOUS
<1> HIDE DEF ps
<1>2. IsSeq(ps)
  BY <1>1 DEF IsSeq
<1>3. \A i, j \in DOMAIN ps : ~(i < j)
  BY <1>1
<1>4. Ready(task, ps)
  BY <1>1, <1>2, <1>3 DEF Ready, Offers
<1> QED
  BY <1>4 DEF ps

ElementOf(e, a, b) == (\E i \in DOMAIN a : e = a[i]) \/ (\E i \in DOMAIN b : e = b[i])

LEMMA ConcatFacts ==
  ASSUME NEW a, IsSeq(a), NEW b, IsSeq(b)
  PROVE  /\ IsSeq(a \o b) /\ Len(a) \in Nat /\ Len(b) \in Nat
         /\ DOMAIN a = 1 .. Len(a) /\ DOMAIN b = 1 .. Len(b)
         /\ DOMAIN (a \o b) = 1 .. Len(a) + Len(b)
         /\ \A i \in DOMAIN (a \o b) :
              \/ i \in DOMAIN a /\ (a \o b)[i] = a[i]
              \/ i > Len(a) /\ i - Len(a) \in DOMAIN b /\ (a \o b)[i] = b[i - Len(a)]
<1>1. PICK A : a \in Seq(A)
  BY DEF IsSeq
<1>2. PICK B : b \in Seq(B)
  BY DEF IsSeq
<1>3. a \in Seq(A \cup B) /\ b \in Seq(A \cup B)
  BY <1>1, <1>2
<1>4. a \o b \in Seq(A \cup B)
  BY <1>3
<1>5. /\ Len(a) \in Nat /\ Len(b) \in Nat
      /\ DOMAIN a = 1 .. Len(a) /\ DOMAIN b = 1 .. Len(b)
      /\ DOMAIN (a \o b) = 1 .. Len(a) + Len(b)
      /\ \A i \in 1 .. Len(a) + Len(b) :
           (a \o b)[i] = IF i <= Len(a) THEN a[i] ELSE b[i - Len(a)]
  BY <1>3
<1>6. \A m, n \in Nat : \A i \in 1 .. m + n :
        \/ i \in 1 .. m /\ i <= m
        \/ i > m /\ i - m \in 1 .. n /\ ~(i <= m)
  OBVIOUS
<1> QED
  BY <1>4, <1>5, <1>6 DEF IsSeq

LEMMA ReadyConcat ==
  ASSUME NEW task, NEW a, Ready(task, a), NEW b, Ready(task, b),
         \A i \in DOMAIN a : \A j \in DOMAIN b :
           Ends("memories", a[i]) \cap Touches("memories", b[j]) = {}
  PROVE  Ready(task, a \o b)
<1> DEFINE ps == a \o b
           n == Len(a)
           k == Len(b)
<1>0. IsSeq(a) /\ IsSeq(b)
  BY DEF Ready
<1>1. /\ IsSeq(ps) /\ n \in Nat /\ k \in Nat
      /\ DOMAIN a = 1 .. n /\ DOMAIN b = 1 .. k /\ DOMAIN ps = 1 .. n + k
      /\ \A i \in DOMAIN ps :
           \/ i \in DOMAIN a /\ ps[i] = a[i]
           \/ i > n /\ i - n \in DOMAIN b /\ ps[i] = b[i - n]
  BY <1>0, ConcatFacts
<1> HIDE DEF ps, n, k
<1>2. \A i \in DOMAIN ps : ElementOf(ps[i], a, b)
  BY <1>1 DEF ElementOf
<1>3. ASSUME NEW i \in DOMAIN ps
      PROVE  Offers(task, ps[i])
  BY <1>2 DEF ElementOf, Ready, Offers
<1>4. ASSUME NEW i \in DOMAIN ps, NEW j \in DOMAIN ps, i < j
      PROVE  Ends("memories", ps[i]) \cap Touches("memories", ps[j]) = {}
  <2>1. CASE i \in DOMAIN a /\ ps[i] = a[i] /\ j \in DOMAIN a /\ ps[j] = a[j]
    BY <1>4, <2>1 DEF Ready
  <2>2. CASE i \in DOMAIN a /\ ps[i] = a[i] /\ j - n \in DOMAIN b /\ ps[j] = b[j - n]
    BY <2>2
  <2>3. CASE /\ i - n \in DOMAIN b /\ ps[i] = b[i - n]
             /\ j - n \in DOMAIN b /\ ps[j] = b[j - n]
    <3>1. i - n < j - n
      BY <1>1, <1>4
    <3> QED
      BY <2>3, <3>1 DEF Ready
  <2>4. ~(i > n /\ j \in DOMAIN a)
    BY <1>1, <1>4
  <2> QED
    BY <1>1, <2>1, <2>2, <2>3, <2>4
<1>5. Ready(task, ps)
  BY <1>1, <1>3, <1>4 DEF Ready, Offers
<1> QED
  BY <1>5 DEF ps

LEMMA WithinConcat ==
  ASSUME NEW a, IsSeq(a), NEW b, IsSeq(b), NEW rows, Within(a, rows), Within(b, rows)
  PROVE  Within(a \o b, rows)
<1> DEFINE ps == a \o b
<1>1. \A i \in DOMAIN ps : ElementOf(ps[i], a, b)
  BY ConcatFacts DEF ElementOf
<1> HIDE DEF ps
<1>2. Within(ps, rows)
  BY <1>1 DEF ElementOf, Within
<1> QED
  BY <1>2 DEF ps

LEMMA SeqOfIs ==
  ASSUME NEW S, NEW n \in Nat, NEW ps \in SeqOf(S, n)
  PROVE  IsSeq(ps) /\ DOMAIN ps \subseteq Nat /\ ps \in Seq(S) /\ \A i \in DOMAIN ps : ps[i] \in S
<1>1. PICK m \in 0 .. n : ps \in [1 .. m -> S]
  BY DEF SeqOf
<1>2. m \in Nat
  BY <1>1
<1>3. ps \in Seq(S) /\ DOMAIN ps = 1 .. m
  BY <1>1, <1>2
<1> QED
  BY <1>1, <1>2, <1>3 DEF IsSeq

\* Proposals that end nothing.
LEMMA BatchReady ==
  ASSUME NEW task, NEW S, NEW n \in Nat, NEW ps \in SeqOf(S, n),
         \A p \in S : Offers(task, p) /\ Ends("memories", p) = {}
  PROVE  Ready(task, ps)
<1>1. IsSeq(ps) /\ \A i \in DOMAIN ps : ps[i] \in S
  BY SeqOfIs
<1> QED
  BY <1>1 DEF Ready, Offers

\* Proposals that touch nothing.
LEMMA IdleReady ==
  ASSUME NEW task, NEW S, NEW n \in Nat, NEW ps \in SeqOf(S, n),
         \A p \in S : Offers(task, p) /\ Touches("memories", p) = {} /\ Ends("memories", p) = {}
  PROVE  Ready(task, ps) /\ Within(ps, {})
<1>1. Ready(task, ps)
  BY BatchReady
<1>2. \A i \in DOMAIN ps : ps[i] \in S
  BY SeqOfIs
<1> QED
  BY <1>1, <1>2 DEF Within

\* A batch is as ready with its last proposal replaced by one that touches nothing.
LEMMA LastReplaced ==
  ASSUME NEW task, NEW ps, Ready(task, ps), NEW p, Offers(task, p),
         Touches("memories", p) = {}, Ends("memories", p) = {}
  PROVE  Ready(task, [ps EXCEPT ![Len(ps)] = p])
<1> DEFINE n == Len(ps)
           qs == [ps EXCEPT ![n] = p]
<1>1. PICK S : ps \in Seq(S)
  BY DEF Ready, IsSeq
<1>2. n \in Nat /\ ps \in [1 .. n -> S \cup {p}]
  BY <1>1
<1>3. qs \in [1 .. n -> S \cup {p}] /\ DOMAIN qs = DOMAIN ps
  BY <1>2
<1>4. \A i \in DOMAIN qs : qs[i] = IF i = n THEN p ELSE ps[i]
  BY <1>2
<1> HIDE DEF qs, n
<1>5. IsSeq(qs)
  <2>1. qs \in Seq(S \cup {p})
    BY <1>2, <1>3
  <2> QED
    BY <2>1 DEF IsSeq
<1>6. Ready(task, qs)
  BY <1>3, <1>4, <1>5 DEF Ready, Offers
<1> QED
  BY <1>6 DEF qs, n

-----------------------------------------------------------------------------
(* The runs of the agents.                                                 *)

LEMMA WorkerFacts == Worker \notin Clients /\ Worker \in Task /\ Clients \subseteq Task
BY AgentsAssumption DEF Task

LEMMA EventFacts == FromEvent({Event}) /\ Traceable({Event})
BY DEF Event, FromEvent, Traceable

\* A proposal that creates, or asks, touches no row.
LEMMA TouchesNothing ==
  ASSUME NEW p, p.operation \notin {"update_memory", "update_belief", "update_goal", "merge_memories"},
         NEW table \in Living
  PROVE  Touches(table, p) = {} /\ Ends(table, p) = {}
BY DEF Touches, Ends, UpdateOf, Living

LEMMA ProposeIs ==
  ASSUME NEW agent, NEW operation, NEW target, NEW evidence, NEW payload
  PROVE  /\ Propose(agent, operation, target, evidence, payload).operation = operation
         /\ Propose(agent, operation, target, evidence, payload).target = target
         /\ Propose(agent, operation, target, evidence, payload).evidence = evidence
         /\ Propose(agent, operation, target, evidence, payload).payload = payload
BY DEF Propose

\* A proposal of one of the operations by which no row is touched.
LEMMA CreationOffered ==
  ASSUME NEW p, NEW task, Meant(p),
         p.operation \notin {"update_memory", "update_belief", "update_goal", "merge_memories"}
  PROVE  Offers(task, p) /\ Touches("memories", p) = {} /\ Ends("memories", p) = {}
<1>1. Touches("memories", p) = {} /\ Ends("memories", p) = {}
  BY TouchesNothing, LivingFacts
<1> QED
  BY <1>1 DEF Offers

\* So is one that changes a row of another table.
LEMMA ChangeOffered ==
  ASSUME NEW p, NEW task, p.operation \in {"update_belief", "update_goal"}
  PROVE  Offers(task, p) /\ Touches("memories", p) = {} /\ Ends("memories", p) = {}
<1>1. Meant(p)
  BY DEF Meant
<1>2. Touches("memories", p) = {} /\ Ends("memories", p) = {}
  BY DEF Touches, Ends, UpdateOf
<1> QED
  BY <1>1, <1>2 DEF Offers

LEMMA NewMemoryOffered ==
  ASSUME NEW text, NEW task
  PROVE  Offers(task, NewMemory(text)) /\ Ends("memories", NewMemory(text)) = {}
<1> DEFINE p == NewMemory(text)
<1>1. p.operation = "create_memory" /\ p.payload.sources = {Event}
  BY ProposeIs DEF NewMemory
<1> HIDE DEF p
<1>2. Meant(p)
  BY <1>1, EventFacts DEF Meant
<1>3. Offers(task, p) /\ Ends("memories", p) = {}
  BY <1>1, <1>2, CreationOffered
<1> QED
  BY <1>3 DEF p

\* Proposals of the operations that touch no memory and rest on nothing that is asked for.
LEMMA OtherOffered ==
  ASSUME NEW p, NEW task,
         p.operation \in {"update_self_state", "set_working_state", "create_prediction",
                          "verify_prediction", "conflicts"}
  PROVE  Offers(task, p) /\ Touches("memories", p) = {} /\ Ends("memories", p) = {}
<1>1. Meant(p)
  BY DEF Meant
<1> QED
  BY <1>1, CreationOffered

LEMMA QuestionOffered ==
  ASSUME NEW agent, NEW evidence, NEW asked, NEW task
  PROVE  /\ Offers(task, AskQuestions(agent, evidence, asked))
         /\ Touches("memories", AskQuestions(agent, evidence, asked)) = {}
         /\ Ends("memories", AskQuestions(agent, evidence, asked)) = {}
<1>1. AskQuestions(agent, evidence, asked).operation = "set_working_state"
  BY ProposeIs DEF AskQuestions
<1> QED
  BY <1>1, OtherOffered

LEMMA MemoryReady ==
  ASSUME NEW ps \in SeqOf(MemoryProposals, MaxAnswers)
  PROVE  Ready(Worker, ps)
<1>1. ASSUME NEW p \in MemoryProposals
      PROVE  Offers(Worker, p) /\ Ends("memories", p) = {}
  <2> DEFINE payload == [text |-> None, status |-> None, reinforce |-> TRUE, expected |-> None,
                         addSources |-> {Event}]
             Reinforcements == {Propose("memory", "update_memory", id, {Event}, payload) :
                                  id \in ShownMemories}
             News == {NewMemory(text) : text \in Text}
  <2>1. MemoryProposals = Reinforcements \cup News
    BY DEF MemoryProposals
  <2>2. payload.text = None /\ payload.status = None
    OBVIOUS
  <2> HIDE DEF payload
  <2>3. ASSUME p \in Reinforcements
        PROVE  Offers(Worker, p) /\ Ends("memories", p) = {}
    <3>1. PICK id \in ShownMemories : p = Propose("memory", "update_memory", id, {Event}, payload)
      BY <2>3
    <3>2. p.operation = "update_memory" /\ p.target = id /\ p.payload = payload
      BY <3>1, ProposeIs
    <3>3. id \in Live("memories")
      BY DEF ShownMemories, Live, LiveOf
    <3>4. Meant(p)
      BY <3>2, <2>2 DEF Meant
    <3>5. Touches("memories", p) = {id} /\ Ends("memories", p) = {}
      BY <3>2, <2>2 DEF Touches, Ends, UpdateOf
    <3> QED
      BY <3>3, <3>4, <3>5, WorkerFacts DEF Offers
  <2> HIDE DEF Reinforcements
  <2>4. ASSUME p \in News
        PROVE  Offers(Worker, p) /\ Ends("memories", p) = {}
    BY <2>4, NewMemoryOffered
  <2> HIDE DEF News
  <2> QED
    BY <2>1, <2>3, <2>4
<1> QED
  BY <1>1, BatchReady, AgentsAssumption

LEMMA BeliefsReady ==
  ASSUME NEW ps \in SeqOf(BeliefProposals, MaxAnswers)
  PROVE  Ready(Worker, ps)
<1>1. ASSUME NEW p \in BeliefProposals
      PROVE  Offers(Worker, p) /\ Ends("memories", p) = {}
  <2>1. \/ p.operation = "update_belief"
        \/ p.operation = "create_belief" /\ p.evidence = {Event}
    BY DEF BeliefProposals, ChangeBelief, Propose
  <2>2. CASE p.operation = "update_belief"
    BY <2>2, ChangeOffered
  <2>3. CASE p.operation = "create_belief" /\ p.evidence = {Event}
    <3>1. Meant(p)
      BY <2>3, EventFacts DEF Meant
    <3> QED
      BY <2>3, <3>1, CreationOffered
  <2> QED
    BY <2>1, <2>2, <2>3
<1> QED
  BY <1>1, BatchReady, AgentsAssumption

LEMMA SelfReady ==
  ASSUME NEW ps \in SeqOf(SelfProposals, 1)
  PROVE  Ready(Worker, ps)
<1>1. ASSUME NEW p \in SelfProposals
      PROVE  Offers(Worker, p) /\ Ends("memories", p) = {}
  <2>1. p.operation = "update_self_state"
    BY ProposeIs DEF SelfProposals
  <2> QED
    BY <2>1, OtherOffered
<1> QED
  BY <1>1, BatchReady

LEMMA GoalsReady ==
  ASSUME NEW ps \in OneAnswer(GoalOrder, GoalProposals)
  PROVE  Ready(Worker, ps)
<1>1. ASSUME NEW p \in GoalProposals
      PROVE  Offers(Worker, p) /\ Ends("memories", p) = {}
  <2>1. \/ p.operation \in {"update_goal", "conflicts"}
        \/ p.operation = "create_goal" /\ p.evidence = {Event}
    BY DEF GoalProposals, ChangeGoal, Conflicts, Propose
  <2>2. CASE p.operation \in {"update_goal", "conflicts"}
    BY <2>2, ChangeOffered, OtherOffered
  <2>3. CASE p.operation = "create_goal" /\ p.evidence = {Event}
    <3>1. Meant(p)
      BY <2>3, EventFacts DEF Meant
    <3> QED
      BY <2>3, <3>1, CreationOffered
  <2> QED
    BY <2>1, <2>2, <2>3
<1>2. ps \in SeqOf(GoalProposals, MaxAnswers)
  BY DEF OneAnswer
<1> QED
  BY <1>1, <1>2, BatchReady, AgentsAssumption

LEMMA ReflectionReady ==
  ASSUME NEW ps \in OneAnswer(ReflectionOrder, ReflectionProposals)
  PROVE  Ready(Worker, ps)
<1>1. ASSUME NEW p \in ReflectionProposals
      PROVE  Offers(Worker, p) /\ Ends("memories", p) = {}
  <2>1. \/ p.operation \in {"update_belief", "create_prediction", "verify_prediction",
                            "set_working_state"}
        \/ p.operation = "create_memory" /\ p.payload.kind = "semantic"
    BY DEF ReflectionProposals, ChangeBelief, Pattern, AskQuestions, Propose
  <2>2. CASE p.operation \in {"update_belief", "create_prediction", "verify_prediction",
                              "set_working_state"}
    BY <2>2, ChangeOffered, OtherOffered
  <2>3. CASE p.operation = "create_memory" /\ p.payload.kind = "semantic"
    <3>1. Meant(p)
      BY <2>3 DEF Meant
    <3> QED
      BY <2>3, <3>1, CreationOffered
  <2> QED
    BY <2>1, <2>2, <2>3
<1>2. ps \in SeqOf(ReflectionProposals, MaxAnswers)
  BY DEF OneAnswer
<1> QED
  BY <1>1, <1>2, BatchReady, AgentsAssumption

LEMMA InteractionReady ==
  ASSUME NEW task, NEW ps \in InteractionBatches
  PROVE  Ready(task, ps)
<1>1. ASSUME NEW text
      PROVE  Request(text).operation = "create_goal" /\ Request(text).evidence = {Event}
  BY ProposeIs DEF Request
<1>2. ASSUME NEW patch
      PROVE  Topic(patch).operation = "set_working_state"
  BY ProposeIs DEF Topic
<1>3. PICK patch \in TopicPatches, r \in Requests : ps = << Topic(patch) >> \o r
  BY DEF InteractionBatches
<1>4. Offers(task, Topic(patch)) /\ Ends("memories", Topic(patch)) = {}
  BY <1>2, OtherOffered
<1>5. Ready(task, << Topic(patch) >>)
  BY <1>4, ReadyOne
<1>6. Ready(task, r)
  <2>1. ASSUME NEW p \in {Request(text) : text \in Text}
        PROVE  Offers(task, p) /\ Ends("memories", p) = {}
    <3>1. p.operation = "create_goal" /\ p.evidence = {Event}
      BY <1>1
    <3>2. Meant(p)
      BY <3>1, EventFacts DEF Meant
    <3> QED
      BY <3>1, <3>2, CreationOffered
  <2>2. r \in SeqOf({Request(text) : text \in Text}, MaxEach) /\ MaxEach \in Nat
    BY AgentsAssumption DEF Requests
  <2> QED
    BY <2>1, <2>2, BatchReady
<1>7. ASSUME NEW i \in DOMAIN << Topic(patch) >>
      PROVE  Ends("memories", << Topic(patch) >>[i]) = {}
  <2>1. << Topic(patch) >>[i] = Topic(patch)
    OBVIOUS
  <2> QED
    BY <1>4, <2>1
<1> QED
  BY <1>3, <1>5, <1>6, <1>7, ReadyConcat

-----------------------------------------------------------------------------
(* The run of consolidation.                                               *)

LEMMA SetToSeqIs ==
  ASSUME NEW S, IsFiniteSet(S)
  PROVE  /\ Cardinality(S) \in Nat /\ IsInjective(SetToSeq(S))
         /\ SetToSeq(S) \in [1 .. Cardinality(S) -> S]
         /\ S # {} => 1 \in 1 .. Cardinality(S)
<1>1. Cardinality(S) \in Nat /\ ExistsBijection(1 .. Cardinality(S), S)
  BY FS_CardinalityType
<1>2. \E f \in [1 .. Cardinality(S) -> S] : IsInjective(f)
  BY <1>1 DEF ExistsBijection, Bijection, Injection
<1>3. SetToSeq(S) \in [1 .. Cardinality(S) -> S] /\ IsInjective(SetToSeq(S))
  BY <1>2 DEF SetToSeq
<1>4. Cardinality(S) = 0 => S = {}
  BY FS_EmptySet
<1> QED
  BY <1>1, <1>3, <1>4

LEMMA LiveIsFinite ==
  ASSUME Shape(tables), NEW S \in SUBSET Live("memories")
  PROVE  IsFiniteSet(S) /\ S \subseteq IdsOf("memories")
<1>1. IsSeq(tables["memories"]) /\ IdsOf("memories") = 1 .. Len(tables["memories"])
      /\ Len(tables["memories"]) \in Nat
  BY ShapeFacts DEF Tables, IdsOf
<1>2. IsFiniteSet(1 .. Len(tables["memories"]))
  BY <1>1, FS_Interval
<1>3. S \subseteq IdsOf("memories")
  BY LiveIs DEF Living
<1> QED
  BY <1>1, <1>2, <1>3, FS_Subset

LEMMA MergeOffered ==
  ASSUME Shape(tables), Grounded, NEW left \in SUBSET Live("memories"),
         NEW ids \in Mergeable(left), NEW text
  PROVE  /\ Offers(Worker, Merge(ids, text))
         /\ Merge(ids, text).payload.sources = ids /\ ToSet(ids) \subseteq left
         /\ Touches("memories", Merge(ids, text)) = ToSet(ids)
<1> DEFINE p == Merge(ids, text)
<1>1. /\ p.operation = "merge_memories" /\ p.payload.sources = ids
      /\ p.payload.kind = tables["memories"][ids[1]].kind
  BY ProposeIs DEF Merge
<1> HIDE DEF p
<1>2. IsInjective(ids) /\ Len(ids) >= 2 /\ ids \in SeqOf(left, Cardinality(left))
  BY DEF Mergeable
<1>3. ids \in Seq(left) /\ left \subseteq IdsOf("memories")
  BY <1>2, LiveIsFinite, FS_CardinalityType, SeqOfIs
<1>4. 1 \in DOMAIN ids /\ \A i \in DOMAIN ids : ids[i] \in left
  BY <1>2, <1>3
<1>5. ToSet(ids) \subseteq left
  BY <1>4 DEF ToSet
<1>6. Meant(p)
  <2>1. ASSUME p.payload.kind = "episodic"
        PROVE  ids[1] \in IdsOf("memories") /\ FromEvent(tables["memories"][ids[1]].sources)
    BY <1>1, <1>3, <1>4, <2>1 DEF Grounded
  <2> QED
    BY <1>1, <1>2, <1>4, <2>1 DEF Meant
<1>7. Touches("memories", p) = ToSet(ids)
  BY <1>1 DEF Touches, UpdateOf
<1>8. Offers(Worker, p)
  BY <1>5, <1>6, <1>7, WorkerFacts DEF Offers
<1> QED
  BY <1>1, <1>5, <1>7, <1>8 DEF p

LEMMA MergesReady ==
  ASSUME Shape(tables), Grounded, NEW left \in SUBSET Live("memories"), NEW ps \in Merges(left)
  PROVE  Ready(Worker, ps) /\ Within(ps, left)
<1> DEFINE S == {Merge(ids, text) : ids \in Mergeable(left), text \in Text}
<1>1. /\ ps \in SeqOf(S, MaxEach)
      /\ \A i, j \in DOMAIN ps :
           i # j => ToSet(ps[i].payload.sources) \cap ToSet(ps[j].payload.sources) = {}
  BY DEF Merges
<1>2. ASSUME NEW p \in S
      PROVE  /\ Offers(Worker, p)
             /\ Touches("memories", p) = ToSet(p.payload.sources)
             /\ ToSet(p.payload.sources) \subseteq left
  <2>1. PICK ids \in Mergeable(left), text \in Text : p = Merge(ids, text)
    OBVIOUS
  <2> QED
    BY <2>1, MergeOffered
<1> HIDE DEF S
<1>3. IsSeq(ps) /\ DOMAIN ps \subseteq Nat /\ \A i \in DOMAIN ps : ps[i] \in S
  BY <1>1, AgentsAssumption, SeqOfIs
<1>4. ASSUME NEW i \in DOMAIN ps, NEW j \in DOMAIN ps, i < j
      PROVE  Ends("memories", ps[i]) \cap Touches("memories", ps[j]) = {}
  <2>1. i # j
    BY <1>3, <1>4
  <2>2. Touches("memories", ps[i]) \cap Touches("memories", ps[j]) = {}
    BY <1>1, <1>2, <1>3, <2>1
  <2>3. Ends("memories", ps[i]) \subseteq Touches("memories", ps[i])
    BY DEF Ends
  <2> QED
    BY <2>2, <2>3
<1>5. ASSUME NEW i \in DOMAIN ps
      PROVE  Touches("memories", ps[i]) \subseteq left
  BY <1>2, <1>3
<1> QED
  BY <1>2, <1>3, <1>4, <1>5, WorkerFacts DEF Ready, Within, Offers

LEMMA GeneralizationsReady ==
  ASSUME NEW left, NEW ps \in Generalizations(left)
  PROVE  Ready(Worker, ps) /\ Within(ps, {})
<1> DEFINE All == {Generalization(S, text) : S \in (SUBSET left) \ {{}}, text \in Text}
<1>1. ASSUME NEW p \in All
      PROVE  Offers(Worker, p) /\ Touches("memories", p) = {} /\ Ends("memories", p) = {}
  <2>1. PICK S \in (SUBSET left) \ {{}}, text \in Text : p = Generalization(S, text)
    OBVIOUS
  <2>2. p.operation = "create_memory" /\ p.payload.kind = "semantic"
    BY <2>1, ProposeIs DEF Generalization
  <2>3. Meant(p)
    BY <2>2 DEF Meant
  <2> QED
    BY <2>2, <2>3, CreationOffered
<1>2. ps \in SeqOf(All, MaxEach)
  BY DEF Generalizations
<1> HIDE DEF All
<1> QED
  BY <1>1, <1>2, AgentsAssumption, IdleReady

LEMMA ContradictionsReady ==
  ASSUME Shape(tables), NEW left \in SUBSET Live("memories"), NEW ps \in Contradictions(left)
  PROVE  Ready(Worker, ps) /\ Within(ps, {})
<1> DEFINE Chosen == {S \in SUBSET left : Cardinality(S) >= 2}
           All == {Contradiction(S, text) : S \in Chosen, text \in Text}
<1>1. ASSUME NEW p \in All
      PROVE  Offers(Worker, p) /\ Touches("memories", p) = {} /\ Ends("memories", p) = {}
  <2>1. PICK S \in Chosen, text \in Text : p = Contradiction(S, text)
    OBVIOUS
  <2>2. p.operation = "create_belief" /\ p.evidence = MemoryIds(S)
    BY <2>1, ProposeIs DEF Contradiction
  <2>3. S \subseteq IdsOf("memories")
    BY LiveIsFinite
  <2>4. PICK id : id \in S
    BY FS_EmptySet
  <2>5. <<"memories", id>> \in p.evidence /\ <<"memories", id>> \in MemoryIds(IdsOf("memories"))
    BY <2>2, <2>3, <2>4 DEF MemoryIds
  <2>6. Meant(p)
    BY <2>2, <2>5 DEF Meant, Traceable
  <2> QED
    BY <2>2, <2>6, CreationOffered
<1>2. ps \in SeqOf(All, MaxEach)
  BY DEF Contradictions
<1> HIDE DEF All
<1> QED
  BY <1>1, <1>2, AgentsAssumption, IdleReady

\* What is put before proposals that touch nothing is as ready as it was.
LEMMA ReadyThenIdle ==
  ASSUME NEW task, NEW a, Ready(task, a), NEW rows, Within(a, rows),
         NEW b, Ready(task, b), Within(b, {})
  PROVE  Ready(task, a \o b) /\ Within(a \o b, rows)
<1>1. \A j \in DOMAIN b : Touches("memories", b[j]) = {}
  BY DEF Within
<1>2. Ready(task, a \o b)
  BY <1>1, ReadyConcat
<1>3. Within(b, rows) /\ IsSeq(a) /\ IsSeq(b)
  BY <1>1 DEF Within, Ready
<1> QED
  BY <1>2, <1>3, WithinConcat

LEMMA RestReady ==
  ASSUME Shape(tables), Grounded, NEW left \in SUBSET Live("memories"),
         NEW rest \in Consolidations(left)
  PROVE  Ready(Worker, rest) /\ Within(rest, left)
<1>1. CASE rest = <<>>
  BY <1>1, ReadyNothing DEF Within
<1>2. CASE rest # <<>>
  <2>1. PICK m \in Merges(left), g \in Generalizations(left), c \in Contradictions(left) :
          rest = m \o g \o c
    BY <1>2 DEF Consolidations
  <2>2. Ready(Worker, m \o g) /\ Within(m \o g, left)
    BY MergesReady, GeneralizationsReady, ReadyThenIdle
  <2>3. Ready(Worker, m \o g \o c) /\ Within(m \o g \o c, left)
    BY <2>2, ContradictionsReady, ReadyThenIdle
  <2> QED
    BY <2>1, <2>3
<1> QED
  BY <1>1, <1>2

\* Decay ends memories that are live, each one once.
LEMMA DecaysReady ==
  ASSUME Shape(tables), NEW old \in SUBSET Live("memories")
  PROVE  Ready(Worker, Decays(old)) /\ Within(Decays(old), old)
<1> DEFINE ps == Decays(old)
           ids == SetToSeq(old)
           n == Cardinality(old)
<1>1. IsFiniteSet(old)
  BY LiveIsFinite
<1>2. n \in Nat /\ IsInjective(ids) /\ ids \in [1 .. n -> old]
  BY <1>1, SetToSeqIs
<1>3. DOMAIN ps = 1 .. n /\ \A i \in 1 .. n : ps[i] = Decay(ids[i])
  BY DEF Decays
<1>4. ps \in [1 .. n -> {Decay(id) : id \in old}]
  BY <1>2 DEF Decays
<1> HIDE DEF n
<1>5. ps \in Seq({Decay(id) : id \in old})
  BY <1>2, <1>4
<1> HIDE DEF ps, ids
<1>6. ASSUME NEW id
      PROVE  /\ Decay(id).operation = "update_memory" /\ Decay(id).target = id
             /\ Decay(id).payload.text = None
  BY ProposeIs DEF Decay
<1>7. ASSUME NEW i \in 1 .. n
      PROVE  Meant(ps[i]) /\ ids[i] \in old /\ Touches("memories", ps[i]) = {ids[i]}
  <2>1. ids[i] \in old /\ ps[i] = Decay(ids[i])
    BY <1>2, <1>3
  <2>2. /\ ps[i].operation = "update_memory" /\ ps[i].target = ids[i]
        /\ ps[i].payload.text = None
    BY <1>6, <2>1
  <2> QED
    BY <2>1, <2>2 DEF Meant, Touches, UpdateOf
<1>8. ASSUME NEW i \in 1 .. n
      PROVE  /\ Offers(Worker, ps[i])
             /\ Touches("memories", ps[i]) \subseteq old
  BY <1>7, WorkerFacts DEF Offers
<1>9. ASSUME NEW i \in 1 .. n, NEW j \in 1 .. n, i < j
      PROVE  Ends("memories", ps[i]) \cap Touches("memories", ps[j]) = {}
  <2>1. Ends("memories", ps[i]) \subseteq Touches("memories", ps[i])
    BY DEF Ends
  <2>2. i # j
    BY <1>2, <1>9
  <2>3. ids[i] # ids[j]
    BY <1>2, <2>2 DEF IsInjective
  <2>4. Touches("memories", ps[i]) \cap Touches("memories", ps[j]) = {}
    BY <1>7, <2>3
  <2> QED
    BY <2>1, <2>4
<1>10. IsSeq(ps)
  BY <1>5 DEF IsSeq
<1>11. Ready(Worker, ps) /\ Within(ps, old)
  BY <1>3, <1>8, <1>9, <1>10 DEF Ready, Within, Offers
<1> QED
  BY <1>11 DEF ps

LEMMA ConsolidationReady ==
  ASSUME Shape(tables), Grounded, NEW ps \in ConsolidationBatches
  PROVE  Ready(Worker, ps)
<1> DEFINE live == WithStatus("memories", LiveMemory)
<1>0. PICK old \in SUBSET live : ps \in {Decays(old) \o rest : rest \in Consolidations(live \ old)}
  BY DEF ConsolidationBatches
<1>1. PICK rest \in Consolidations(live \ old) : ps = Decays(old) \o rest
  BY <1>0
<1>2. live = Live("memories")
  BY DEF Live, LiveOf
<1>3. Ready(Worker, Decays(old)) /\ Within(Decays(old), old)
  BY <1>2, DecaysReady
<1>4. Ready(Worker, rest) /\ Within(rest, live \ old)
  BY <1>2, RestReady
<1>5. ASSUME NEW i \in DOMAIN Decays(old), NEW j \in DOMAIN rest
      PROVE  Ends("memories", Decays(old)[i]) \cap Touches("memories", rest[j]) = {}
  <2>1. Ends("memories", Decays(old)[i]) \subseteq old
    BY <1>3 DEF Within, Ends
  <2>2. Touches("memories", rest[j]) \subseteq live \ old
    BY <1>4 DEF Within
  <2> QED
    BY <2>1, <2>2
<1> QED
  BY <1>1, <1>3, <1>4, <1>5, ReadyConcat

-----------------------------------------------------------------------------
(* The steps.                                                              *)

LEMMA QuietStep ==
  ASSUME UNCHANGED engineVars
  PROVE  /\ \A task, ps : Ready(task, ps) => Ready(task, ps)'
         /\ EngineInv => EngineInv'
         /\ Grounded => Grounded'
         /\ LiveMemoriesDistinct => LiveMemoriesDistinct'
         /\ LiveRowsDistinct => LiveRowsDistinct'
<1>1. tables' = tables /\ transitions' = transitions
  BY DEF engineVars
<1>2. ASSUME NEW task, NEW ps, Ready(task, ps)
      PROVE  Ready(task, ps)'
  <2>1. \A p : Meant(p) => Meant(p)'
    BY <1>1 DEF Meant, Traceable, FromEvent, IdsOf
  <2>2. Live("memories")' = Live("memories")
    BY <1>1 DEF Live, WithStatus, IdsOf
  <2> QED
    BY <1>2, <2>1, <2>2 DEF Ready
<1>3. EngineInv => EngineInv'
  BY EngineStep
<1>4. Grounded => Grounded'
  BY <1>1 DEF Grounded, Traceable, FromEvent, IdsOf
<1>5. LiveMemoriesDistinct => LiveMemoriesDistinct'
  BY <1>1 DEF LiveMemoriesDistinct, WrittenByMerge, WithStatus, IdsOf
<1>6. LiveRowsDistinct => LiveRowsDistinct'
  BY <1>1 DEF LiveRowsDistinct, Revived, WithStatus, IdsOf
<1> QED
  BY <1>2, <1>3, <1>4, <1>5, <1>6

\* A step that leaves the state alone and gives one task a batch that is ready.
LEMMA BatchGiven ==
  ASSUME AgentsInv, UNCHANGED engineVars, NEW task \in Task, NEW ps, Ready(task, ps),
         queue' = [queue EXCEPT ![task] = ps]
  PROVE  AgentsInv'
<1>1. EngineInv' /\ Grounded' /\ LiveMemoriesDistinct' /\ LiveRowsDistinct'
  BY QuietStep DEF AgentsInv
<1>2. DOMAIN queue = Task /\ DOMAIN queue' = Task
  BY DEF AgentsInv, Queued
<1>3. ASSUME NEW other \in Task
      PROVE  Ready(other, queue[other])'
  <2>1. CASE other = task
    <3>1. queue'[other] = ps
      BY <1>2, <2>1
    <3> QED
      BY <2>1, <3>1, QuietStep
  <2>2. CASE other # task
    <3>1. queue'[other] = queue[other] /\ Ready(other, queue[other])
      BY <1>2, <2>2 DEF AgentsInv, Queued
    <3> QED
      BY <3>1, QuietStep
  <2> QED
    BY <2>1, <2>2
<1>4. Queued'
  BY <1>2, <1>3 DEF Queued
<1> QED
  BY <1>1, <1>4 DEF AgentsInv

LEMMA RunStep ==
  ASSUME AgentsInv, NEW task \in Task, NEW agent, NEW batches, Run(task, agent, batches),
         \A ps \in batches : Ready(task, ps)
  PROVE  AgentsInv'
<1>1. PICK ps \in batches : queue' = [queue EXCEPT ![task] = ps]
  BY DEF Run
<1>2. UNCHANGED engineVars
  BY DEF Run
<1> QED
  BY <1>1, <1>2, BatchGiven

\* What a commit of the next proposal of a batch rests on.
LEMMA HeadFacts ==
  ASSUME AgentsInv, NEW task \in Task, queue[task] # <<>>
  PROVE  /\ Meant(Head(queue[task])) /\ Ready(task, Tail(queue[task]))
         /\ Touches("memories", Head(queue[task])) \subseteq Live("memories")
BY TailReady DEF AgentsInv, Queued

LEMMA CommitStep ==
  ASSUME AgentsInv, NEW task \in Task, CommitNext(task)
  PROVE  AgentsInv'
<1>1. PICK p, rest : p = Head(queue[task]) /\ rest = Tail(queue[task])
  OBVIOUS
<1>2. /\ queue[task] # <<>> /\ CommitOne(p) /\ queue' = [queue EXCEPT ![task] = rest]
      /\ EngineInv /\ DOMAIN queue = Task /\ Ready(task, queue[task])
  BY <1>1 DEF CommitNext, AgentsInv, Queued
<1>3. /\ Meant(p) /\ Ready(task, rest)
      /\ Touches("memories", p) \subseteq Live("memories")
      /\ \A i \in DOMAIN rest : Ends("memories", p) \cap Touches("memories", rest[i]) = {}
      /\ task \in Clients => Touches("memories", p) = {}
  BY <1>1, <1>2, TailReady
<1>4. EngineInv'
  BY <1>2, <1>3, CommitKeeps DEF Meant
<1>5. Grounded'
  BY <1>2, <1>3, GroundedAfter DEF AgentsInv
<1>6. LiveMemoriesDistinct'
  BY <1>2, <1>3, LiveMemoriesDistinctAfter DEF AgentsInv
<1>7. LiveRowsDistinct'
  BY <1>2, <1>3, LiveRowsDistinctAfter DEF AgentsInv
<1>8. ASSUME NEW other \in Task
      PROVE  Ready(other, queue[other])'
  <2>1. CASE other = task
    <3>1. Ready(task, rest)'
      BY <1>2, <1>3, ReadyAfter
    <3>2. queue'[other] = rest
      BY <1>2, <2>1
    <3> QED
      BY <2>1, <3>1, <3>2
  <2>2. CASE other # task
    <3>1. PICK ps : ps = queue[other]
      OBVIOUS
    <3>2. queue'[other] = ps /\ Ready(other, ps)
      BY <1>2, <2>2, <3>1 DEF AgentsInv, Queued
    <3>3. ASSUME NEW i \in DOMAIN ps
          PROVE  Ends("memories", p) \cap Touches("memories", ps[i]) = {}
      <4>1. CASE other \in Clients
        BY <3>2, <4>1 DEF Ready
      <4>2. CASE other = Worker
        <5>1. task \in Clients
          BY <2>2, <4>2 DEF Task
        <5> QED
          BY <1>3, <5>1 DEF Ends
      <4> QED
        BY <4>1, <4>2 DEF Task
    <3>4. Ready(other, ps)'
      BY <1>2, <1>3, <3>2, <3>3, ReadyAfter
    <3> QED
      BY <3>2, <3>4
  <2> QED
    BY <2>1, <2>2
<1>9. Queued'
  BY <1>2, <1>8 DEF Queued
<1> QED
  BY <1>4, <1>5, <1>6, <1>7, <1>9 DEF AgentsInv

LEMMA AgentsStart == Init => AgentsInv
<1> SUFFICES ASSUME Init PROVE AgentsInv
  OBVIOUS
<1>1. EngineInit /\ queue = [t \in Task |-> <<>>]
  BY DEF Init
<1>2. EngineInv
  BY <1>1, EngineStarts
<1>3. IdsOf("memories") = {} /\ IdsOf("beliefs") = {} /\ IdsOf("goals") = {}
  BY <1>1 DEF EngineInit, IdsOf, Tables, Singletons
<1>4. Grounded
  BY <1>3 DEF Grounded
<1>5. LiveMemoriesDistinct /\ LiveRowsDistinct
  BY <1>3 DEF LiveMemoriesDistinct, LiveRowsDistinct, WithStatus
<1>6. Queued
  BY <1>1, ReadyNothing DEF Queued
<1> QED
  BY <1>2, <1>4, <1>5, <1>6 DEF AgentsInv

LEMMA AgentsNext == AgentsInv /\ [Next]_vars => AgentsInv'
<1> SUFFICES ASSUME AgentsInv, [Next]_vars PROVE AgentsInv'
  OBVIOUS
<1> USE WorkerFacts
<1>0. Shape(tables) /\ Grounded
  BY DEF AgentsInv, EngineInv
<1>1. CASE RunMemory
  BY <1>0, <1>1, MemoryReady, RunStep DEF RunMemory
<1>2. CASE RunBeliefs
  BY <1>0, <1>2, BeliefsReady, RunStep DEF RunBeliefs
<1>3. CASE RunSelfModel
  BY <1>0, <1>3, SelfReady, RunStep DEF RunSelfModel
<1>4. CASE RunGoals
  BY <1>0, <1>4, GoalsReady, RunStep DEF RunGoals
<1>5. CASE RunConsolidation
  BY <1>0, <1>5, ConsolidationReady, RunStep DEF RunConsolidation
<1>6. CASE RunReflection
  BY <1>0, <1>6, ReflectionReady, RunStep DEF RunReflection
<1>7. CASE RunInteraction
  <2>1. PICK c \in Clients : Run(c, "interaction", InteractionBatches)
    BY <1>7 DEF RunInteraction
  <2> QED
    BY <2>1, InteractionReady, RunStep
<1>8. CASE ReadWorking
  <2> DEFINE c == Last(queue[Worker])
             p == AskQuestions("goals", c.evidence, c.payload.questions)
  <2>1. /\ queue' = [queue EXCEPT ![Worker][Len(queue[Worker])] = p]
        /\ UNCHANGED engineVars
    BY <1>8 DEF ReadWorking
  <2>2. /\ Offers(Worker, p) /\ Touches("memories", p) = {} /\ Ends("memories", p) = {}
    BY QuestionOffered
  <2> HIDE DEF p
  <2>3. PICK ps : ps = queue[Worker]
    OBVIOUS
  <2>4. Ready(Worker, [ps EXCEPT ![Len(ps)] = p])
    BY <2>2, <2>3, LastReplaced DEF AgentsInv, Queued
  <2>5. queue' = [queue EXCEPT ![Worker] = [ps EXCEPT ![Len(ps)] = p]]
    BY <2>1, <2>3
  <2> QED
    BY <2>1, <2>4, <2>5, BatchGiven
<1>9. CASE \E t \in Task : CommitNext(t) \/ Abandon(t)
  <2>1. PICK t \in Task : CommitNext(t) \/ Abandon(t)
    BY <1>9
  <2>2. CASE CommitNext(t)
    BY <2>2, CommitStep
  <2>3. CASE Abandon(t)
    BY <2>3, ReadyNothing, BatchGiven DEF Abandon
  <2> QED
    BY <2>1, <2>2, <2>3
<1>10. CASE UNCHANGED vars
  <2>1. UNCHANGED engineVars /\ queue' = queue
    BY <1>10 DEF vars
  <2>2. Queued'
    BY <2>1, QuietStep DEF AgentsInv, Queued
  <2> QED
    BY <2>1, <2>2, QuietStep DEF AgentsInv
<1> QED
  BY <1>1, <1>2, <1>3, <1>4, <1>5, <1>6, <1>7, <1>8, <1>9, <1>10 DEF Next

-----------------------------------------------------------------------------
(* The properties.                                                         *)

\* In every state the agents reach, each batch that waits touches live memories only, and
\* the rows have the properties below: AgentsInv is inductive.
THEOREM AgentsInvariant == Spec => []AgentsInv
BY AgentsStart, AgentsNext, PTL DEF Spec

\* Every episodic memory and every goal came from an event, and every belief rests on an
\* event or a memory there is, whatever the agents propose of what they have read.
THEOREM GroundedHolds == Spec => []Grounded
<1>1. AgentsInv => Grounded
  BY DEF AgentsInv
<1> QED
  BY <1>1, AgentsInvariant, PTL

\* Two live goals, or two live beliefs, say the same only if one of them was put to use
\* again after it had ended.
THEOREM LiveRowsDistinctHolds == Spec => []LiveRowsDistinct
<1>1. AgentsInv => LiveRowsDistinct
  BY DEF AgentsInv
<1> QED
  BY <1>1, AgentsInvariant, PTL

\* Two live memories say the same only if the log has a merge that created one of them.
THEOREM LiveMemoriesDistinctHolds == Spec => []LiveMemoriesDistinct
<1>1. AgentsInv => LiveMemoriesDistinct
  BY DEF AgentsInv
<1> QED
  BY <1>1, AgentsInvariant, PTL

LEMMA NextCommits ==
  ASSUME AgentsInv, [Next]_vars
  PROVE  \/ UNCHANGED engineVars
         \/ \E p : /\ Meant(p) /\ CommitOne(p)
                   /\ Touches("memories", p) \subseteq Live("memories")
<1>1. CASE \E t \in Task : CommitNext(t)
  <2>1. PICK t \in Task : CommitNext(t)
    BY <1>1
  <2>2. PICK p : p = Head(queue[t])
    OBVIOUS
  <2>3. CommitOne(p) /\ queue[t] # <<>>
    BY <2>1, <2>2 DEF CommitNext
  <2>4. Meant(p) /\ Touches("memories", p) \subseteq Live("memories")
    BY <2>2, <2>3, HeadFacts
  <2> QED
    BY <2>3, <2>4
<1>2. CASE /\ ~ \E t \in Task : CommitNext(t)
           /\ Next
  BY <1>2 DEF Next, RunMemory, RunBeliefs, RunSelfModel, RunGoals, RunConsolidation,
              RunReflection, RunInteraction, Run, ReadWorking, Abandon
<1>3. CASE UNCHANGED vars
  BY <1>3 DEF vars
<1> QED
  BY <1>1, <1>2, <1>3

\* A memory that was archived or merged away is never touched again, whatever was read
\* before and is committed after it went out of use.
THEOREM EndedMemoriesStayHolds == Spec => EndedMemoriesStay
<1>1. ASSUME AgentsInv, [Next]_vars, NEW id \in IdsOf("memories"),
             tables["memories"][id].status \in TerminalMemory
      PROVE  tables'["memories"][id] = tables["memories"][id]
  <2>1. CASE UNCHANGED engineVars
    BY <2>1 DEF engineVars
  <2>2. CASE \E p : /\ Meant(p) /\ CommitOne(p)
                    /\ Touches("memories", p) \subseteq Live("memories")
    <3>1. PICK p : /\ Meant(p) /\ CommitOne(p)
                   /\ Touches("memories", p) \subseteq Live("memories")
      BY <2>2
    <3>2. EngineInv /\ "memories" \in Living /\ Touches("memories", p) \subseteq Live("memories")
      BY <1>1, <3>1, LivingFacts DEF AgentsInv
    <3>3. id \in Live("memories") \/ tables'["memories"][id] = tables["memories"][id]
      BY <1>1, <3>1, <3>2, OldRow
    <3>4. id \notin Live("memories")
      BY <1>1, <3>2, LiveIs DEF LiveOf, LiveMemory, TerminalMemory
    <3> QED
      BY <3>3, <3>4
  <2> QED
    BY <1>1, <2>1, <2>2, NextCommits
<1>2. AgentsInv /\ [Next]_vars =>
        [\A id \in IdsOf("memories") :
           tables["memories"][id].status \in TerminalMemory
             => tables'["memories"][id] = tables["memories"][id]]_vars
  BY <1>1
<1> QED
  BY <1>2, AgentsInvariant, PTL DEF Spec, EndedMemoriesStay

\* The agents drive the engine: what is proved of it whoever commits holds under them.
THEOREM AgentsDriveEngine == Spec => EngineSpec
<1>1. Init => EngineInit
  BY DEF Init
<1>2. AgentsInv /\ [Next]_vars => [EngineNext]_engineVars
  BY NextCommits DEF EngineNext, Meant
<1> QED
  BY <1>1, <1>2, AgentsInvariant, PTL DEF Spec, EngineSpec

\* Under the agents too the audit log traces every row, versions count transitions, a
\* vector is that of the present text, entities are known once and provenance grows.
THEOREM EngineUnderAgents ==
  Spec => /\ [](EngineTypeOK /\ AuditTrail /\ VersionsCountTransitions)
          /\ [](VectorsMatchText /\ EntitiesResolve)
          /\ ProvenanceGrows
<1>1. Spec => ProvenanceGrows
  BY AgentsDriveEngine, ProvenanceHolds
<1> QED
  BY <1>1, AgentsDriveEngine, EngineTypeCorrect, AuditTrailHolds, VersionsHold, VectorsHold,
     EntitiesHold, PTL

=============================================================================
