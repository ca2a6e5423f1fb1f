------------------------------- MODULE Engine -------------------------------
(***************************************************************************)
(* The state engine, sole writer of the cognitive state: commit_one and    *)
(* what it calls in src/src/state/engine.rs, with the payload rules of     *)
(* state/models.rs and the look-ups of store/state.rs.                     *)
(*                                                                         *)
(*   validate -> fold a near-duplicate -> transitions -> vectors, journal  *)
(*                                                                         *)
(* commit_locked runs under the store mutex, so a commit is one action.    *)
(* A commit either rejects its proposal, and changes no row, or appends    *)
(* transitions with the rows before and after.                             *)
(*                                                                         *)
(* Abstracted: the id of a row is its position in its table; two texts are *)
(* equal when they are the same up to the threshold of deduplication (or,  *)
(* for goals, up to case); evidence is a set; numbers in [0, 1], origins,  *)
(* deadlines and timestamps are left out.  Names that begin with "ent_",   *)
(* which find_entity reads as ids, are not used.                           *)
(***************************************************************************)
EXTENDS Integers, SequencesExt

CONSTANTS
  None,         \* "not given", "no such row", JSON's null
  Text          \* what summaries, propositions and descriptions say

ASSUME EngineAssumption == None \notin Nat /\ None \notin Text

VARIABLES
  tables,       \* State.tables, State.working and State.self_state
  vectors,      \* State.slots: <<table, id>> -> the text that is embedded
  transitions,  \* State.transitions
  proposals     \* State.proposals: of [agent, operation, accepted]

engineVars == <<tables, vectors, transitions, proposals>>

Tables == {"memories", "beliefs", "goals", "predictions", "entities",
           "entity_relationships", "working_state", "self_state"}
Singletons == {"working_state", "self_state"}

MemoryKind == {"episodic", "semantic"}
LiveMemory == {"candidate", "active", "reinforced", "consolidated"}
LiveBelief == {"hypothesis", "active", "uncertain", "contradicted"}
LiveGoal == {"proposed", "active", "blocked"}
TerminalMemory == {"deprecated", "archived"}
TerminalBelief == {"contradicted", "deprecated"}
MemoryStatus == LiveMemory \cup TerminalMemory
BeliefStatus == LiveBelief \cup TerminalBelief
GoalStatus == LiveGoal \cup {"completed", "abandoned", "superseded"}

IdsOf(table) == DOMAIN tables[table]

\* A map with the entries of another over its own.
Overlaid(new, old) ==
  [x \in DOMAIN new \cup DOMAIN old |-> IF x \in DOMAIN new THEN new[x] ELSE old[x]]

\* mutant: an id is drawn twice, and the second one is used
NextIdDrawnTwice(table) == Len(tables[table]) + 2

\* ids.next
NextIdOf(table) == Len(tables[table]) + 1

EngineInit ==
  /\ tables = [t \in Tables |->
       IF t \in Singletons THEN << [data |-> <<>>, version |-> 1] >> ELSE <<>>]
  /\ vectors = <<>>
  /\ transitions = <<>>
  /\ proposals = <<>>

-----------------------------------------------------------------------------
(* Proposals.                                                              *)

\* embed_field: the operations whose text is embedded.
Embedded == {"create_memory", "update_memory", "merge_memories", "create_belief"}
Operations == Embedded \cup
  {"update_belief", "create_goal", "update_goal", "create_prediction", "verify_prediction",
   "upsert_entity", "add_relationship", "set_working_state", "update_self_state"}

Propose(agent, operation, target, evidence, payload) ==
  [agent |-> agent, operation |-> operation, target |-> target,
   evidence |-> evidence, payload |-> payload]

NeedsEvidence == {"create_memory", "merge_memories", "create_belief", "create_goal",
                  "create_prediction", "upsert_entity", "add_relationship"}
NeedsTarget == {"update_memory", "update_belief", "update_goal", "verify_prediction"}

\* Only the harness may grant capabilities or permissions.
MayPatch(p) ==
  p.agent = "harness" \/ {"capabilities", "permissions"} \cap DOMAIN p.payload.patch = {}

\* parse_payload: an operation there is, a text where one is needed, a kind of
\* memory, a status of its table, two memories to merge.  (An update of a memory may carry the empty
\* summary; no caller gives one, and it is left out.)
Parses(p) ==
  /\ p.operation \in Operations
  /\ p.operation \in Embedded \ {"update_memory"} => p.payload.text \in Text
  /\ p.operation = "update_memory" =>
       p.payload.text \in Text \cup {None} /\ p.payload.status \in MemoryStatus \cup {None}
  /\ p.operation = "create_memory" => p.payload.status \in MemoryStatus
  /\ p.operation \in {"create_memory", "merge_memories"} => p.payload.kind \in MemoryKind
  /\ p.operation = "merge_memories" =>
       p.payload.sources \in Seq(Nat) /\ Len(p.payload.sources) >= 2
  /\ p.operation = "create_belief" => p.payload.status \in BeliefStatus
  /\ p.operation = "update_belief" => p.payload.status \in BeliefStatus \cup {None}
  /\ p.operation = "create_goal" => p.payload.status \in GoalStatus
  /\ p.operation = "update_goal" => p.payload.status \in GoalStatus \cup {None}

Valid(p) ==
  /\ Parses(p)
  /\ p.operation \in NeedsEvidence => p.evidence # {}
  /\ p.operation \in NeedsTarget => p.target # None
  /\ p.operation = "update_self_state" => MayPatch(p)

-----------------------------------------------------------------------------
(* Look-ups.                                                               *)

\* load: the target exists and has the version that was expected, if any.
Loads(table, id, expected) ==
  /\ id \in IdsOf(table)
  /\ expected # None => tables[table][id].version = expected

\* mutant: the status is looked at only after the nearest row was taken
NearestThenLive(table, text, statuses) ==
  LET hits == {i \in IdsOf(table) :
                 <<table, i>> \in DOMAIN vectors /\ vectors[<<table, i>>] = text}
  IN IF hits = {} \/ tables[table][Min(hits)].status \notin statuses
     THEN None ELSE Min(hits)

\* State::similar with k = 1: the oldest of the nearest rows.
Nearest(table, text, statuses) ==
  LET hits == {i \in IdsOf(table) :
                 /\ tables[table][i].status \in statuses
                 /\ <<table, i>> \in DOMAIN vectors
                 /\ vectors[<<table, i>>] = text}
  IN IF hits = {} THEN None ELSE Min(hits)

\* mutant: only the newest entity is compared
FindNewest(name, kind) ==
  LET n == Len(tables["entities"])
  IN IF n > 0 /\ tables["entities"][n].name = name
        /\ (kind = None \/ tables["entities"][n].kind = kind)
     THEN n ELSE None

\* find_entity: the oldest entity of that name and, if given, of that kind.
FindEntity(name, kind) ==
  LET hits == {i \in IdsOf("entities") :
                 /\ tables["entities"][i].name = name
                 /\ kind = None \/ tables["entities"][i].kind = kind}
  IN IF hits = {} THEN None ELSE Min(hits)

\* mutant: only active goals count as live
DuplicateActiveGoal(p) ==
  p.operation = "create_goal"
  /\ \E i \in IdsOf("goals") :
       /\ tables["goals"][i].description = p.payload.description
       /\ tables["goals"][i].status = "active"

\* A live goal has the description that a proposal wants to create.
DuplicateGoal(p) ==
  p.operation = "create_goal"
  /\ \E i \in IdsOf("goals") :
       /\ tables["goals"][i].description = p.payload.description
       /\ tables["goals"][i].status \in LiveGoal

-----------------------------------------------------------------------------
(* fold_duplicate.                                                         *)

FoldTarget(p) ==
  CASE p.operation = "create_memory" -> Nearest("memories", p.payload.text, LiveMemory)
    [] p.operation = "create_belief" -> Nearest("beliefs", p.payload.text, LiveBelief)
    [] OTHER -> None

\* events_of: evidence may also name memories.
EventsOf(p) == {e \in p.evidence : e[1] = "event"}

\* The events a memory is said to come from, by its payload or by its evidence.
SourcesGiven(p) == IF p.payload.sources = {} THEN EventsOf(p) ELSE p.payload.sources

\* The proposal that a near-duplicate becomes.
Folded(p) ==
  IF p.operation = "create_memory"
  THEN Propose(p.agent, "update_memory", FoldTarget(p), p.evidence,
               [text |-> None, status |-> None, reinforce |-> TRUE, expected |-> None,
                addSources |-> SourcesGiven(p)])
  ELSE Propose(p.agent, "update_belief", FoldTarget(p), p.evidence,
               [status |-> None, expected |-> None,
                addSupporting |-> EventsOf(p), addContradicting |-> {}])

-----------------------------------------------------------------------------
(* apply_op: the transitions of a proposal, none if it is rejected.        *)

Transition(table, id, before, after, embed) ==
  [table |-> table, id |-> id, before |-> before, after |-> after, embed |-> embed]

\* mutant: the evidence of an update replaces the old one
EvidenceReplaced(before, p) == p.evidence

\* bump keeps the evidence of the row and adds the proposal's.
Evidence(before, p) == before.evidence \cup p.evidence

\* mutant: an update keeps the version of the row
SameVersion(before) == before.version

NextVersion(before) == before.version + 1

CreateMemory(p) ==
  << Transition("memories", NextIdOf("memories"), None,
       [text |-> p.payload.text, kind |-> p.payload.kind, status |-> p.payload.status,
        version |-> 1, sources |-> SourcesGiven(p), evidence |-> p.evidence, accesses |-> 0], TRUE) >>

UpdateMemory(p) ==
  LET before == tables["memories"][p.target]
      status == IF p.payload.status # None THEN p.payload.status
                ELSE IF p.payload.reinforce THEN "reinforced" ELSE None
  IN << Transition("memories", p.target, before,
          [before EXCEPT
             !.text = IF p.payload.text # None THEN p.payload.text ELSE @,
             !.status = IF status # None THEN status ELSE @,
             !.accesses = IF p.payload.reinforce THEN @ + 1 ELSE @,
             !.sources = @ \cup p.payload.addSources,
             !.evidence = Evidence(before, p),
             !.version = NextVersion(before)],
          p.payload.text # None) >>

\* mutant: the merged row takes the sources of the first memory only
SourcesOfFirst(ids) == tables["memories"][ids[1]].sources

\* mutant: the merged row names the memories it replaces, not their events
MergedIds(ids) == {<<"memories", ids[i]>> : i \in DOMAIN ids}

SourcesOf(ids) == UNION {tables["memories"][ids[i]].sources : i \in DOMAIN ids}

SumAccesses(ids) == FoldLeft(LAMBDA n, id : n + tables["memories"][id].accesses, 0, ids)

\* Two memories to merge.
PairsOf(ids) == {pair \in ids \X ids : pair[1] # pair[2]}

MergedRow(p) ==
  [text |-> p.payload.text, kind |-> p.payload.kind, status |-> "consolidated", version |-> 1,
   sources |-> SourcesOf(p.payload.sources),
   evidence |-> p.evidence \cup {<<"memories", i>> : i \in ToSet(p.payload.sources)},
   accesses |-> SumAccesses(p.payload.sources)]

ReplacedBy(new, id) ==
  LET before == tables["memories"][id]
  IN Transition("memories", id, before,
       [before EXCEPT !.status = "deprecated", !.version = NextVersion(before),
                      !.evidence = @ \cup {<<"memories", new>>}], FALSE)

MergeMemories(p) ==
  LET new == NextIdOf("memories")
  IN << Transition("memories", new, None, MergedRow(p), TRUE) >>
       \o [i \in DOMAIN p.payload.sources |-> ReplacedBy(new, p.payload.sources[i])]

CreateBelief(p) ==
  << Transition("beliefs", NextIdOf("beliefs"), None,
       [text |-> p.payload.text, status |-> p.payload.status, version |-> 1,
        supporting |-> p.evidence, contradicting |-> {}], TRUE) >>

UpdateBelief(p) ==
  LET before == tables["beliefs"][p.target]
  IN << Transition("beliefs", p.target, before,
          [before EXCEPT
             !.status = IF p.payload.status # None THEN p.payload.status ELSE @,
             !.supporting = @ \cup p.payload.addSupporting,
             !.contradicting = @ \cup p.payload.addContradicting,
             !.version = NextVersion(before)], FALSE) >>

CreateGoal(p) ==
  << Transition("goals", NextIdOf("goals"), None,
       [description |-> p.payload.description, status |-> p.payload.status,
        evidence |-> p.evidence, version |-> 1], FALSE) >>

UpdateGoal(p) ==
  LET before == tables["goals"][p.target]
  IN << Transition("goals", p.target, before,
          [before EXCEPT !.status = IF p.payload.status # None THEN p.payload.status ELSE @,
                         !.evidence = Evidence(before, p),
                         !.version = NextVersion(before)], FALSE) >>

CreatePrediction(p) ==
  << Transition("predictions", NextIdOf("predictions"), None,
       [verified |-> None, evidence |-> p.evidence, version |-> 1], FALSE) >>

VerifyPrediction(p) ==
  LET before == tables["predictions"][p.target]
  IN << Transition("predictions", p.target, before,
          [before EXCEPT !.verified = p.payload.verified, !.evidence = Evidence(before, p),
                         !.version = NextVersion(before)], FALSE) >>

UpsertEntity(p) ==
  LET found == FindEntity(p.payload.name, p.payload.kind)
  IN IF found = None
     THEN << Transition("entities", NextIdOf("entities"), None,
               [name |-> p.payload.name, kind |-> p.payload.kind, evidence |-> p.evidence,
                version |-> 1], FALSE) >>
     ELSE LET before == tables["entities"][found]
          IN << Transition("entities", found, before,
                  [before EXCEPT !.evidence = Evidence(before, p), !.version = NextVersion(before)],
                  FALSE) >>

KnowsBoth(p) == FindEntity(p.payload.src, None) # None /\ FindEntity(p.payload.dst, None) # None

AddRelationship(p) ==
  << Transition("entity_relationships", NextIdOf("entity_relationships"), None,
       [src |-> FindEntity(p.payload.src, None), dst |-> FindEntity(p.payload.dst, None),
        evidence |-> p.evidence], FALSE) >>

PatchState(table, p) ==
  LET before == tables[table][1]
  IN << Transition(table, 1, before,
          [data |-> Overlaid(p.payload.patch, before.data),
           version |-> NextVersion(before)], FALSE) >>

Apply(p) ==
  CASE p.operation = "create_memory" -> CreateMemory(p)
    [] p.operation = "update_memory" ->
         IF Loads("memories", p.target, p.payload.expected) THEN UpdateMemory(p) ELSE <<>>
    [] p.operation = "merge_memories" ->
         IF \A i \in DOMAIN p.payload.sources : Loads("memories", p.payload.sources[i], None)
         THEN MergeMemories(p) ELSE <<>>
    [] p.operation = "create_belief" -> CreateBelief(p)
    [] p.operation = "update_belief" ->
         IF Loads("beliefs", p.target, p.payload.expected) THEN UpdateBelief(p) ELSE <<>>
    [] p.operation = "create_goal" -> IF DuplicateGoal(p) THEN <<>> ELSE CreateGoal(p)
    [] p.operation = "update_goal" ->
         IF Loads("goals", p.target, p.payload.expected) THEN UpdateGoal(p) ELSE <<>>
    [] p.operation = "create_prediction" -> CreatePrediction(p)
    [] p.operation = "verify_prediction" ->
         IF Loads("predictions", p.target, None) THEN VerifyPrediction(p) ELSE <<>>
    [] p.operation = "upsert_entity" -> UpsertEntity(p)
    [] p.operation = "add_relationship" ->
         IF KnowsBoth(p) THEN AddRelationship(p) ELSE <<>>
    [] p.operation = "set_working_state" ->
         IF Loads("working_state", 1, p.payload.expected)
         THEN PatchState("working_state", p) ELSE <<>>
    [] p.operation = "update_self_state" ->
         IF Loads("self_state", 1, p.payload.expected)
         THEN PatchState("self_state", p) ELSE <<>>

-----------------------------------------------------------------------------
(* commit_locked.                                                          *)

\* mutant: upsert adds a row where there is one
UpsertAppends(rows, id, row) == Append(rows, row)

\* Table::upsert: ids are positions, and a new row has the next one.
Upsert(rows, id, row) ==
  IF id \in DOMAIN rows THEN [rows EXCEPT ![id] = row] ELSE Append(rows, row)

WriteRow(db, t) == [db EXCEPT ![t.table] = Upsert(@, t.id, t.after)]

Written(ts) == FoldLeft(WriteRow, tables, ts)

\* mutant: every transition of the commit gets the vector
EmbedsAll(ts) == DOMAIN ts

\* The transitions that carry the embedded text.
Embeds(ts) == {i \in DOMAIN ts : ts[i].embed}

KeyOf(t) == <<t.table, t.id>>
KeysOf(ts, I) == {KeyOf(ts[i]) : i \in I}

\* embed_text; a folded proposal loses its vector.
EmbedText(p, folded) ==
  IF ~folded /\ p.operation \in Embedded THEN p.payload.text ELSE None

\* The proposal folds into a row there is.
Folds(p) == Valid(p) /\ FoldTarget(p) # None

TransitionsOf(p) ==
  IF ~Valid(p) THEN <<>> ELSE IF Folds(p) THEN Apply(Folded(p)) ELSE Apply(p)

CommitOne(p) ==
  LET ts == TransitionsOf(p)
      text == EmbedText(p, Folds(p))
  IN /\ tables' = Written(ts)
     /\ vectors' = IF text = None THEN vectors
                   ELSE Overlaid([k \in KeysOf(ts, Embeds(ts)) |-> text], vectors)
     /\ transitions' = transitions \o ts
     /\ proposals' = Append(proposals, [agent |-> p.agent, operation |-> p.operation,
                                        accepted |-> ts # <<>>])

\* Whatever is proposed, in any order.  A merge does not name a memory twice:
\* consolidation.rs:119 sees to it, the engine does not.
EngineNext ==
  \E p : /\ p.operation = "merge_memories" => IsInjective(p.payload.sources)
         /\ CommitOne(p)

EngineSpec == EngineInit /\ [][EngineNext]_engineVars

-----------------------------------------------------------------------------
(* Properties of the engine, whoever commits.                              *)

EngineTypeOK ==
  /\ DOMAIN tables = Tables
  /\ \A t \in Singletons : Len(tables[t]) = 1
  /\ \A i \in IdsOf("memories") : tables["memories"][i].status \in MemoryStatus
  /\ \A i \in IdsOf("beliefs") : tables["beliefs"][i].status \in BeliefStatus
  /\ \A i \in IdsOf("goals") : tables["goals"][i].status \in GoalStatus
  /\ \A k \in DOMAIN vectors : k[2] \in IdsOf(k[1])
  /\ \A i \in DOMAIN transitions : transitions[i].id \in IdsOf(transitions[i].table)

\* The transitions of one object.
History(table, id) ==
  FoldLeft(LAMBDA h, t : IF KeyOf(t) = <<table, id>> THEN Append(h, t) ELSE h, <<>>, transitions)

\* The audit log has no gap: of every object, each transition begins with the row
\* that the one before it left, the first one with no row (or the initial
\* singleton), and the last one left the row of today (README.md:22).
AuditTrail ==
  \A table \in Tables : \A id \in IdsOf(table) :
    LET h == History(table, id)
    IN IF h = <<>> THEN table \in Singletons
       ELSE /\ table \notin Singletons => h[1].before = None
            /\ \A i \in 2 .. Len(h) : h[i].before = h[i - 1].after
            /\ Last(h).after = tables[table][id]

\* A row's version counts its transitions: no two updates share a version, so a
\* version that was expected names one state of the row.
VersionsCountTransitions ==
  \A table \in Tables \ {"entity_relationships"} : \A id \in IdsOf(table) :
    tables[table][id].version =
      Len(History(table, id)) + IF table \in Singletons THEN 1 ELSE 0

\* The vector a memory or a belief is found by is that of the text it has now,
\* through folds, merges and new summaries.
VectorsMatchText ==
  \A table \in {"memories", "beliefs"} : \A id \in IdsOf(table) :
    /\ <<table, id>> \in DOMAIN vectors
    /\ vectors[<<table, id>>] = tables[table][id].text

\* No update forgets what a row was based on.
ProvenanceGrows ==
  [][/\ \A id \in IdsOf("memories") :
          /\ tables["memories"][id].sources \subseteq tables'["memories"][id].sources
          /\ tables["memories"][id].evidence \subseteq tables'["memories"][id].evidence
     /\ \A id \in IdsOf("beliefs") :
          /\ tables["beliefs"][id].supporting \subseteq tables'["beliefs"][id].supporting
          /\ tables["beliefs"][id].contradicting \subseteq tables'["beliefs"][id].contradicting
     /\ \A table \in {"goals", "predictions", "entities"} : \A id \in IdsOf(table) :
          tables[table][id].evidence \subseteq tables'[table][id].evidence]_engineVars

\* The events that a merged-away memory came from are found in its successor.
MergeKeepsSources ==
  [][\A id \in IdsOf("memories") : \A new \in DOMAIN tables'["memories"] :
       <<"memories", id>> \in tables'["memories"][new].evidence /\ new \notin IdsOf("memories")
         => tables["memories"][id].sources \subseteq tables'["memories"][new].sources]_engineVars

\* One entity for each name and kind, however often it is mentioned, and both
\* ends of a relationship are entities.
EntitiesResolve ==
  /\ \A i, j \in IdsOf("entities") :
       /\ tables["entities"][i].name = tables["entities"][j].name
       /\ tables["entities"][i].kind = tables["entities"][j].kind
       => i = j
  /\ \A i \in IdsOf("entity_relationships") :
       LET r == tables["entity_relationships"][i]
       IN r.src \in IdsOf("entities") /\ r.dst \in IdsOf("entities")

=============================================================================
