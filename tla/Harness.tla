------------------------------ MODULE Harness -------------------------------
(***************************************************************************)
(* The engine under proposals of every kind, in any order, the way         *)
(* tests/engine.rs and the evaluation harness drive commit_one.            *)
(***************************************************************************)
EXTENDS Engine

CONSTANTS
  Name,          \* names of entities
  MaxCommits     \* bound: proposals ever committed

ASSUME HarnessAssumption == MaxCommits \in Nat

Fresh == <<"event", Len(proposals) + 1>>

\* The rows a proposal may name: those there are, and one there is not.
Target(table) == 1 .. NextIdOf(table)

Change(operation, target, payload) ==
  Propose("agent", operation, target, {Fresh}, payload)

MemoryUpdates == [text : Text, status : {None}, reinforce : {FALSE},
                  expected : {None, 1}, addSources : {{}}]
            \cup [text : {None}, status : {None, "archived"}, reinforce : BOOLEAN,
                  expected : {None}, addSources : {{Fresh}}]

BeliefUpdates == [status : {"active", "contradicted", "forgotten"}, expected : {None, 1},
                  addSupporting : {{Fresh}}, addContradicting : {{}}]

AnyMemory ==
  {Propose("agent", "create_memory", None, evidence,
           [text |-> text, kind |-> "episodic", status |-> "active", sources |-> {}]) :
     text \in Text, evidence \in {{}, {Fresh}}}
  \cup {Change("update_memory", target, u) : target \in Target("memories"), u \in MemoryUpdates}
  \cup {Change("merge_memories", None, [sources |-> pair, text |-> text, kind |-> "episodic"]) :
          pair \in PairsOf(Target("memories")), text \in Text}

AnyBelief ==
  {Change("create_belief", None, [text |-> text, status |-> "hypothesis"]) : text \in Text}
  \cup {Change("update_belief", target, u) : target \in Target("beliefs"), u \in BeliefUpdates}

AnyGoal ==
  {Change("create_goal", None, [description |-> text, status |-> "active"]) : text \in Text}
  \cup {Change("update_goal", target, [status |-> status, expected |-> expected]) :
          target \in Target("goals"), status \in {"active", "completed"}, expected \in {None, 1}}

AnyPrediction ==
  {Change("create_prediction", None, <<>>)}
  \cup {Change("verify_prediction", target, [verified |-> TRUE]) :
          target \in Target("predictions")}

AnyEntity ==
  {Change("upsert_entity", None, [name |-> name, kind |-> kind]) :
     name \in Name, kind \in {"thing", "person"}}
  \cup {Change("add_relationship", None, [src |-> src, dst |-> dst]) :
          src \in Name, dst \in Name}

AnyPatch ==
  {Change("set_working_state", None, [patch |-> [topic |-> Fresh], expected |-> expected]) :
     expected \in {None, 2}}
  \cup {Propose(agent, "update_self_state", None, {Fresh},
                [patch |-> patch, expected |-> None]) :
          agent \in {"self_model", "harness"},
          patch \in {[limitations |-> Fresh], [capabilities |-> Fresh], [permissions |-> Fresh]}}

CommitAny(S) ==
  /\ Len(proposals) < MaxCommits
  /\ \E p \in S : CommitOne(p)

HarnessNext ==
  \/ CommitAny(AnyMemory)
  \/ CommitAny(AnyBelief)
  \/ CommitAny(AnyGoal)
  \/ CommitAny(AnyPrediction)
  \/ CommitAny(AnyEntity)
  \/ CommitAny(AnyPatch)

HarnessSpec == EngineInit /\ [][HarnessNext]_engineVars

=============================================================================
