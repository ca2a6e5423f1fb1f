------------------------------- MODULE Agents -------------------------------
(***************************************************************************)
(* The agents over the engine: src/src/agents/*.rs, interact.rs, and the   *)
(* commits of worker.rs, one at a time.                                    *)
(*                                                                         *)
(* The worker runs one agent at a time (its cycles are single-flight); any *)
(* number of clients run the interaction agent at the same time.  A run of *)
(* an agent reads the state, waits for the model to answer, and commits    *)
(* its proposals one by one; the store mutex is free between the reading   *)
(* and the first commit, and between two commits.  What a proposal says    *)
(* thus depends on a state that is gone when it is committed.              *)
(*                                                                         *)
(* What the model answers is free, within what each agent lets through:    *)
(* rows it has shown, statuses of the answer's schema, and, in reflection, *)
(* whatever ids the model cites as evidence.  The answers of a run are cut *)
(* to MaxAnswers proposals, the number of runs is MaxRuns.                 *)
(***************************************************************************)
EXTENDS Engine

CONSTANTS
  Worker, Clients,  \* tasks: the one that holds the cycle lock, and requests
  Question,         \* what an open question asks
  Runs,             \* agents that run in this instance
  MaxQuestions,     \* merge_questions keeps 10
  MaxAnswers,       \* bound: proposals of one run
  MaxEach,          \* bound: a consolidation's merges, generalizations and
                    \* contradictions, a request's new goals, the questions an
                    \* answer asks, the ids an item of a reflection cites
  MaxRuns           \* bound: runs of agents

AgentNames == {"memory", "beliefs", "self_model", "goals", "consolidation", "reflection",
               "interaction"}

ASSUME AgentsAssumption ==
  /\ Worker \notin Clients
  /\ Runs \subseteq AgentNames
  /\ MaxQuestions \in Nat
  /\ MaxAnswers \in Nat
  /\ MaxEach \in Nat
  /\ MaxRuns \in Nat

VARIABLES
  queue,   \* task -> proposals of its run that are still to be committed
  runs     \* runs begun so far; the newest is also the event it is about

vars == <<engineVars, queue, runs>>

Task == Clients \cup {Worker}

Init ==
  /\ EngineInit
  /\ queue = [t \in Task |-> <<>>]
  /\ runs = 0

Event == <<"event", runs + 1>>

WithStatus(table, statuses) == {i \in IdsOf(table) : tables[table][i].status \in statuses}

\* mutant: rows of every status are shown to the memory agent
ShownAll == IdsOf("memories")

\* The live memories that are similar to the event.
ShownMemories == WithStatus("memories", LiveMemory)

-----------------------------------------------------------------------------
(* The open questions of the working state.                                *)

Questions ==
  LET data == tables["working_state"][1].data
  IN IF "open_questions" \in DOMAIN data THEN data["open_questions"] ELSE <<>>

\* merge_questions: the first MaxQuestions of the union, in order.
MergeQuestions(asked) ==
  LET all == FoldLeft(LAMBDA known, q : IF Contains(known, q) THEN known ELSE Append(known, q),
                      Questions, asked)
  IN SubSeq(all, 1, IF Len(all) < MaxQuestions THEN Len(all) ELSE MaxQuestions)

\* The questions that an answer asks, if it asks any.
Asked == SeqOf(Question, MaxEach) \ {<<>>}

AskQuestions(agent, evidence, asked) ==
  Propose(agent, "set_working_state", None, evidence,
          [patch |-> [open_questions |-> MergeQuestions(asked)], expected |-> None])

-----------------------------------------------------------------------------
(* What each agent may propose after reading the state.                    *)

NewMemory(text) ==
  Propose("memory", "create_memory", None, {Event},
          [text |-> text, kind |-> "episodic", status |-> "active", sources |-> {Event}])

\* memory.rs: one answer for each event of the batch, reinforcements and then new
\* memories, put one after the other: what is proposed comes in any order, and a
\* row as often as it is named.
MemoryProposals ==
  {Propose("memory", "update_memory", id, {Event},
           [text |-> None, status |-> None, reinforce |-> TRUE, expected |-> None,
            addSources |-> {Event}]) : id \in ShownMemories}
  \cup {NewMemory(text) : text \in Text}

ChangeBelief(agent, id, status, supporting) ==
  Propose(agent, "update_belief", id, {Event},
          [status |-> status, expected |-> None,
           addSupporting |-> supporting, addContradicting |-> {}])

\* beliefs.rs: for each event too, changes of the beliefs shown, then new ones.
BeliefProposals ==
  {ChangeBelief("beliefs", id, status, {Event}) :
     id \in WithStatus("beliefs", LiveBelief), status \in BeliefStatus}
  \cup {Propose("beliefs", "create_belief", None, {Event},
                [text |-> text, status |-> "hypothesis"]) : text \in Text}

\* self_model.rs: one patch of its own lists.
SelfProposals ==
  {Propose("self_model", "update_self_state", None, {Event},
           [patch |-> [limitations |-> Event], expected |-> None])}

\* The proposals of one answer: operations in the order the agent goes through
\* them, the last of which gives one proposal at most.
InOrder(order, ps) ==
  \A i, j \in DOMAIN ps : i < j =>
    \E m, n \in DOMAIN order :
      /\ order[m] = ps[i].operation /\ order[n] = ps[j].operation
      /\ m <= n /\ m < Len(order)

OneAnswer(order, S) == {ps \in SeqOf(S, MaxAnswers) : InOrder(order, ps)}

ChangeGoal(id, status) ==
  Propose("goals", "update_goal", id, {Event}, [status |-> status, expected |-> None])

\* Changes of the goals shown that the agent lets through.
StatusChanges ==
  {c \in WithStatus("goals", LiveGoal) \X GoalStatus : tables["goals"][c[1]].status # c[2]}

\* Conflicts between goals, for which the working state is still to be read.
Conflicts(asked) == Propose("goals", "conflicts", None, {Event}, [questions |-> asked])

\* goals.rs: changes of status, inferred goals, conflicts.
GoalProposals ==
  {ChangeGoal(c[1], c[2]) : c \in StatusChanges}
  \cup {Propose("goals", "create_goal", None, {Event},
                [description |-> text, status |-> "proposed"]) : text \in Text}
  \cup {Conflicts(asked) : asked \in Asked}

GoalOrder == <<"update_goal", "create_goal", "conflicts">>

\* decay_proposals: episodic memories nobody has reinforced, at the version that was read.
Decay(id) ==
  Propose("consolidation", "update_memory", id, {<<"decay", 0>>},
          [text |-> None, status |-> "archived", reinforce |-> FALSE,
           expected |-> tables["memories"][id].version, addSources |-> {}])

MemoryIds(ids) == {<<"memories", id>> : id \in ids}

Decays(old) == [i \in 1 .. Cardinality(old) |-> Decay(SetToSeq(old)[i])]

Merge(ids, text) ==
  Propose("consolidation", "merge_memories", None, MemoryIds(ToSet(ids)),
          [sources |-> ids, text |-> text, kind |-> tables["memories"][ids[1]].kind])

Generalization(S, text) ==
  Propose("consolidation", "create_memory", None, MemoryIds(S),
          [text |-> text, kind |-> "semantic", status |-> "active",
           sources |-> SourcesOf(SetToSeq(S))])

Contradiction(S, text) ==
  Propose("consolidation", "create_belief", None, MemoryIds(S),
          [text |-> text, status |-> "uncertain"])

\* What may be merged: two memories or more, none of them twice.
Mergeable(left) == {ids \in SeqOf(left, Cardinality(left)) : Len(ids) >= 2 /\ IsInjective(ids)}

\* A memory is in one merge at most, but in any number of the others.
Merges(left) ==
  {ps \in SeqOf({Merge(ids, text) : ids \in Mergeable(left), text \in Text}, MaxEach) :
     \A i, j \in DOMAIN ps :
       i # j => ToSet(ps[i].payload.sources) \cap ToSet(ps[j].payload.sources) = {}}

Generalizations(left) ==
  SeqOf({Generalization(S, text) : S \in (SUBSET left) \ {{}}, text \in Text}, MaxEach)

Contradictions(left) ==
  SeqOf({Contradiction(S, text) :
           S \in {S \in SUBSET left : Cardinality(S) >= 2}, text \in Text}, MaxEach)

Consolidations(left) ==
  IF Cardinality(left) < 2 THEN {<<>>}
  ELSE {m \o g \o c : m \in Merges(left), g \in Generalizations(left), c \in Contradictions(left)}

\* consolidation.rs: decay, then of what is left merges, generalizations and
\* contradictions.
ConsolidationBatches ==
  LET live == WithStatus("memories", LiveMemory)
      fading == {i \in live : /\ tables["memories"][i].kind = "episodic"
                              /\ tables["memories"][i].accesses = 0}
  IN UNION {{Decays(old) \o rest : rest \in Consolidations(live \ old)} : old \in SUBSET fading}

\* What an item of a reflection gives as evidence: ids that the model chooses and
\* nobody checks, an event's, a memory's, or one of no memory there is.
Cited ==
  LET shown == WithStatus("memories", LiveMemory \ {"candidate"})
  IN {ids \in SUBSET ({Event} \cup MemoryIds({0} \cup shown)) :
        ids # {} /\ Cardinality(ids) <= MaxEach}

\* A pattern names no source events: the engine takes those it is evidenced by.
Pattern(text, ids) ==
  Propose("reflection", "create_memory", None, ids,
          [text |-> text, kind |-> "semantic", status |-> "active", sources |-> {}])

Due == {i \in IdsOf("predictions") : tables["predictions"][i].verified = None}

\* reflection.rs: inconsistencies, patterns, predictions, verifications, questions.
\* (What the model cites for an inconsistency is not kept: update_belief adds to a
\* belief what its payload names, and this one names nothing.)
ReflectionProposals ==
  {ChangeBelief("reflection", id, status, {}) :
     id \in WithStatus("beliefs", LiveBelief), status \in BeliefStatus}
  \cup {Pattern(text, ids) : text \in Text, ids \in Cited}
  \cup {Propose("reflection", "create_prediction", None, ids, <<>>) : ids \in Cited}
  \cup {Propose("reflection", "verify_prediction", id, ids, [verified |-> TRUE]) :
          id \in Due, ids \in Cited}
  \cup {AskQuestions("reflection", {Event}, asked) : asked \in Asked}

ReflectionOrder ==
  <<"update_belief", "create_memory", "create_prediction", "verify_prediction",
    "set_working_state">>

\* interaction.rs: the working state, then the user's requests as goals.  The
\* entities it upserts in between meet no other agent and are left to Harness.
Topic(patch) ==
  Propose("interaction", "set_working_state", None, {Event}, [patch |-> patch, expected |-> None])

TopicPatches ==
  {[topic |-> Event]}
  \cup {[topic |-> Event, open_questions |-> MergeQuestions(asked)] : asked \in Asked}

Request(text) ==
  Propose("interaction", "create_goal", None, {Event}, [description |-> text, status |-> "active"])

Requests == SeqOf({Request(text) : text \in Text}, MaxEach)

InteractionBatches == {<< Topic(patch) >> \o r : patch \in TopicPatches, r \in Requests}

-----------------------------------------------------------------------------

\* A task reads the state, the model answers, a batch is ready.
Run(task, agent, batches) ==
  /\ agent \in Runs
  /\ queue[task] = <<>>
  /\ runs < MaxRuns
  /\ runs' = runs + 1
  /\ \E ps \in batches : queue' = [queue EXCEPT ![task] = ps]
  /\ UNCHANGED engineVars

RunMemory == Run(Worker, "memory", SeqOf(MemoryProposals, MaxAnswers))
RunBeliefs == Run(Worker, "beliefs", SeqOf(BeliefProposals, MaxAnswers))
RunSelfModel == Run(Worker, "self_model", SeqOf(SelfProposals, 1))
RunGoals == Run(Worker, "goals", OneAnswer(GoalOrder, GoalProposals))
RunConsolidation == Run(Worker, "consolidation", ConsolidationBatches)
RunReflection == Run(Worker, "reflection", OneAnswer(ReflectionOrder, ReflectionProposals))
RunInteraction == \E c \in Clients : Run(c, "interaction", InteractionBatches)

Unread(task) == queue[task] # <<>> /\ Last(queue[task]).operation = "conflicts"

\* goals.rs:98: the working state is read after the model has answered, and the
\* batch is ready.
ReadWorking ==
  /\ Unread(Worker)
  /\ LET c == Last(queue[Worker])
     IN queue' = [queue EXCEPT ![Worker][Len(queue[Worker])] =
                    AskQuestions("goals", c.evidence, c.payload.questions)]
  /\ UNCHANGED <<engineVars, runs>>

\* engine::commit: the next proposal of the batch.
CommitNext(task) ==
  /\ queue[task] # <<>> /\ ~Unread(task)
  /\ CommitOne(Head(queue[task]))
  /\ queue' = [queue EXCEPT ![task] = Tail(@)]
  /\ UNCHANGED runs

\* The rest of a batch is lost: the client is gone, a write failed, a crash.
Abandon(task) ==
  /\ queue[task] # <<>>
  /\ queue' = [queue EXCEPT ![task] = <<>>]
  /\ UNCHANGED <<engineVars, runs>>

Next ==
  \/ RunMemory
  \/ RunBeliefs
  \/ RunSelfModel
  \/ RunGoals
  \/ RunConsolidation
  \/ RunReflection
  \/ RunInteraction
  \/ ReadWorking
  \/ \E t \in Task : CommitNext(t) \/ Abandon(t)

Spec == Init /\ [][Next]_vars

-----------------------------------------------------------------------------
(* Properties.                                                             *)

\* A memory that was archived or merged away is never touched again: the agents
\* read before they write, yet no reinforcement, decay or merge hits a memory
\* that went out of use in between.
EndedMemoriesStay ==
  [][\A id \in IdsOf("memories") :
       tables["memories"][id].status \in TerminalMemory
         => tables'["memories"][id] = tables["memories"][id]]_vars

FromEvent(ids) == \E e \in ids : e[1] = "event"

\* What is given for a row is there: an event, or a memory.
Traceable(ids) == FromEvent(ids) \/ ids \cap MemoryIds(IdsOf("memories")) # {}

\* Every episodic memory came from an event, through merges and folds into other
\* memories; every goal came from an event; and every belief rests on an event or on
\* a memory there is, though what contradicts was read before the model answered
\* (SPEC.md:437, 498, 1062).  Semantic memories are no part of it: for those of
\* reflection the code keeps whatever the model cites.
Grounded ==
  /\ \A id \in IdsOf("memories") :
       tables["memories"][id].kind = "episodic" => FromEvent(tables["memories"][id].sources)
  /\ \A id \in IdsOf("beliefs") : Traceable(tables["beliefs"][id].supporting)
  /\ \A id \in IdsOf("goals") : FromEvent(tables["goals"][id].evidence)

\* A row that was out of use has been put to use again.
Revived(table, id, live) ==
  \E n \in DOMAIN transitions :
    LET t == transitions[n]
    IN /\ t.table = table /\ t.id = id /\ t.after.version > 1
       /\ t.before.status \notin live /\ t.after.status \in live

\* Two live goals say the same, or two live beliefs, only if one of them came back
\* to life: what create_goal keeps out and create_belief folds comes in no other
\* way, whatever was committed between the reading and the commit.
LiveRowsDistinct ==
  /\ \A i, j \in WithStatus("goals", LiveGoal) :
       tables["goals"][i].description = tables["goals"][j].description /\ i # j
         => \E k \in {i, j} : Revived("goals", k, LiveGoal)
  /\ \A i, j \in WithStatus("beliefs", LiveBelief) :
       tables["beliefs"][i].text = tables["beliefs"][j].text /\ i # j
         => \E k \in {i, j} : Revived("beliefs", k, LiveBelief)

\* A merge created the row: no agent creates a consolidated memory otherwise.
WrittenByMerge(id) ==
  \E n \in DOMAIN transitions :
    LET t == transitions[n]
    IN /\ t.table = "memories" /\ t.id = id /\ t.before = None
       /\ t.after.status = "consolidated"

\* Two live memories say the same only if a merge wrote one of them.
LiveMemoriesDistinct ==
  \A i, j \in WithStatus("memories", LiveMemory) :
    tables["memories"][i].text = tables["memories"][j].text /\ i # j
      => WrittenByMerge(i) \/ WrittenByMerge(j)

\* What SPEC.md:1009 asks for, optimistic concurrency, for the open questions: one
\* that was recorded is not overwritten by an agent that did not see it.
QuestionsNotLost ==
  [][LET before == Questions IN \A i \in DOMAIN before : Contains(Questions', before[i])]_vars

=============================================================================
