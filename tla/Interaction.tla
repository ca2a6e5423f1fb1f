---------------------------- MODULE Interaction -----------------------------
(***************************************************************************)
(* The interaction lifecycle, src/src/interact.rs, in the process it runs   *)
(* in: requests of several clients and the cycles of Worker share one       *)
(* event log and die together in a crash.                                   *)
(*                                                                         *)
(* A request goes through                                                  *)
(*                                                                         *)
(*   embedding -> interpreting -> replying -> embedding reply               *)
(*                                                                         *)
(* each an await, where every other task runs.  The message is recorded     *)
(* between the first two, the reply after the last; a request may end early *)
(* at any of them and leave its message without a reply.                    *)
(*                                                                         *)
(* Abstracted: a text is not kept; an entry of the log is its kind, its     *)
(* client and its in_reply_to.  What a request commits to the cognitive     *)
(* tables while it interprets is the business of Agents.                    *)
(***************************************************************************)
EXTENDS Worker, Sequences

CONSTANTS
  Client,
  MaxAsks,    \* bound: requests ever made by all clients
  MaxCrashes  \* bound: crashes of the process

ASSUME InteractionAssumption ==
  /\ MaxAsks \in Nat
  /\ 2 * MaxAsks <= MaxEvents
  /\ MaxCrashes \in Nat

VARIABLES
  log,      \* State.events: the event with id e is log[e]
  phase,    \* client -> where its request is
  message,  \* client -> eid
  asks,     \* requests made so far
  crashes,  \* crashes so far
  \* history, read by no action
  answers   \* <<client, event_id, response_event_id>> of every response

requestVars == <<log, phase, message, asks, crashes, answers>>
allVars == <<vars, requestVars>>

Waiting == {"embedding", "interpreting", "replying", "embedding reply"}

NoMessage == 0

Entry == [kind : {"user_message", "assistant_message"}, client : Client, to : Nat]

InteractionInit ==
  /\ Init
  /\ log = <<>>
  /\ phase = [c \in Client |-> "away"]
  /\ message = [c \in Client |-> NoMessage]
  /\ asks = 0
  /\ crashes = 0
  /\ answers = {}

\* append: the vector, then the event, in one section of the store's mutex; its
\* id is the position it gets in the log.
Record(entry) ==
  /\ Publish
  /\ log' = Append(log, entry)

\* A client sends a message; the text is embedded before anything is written.
Ask(c) ==
  /\ phase[c] = "away"
  /\ asks < MaxAsks
  /\ asks' = asks + 1
  /\ phase' = [phase EXCEPT ![c] = "embedding"]
  /\ UNCHANGED <<vars, log, message, crashes, answers>>

RecordMessage(c) ==
  /\ phase[c] = "embedding"
  /\ Record([kind |-> "user_message", client |-> c, to |-> NoMessage])
  /\ message' = [message EXCEPT ![c] = lastEvent + 1]
  /\ phase' = [phase EXCEPT ![c] = "interpreting"]
  /\ UNCHANGED <<asks, crashes, answers>>

\* The interaction agent and its commit: an error of either is logged and the
\* reply is composed from the state as it is.
Interpret(c) ==
  /\ phase[c] = "interpreting"
  /\ phase' = [phase EXCEPT ![c] = "replying"]
  /\ UNCHANGED <<vars, log, message, asks, crashes, answers>>

Reply(c) ==
  /\ phase[c] = "replying"
  /\ phase' = [phase EXCEPT ![c] = "embedding reply"]
  /\ UNCHANGED <<vars, log, message, asks, crashes, answers>>

\* mutant: the reply is attached to the newest event
NewestEvent(c) == lastEvent

\* eid, taken when the message was recorded.
InReplyTo(c) == message[c]

RecordReply(c) ==
  /\ phase[c] = "embedding reply"
  /\ Record([kind |-> "assistant_message", client |-> c, to |-> InReplyTo(c)])
  /\ answers' = answers \cup {<<c, InReplyTo(c), lastEvent + 1>>}
  /\ phase' = [phase EXCEPT ![c] = "away"]
  /\ message' = [message EXCEPT ![c] = NoMessage]
  /\ UNCHANGED <<asks, crashes>>

\* A `?` (an embedding, the reply, the store, a replay miss), a panic of the
\* request's task, or a client that goes away.
GiveUpRequest(c) ==
  /\ phase[c] \in Waiting
  /\ phase' = [phase EXCEPT ![c] = "away"]
  /\ message' = [message EXCEPT ![c] = NoMessage]
  /\ UNCHANGED <<vars, log, asks, crashes, answers>>

\* The process dies with every request in it.
CrashAll ==
  /\ crashes < MaxCrashes
  /\ crashes' = crashes + 1
  /\ Crash
  /\ phase' = [c \in Client |-> "away"]
  /\ message' = [c \in Client |-> NoMessage]
  /\ UNCHANGED <<log, asks, answers>>

Progress(c) == RecordMessage(c) \/ Interpret(c) \/ Reply(c) \/ RecordReply(c)

\* A step of the worker or of the clock.
Background ==
  /\ \/ Tick
     \/ \E r \in Runner : Begin(r) \/ Step(r) \/ Cancel(r) \/ Panic(r)
  /\ UNCHANGED requestVars

InteractionNext ==
  \/ \E c \in Client : Ask(c) \/ Progress(c) \/ GiveUpRequest(c)
  \/ CrashAll
  \/ Background

InteractionSpec == InteractionInit /\ [][InteractionNext]_allVars

\* As in Worker, and every model call of a request returns.
InteractionFairness ==
  /\ WF_allVars(Tick /\ UNCHANGED requestVars)
  /\ WF_allVars(Begin(Loop) /\ UNCHANGED requestVars)
  /\ \A r \in Runner : WF_allVars(Step(r) /\ UNCHANGED requestVars)
  /\ \A c \in Client : WF_allVars(Progress(c))

FairInteractionSpec == InteractionSpec /\ InteractionFairness

-----------------------------------------------------------------------------
(* Properties.                                                             *)

InteractionTypeOK ==
  /\ log \in Seq(Entry)
  /\ Len(log) = lastEvent
  /\ phase \in [Client -> Waiting \cup {"away"}]
  /\ message \in [Client -> 0 .. MaxEvents]
  /\ asks \in 0 .. MaxAsks
  /\ crashes \in 0 .. MaxCrashes
  /\ answers \subseteq Client \X (0 .. MaxEvents) \X (1 .. MaxEvents)

IsMessageOf(e, c) == e \in 1 .. Len(log) /\ log[e].kind = "user_message" /\ log[e].client = c

IsReply(e) == e \in 1 .. Len(log) /\ log[e].kind = "assistant_message"

\* Every reply in the log is attached to a message that came before it and is its
\* own client's, and no message has two replies, though any number of other
\* messages and replies are recorded while a request awaits its model calls
\* (interact.rs:41, eid is taken once and used four awaits later).
RepliesMatch ==
  /\ \A e \in 1 .. Len(log) : IsReply(e) =>
       log[e].to < e /\ IsMessageOf(log[e].to, log[e].client)
  /\ \A e, d \in 1 .. Len(log) : IsReply(e) /\ IsReply(d) /\ log[e].to = log[d].to => e = d

\* No consumer handles a reply and has lost the message it answers: the message
\* was handled before, or given up (worker.rs over interact.rs).
MessagesHandledFirst ==
  \A n \in Consumer : \A e \in delivered[n] :
    IsReply(e) => log[e].to \in delivered[n] \cup skipped[n]

\* A message whose client got its response is reflected on, and so is the reply.
AnswersReflected ==
  \A e \in 1 .. MaxEvents :
    (\E a \in answers : a[3] = e) ~> reflectCursor >= e

=============================================================================
