------------------------ MODULE Interaction_proofs --------------------------
(* Machine-checked proofs about Interaction.                               *)
EXTENDS Interaction, Worker_proofs

-----------------------------------------------------------------------------
(* The requests are, for the worker, a log that grows.                     *)

\* A step of the whole process is a step of Worker or leaves Worker alone.
LEMMA WorkerStep == [InteractionNext]_allVars => [Next]_vars
<1> SUFFICES ASSUME [InteractionNext]_allVars
             PROVE  [Next]_vars
  OBVIOUS
<1>1. ASSUME NEW c \in Client, Ask(c) \/ Interpret(c) \/ Reply(c) \/ GiveUpRequest(c)
      PROVE  UNCHANGED vars
  BY <1>1 DEF Ask, Interpret, Reply, GiveUpRequest
<1>2. ASSUME NEW c \in Client, RecordMessage(c) \/ RecordReply(c)
      PROVE  Publish
  BY <1>2 DEF RecordMessage, RecordReply, Record
<1>3. CASE CrashAll
  BY <1>3 DEF CrashAll, Next
<1>4. CASE Background
  BY <1>4 DEF Background, Next
<1>5. CASE UNCHANGED allVars
  BY <1>5 DEF allVars
<1> QED
  BY <1>1, <1>2, <1>3, <1>4, <1>5 DEF InteractionNext, Progress, Next

\* So what is proved of the worker alone may be used with any number of clients
\* that write to the same log.
LEMMA WorkerWithin == InteractionSpec => Spec
<1>1. InteractionInit => Init
  BY DEF InteractionInit
<1> QED
  BY <1>1, WorkerStep, PTL DEF InteractionSpec, Spec

-----------------------------------------------------------------------------
(* Type correctness.                                                       *)

\* The log grows by one entry, which gets the next id.
LEMMA RecordTypes ==
  ASSUME InteractionTypeOK, TypeOK, NEW entry \in Entry, Record(entry)
  PROVE  /\ log' \in Seq(Entry)
         /\ Len(log') = Len(log) + 1
         /\ Len(log') = lastEvent'
         /\ log'[Len(log) + 1] = entry
         /\ \A e \in 1 .. Len(log) : log'[e] = log[e]
         /\ lastEvent + 1 \in 1 .. MaxEvents
<1>1. log \in Seq(Entry) /\ Len(log) = lastEvent
  BY DEF InteractionTypeOK
<1>2. log' = Append(log, entry) /\ lastEvent' = lastEvent + 1 /\ lastEvent < MaxEvents
  BY DEF Record, Publish
<1>3. lastEvent \in 0 .. MaxEvents
  BY DEF TypeOK
<1> QED
  BY <1>1, <1>2, <1>3, BoundsAssumption

LEMMA MessageEntry ==
  \A c \in Client : [kind |-> "user_message", client |-> c, to |-> NoMessage] \in Entry
BY DEF Entry, NoMessage

LEMMA ReplyEntry ==
  ASSUME InteractionTypeOK, NEW c \in Client
  PROVE  [kind |-> "assistant_message", client |-> c, to |-> InReplyTo(c)] \in Entry
<1>1. message[c] \in Nat
  BY BoundsAssumption DEF InteractionTypeOK
<1> QED
  BY <1>1 DEF Entry, InReplyTo

\* A step of the worker or of the clock leaves the log and the requests alone.
LEMMA BackgroundQuiet == Background => UNCHANGED <<lastEvent, requestVars>>
BY DEF Background, Tick, Begin, Step, Cancel, Panic, FetchNothing, Fetch, AgentAnswers,
  AgentFails, AgentMisses, EmbedAll, EmbedFails, CommitOne, Advance, Skip, SetCursor,
  Trigger, Maintain, Snapshot, Mark, StoreFails, Abort, rows

LEMMA InteractionTypeInit == InteractionInit => InteractionTypeOK
<1> SUFFICES ASSUME InteractionInit
             PROVE  InteractionTypeOK
  OBVIOUS
<1>1. log \in Seq(Entry) /\ Len(log) = lastEvent
  BY DEF InteractionInit, Init
<1>2. /\ phase \in [Client -> Waiting \cup {"away"}]
      /\ message \in [Client -> 0 .. MaxEvents]
      /\ asks \in 0 .. MaxAsks
      /\ crashes \in 0 .. MaxCrashes
  BY BoundsAssumption, InteractionAssumption DEF InteractionInit, NoMessage
<1>3. answers \subseteq Client \X (0 .. MaxEvents) \X (1 .. MaxEvents)
  BY DEF InteractionInit
<1> QED
  BY <1>1, <1>2, <1>3 DEF InteractionTypeOK

LEMMA NoMessageType == NoMessage \in 0 .. MaxEvents
BY BoundsAssumption DEF NoMessage

LEMMA InteractionTypeStep ==
  InteractionTypeOK /\ TypeOK /\ [InteractionNext]_allVars => InteractionTypeOK'
<1> SUFFICES ASSUME InteractionTypeOK, TypeOK, [InteractionNext]_allVars
             PROVE  InteractionTypeOK'
  OBVIOUS
<1> USE DEF Waiting
<1>1. ASSUME NEW c \in Client, Ask(c)
      PROVE  InteractionTypeOK'
  <2>1. asks' \in 0 .. MaxAsks
    <3>1. asks \in 0 .. MaxAsks /\ asks < MaxAsks /\ asks' = asks + 1
      BY <1>1 DEF Ask, InteractionTypeOK
    <3> QED
      BY <3>1, InteractionAssumption
  <2> QED
    BY <1>1, <2>1 DEF Ask, InteractionTypeOK, vars, rows
<1>2. ASSUME NEW c \in Client, RecordMessage(c)
      PROVE  InteractionTypeOK'
  <2> DEFINE entry == [kind |-> "user_message", client |-> c, to |-> NoMessage]
  <2>1. entry \in Entry /\ Record(entry)
    BY <1>2, MessageEntry DEF RecordMessage
  <2>2. log' \in Seq(Entry) /\ Len(log') = lastEvent' /\ lastEvent + 1 \in 1 .. MaxEvents
    BY <2>1, RecordTypes
  <2>3. message' \in [Client -> 0 .. MaxEvents]
    <3>1. message' = [message EXCEPT ![c] = lastEvent + 1] /\ message \in [Client -> 0 .. MaxEvents]
      BY <1>2 DEF RecordMessage, InteractionTypeOK
    <3>2. lastEvent + 1 \in 0 .. MaxEvents
      BY <2>2, BoundsAssumption
    <3> QED
      BY <3>1, <3>2
  <2>4. phase' \in [Client -> Waiting \cup {"away"}]
    BY <1>2 DEF RecordMessage, InteractionTypeOK
  <2> QED
    BY <1>2, <2>2, <2>3, <2>4 DEF RecordMessage, InteractionTypeOK
<1>3. ASSUME NEW c \in Client, Interpret(c) \/ Reply(c)
      PROVE  InteractionTypeOK'
  BY <1>3 DEF Interpret, Reply, InteractionTypeOK, vars, rows
<1>4. ASSUME NEW c \in Client, RecordReply(c)
      PROVE  InteractionTypeOK'
  <2> DEFINE entry == [kind |-> "assistant_message", client |-> c, to |-> InReplyTo(c)]
  <2>1. entry \in Entry /\ Record(entry)
    BY <1>4, ReplyEntry DEF RecordReply
  <2>2. log' \in Seq(Entry) /\ Len(log') = lastEvent' /\ lastEvent + 1 \in 1 .. MaxEvents
    BY <2>1, RecordTypes
  <2>3. InReplyTo(c) \in 0 .. MaxEvents
    BY DEF InReplyTo, InteractionTypeOK
  <2>4. answers' \subseteq Client \X (0 .. MaxEvents) \X (1 .. MaxEvents)
    <3>1. <<c, InReplyTo(c), lastEvent + 1>> \in Client \X (0 .. MaxEvents) \X (1 .. MaxEvents)
      BY <2>2, <2>3
    <3>2. /\ answers' = answers \cup {<<c, InReplyTo(c), lastEvent + 1>>}
          /\ answers \subseteq Client \X (0 .. MaxEvents) \X (1 .. MaxEvents)
      BY <1>4 DEF RecordReply, InteractionTypeOK
    <3> QED
      BY <3>1, <3>2
  <2>5. message' \in [Client -> 0 .. MaxEvents]
    BY <1>4, NoMessageType DEF RecordReply, InteractionTypeOK
  <2>6. phase' \in [Client -> Waiting \cup {"away"}]
    BY <1>4 DEF RecordReply, InteractionTypeOK
  <2> QED
    BY <1>4, <2>2, <2>4, <2>5, <2>6 DEF RecordReply, InteractionTypeOK
<1>5. ASSUME NEW c \in Client, GiveUpRequest(c)
      PROVE  InteractionTypeOK'
  <2>1. message' \in [Client -> 0 .. MaxEvents]
    BY <1>5, NoMessageType DEF GiveUpRequest, InteractionTypeOK
  <2>2. phase' \in [Client -> Waiting \cup {"away"}]
    BY <1>5 DEF GiveUpRequest, InteractionTypeOK
  <2> QED
    BY <1>5, <2>1, <2>2 DEF GiveUpRequest, InteractionTypeOK, vars, rows
<1>6. CASE CrashAll
  <2>1. crashes' \in 0 .. MaxCrashes
    <3>1. crashes \in 0 .. MaxCrashes /\ crashes < MaxCrashes /\ crashes' = crashes + 1
      BY <1>6 DEF CrashAll, InteractionTypeOK
    <3> QED
      BY <3>1, InteractionAssumption
  <2>2. lastEvent' = lastEvent
    BY <1>6 DEF CrashAll, Crash, rows
  <2> QED
    BY <1>6, <2>1, <2>2, NoMessageType DEF CrashAll, InteractionTypeOK
<1>7. CASE Background \/ UNCHANGED allVars
  <2>1. UNCHANGED <<lastEvent, requestVars>>
    BY <1>7, BackgroundQuiet DEF allVars, vars, rows
  <2> QED
    BY <2>1 DEF InteractionTypeOK, requestVars
<1> QED
  BY <1>1, <1>2, <1>3, <1>4, <1>5, <1>6, <1>7 DEF InteractionNext, Progress

\* The log and the requests keep their types, and the log has as many entries as
\* the worker counts, for any number of clients.
THEOREM InteractionTypeCorrect == InteractionSpec => []InteractionTypeOK
<1>1. InteractionSpec => []TypeOK
  BY WorkerWithin, TypeCorrect, PTL
<1> QED
  BY <1>1, InteractionTypeInit, InteractionTypeStep, PTL DEF InteractionSpec

-----------------------------------------------------------------------------
(* Replies and the messages they answer.                                   *)

\* The phases of a request whose message is in the log.
Recorded == {"interpreting", "replying", "embedding reply"}

\* What a request relies on across its awaits: eid is its own message, and the
\* message has no reply yet.
InFlight ==
  \A c \in Client : phase[c] \in Recorded =>
    /\ IsMessageOf(message[c], c)
    /\ \A d \in 1 .. Len(log) : IsReply(d) => log[d].to # message[c]

ReplyInv == RepliesMatch /\ InFlight

LEMMA ReplyInit == InteractionInit => ReplyInv
BY DEF InteractionInit, ReplyInv, RepliesMatch, InFlight, Recorded

\* Entries that were in the log are there after an append.
LEMMA OldEntries ==
  ASSUME InteractionTypeOK, TypeOK, NEW entry \in Entry, Record(entry),
         NEW e \in 1 .. Len(log)
  PROVE  /\ IsReply(e)' <=> IsReply(e)
         /\ log'[e] = log[e]
         /\ e \in 1 .. Len(log')
         /\ \A c \in Client : IsMessageOf(e, c)' <=> IsMessageOf(e, c)
<1>1. log'[e] = log[e] /\ Len(log') = Len(log) + 1 /\ Len(log) \in Nat
  BY RecordTypes DEF InteractionTypeOK
<1> QED
  BY <1>1 DEF IsReply, IsMessageOf

LEMMA ReplyRecordMessage ==
  ASSUME InteractionTypeOK, TypeOK, ReplyInv, NEW c \in Client, RecordMessage(c)
  PROVE  ReplyInv'
<1> DEFINE entry == [kind |-> "user_message", client |-> c, to |-> NoMessage]
           id == Len(log) + 1
<1>1. entry \in Entry /\ Record(entry)
  BY MessageEntry DEF RecordMessage
<1>2. /\ Len(log') = id /\ log'[id] = entry /\ lastEvent = Len(log)
      /\ id \in Nat /\ Len(log) \in Nat
  BY <1>1, RecordTypes DEF InteractionTypeOK
<1>3. \A e \in 1 .. Len(log') : e \in 1 .. Len(log) \/ e = id
  BY <1>2
<1>4. \A e \in 1 .. Len(log') : IsReply(e)' => e \in 1 .. Len(log) /\ IsReply(e) /\ log'[e] = log[e]
  BY <1>1, <1>2, <1>3, OldEntries DEF IsReply
<1>5. \A e \in 1 .. Len(log) : IsReply(e) => log[e].to \in 1 .. Len(log) /\ log[e].to < e
  BY DEF ReplyInv, RepliesMatch, IsMessageOf
<1>6. \A e \in 1 .. Len(log) : log[e].client \in Client
  <2>1. log \in Seq(Entry)
    BY DEF InteractionTypeOK
  <2>2. \A e \in 1 .. Len(log) : log[e] \in Entry
    BY <2>1
  <2> QED
    BY <2>2 DEF Entry
<1>7. id \in 1 .. Len(log') /\ log'[id].kind = "user_message" /\ log'[id].client = c
  <2>1. id \in 1 .. Len(log')
    BY <1>2
  <2>2. entry.kind = "user_message" /\ entry.client = c
    OBVIOUS
  <2> QED
    BY <2>1, <2>2, <1>2
<1>8. \A d \in 1 .. Len(log') : IsReply(d)' => log'[d].to # id
  <2> SUFFICES ASSUME NEW d \in 1 .. Len(log'), IsReply(d)', log'[d].to = id
               PROVE  FALSE
    OBVIOUS
  <2>1. d \in 1 .. Len(log) /\ IsReply(d) /\ log[d].to = id
    BY <1>4
  <2>2. id \in 1 .. Len(log)
    BY <2>1, <1>5
  <2> QED
    BY <2>2, <1>2
<1>9. RepliesMatch'
  <2>1. ASSUME NEW e \in 1 .. Len(log'), IsReply(e)'
        PROVE  log'[e].to < e /\ IsMessageOf(log[e].to, log[e].client)'
    BY <2>1, <1>1, <1>4, <1>5, <1>6, OldEntries DEF ReplyInv, RepliesMatch
  <2>2. \A e, d \in 1 .. Len(log') :
          IsReply(e)' /\ IsReply(d)' /\ log'[e].to = log'[d].to => e = d
    BY <1>4 DEF ReplyInv, RepliesMatch
  <2> QED
    BY <2>1, <2>2 DEF RepliesMatch
<1>10. InFlight'
  <2> SUFFICES ASSUME NEW b \in Client,
                      phase'[b] \in Recorded
               PROVE  /\ IsMessageOf(message[b], b)'
                      /\ \A d \in 1 .. Len(log') : IsReply(d)' => log'[d].to # message'[b]
    BY DEF InFlight
  <2>1. CASE b = c
    <3>1. message'[c] = id
      BY <1>2 DEF RecordMessage, InteractionTypeOK
    <3> QED
      BY <2>1, <3>1, <1>7, <1>8 DEF IsMessageOf
  <2>2. CASE b # c
    <3>1. message'[b] = message[b] /\ phase'[b] = phase[b]
      BY <2>2 DEF RecordMessage, InteractionTypeOK
    <3>2. IsMessageOf(message[b], b)
      BY <3>1 DEF ReplyInv, InFlight
    <3>3. IsMessageOf(message[b], b)'
      <4>1. message[b] \in 1 .. Len(log)
        BY <3>2 DEF IsMessageOf
      <4>2. log'[message[b]] = log[message[b]] /\ message[b] \in 1 .. Len(log')
        BY <4>1, <1>1, OldEntries
      <4> QED
        BY <3>1, <3>2, <4>2 DEF IsMessageOf
    <3> QED
      BY <3>1, <3>3, <1>4 DEF ReplyInv, InFlight
  <2> QED
    BY <2>1, <2>2
<1> QED
  BY <1>9, <1>10 DEF ReplyInv

LEMMA ReplyRecordReply ==
  ASSUME InteractionTypeOK, TypeOK, ReplyInv, NEW c \in Client, RecordReply(c)
  PROVE  ReplyInv'
<1> DEFINE entry == [kind |-> "assistant_message", client |-> c, to |-> InReplyTo(c)]
           id == Len(log) + 1
<1>1. entry \in Entry /\ Record(entry)
  BY ReplyEntry DEF RecordReply
<1>2. /\ Len(log') = id /\ log'[id] = entry
      /\ id \in Nat /\ Len(log) \in Nat
  BY <1>1, RecordTypes DEF InteractionTypeOK
<1>3. \A e \in 1 .. Len(log') : e \in 1 .. Len(log) \/ e = id
  BY <1>2
<1>4. entry.to = message[c] /\ entry.client = c
  BY DEF InReplyTo
<1>5. /\ IsMessageOf(message[c], c)
      /\ \A d \in 1 .. Len(log) : IsReply(d) => log[d].to # message[c]
  BY DEF RecordReply, ReplyInv, InFlight, Recorded
<1>6. message[c] \in 1 .. Len(log) /\ message[c] < id
  <2>1. message[c] \in 1 .. Len(log)
    BY <1>5 DEF IsMessageOf
  <2> QED
    BY <2>1, <1>2
<1>7. \A e \in 1 .. Len(log) :
        /\ e \in 1 .. Len(log') /\ log'[e] = log[e] /\ (IsReply(e)' <=> IsReply(e))
        /\ \A b \in Client : IsMessageOf(e, b)' <=> IsMessageOf(e, b)
  BY <1>1, OldEntries
<1>8. \A e \in 1 .. Len(log) : IsReply(e) =>
        /\ log[e].to \in 1 .. Len(log) /\ log[e].to < e /\ log[e].client \in Client
        /\ IsMessageOf(log[e].to, log[e].client)
  <2>1. \A e \in 1 .. Len(log) : log[e] \in Entry
    BY DEF InteractionTypeOK
  <2> QED
    BY <2>1 DEF ReplyInv, RepliesMatch, IsMessageOf, Entry
<1>9. ASSUME NEW e \in 1 .. Len(log'), IsReply(e)'
      PROVE  log'[e].to < e /\ IsMessageOf(log[e].to, log[e].client)'
  <2>1. CASE e = id
    BY <2>1, <1>2, <1>4, <1>5, <1>6, <1>7
  <2>2. CASE e \in 1 .. Len(log)
    BY <2>2, <1>7, <1>8, <1>9
  <2> QED
    BY <2>1, <2>2, <1>3
<1>10. ASSUME NEW e \in 1 .. Len(log'), NEW d \in 1 .. Len(log'),
              IsReply(e)', IsReply(d)', log'[e].to = log'[d].to
       PROVE  e = d
  <2>1. CASE e \in 1 .. Len(log) /\ d \in 1 .. Len(log)
    BY <2>1, <1>7, <1>10 DEF ReplyInv, RepliesMatch
  <2>2. CASE e = id /\ d \in 1 .. Len(log)
    BY <2>2, <1>2, <1>4, <1>5, <1>7, <1>10
  <2>3. CASE d = id /\ e \in 1 .. Len(log)
    BY <2>3, <1>2, <1>4, <1>5, <1>7, <1>10
  <2> QED
    BY <2>1, <2>2, <2>3, <1>3
<1>11. RepliesMatch'
  BY <1>9, <1>10 DEF RepliesMatch
<1>12. InFlight'
  <2> SUFFICES ASSUME NEW b \in Client,
                      phase'[b] \in Recorded
               PROVE  /\ IsMessageOf(message[b], b)'
                      /\ \A d \in 1 .. Len(log') : IsReply(d)' => log'[d].to # message'[b]
    BY DEF InFlight
  <2>1. b # c /\ message'[b] = message[b] /\ phase'[b] = phase[b]
    BY DEF RecordReply, InteractionTypeOK, Recorded
  <2>2. IsMessageOf(message[b], b) /\ \A d \in 1 .. Len(log) : IsReply(d) => log[d].to # message[b]
    BY <2>1 DEF ReplyInv, InFlight
  <2>3. message[b] \in 1 .. Len(log) /\ log[message[b]].client = b /\ log[message[c]].client = c
    BY <2>2, <1>5 DEF IsMessageOf
  <2>4. IsMessageOf(message[b], b)'
    BY <2>1, <2>2, <2>3, <1>7 DEF IsMessageOf
  <2>5. ASSUME NEW d \in 1 .. Len(log'), IsReply(d)'
        PROVE  log'[d].to # message'[b]
    <3>1. CASE d = id
      BY <3>1, <2>1, <2>3, <1>2, <1>4
    <3>2. CASE d \in 1 .. Len(log)
      BY <3>2, <2>1, <2>2, <2>5, <1>7
    <3> QED
      BY <3>1, <3>2, <1>3
  <2> QED
    BY <2>4, <2>5
<1> QED
  BY <1>11, <1>12 DEF ReplyInv

\* A step that appends nothing keeps it if no request gets further than it was.
LEMMA ReplyQuiet ==
  ASSUME ReplyInv, UNCHANGED log,
         \A c \in Client : phase'[c] \in Recorded =>
           phase[c] \in Recorded /\ message'[c] = message[c]
  PROVE  ReplyInv'
<1>1. RepliesMatch'
  BY DEF ReplyInv, RepliesMatch, IsReply, IsMessageOf
<1>2. \A c \in Client :
        IsMessageOf(message[c], c) /\ message'[c] = message[c] => IsMessageOf(message[c], c)'
  BY DEF IsMessageOf
<1>3. \A e \in 1 .. Len(log) : IsReply(e)' <=> IsReply(e)
  BY DEF IsReply
<1>4. InFlight'
  <2> SUFFICES ASSUME NEW c \in Client,
                      phase'[c] \in Recorded
               PROVE  /\ IsMessageOf(message[c], c)'
                      /\ \A d \in 1 .. Len(log') : IsReply(d)' => log'[d].to # message'[c]
    BY DEF InFlight
  <2>1. phase[c] \in Recorded /\ message'[c] = message[c]
    OBVIOUS
  <2>2. IsMessageOf(message[c], c) /\ \A d \in 1 .. Len(log) : IsReply(d) => log[d].to # message[c]
    BY <2>1 DEF ReplyInv, InFlight
  <2>3. IsMessageOf(message[c], c)'
    BY <2>1, <2>2, <1>2
  <2>4. \A d \in 1 .. Len(log') : IsReply(d)' => log'[d].to # message'[c]
    BY <2>1, <2>2, <1>3
  <2> QED
    BY <2>3, <2>4
<1> QED
  BY <1>1, <1>4 DEF ReplyInv

LEMMA ReplyStep ==
  InteractionTypeOK /\ TypeOK /\ ReplyInv /\ [InteractionNext]_allVars => ReplyInv'
<1> SUFFICES ASSUME InteractionTypeOK, TypeOK, ReplyInv, [InteractionNext]_allVars
             PROVE  ReplyInv'
  OBVIOUS
<1>1. ASSUME NEW c \in Client, Ask(c) \/ Interpret(c) \/ Reply(c) \/ GiveUpRequest(c)
      PROVE  ReplyInv'
  <2>1. UNCHANGED log
    BY <1>1 DEF Ask, Interpret, Reply, GiveUpRequest
  <2>2. ASSUME NEW b \in Client,
               phase'[b] \in Recorded
        PROVE  phase[b] \in Recorded
               /\ message'[b] = message[b]
    BY <1>1, <2>2 DEF Ask, Interpret, Reply, GiveUpRequest, InteractionTypeOK, Recorded
  <2> QED
    BY <2>1, <2>2, ReplyQuiet
<1>2. ASSUME NEW c \in Client, RecordMessage(c) \/ RecordReply(c)
      PROVE  ReplyInv'
  BY <1>2, ReplyRecordMessage, ReplyRecordReply
<1>3. CASE CrashAll
  <2>1. UNCHANGED log /\ \A b \in Client : phase'[b] = "away"
    BY <1>3 DEF CrashAll
  <2> QED
    BY <2>1, ReplyQuiet DEF Recorded
<1>4. CASE Background \/ UNCHANGED allVars
  <2>1. UNCHANGED requestVars
    BY <1>4, BackgroundQuiet DEF allVars
  <2> QED
    BY <2>1, ReplyQuiet DEF requestVars
<1> QED
  BY <1>1, <1>2, <1>3, <1>4 DEF InteractionNext, Progress

LEMMA ReplyInvCorrect == InteractionSpec => []ReplyInv
<1>1. InteractionSpec => []TypeOK
  BY WorkerWithin, TypeCorrect, PTL
<1> QED
  BY <1>1, InteractionTypeCorrect, ReplyInit, ReplyStep, PTL DEF InteractionSpec

\* Every reply answers its own client's earlier message, and none is answered
\* twice, for any number of clients.
THEOREM RepliesMatched == InteractionSpec => []RepliesMatch
<1>1. ReplyInv => RepliesMatch
  BY DEF ReplyInv
<1> QED
  BY <1>1, ReplyInvCorrect, PTL

-----------------------------------------------------------------------------
(* Messages and replies at the consumers.                                  *)

LEMMA MessageBeforeReply == NoEventLost /\ RepliesMatch /\ TypeOK => MessagesHandledFirst
<1> SUFFICES ASSUME NoEventLost, RepliesMatch, TypeOK,
                    NEW n \in Consumer, NEW e \in delivered[n], IsReply(e)
             PROVE  log[e].to \in delivered[n] \cup skipped[n]
  BY DEF MessagesHandledFirst
<1>1. e \in 1 .. cursor[n] /\ cursor[n] \in Nat
  BY BoundsAssumption DEF NoEventLost, TypeOK
<1>2. log[e].to < e /\ log[e].to \in 1 .. Len(log)
  BY DEF RepliesMatch, IsReply, IsMessageOf
<1>3. log[e].to \in 1 .. cursor[n]
  BY <1>1, <1>2
<1> QED
  BY <1>3 DEF NoEventLost

\* No consumer handles a reply before the message it answers: from what is proved
\* of the worker alone and of the requests alone.
THEOREM MessagesFirst == InteractionSpec => []MessagesHandledFirst
<1>1. InteractionSpec => [](NoEventLost /\ TypeOK)
  BY WorkerWithin, NothingLost, TypeCorrect, PTL
<1> QED
  BY <1>1, RepliesMatched, MessageBeforeReply, PTL

=============================================================================
