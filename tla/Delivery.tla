------------------------------ MODULE Delivery ------------------------------
(***************************************************************************)
(* What the background worker promises to each consumer of the event log,  *)
(* with no mention of cycles, locks, proposals or crashes.                 *)
(*                                                                         *)
(* Every consumer owns a position in a shared log that only grows.  The    *)
(* position advances over a contiguous group of at most BatchSize events,  *)
(* either because the group was handled or because the consumer has failed *)
(* at this position at least MaxFailures times in a row.  Nothing else     *)
(* moves a position: no event is passed over in silence, no position is    *)
(* ever taken back.                                                        *)
(***************************************************************************)
EXTENDS Integers

CONSTANTS Consumer, BatchSize, MaxFailures

VARIABLES
  length,    \* number of events in the log
  position,  \* consumer -> last event it is past
  failed,    \* consumer -> failures at its current position
  handled,   \* consumer -> events it has handled
  dropped    \* consumer -> events given up after repeated failures

vars == <<length, position, failed, handled, dropped>>

Init ==
  /\ length = 0
  /\ position = [c \in Consumer |-> 0]
  /\ failed = [c \in Consumer |-> 0]
  /\ handled = [c \in Consumer |-> {}]
  /\ dropped = [c \in Consumer |-> {}]

Publish ==
  /\ length' = length + 1
  /\ UNCHANGED <<position, failed, handled, dropped>>

\* A group of events that starts right after the consumer's position.
Group(c, to) == (position[c] + 1) .. to

IsNextGroup(c, to) ==
  /\ to > position[c]
  /\ to <= length
  /\ to <= position[c] + BatchSize

MoveTo(c, to) ==
  /\ position' = [position EXCEPT ![c] = to]
  /\ failed' = [failed EXCEPT ![c] = 0]

Handle(c) == \E to \in 1 .. length :
  /\ IsNextGroup(c, to)
  /\ MoveTo(c, to)
  /\ handled' = [handled EXCEPT ![c] = @ \cup Group(c, to)]
  /\ UNCHANGED <<length, dropped>>

Fail(c) ==
  /\ position[c] < length
  /\ failed' = [failed EXCEPT ![c] = @ + 1]
  /\ UNCHANGED <<length, position, handled, dropped>>

Drop(c) == \E to \in 1 .. length :
  /\ IsNextGroup(c, to)
  /\ failed[c] >= MaxFailures
  /\ MoveTo(c, to)
  /\ dropped' = [dropped EXCEPT ![c] = @ \cup Group(c, to)]
  /\ UNCHANGED <<length, handled>>

Next ==
  \/ Publish
  \/ \E c \in Consumer : Handle(c) \/ Fail(c) \/ Drop(c)

Spec == Init /\ [][Next]_vars

=============================================================================
