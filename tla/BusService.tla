----------------------------- MODULE BusService -----------------------------
(***************************************************************************)
(* What the bus promises ("Message delivery and order is guaranteed"):     *)
(* every receiver has a queue of messages; a message reaches each receiver *)
(* it is sent to at most once, one receiver at a time, the messages of one *)
(* sender in the order they were sent; a queue is delivered in order and   *)
(* only a disconnect drops what is in it.  A receiver is missed only when  *)
(* it is being disconnected.                                               *)
(***************************************************************************)
EXTENDS Naturals, Sequences

CONSTANTS Senders, Receivers

VARIABLES
  next_id,    \* the number of the next message
  reaching,   \* pairs of the message each sender is sending and a receiver it has to reach
  box,        \* messages that reached a receiver and were not delivered to it
  connected,  \* receivers known to the bus
  leaving     \* receivers that are being disconnected

vars == <<next_id, reaching, box, connected, leaving>>

Init ==
  /\ next_id = 1
  /\ reaching = [s \in Senders |-> {}]
  /\ box = [r \in Receivers |-> <<>>]
  /\ connected = {} /\ leaving = {}

Send(s) ==
  /\ reaching[s] = {}
  /\ \E targets \in SUBSET connected :
       reaching' = [reaching EXCEPT ![s] = {next_id} \X targets]
  /\ next_id' = next_id + 1
  /\ UNCHANGED <<box, connected, leaving>>

Reach(s, p) ==
  /\ p \in reaching[s]
  /\ reaching' = [reaching EXCEPT ![s] = @ \ {p}]
  /\ box' = [box EXCEPT ![p[2]] = Append(@, p[1])]
  /\ UNCHANGED <<next_id, connected, leaving>>

Miss(s, p) ==
  /\ p \in reaching[s] /\ p[2] \in leaving
  /\ reaching' = [reaching EXCEPT ![s] = @ \ {p}]
  /\ UNCHANGED <<next_id, box, connected, leaving>>

Deliver(r) ==
  /\ box[r] # <<>>
  /\ box' = [box EXCEPT ![r] = Tail(@)]
  /\ UNCHANGED <<next_id, reaching, connected, leaving>>

Connect(r) ==
  /\ r \notin connected /\ box[r] = <<>>
  /\ connected' = connected \cup {r}
  /\ UNCHANGED <<next_id, reaching, box, leaving>>

DisconnectBegins(r) ==
  /\ r \in connected /\ r \notin leaving
  /\ leaving' = leaving \cup {r}
  /\ UNCHANGED <<next_id, reaching, box, connected>>

\* Nobody may still be sending to the receiver.
DisconnectEnds(r) ==
  /\ r \in leaving /\ \A s \in Senders : \A p \in reaching[s] : p[2] # r
  /\ leaving' = leaving \ {r} /\ connected' = connected \ {r}
  /\ box' = [box EXCEPT ![r] = <<>>]
  /\ UNCHANGED <<next_id, reaching>>

SenderStep(s) == Send(s) \/ \E p \in reaching[s] : Reach(s, p) \/ Miss(s, p)
ReceiverStep(r) == Deliver(r) \/ Connect(r) \/ DisconnectBegins(r) \/ DisconnectEnds(r)

Next == (\E s \in Senders : SenderStep(s)) \/ (\E r \in Receivers : ReceiverStep(r))

Spec == Init /\ [][Next]_vars
=============================================================================
