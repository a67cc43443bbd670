------------------------------- MODULE CncBus -------------------------------
(***************************************************************************)
(* The command & control bus of source/adk/cncbus/cncbus.c: senders        *)
(* append messages to the receivers' queues, any number of threads         *)
(* dispatch them, and one thread connects and disconnects receivers while  *)
(* the others run.  There is no mutex: the receiver table is guarded by    *)
(* the pair read_hazard_count / receivers_hazard, a queue by a bit of its  *)
(* receiver's hazard word, the delivery to a receiver by another bit.      *)
(*                                                                         *)
(* An action is one atomic operation of the code and the thread-local work *)
(* around it.  Memory is sequentially consistent; CncBusWeak is the same   *)
(* bus on a machine whose stores are buffered.                             *)
(* A message occupies one fragment.  on_msg_recv makes no call to the bus: *)
(* the event logger's, which may log a message of its own (a send by the   *)
(* dispatcher that holds its dispatch bit), is not one of these receivers. *)
(***************************************************************************)
EXTENDS Integers, Sequences, FiniteSets, SequencesExt

CONSTANTS
  Senders,      \* threads that call cncbus_send_async
  Dispatchers,  \* threads that call cncbus_dispatch
  Cdc,          \* the one thread that connects and disconnects
  Receivers,    \* the receivers, numbered by their addresses
  Frags,        \* message fragments cut from the region given to cncbus_init
  Chains,       \* receiver message chains cut from that region
  NoFrag, NoChain,
  Destinations, \* the sets of receivers that an address and a subnet mask select
  Modes,        \* the modes the dispatchers use: "single_message", "flush"
  SlotModulus,  \* next_dispatch_slot is kept modulo this
  MaxMessages   \* bound on the number of messages, for TLC

ASSUME ThreadsAssumption ==
  /\ IsFiniteSet(Senders) /\ IsFiniteSet(Dispatchers)
  /\ Senders \cap Dispatchers = {} /\ Cdc \notin Senders \cup Dispatchers
ASSUME ReceiversAssumption ==
  /\ IsFiniteSet(Receivers) /\ Receivers \subseteq Nat \ {0}
  /\ Destinations \subseteq SUBSET Receivers
  /\ SlotModulus \in Nat \ {0}
  /\ \A n \in 1 .. Cardinality(Receivers) : SlotModulus % n = 0
ASSUME MessagesAssumption ==
  /\ NoFrag \notin Frags /\ NoChain \notin Chains
  /\ Modes \subseteq {"single_message", "flush"}
  /\ IsFiniteSet(Chains) /\ MaxMessages \in Nat

VARIABLES
  receivers,           \* receivers[0 .. num_receivers - 1], sorted by descending address
  receivers_hazard,    \* "none" or "cdc"
  read_hazard_count,
  next_dispatch_slot,
  hazard,              \* the bits set in each receiver's hazard word
  queue,               \* chain_head .. chain_tail of each receiver
  free_chains, free_frags,
  chain_msg,           \* msg_data of each chain in use
  msg_data,            \* header and ref_count of the message in each fragment
  next_id,             \* number of the next message that has a receiver
  signaled,            \* messages whose signal was raised
  pc,
  disp,                \* the local variables of cncbus_dispatch, and of a chain's release
  send                 \* the local variables of cncbus_send_async

slots == <<receivers, next_dispatch_slot>>
table == <<slots, receivers_hazard>>
bus == <<table, read_hazard_count>>
rcvs == <<hazard, queue>>
memory == <<free_chains, free_frags, chain_msg, msg_data>>
sent == <<next_id, signaled>>
vars == <<bus, rcvs, memory, sent, pc, disp, send>>

Readers == Senders \cup Dispatchers
Threads == Readers \cup {Cdc}

NoMessage == [id |-> 0, ref_count |-> 0]
IdleDispatch == [mode |-> "single_message", i |-> 0, num |-> 0, rcv |-> 0, msgs |-> <<>>,
                 all_busy |-> TRUE, result |-> "no_messages"]
IdleSend == [msg |-> NoFrag, pending |-> <<>>, i |-> 1, chain |-> NoChain]

Init ==
  /\ receivers = <<>> /\ receivers_hazard = "none"
  /\ read_hazard_count = 0 /\ next_dispatch_slot = 0
  /\ hazard = [r \in Receivers |-> {}] /\ queue = [r \in Receivers |-> <<>>]
  /\ free_chains = Chains /\ free_frags = Frags
  /\ chain_msg = [c \in Chains |-> NoFrag] /\ msg_data = [f \in Frags |-> NoMessage]
  /\ next_id = 1 /\ signaled = {}
  /\ pc = [t \in Threads |-> "idle"]
  /\ disp = [t \in Threads |-> IdleDispatch]
  /\ send = [t \in Senders |-> IdleSend]

Goto(t, l) == pc' = [pc EXCEPT ![t] = l]
Step(t, from, to) == pc[t] = from /\ Goto(t, to)

-----------------------------------------------------------------------------
(* The read hazard: the table does not change between a successful test    *)
(* and the exit.                                                           *)

BugReadAllowed == TRUE   \* mutant: the reader does not look at the table's hazard
ReadAllowed == receivers_hazard = "none"

EnterReadHazard == read_hazard_count' = read_hazard_count + 1

ExitReadHazard == read_hazard_count' = read_hazard_count - 1

-----------------------------------------------------------------------------
(* bus_release_msg_chain, by a dispatcher that delivered a message and by  *)
(* the disconnecting thread: disp[t].msgs are the chains to release.       *)

LastReference(f) == msg_data[f].ref_count = 1

Free(f) ==
  /\ free_frags' = free_frags \cup {f}
  /\ msg_data' = [msg_data EXCEPT ![f] = NoMessage]

\* Mutant: the fragments of the last reference are not freed.
BugDropReference(f) ==
  msg_data' = [msg_data EXCEPT ![f].ref_count = @ - 1] /\ UNCHANGED free_frags
DropReference(f) ==
  IF LastReference(f) THEN Free(f)
  ELSE msg_data' = [msg_data EXCEPT ![f].ref_count = @ - 1] /\ UNCHANGED free_frags

\* The last reference: the signal is raised and the fragments are freed.
ReleaseReference(t) ==
  /\ Step(t, "release", "release_chain")
  /\ LET f == chain_msg[Head(disp[t].msgs)] IN
     /\ DropReference(f)
     /\ signaled' = IF LastReference(f) THEN signaled \cup {msg_data[f].id} ELSE signaled
  /\ UNCHANGED <<bus, rcvs, free_chains, chain_msg, next_id, disp, send>>

PushChain(c) ==
  /\ free_chains' = free_chains \cup {c}
  /\ chain_msg' = [chain_msg EXCEPT ![c] = NoFrag]

ReleaseChain(t) ==
  /\ pc[t] = "release_chain"
  /\ PushChain(Head(disp[t].msgs))
  /\ disp' = [disp EXCEPT ![t].msgs = Tail(@)]
  /\ \/ Len(disp[t].msgs) > 1 /\ Goto(t, IF t = Cdc THEN "release" ELSE "deliver")
     \/ Len(disp[t].msgs) = 1 /\ Goto(t, IF t = Cdc THEN "idle" ELSE "delivered")
  /\ UNCHANGED <<bus, rcvs, sent, free_frags, msg_data, send>>

-----------------------------------------------------------------------------
(* cncbus_dispatch, by a dispatcher or by a sender that is out of chains   *)

DispatchBegin(t) ==
  /\ IF t \in Dispatchers THEN pc[t] = "idle" ELSE pc[t] = "send_dispatch"
  /\ EnterReadHazard
  /\ \E mode \in IF t \in Dispatchers THEN Modes ELSE {"single_message"} :
       disp' = [disp EXCEPT ![t].mode = mode]
  /\ Goto(t, "test")
  /\ UNCHANGED <<table, rcvs, memory, sent, send>>

DispatchReenter(t) ==
  /\ Step(t, "reenter", "test")
  /\ EnterReadHazard
  /\ UNCHANGED <<table, rcvs, memory, sent, disp, send>>

DispatchTest(t) ==
  /\ pc[t] = "test"
  /\ IF ReadAllowed
     THEN /\ disp' = [disp EXCEPT ![t].num = Len(receivers),
                                  ![t].all_busy = @ /\ receivers # <<>>]
          /\ Goto(t, "next")
     ELSE UNCHANGED disp /\ Goto(t, "undo")
  /\ UNCHANGED <<bus, rcvs, memory, sent, send>>

\* A dispatch called by a sender goes back to ask for a chain.
DispatchReturn(t) ==
  /\ disp' = [disp EXCEPT ![t] = IdleDispatch]
  /\ Goto(t, IF t \in Dispatchers THEN "idle" ELSE "send_chain")

\* The table is changing: cncbus_dispatch_busy.
DispatchUndo(t) ==
  /\ pc[t] = "undo"
  /\ ExitReadHazard
  /\ DispatchReturn(t)
  /\ UNCHANGED <<table, rcvs, memory, sent, send>>

DispatchPick(t) ==
  /\ Step(t, "next", "try") /\ disp[t].i < disp[t].num
  /\ disp' = [disp EXCEPT ![t].rcv = receivers[(next_dispatch_slot % disp[t].num) + 1]]
  /\ next_dispatch_slot' = (next_dispatch_slot + 1) % SlotModulus
  /\ UNCHANGED <<receivers, receivers_hazard, read_hazard_count, rcvs, memory, sent, send>>

\* Every receiver was visited.
DispatchEnd(t) ==
  /\ pc[t] = "next" /\ disp[t].i >= disp[t].num
  /\ ExitReadHazard
  /\ DispatchReturn(t)
  /\ UNCHANGED <<table, rcvs, memory, sent, send>>

BugLatch(r) == TRUE   \* mutant: the result of atomic_test_and_set is ignored
Latch(r) == "dispatch" \notin hazard[r]

DispatchTry(t) ==
  /\ pc[t] = "try"
  /\ LET r == disp[t].rcv IN
     /\ hazard' = [hazard EXCEPT ![r] = @ \cup {"dispatch"}]
     /\ IF Latch(r)
        THEN disp' = [disp EXCEPT ![t].all_busy = FALSE] /\ Goto(t, "leave")
        ELSE disp' = [disp EXCEPT ![t].i = @ + 1, ![t].rcv = 0] /\ Goto(t, "next")
  /\ UNCHANGED <<bus, memory, sent, queue, send>>

DispatchLeave(t) ==
  /\ Step(t, "leave", "lock")
  /\ ExitReadHazard
  /\ UNCHANGED <<table, rcvs, memory, sent, disp, send>>

DispatchLock(t) ==
  /\ Step(t, "lock", "detach") /\ "access" \notin hazard[disp[t].rcv]
  /\ hazard' = [hazard EXCEPT ![disp[t].rcv] = @ \cup {"access"}]
  /\ UNCHANGED <<bus, memory, sent, queue, disp, send>>

Unlocked(r) == hazard[r] \ {"access"}

\* The chains a dispatch unhooks.
Unhooked(mode, q) == IF mode = "flush" THEN Len(q) ELSE 1

DispatchDetach(t) ==
  /\ Step(t, "detach", "deliver") /\ queue[disp[t].rcv] # <<>>
  /\ LET r == disp[t].rcv
         n == Unhooked(disp[t].mode, queue[r]) IN
     /\ disp' = [disp EXCEPT ![t].msgs = SubSeq(queue[r], 1, n)]
     /\ queue' = [queue EXCEPT ![r] = SubSeq(@, n + 1, Len(@))]
     /\ hazard' = [hazard EXCEPT ![r] = Unlocked(r)]
  /\ UNCHANGED <<bus, memory, sent, send>>

DispatchNothing(t) ==
  /\ Step(t, "detach", "reenter") /\ queue[disp[t].rcv] = <<>>
  /\ hazard' = [hazard EXCEPT ![disp[t].rcv] = @ \ {"access", "dispatch"}]
  /\ disp' = [disp EXCEPT ![t].i = @ + 1, ![t].rcv = 0]
  /\ UNCHANGED <<bus, memory, sent, queue, send>>

\* on_msg_recv returns; event_logger.c:35-72, which logs, is left out.
DispatchDeliver(t) ==
  /\ Step(t, "deliver", "release")
  /\ UNCHANGED <<bus, rcvs, memory, sent, disp, send>>

BugUnlatched(r) == hazard[r]   \* mutant: the bit is not cleared
Unlatched(r) == hazard[r] \ {"dispatch"}

DispatchDone(t) ==
  /\ pc[t] = "delivered"
  /\ hazard' = [hazard EXCEPT ![disp[t].rcv] = Unlatched(disp[t].rcv)]
  /\ IF disp[t].mode = "single_message" THEN DispatchReturn(t)
     ELSE /\ disp' = [disp EXCEPT ![t].i = @ + 1, ![t].rcv = 0, ![t].result = "ok"]
          /\ Goto(t, "reenter")
  /\ UNCHANGED <<bus, memory, sent, queue, send>>

-----------------------------------------------------------------------------
(* cncbus_msg_begin_unchecked and cncbus_send_async                        *)

\* Senders whose message has no number yet.
Building == {t \in Senders : pc[t] \in {"send_enter", "send_test", "send_undo", "send_collect"}}

\* Construction of a message; with no free fragment the caller gets NULL and nothing changes.
MsgBegin(t) ==
  /\ Step(t, "idle", "send_enter") /\ next_id + Cardinality(Building) <= MaxMessages
  /\ \E f \in free_frags :
       /\ free_frags' = free_frags \ {f}
       /\ send' = [send EXCEPT ![t].msg = f]
  /\ UNCHANGED <<bus, rcvs, sent, free_chains, chain_msg, msg_data, disp>>

SendEnter(t) ==
  /\ Step(t, "send_enter", "send_test")
  /\ EnterReadHazard
  /\ UNCHANGED <<table, rcvs, memory, sent, disp, send>>

SendTest(t) ==
  /\ pc[t] = "send_test"
  /\ Goto(t, IF ReadAllowed THEN "send_collect" ELSE "send_undo")
  /\ UNCHANGED <<bus, rcvs, memory, sent, disp, send>>

SendUndo(t) ==
  /\ Step(t, "send_undo", "send_enter")
  /\ ExitReadHazard
  /\ UNCHANGED <<table, rcvs, memory, sent, disp, send>>

\* The positions collect_receivers copies to the pending list, in the order of the table.
Ascending(positions) ==
  {f \in [1 .. Cardinality(positions) -> positions] :
     \A i, j \in DOMAIN f : i < j => f[i] < f[j]}

\* collect_receivers; ref_count starts with the sender's own reference.
SendCollect(t) ==
  /\ Step(t, "send_collect", "send_chain")
  /\ \E dest \in Destinations :
       LET matched == {i \in DOMAIN receivers : receivers[i] \in dest} IN
       /\ matched # {}
       /\ \E f \in Ascending(matched) :
            send' = [send EXCEPT ![t].pending = [k \in DOMAIN f |-> receivers[f[k]]]]
       /\ msg_data' = [msg_data EXCEPT ![send[t].msg] = [id |-> next_id, ref_count |-> 1]]
  /\ next_id' = next_id + 1
  /\ UNCHANGED <<bus, rcvs, free_chains, free_frags, chain_msg, signaled, disp>>

\* Nobody has the address: the sender leaves and frees the message.
SendToNobody(t) ==
  /\ Step(t, "send_collect", "idle")
  /\ \E dest \in Destinations : dest \cap Range(receivers) = {}
  /\ ExitReadHazard
  /\ Free(send[t].msg)
  /\ send' = [send EXCEPT ![t] = IdleSend]
  /\ UNCHANGED <<table, rcvs, free_chains, chain_msg, sent, disp>>

AddReference(f) == msg_data' = [msg_data EXCEPT ![f].ref_count = @ + 1]

SendGetChain(t) ==
  /\ Step(t, "send_chain", "send_try")
  /\ \E c \in free_chains :
       /\ free_chains' = free_chains \ {c}
       /\ chain_msg' = [chain_msg EXCEPT ![c] = send[t].msg]
       /\ send' = [send EXCEPT ![t].chain = c]
  /\ AddReference(send[t].msg)
  /\ UNCHANGED <<bus, rcvs, sent, free_frags, disp>>

\* No free chain: the sender dispatches, still inside its read hazard, and asks again.
SendNoChain(t) ==
  /\ Step(t, "send_chain", "send_dispatch") /\ free_chains = {}
  /\ UNCHANGED <<bus, rcvs, memory, sent, disp, send>>

\* The position after i in a pending list of n receivers: the code makes pass after pass.
Wrap(i, n) == IF i > n THEN 1 ELSE i

\* Drops the current receiver from the pending list; c is the chain the sender still has.
Dropped(t, c) ==
  LET rest == RemoveAt(send[t].pending, send[t].i) IN
  /\ send' = [send EXCEPT ![t].pending = rest, ![t].chain = c, ![t].i = Wrap(@, Len(rest))]
  /\ \/ rest = <<>> /\ Goto(t, "send_exit")
     \/ rest # <<>> /\ c = NoChain /\ Goto(t, "send_chain")
     \/ rest # <<>> /\ c # NoChain /\ Goto(t, "send_try")

\* fetch_or of the access bit; the previous value decides.
SendTry(t) ==
  /\ pc[t] = "send_try"
  /\ LET r == send[t].pending[send[t].i]
         locked == "access" \notin hazard[r]
         destroyed == "destroyed" \in hazard[r] IN
     /\ hazard' = [hazard EXCEPT ![r] = @ \cup {"access"}]
     /\ \/ locked /\ destroyed /\ Goto(t, "send_clear") /\ UNCHANGED send
        \/ locked /\ ~destroyed /\ Goto(t, "send_enqueue") /\ UNCHANGED send
        \/ ~locked /\ destroyed /\ Dropped(t, send[t].chain)
        \/ /\ ~locked /\ ~destroyed
           /\ send' = [send EXCEPT ![t].i = Wrap(@ + 1, Len(send[t].pending))]
           /\ UNCHANGED pc
  /\ UNCHANGED <<bus, memory, sent, queue, disp>>

BugEnqueued(q, c) == <<c>> \o q   \* mutant: the chain becomes the head
Enqueued(q, c) == Append(q, c)

ChainLeft(t) == NoChain

SendEnqueue(t) ==
  /\ pc[t] = "send_enqueue"
  /\ LET r == send[t].pending[send[t].i] IN
     /\ queue' = [queue EXCEPT ![r] = Enqueued(@, send[t].chain)]
     /\ hazard' = [hazard EXCEPT ![r] = Unlocked(r)]
  /\ Dropped(t, ChainLeft(t))
  /\ UNCHANGED <<bus, memory, sent, disp>>

\* The receiver is being disconnected: the bit is cleared and the chain kept for the next one.
SendClear(t) ==
  /\ pc[t] = "send_clear"
  /\ LET r == send[t].pending[send[t].i] IN hazard' = [hazard EXCEPT ![r] = Unlocked(r)]
  /\ Dropped(t, send[t].chain)
  /\ UNCHANGED <<bus, memory, sent, queue, disp>>

Dangling(t) == send[t].chain # NoChain

SendExit(t) ==
  /\ pc[t] = "send_exit"
  /\ ExitReadHazard
  /\ Goto(t, IF Dangling(t) THEN "send_release" ELSE "send_drop")
  /\ UNCHANGED <<table, rcvs, memory, sent, disp, send>>

\* The dangling chain; its reference is not the last one.
SendRelease(t) ==
  /\ Step(t, "send_release", "send_drop")
  /\ DropReference(send[t].msg)
  /\ PushChain(send[t].chain)
  /\ send' = [send EXCEPT ![t].chain = NoChain]
  /\ UNCHANGED <<bus, rcvs, sent, disp>>

\* The sender's own reference; when it is the last one, the fragments are freed.
SendDrop(t) ==
  /\ Step(t, "send_drop", "idle")
  /\ DropReference(send[t].msg)
  /\ send' = [send EXCEPT ![t] = IdleSend]
  /\ UNCHANGED <<bus, rcvs, sent, free_chains, chain_msg, disp>>

-----------------------------------------------------------------------------
(* cncbus_connect and cncbus_disconnect, by one thread                     *)

Connect(r) ==
  /\ Step(Cdc, "idle", "store") /\ r \notin Range(receivers)
  /\ hazard' = [hazard EXCEPT ![r] = {}]
  /\ queue' = [queue EXCEPT ![r] = <<>>]
  /\ disp' = [disp EXCEPT ![Cdc].rcv = r]
  /\ UNCHANGED <<bus, memory, sent, send>>

Disconnect(r) ==
  /\ Step(Cdc, "idle", "store") /\ r \in Range(receivers)
  /\ hazard' = [hazard EXCEPT ![r] = @ \cup {"destroyed"}]
  /\ disp' = [disp EXCEPT ![Cdc].rcv = r]
  /\ UNCHANGED <<bus, memory, sent, queue, send>>

\* bus_wait_enter_cdc_hazard: a relaxed store, then loads until no reader is left.
CdcStore ==
  /\ Step(Cdc, "store", "wait")
  /\ receivers_hazard' = "cdc"
  /\ UNCHANGED <<slots, read_hazard_count, rcvs, memory, sent, disp, send>>

CdcWait ==
  /\ Step(Cdc, "wait", "modify") /\ read_hazard_count = 0
  /\ UNCHANGED <<bus, rcvs, memory, sent, disp, send>>

\* lower_bound in the table, which is in descending order of the addresses, counted from 1.
LowerBound(r) == Cardinality({i \in DOMAIN receivers : receivers[i] > r}) + 1
Position(r) == CHOOSE i \in DOMAIN receivers : receivers[i] = r

Inserted(r) == InsertAt(receivers, LowerBound(r), r)
Removed(r) == RemoveAt(receivers, Position(r))

CdcModify ==
  /\ pc[Cdc] = "modify"
  /\ LET r == disp[Cdc].rcv IN
     /\ receivers' = IF r \in Range(receivers) THEN Removed(r) ELSE Inserted(r)
     /\ Goto(Cdc, IF r \in Range(receivers) THEN "exit_disconnect" ELSE "exit_connect")
  /\ UNCHANGED <<receivers_hazard, next_dispatch_slot, read_hazard_count, rcvs, memory, sent, disp, send>>

BugExitCdcHazard == UNCHANGED receivers_hazard   \* mutant: the table stays closed
ExitCdcHazard == receivers_hazard' = "none"

CdcExitConnect ==
  /\ Step(Cdc, "exit_connect", "idle")
  /\ ExitCdcHazard
  /\ disp' = [disp EXCEPT ![Cdc].rcv = 0]
  /\ UNCHANGED <<slots, read_hazard_count, rcvs, memory, sent, send>>

CdcExitDisconnect ==
  /\ Step(Cdc, "exit_disconnect", "quiesce")
  /\ ExitCdcHazard
  /\ UNCHANGED <<slots, read_hazard_count, rcvs, memory, sent, disp, send>>

\* Mutant: the disconnect waits for the access bit and not for the dispatch bit.
BugQuiesced(r) == hazard[r] \subseteq {"destroyed", "dispatch"}
Quiesced(r) == hazard[r] = {"destroyed"}

\* Nobody uses the receiver: what is left in its queue is released and dropped.
CdcQuiesce ==
  /\ pc[Cdc] = "quiesce"
  /\ LET r == disp[Cdc].rcv IN
     /\ Quiesced(r)
     /\ disp' = [disp EXCEPT ![Cdc].msgs = queue[r], ![Cdc].rcv = 0]
     /\ queue' = [queue EXCEPT ![r] = <<>>]
     /\ Goto(Cdc, IF queue[r] = <<>> THEN "idle" ELSE "release")
  /\ UNCHANGED <<bus, memory, sent, hazard, send>>

-----------------------------------------------------------------------------
DispatchStep(t) ==
  \/ DispatchReenter(t) \/ DispatchTest(t) \/ DispatchUndo(t) \/ DispatchPick(t) \/ DispatchEnd(t)
  \/ DispatchTry(t) \/ DispatchLeave(t) \/ DispatchLock(t) \/ DispatchDetach(t)
  \/ DispatchNothing(t) \/ DispatchDeliver(t) \/ DispatchDone(t)

ReleaseStep(t) == ReleaseReference(t) \/ ReleaseChain(t)

SendStep(t) ==
  \/ SendEnter(t) \/ SendTest(t) \/ SendUndo(t) \/ SendCollect(t) \/ SendToNobody(t)
  \/ SendGetChain(t) \/ SendNoChain(t) \/ SendTry(t) \/ SendEnqueue(t) \/ SendClear(t)
  \/ SendExit(t) \/ SendRelease(t) \/ SendDrop(t)

CdcStep ==
  \/ CdcStore \/ CdcWait \/ CdcModify \/ CdcExitConnect \/ CdcExitDisconnect \/ CdcQuiesce

ReaderNext ==
  \/ \E t \in Readers : DispatchBegin(t) \/ DispatchStep(t)
  \/ \E t \in Threads : ReleaseStep(t)
  \/ \E t \in Senders : MsgBegin(t) \/ SendStep(t)

CdcNext == CdcStep \/ \E r \in Receivers : Connect(r) \/ Disconnect(r)

Next == ReaderNext \/ CdcNext

Spec == Init /\ [][Next]_vars

\* A reader between a successful test of the read hazard and its exit.
DispatchInside == {"test", "undo", "next", "try", "leave"}
DispatchOutside == {"lock", "detach", "deliver", "release", "release_chain", "delivered", "reenter"}
SendInside == {"send_test", "send_undo", "send_collect", "send_chain", "send_dispatch",
               "send_try", "send_enqueue", "send_clear", "send_exit"}
SendOutside == {"idle", "send_enter", "send_release", "send_drop"}

ReadsTable(t) ==
  \/ pc[t] \in {"next", "try", "leave"} \cup (SendInside \ {"send_test", "send_undo"})
  \/ t \in Senders /\ pc[t] \in DispatchInside \cup DispatchOutside

(***************************************************************************)
(* A thread that spins on an atomic gets through when the condition holds  *)
(* again and again; dispatchers dispatch for ever; nothing forces a new    *)
(* message, a connect or a disconnect.  Connects and disconnects belong to *)
(* startup and shutdown: they end.  Attempts that fail because of a        *)
(* waiting connect do not overlap for ever: their loops sleep, or last a   *)
(* few instructions, so that the count of readers returns to zero.         *)
(***************************************************************************)
FailedAttempts == pc[Cdc] = "wait" /\ \A t \in Readers : ~ReadsTable(t)

Fairness ==
  /\ \A t \in Readers : SF_vars(DispatchBegin(t) \/ DispatchStep(t) \/ ReleaseStep(t))
  /\ \A t \in Senders : SF_vars(SendStep(t))
  /\ SF_vars(CdcStep \/ ReleaseStep(Cdc))
  /\ <>[](pc[Cdc] # "store")
  /\ []<>FailedAttempts => []<>(FailedAttempts => read_hazard_count = 0)

FairSpec == Spec /\ Fairness

-----------------------------------------------------------------------------
(* Properties                                                              *)

CdcPlaces == {"idle", "store", "wait", "modify", "exit_connect", "exit_disconnect", "quiesce",
              "release", "release_chain"}
Bits == {"access", "dispatch", "destroyed"}

DispatchLocals ==
  [mode : {"single_message", "flush"}, i : Nat, num : Nat, rcv : Receivers \cup {0},
   msgs : Seq(Chains), all_busy : BOOLEAN, result : {"no_messages", "ok"}]
SendLocals == [msg : Frags \cup {NoFrag}, pending : Seq(Receivers), i : Nat,
               chain : Chains \cup {NoChain}]

\* The shape of the bus and of the threads' local variables.
TypeOK ==
  /\ receivers \in Seq(Receivers)
  /\ receivers_hazard \in {"none", "cdc"}
  /\ read_hazard_count \in Int /\ next_dispatch_slot \in 0 .. SlotModulus - 1
  /\ hazard \in [Receivers -> SUBSET Bits]
  /\ queue \in [Receivers -> Seq(Chains)]
  /\ free_chains \subseteq Chains /\ free_frags \subseteq Frags
  /\ chain_msg \in [Chains -> Frags \cup {NoFrag}]
  /\ msg_data \in [Frags -> [id : Nat, ref_count : Int]]
  /\ next_id \in Nat /\ signaled \subseteq Nat
  /\ pc \in [Threads -> DispatchInside \cup DispatchOutside \cup SendOutside \cup SendInside
                          \cup CdcPlaces]
  /\ disp \in [Threads -> DispatchLocals] /\ send \in [Senders -> SendLocals]

(***************************************************************************)
(* "this hazard guarantees that the receivers array won't be modified":    *)
(* nobody is between a successful test and its exit while the table is     *)
(* written.  A sender that dispatches is inside all the while.             *)
(***************************************************************************)
WritesTable == pc[Cdc] \in {"modify", "exit_connect", "exit_disconnect"}
ReadersExcludeCdc == WritesTable => \A t \in Readers : ~ReadsTable(t)

(***************************************************************************)
(* "A connected receiver will receive messages serially so the receiver    *)
(* itself will not ever be invoked from multiple threads simultaneously."  *)
(***************************************************************************)
Latched(t) ==
  pc[t] \in {"leave", "lock", "detach", "deliver", "release", "release_chain", "delivered"}
SerialDelivery ==
  \A t, u \in Readers :
    t # u /\ pc[t] = "deliver" /\ Latched(u) => disp[t].rcv # disp[u].rcv

(***************************************************************************)
(* Once cncbus_disconnect returns its receiver may be freed: no thread has *)
(* a use for its address, neither a dispatch that left the read hazard nor *)
(* a sender with the receiver in its pending list.                         *)
(***************************************************************************)
Registered == Range(receivers) \cup {disp[Cdc].rcv}
NoUseAfterDisconnect ==
  /\ \A t \in Readers : pc[t] = "try" \/ Latched(t) => disp[t].rcv \in Registered
  /\ \A t \in Senders : Range(send[t].pending) \subseteq Registered

(***************************************************************************)
(* Every chain is in exactly one place: the free list, a queue, the hands  *)
(* of a thread that delivers or releases it, those of a sender.  The state *)
(* has its type, the chains in particular.                                 *)
(***************************************************************************)
Places(c) ==
  {<<"queue", p[1], p[2]>> : p \in {q \in Receivers \X (1 .. Cardinality(Chains)) :
                                     q[2] \in DOMAIN queue[q[1]] /\ queue[q[1]][q[2]] = c}}
    \cup {<<"hands", p[1], p[2]>> : p \in {q \in Threads \X (1 .. Cardinality(Chains)) :
                                     q[2] \in DOMAIN disp[q[1]].msgs /\ disp[q[1]].msgs[q[2]] = c}}
    \cup {<<"sender", t>> : t \in {u \in Senders : send[u].chain = c}}
    \cup {<<"free">> : x \in {c} \cap free_chains}
ChainConservation == TypeOK /\ \A c \in Chains : Cardinality(Places(c)) = 1

(***************************************************************************)
(* A fragment is freed, once, and no chain that still counts refers to a   *)
(* freed one: ref_count is the number of chains in use whose reference was *)
(* not dropped and of senders that have not dropped theirs, and a fragment *)
(* without any is free, unless a sender is building its message.  A        *)
(* message whose signal was raised is used by nobody any more.             *)
(***************************************************************************)
Dropping(t) == pc[t] = "release_chain"
CountedChains(f) ==
  {c \in Chains : chain_msg[c] = f /\ ~ \E t \in Threads : Dropping(t) /\ c = Head(disp[t].msgs)}
CountedSenders(f) ==
  {t \in Senders : send[t].msg = f /\ pc[t] \notin {"send_enter", "send_test", "send_undo",
                                                     "send_collect"}}
ReferencesCounted ==
  \A f \in Frags :
    LET users == Cardinality(CountedChains(f)) + Cardinality(CountedSenders(f)) IN
    /\ f \in free_frags => users = 0
    /\ msg_data[f].ref_count \in {0, users}
    /\ msg_data[f].ref_count = 0 => CountedChains(f) = {}
    /\ \/ f \in free_frags
       \/ \E t \in Building : send[t].msg = f
       \/ users > 0 /\ msg_data[f].ref_count = users
    /\ msg_data[f].id \notin signaled

\* No message and no chain is lost, used after it was freed or freed twice.
MessagesConserved == ChainConservation /\ ReferencesCounted

\* The messages of receiver r that were queued and not delivered, in the order of their delivery.
Undelivered(t) == IF pc[t] = "deliver" THEN disp[t].msgs ELSE Tail(disp[t].msgs)
InHand(r) ==
  LET holders == {t \in Readers : disp[t].rcv = r /\ disp[t].msgs # <<>>} IN
  IF holders = {} THEN <<>> ELSE Undelivered(CHOOSE t \in holders : TRUE)
Box(r) ==
  LET chains == InHand(r) \o queue[r] IN
  [i \in DOMAIN chains |-> msg_data[chain_msg[chains[i]]].id]

Connected ==
  Range(receivers) \cup
    (IF pc[Cdc] \in {"exit_disconnect", "quiesce"} THEN {disp[Cdc].rcv} ELSE {})

(***************************************************************************)
(* The bus implements BusService: chains, fragments, hazards and the table *)
(* of receivers lose, duplicate and reorder no message.                    *)
(***************************************************************************)
Service == INSTANCE BusService WITH
  reaching <- [t \in Senders |->
                 {<<msg_data[send[t].msg].id, r>> : r \in Range(send[t].pending)}],
  box <- [r \in Receivers |-> Box(r)],
  connected <- Connected,
  leaving <- {r \in Connected : "destroyed" \in hazard[r]}

ImplementsBusService == Service!Spec

\* A message that reached a receiver's queue is delivered, or dropped with the receiver.
QueuedIsDelivered ==
  \A r \in Receivers, c \in Chains : c \in Range(queue[r]) ~> c \notin Range(queue[r])

(***************************************************************************)
(* cncbus_send_async, cncbus_connect and cncbus_disconnect return:         *)
(* "message sending and dispatch can occur on other threads during         *)
(* connect/disconnect".                                                    *)
(***************************************************************************)
CallsReturn == \A t \in Senders \cup {Cdc} : pc[t] # "idle" ~> pc[t] = "idle"
=============================================================================
