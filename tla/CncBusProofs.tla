---------------------------- MODULE CncBusProofs ----------------------------
(***************************************************************************)
(* Theorems about CncBus for any sets of threads, receivers, chains and    *)
(* fragments, with sequentially consistent memory: its safety properties,  *)
(* and that every step is a step of BusService or changes nothing of it.   *)
(***************************************************************************)
EXTENDS CncBus, ListLemmas

-----------------------------------------------------------------------------
(* The exclusion of readers and writer.  The threads inside the read       *)
(* hazard are counted twice when they send and dispatch at once.           *)

InDispatch == {t \in Readers : pc[t] \in DispatchInside}
InSend == {t \in Senders : pc[t] \notin SendOutside}

\* What thread t contributes to read_hazard_count at place l.
Weight(t, l) ==
  (IF l \in DispatchInside THEN 1 ELSE 0) + (IF t \in Senders /\ l \notin SendOutside THEN 1 ELSE 0)

\* ReadsTable(t) at place l.
ReadsAt(t, l) ==
  \/ l \in {"next", "try", "leave"} \cup (SendInside \ {"send_test", "send_undo"})
  \/ t \in Senders /\ l \in DispatchInside \cup DispatchOutside

DispatcherPlaces == {"idle"} \cup DispatchInside \cup DispatchOutside
Labels == DispatchInside \cup DispatchOutside \cup SendInside \cup SendOutside \cup CdcPlaces

ExclusionInv ==
  /\ pc \in [Threads -> Labels]
  /\ \A t \in Dispatchers : pc[t] \in DispatcherPlaces
  /\ read_hazard_count = Cardinality(InDispatch) + Cardinality(InSend)
  /\ pc[Cdc] = "wait" \/ WritesTable => receivers_hazard = "cdc"
  /\ ReadersExcludeCdc

\* The threads are finitely many, and so are those inside a dispatch or a send.
LEMMA FiniteReaders ==
  ASSUME ExclusionInv
  PROVE  /\ IsFiniteSet(InDispatch) /\ Cardinality(InDispatch) \in Nat
         /\ IsFiniteSet(InSend) /\ Cardinality(InSend) \in Nat
<1>1. IsFiniteSet(Readers) /\ IsFiniteSet(Senders)
  BY ThreadsAssumption, FS_Union DEF Readers
<1>2. InDispatch \in SUBSET Readers /\ InSend \in SUBSET Senders
  BY DEF InDispatch, InSend
<1>3. IsFiniteSet(InDispatch) /\ IsFiniteSet(InSend)
  BY <1>1, <1>2, FS_Subset
<1>4. QED BY <1>3, FS_CardinalityType

\* What adding or removing one member does to the size of a set.
LEMMA CardinalityWith ==
  ASSUME NEW S, IsFiniteSet(S), NEW x
  PROVE  /\ Cardinality(S \cup {x}) = Cardinality(S) + 1 - (IF x \in S THEN 1 ELSE 0)
         /\ Cardinality(S \ {x}) = Cardinality(S) - (IF x \in S THEN 1 ELSE 0)
<1>1. Cardinality(S \cup {x}) = IF x \in S THEN Cardinality(S) ELSE Cardinality(S) + 1
  BY FS_AddElement
<1>2. Cardinality(S \ {x}) = IF x \in S THEN Cardinality(S) - 1 ELSE Cardinality(S)
  BY FS_RemoveElement
<1>3. Cardinality(S) \in Nat
  BY FS_CardinalityType
<1>4. QED BY <1>1, <1>2, <1>3

\* A reader moves to place l.
LEMMA CountMoves ==
  ASSUME ExclusionInv, NEW t \in Readers, NEW l \in Labels, Goto(t, l)
  PROVE  Cardinality(InDispatch') + Cardinality(InSend') =
           read_hazard_count + Weight(t, l) - Weight(t, pc[t])
<1>1. t \in Threads /\ pc' = [pc EXCEPT ![t] = l] /\ pc \in [Threads -> Labels]
  BY DEF Goto, ExclusionInv, Threads
<1>2. InDispatch' = IF l \in DispatchInside THEN InDispatch \cup {t} ELSE InDispatch \ {t}
  BY <1>1 DEF InDispatch, Threads
<1>3. InSend' = IF t \in Senders /\ l \notin SendOutside THEN InSend \cup {t} ELSE InSend \ {t}
  BY <1>1 DEF InSend, Threads, Readers
<1>4. t \in InDispatch <=> pc[t] \in DispatchInside
  BY DEF InDispatch
<1>5. t \in InSend <=> t \in Senders /\ pc[t] \notin SendOutside
  BY DEF InSend
<1>6. Cardinality(InDispatch') = Cardinality(InDispatch)
        + (IF l \in DispatchInside THEN 1 ELSE 0) - (IF pc[t] \in DispatchInside THEN 1 ELSE 0)
  <2>1. /\ Cardinality(InDispatch \cup {t}) =
             Cardinality(InDispatch) + 1 - (IF t \in InDispatch THEN 1 ELSE 0)
        /\ Cardinality(InDispatch \ {t}) =
             Cardinality(InDispatch) - (IF t \in InDispatch THEN 1 ELSE 0)
    BY FiniteReaders, CardinalityWith
  <2>2. CASE l \in DispatchInside
    BY <1>2, <1>4, <2>1, <2>2, FiniteReaders
  <2>3. CASE l \notin DispatchInside
    BY <1>2, <1>4, <2>1, <2>3, FiniteReaders
  <2>4. QED BY <2>2, <2>3
<1>7. Cardinality(InSend') = Cardinality(InSend)
        + (IF t \in Senders /\ l \notin SendOutside THEN 1 ELSE 0)
        - (IF t \in Senders /\ pc[t] \notin SendOutside THEN 1 ELSE 0)
  <2>1. /\ Cardinality(InSend \cup {t}) = Cardinality(InSend) + 1 - (IF t \in InSend THEN 1 ELSE 0)
        /\ Cardinality(InSend \ {t}) = Cardinality(InSend) - (IF t \in InSend THEN 1 ELSE 0)
    BY FiniteReaders, CardinalityWith
  <2>2. CASE t \in Senders /\ l \notin SendOutside
    <3>1. InSend' = InSend \cup {t}
      BY <1>3, <2>2
    <3>2. QED BY <1>5, <2>1, <2>2, <3>1, FiniteReaders
  <2>3. CASE t \in Senders /\ l \in SendOutside
    <3>1. InSend' = InSend \ {t}
      BY <1>3, <2>3
    <3>2. QED BY <1>5, <2>1, <2>3, <3>1, FiniteReaders
  <2>4. CASE t \notin Senders
    <3>1. InSend' = InSend \ {t} /\ t \notin InSend
      BY <1>3, <1>5, <2>4
    <3>2. QED BY <2>1, <2>4, <3>1, FiniteReaders
  <2>5. QED BY <2>2, <2>3, <2>4
<1>8. QED BY <1>6, <1>7, FiniteReaders DEF Weight, ExclusionInv

\* A reader's step keeps the count and does not enter the table while it is closed.
LEMMA ReaderMoves ==
  ASSUME ExclusionInv, NEW t \in Readers, NEW l \in Labels, Goto(t, l),
         UNCHANGED receivers_hazard,
         read_hazard_count' = read_hazard_count + Weight(t, l) - Weight(t, pc[t]),
         t \in Dispatchers => l \in DispatcherPlaces,
         ReadsAt(t, l) => ReadsAt(t, pc[t]) \/ receivers_hazard = "none"
  PROVE  ExclusionInv'
<1>1. t \in Threads /\ t # Cdc /\ Cdc \in Threads
  BY ThreadsAssumption DEF Threads, Readers
<1>2. pc' = [pc EXCEPT ![t] = l] /\ pc \in [Threads -> Labels] /\ pc'[Cdc] = pc[Cdc]
  BY <1>1 DEF Goto, ExclusionInv
<1>3. pc' \in [Threads -> Labels] /\ \A u \in Dispatchers : pc'[u] \in DispatcherPlaces
  BY <1>1, <1>2 DEF ExclusionInv, Threads, Readers
<1>4. read_hazard_count' = Cardinality(InDispatch') + Cardinality(InSend')
  BY CountMoves
<1>5. (pc[Cdc] = "wait" \/ WritesTable => receivers_hazard = "cdc")'
  BY <1>2 DEF ExclusionInv, WritesTable
<1>6. ASSUME WritesTable' PROVE \A u \in Readers : ~ReadsTable(u)'
  <2>1. WritesTable /\ receivers_hazard = "cdc"
    BY <1>2, <1>6 DEF WritesTable, ExclusionInv
  <2>2. \A u \in Readers : ~ReadsTable(u)
    BY <2>1 DEF ExclusionInv, ReadersExcludeCdc
  <2>3. ~ReadsAt(t, l)
    BY <2>1, <2>2 DEF ReadsAt, ReadsTable
  <2>4. QED BY <1>1, <1>2, <2>2, <2>3 DEF ReadsAt, ReadsTable, Threads
<1>7. QED BY <1>3, <1>4, <1>5, <1>6 DEF ExclusionInv, ReadersExcludeCdc

\* What a step leaves alone that only changes the contents of queues, free lists and messages.
LEMMA NobodyMoves ==
  ASSUME ExclusionInv, UNCHANGED <<pc, receivers_hazard, read_hazard_count>>
  PROVE  ExclusionInv'
BY DEF ExclusionInv, InDispatch, InSend, WritesTable, ReadersExcludeCdc, ReadsTable

\* A dispatcher, or a sender that dispatches, keeps the exclusion.
LEMMA DispatchExcludes ==
  ASSUME ExclusionInv, NEW t \in Readers, DispatchBegin(t) \/ DispatchStep(t)
  PROVE  ExclusionInv'
<1> DEFINE Count(n) == read_hazard_count' = read_hazard_count + n /\ UNCHANGED receivers_hazard
           Same == UNCHANGED <<read_hazard_count, receivers_hazard>>
<1> USE DEF Weight, ReadsAt, DispatcherPlaces, Labels, DispatchInside, DispatchOutside,
            SendInside, SendOutside
<1>0. /\ t \in Dispatchers <=> t \notin Senders
      /\ read_hazard_count \in Int
  BY ThreadsAssumption, FiniteReaders DEF Readers, ExclusionInv
<1>1. CASE DispatchBegin(t)
  <2>1. /\ IF t \in Dispatchers THEN pc[t] = "idle" ELSE pc[t] = "send_dispatch"
        /\ Goto(t, "test") /\ Count(1)
    BY <1>1, Zenon DEF DispatchBegin, EnterReadHazard, table
  <2>2. QED BY <1>0, <2>1, ReaderMoves
<1>2. CASE DispatchReenter(t)
  <2>1. pc[t] = "reenter" /\ Goto(t, "test") /\ Count(1)
    BY <1>2, Zenon DEF DispatchReenter, Step, EnterReadHazard, table
  <2>2. QED BY <1>0, <2>1, ReaderMoves
<1>3. CASE DispatchTest(t)
  <2>1. /\ pc[t] = "test" /\ Same
        /\ \/ Goto(t, "next") /\ receivers_hazard = "none"
           \/ Goto(t, "undo")
    BY <1>3, Zenon DEF DispatchTest, ReadAllowed, bus, table
  <2>2. QED BY <1>0, <2>1, ReaderMoves
<1>4. CASE DispatchUndo(t) \/ DispatchEnd(t)
  <2>1. /\ pc[t] \in {"undo", "next"}
        /\ Goto(t, IF t \in Dispatchers THEN "idle" ELSE "send_chain")
        /\ read_hazard_count' = read_hazard_count - 1 /\ UNCHANGED receivers_hazard
    BY <1>4, Zenon DEF DispatchUndo, DispatchEnd, DispatchReturn, ExitReadHazard, table
  <2>2. QED BY <1>0, <2>1, ReaderMoves
<1>5. CASE DispatchPick(t)
  <2>1. pc[t] = "next" /\ Goto(t, "try") /\ Same
    BY <1>5, Zenon DEF DispatchPick, Step
  <2>2. QED BY <1>0, <2>1, ReaderMoves
<1>6. CASE DispatchTry(t)
  <2>1. pc[t] = "try" /\ (Goto(t, "leave") \/ Goto(t, "next")) /\ Same
    BY <1>6, Zenon DEF DispatchTry, bus, table
  <2>2. QED BY <1>0, <2>1, ReaderMoves
<1>7. CASE DispatchLeave(t)
  <2>1. /\ pc[t] = "leave" /\ Goto(t, "lock")
        /\ read_hazard_count' = read_hazard_count - 1 /\ UNCHANGED receivers_hazard
    BY <1>7, Zenon DEF DispatchLeave, Step, ExitReadHazard, table
  <2>2. QED BY <1>0, <2>1, ReaderMoves
<1>8. CASE \/ DispatchLock(t) \/ DispatchDetach(t) \/ DispatchNothing(t) \/ DispatchDeliver(t)
           \/ DispatchDone(t)
  <2>1. /\ pc[t] \in {"lock", "detach", "deliver", "delivered"} /\ Same
        /\ \/ \E l \in {"detach", "deliver", "reenter", "release"} : Goto(t, l)
           \/ pc[t] = "delivered" /\ Goto(t, IF t \in Dispatchers THEN "idle" ELSE "send_chain")
    BY <1>8, Zenon
    DEF DispatchLock, DispatchDetach, DispatchNothing, DispatchDeliver, DispatchDone,
        DispatchReturn, Step, bus, table
  <2>2. QED BY <1>0, <2>1, ReaderMoves
<1>9. QED
  BY <1>1, <1>2, <1>3, <1>4, <1>5, <1>6, <1>7, <1>8 DEF DispatchStep

\* Releasing messages does not touch the table's hazard.
LEMMA ReleaseExcludes ==
  ASSUME ExclusionInv, NEW t \in Readers, ReleaseStep(t)
  PROVE  ExclusionInv'
<1> DEFINE Same == UNCHANGED <<read_hazard_count, receivers_hazard>>
<1>0. /\ t # Cdc /\ (t \in Dispatchers <=> t \notin Senders)
      /\ read_hazard_count \in Int
  BY ThreadsAssumption, FiniteReaders DEF Readers, ExclusionInv
<1>1. /\ pc[t] \in {"release", "release_chain"} /\ Same
      /\ \E l \in {"release_chain", "deliver", "delivered"} : Goto(t, l)
  BY <1>0, ReleaseStep(t), Zenon DEF ReleaseStep, ReleaseReference, ReleaseChain, Step, bus, table
<1>2. QED
  BY <1>0, <1>1, ReaderMoves
  DEF Weight, ReadsAt, DispatcherPlaces, Labels, DispatchInside, DispatchOutside, SendInside,
      SendOutside

\* A sender keeps the exclusion at each step of a send.
LEMMA SendExcludes ==
  ASSUME ExclusionInv, NEW t \in Senders, MsgBegin(t) \/ SendStep(t)
  PROVE  ExclusionInv'
<1> DEFINE Same == UNCHANGED <<read_hazard_count, receivers_hazard>>
           Handles(l) == l \in {"send_chain", "send_dispatch", "send_try", "send_enqueue",
                                "send_clear", "send_exit"}
<1> USE DEF Weight, ReadsAt, Labels, DispatchInside, DispatchOutside, SendInside, SendOutside
<1>0. /\ t \in Readers /\ t \notin Dispatchers
      /\ read_hazard_count \in Int
  BY ThreadsAssumption, FiniteReaders DEF Readers, ExclusionInv
<1>1. CASE MsgBegin(t)
  <2>1. pc[t] = "idle" /\ Goto(t, "send_enter") /\ Same
    BY <1>1, Zenon DEF MsgBegin, Step, bus, table
  <2>2. QED BY <1>0, <2>1, ReaderMoves
<1>2. CASE SendEnter(t)
  <2>1. /\ pc[t] = "send_enter" /\ Goto(t, "send_test")
        /\ read_hazard_count' = read_hazard_count + 1 /\ UNCHANGED receivers_hazard
    BY <1>2, Zenon DEF SendEnter, Step, EnterReadHazard, table
  <2>2. QED BY <1>0, <2>1, ReaderMoves
<1>3. CASE SendTest(t)
  <2>1. /\ pc[t] = "send_test" /\ Same
        /\ Goto(t, IF receivers_hazard = "none" THEN "send_collect" ELSE "send_undo")
    BY <1>3, Zenon DEF SendTest, ReadAllowed, bus, table
  <2>2. QED BY <1>0, <2>1, ReaderMoves
<1>4. CASE SendUndo(t) \/ SendToNobody(t)
  <2>1. /\ pc[t] \in {"send_undo", "send_collect"} /\ (Goto(t, "send_enter") \/ Goto(t, "idle"))
        /\ read_hazard_count' = read_hazard_count - 1 /\ UNCHANGED receivers_hazard
    BY <1>4, Zenon DEF SendUndo, SendToNobody, Step, ExitReadHazard, table
  <2>2. QED BY <1>0, <2>1, ReaderMoves
<1>5. CASE SendCollect(t)
  <2>1. pc[t] = "send_collect" /\ Goto(t, "send_chain") /\ Same
    BY <1>5, Zenon DEF SendCollect, Step, bus, table
  <2>2. QED BY <1>0, <2>1, ReaderMoves
<1>6. CASE \/ SendGetChain(t) \/ SendNoChain(t) \/ SendTry(t) \/ SendEnqueue(t) \/ SendClear(t)
  <2>1. /\ Handles(pc[t]) /\ Same
        /\ UNCHANGED pc \/ \E l \in {"send_dispatch", "send_try", "send_enqueue", "send_clear",
                                      "send_chain", "send_exit"} : Goto(t, l)
    BY <1>6, Zenon
    DEF SendGetChain, SendNoChain, SendTry, SendEnqueue, SendClear, Dropped, Step, bus, table
  <2>2. CASE UNCHANGED pc
    BY <2>1, <2>2, NobodyMoves
  <2>3. QED BY <1>0, <2>1, <2>2, ReaderMoves
<1>7. CASE SendExit(t)
  <2>1. /\ pc[t] = "send_exit" /\ (Goto(t, "send_release") \/ Goto(t, "send_drop"))
        /\ read_hazard_count' = read_hazard_count - 1 /\ UNCHANGED receivers_hazard
    BY <1>7, Zenon DEF SendExit, ExitReadHazard, table
  <2>2. QED BY <1>0, <2>1, ReaderMoves
<1>8. CASE SendRelease(t) \/ SendDrop(t)
  <2>1. /\ pc[t] \in {"send_release", "send_drop"} /\ Same
        /\ Goto(t, "send_drop") \/ Goto(t, "idle")
    BY <1>8, Zenon DEF SendRelease, SendDrop, Step, bus, table
  <2>2. QED BY <1>0, <2>1, ReaderMoves
<1>9. QED
  BY <1>1, <1>2, <1>3, <1>4, <1>5, <1>6, <1>7, <1>8 DEF SendStep

\* A step of the disconnecting thread changes the place of no reader.
LEMMA CdcMoves ==
  ASSUME ExclusionInv, NEW l \in Labels, Goto(Cdc, l), UNCHANGED read_hazard_count,
         l = "wait" \/ l \in {"modify", "exit_connect", "exit_disconnect"}
           => receivers_hazard' = "cdc",
         l \in {"modify", "exit_connect", "exit_disconnect"} => \A t \in Readers : ~ReadsTable(t)
  PROVE  ExclusionInv'
<1>1. Cdc \in Threads /\ \A t \in Readers : t # Cdc /\ t \in Threads
  BY ThreadsAssumption DEF Threads, Readers
<1>2. /\ pc' \in [Threads -> Labels] /\ pc'[Cdc] = l
      /\ \A t \in Readers : pc'[t] = pc[t]
  BY <1>1 DEF Goto, ExclusionInv
<1>3. InDispatch' = InDispatch /\ InSend' = InSend
  BY <1>2 DEF InDispatch, InSend, Readers
<1>4. \A t \in Dispatchers : pc'[t] \in DispatcherPlaces
  BY <1>2 DEF ExclusionInv, Readers
<1>5. read_hazard_count' = Cardinality(InDispatch') + Cardinality(InSend')
  BY <1>3 DEF ExclusionInv
<1>6. (pc[Cdc] = "wait" \/ WritesTable => receivers_hazard = "cdc")'
  BY <1>2 DEF WritesTable
<1>7. ReadersExcludeCdc'
  BY <1>2 DEF ReadersExcludeCdc, WritesTable, ReadsTable
<1>8. QED BY <1>2, <1>4, <1>5, <1>6, <1>7 DEF ExclusionInv

\* A count of zero says that no reader is inside.
LEMMA NobodyInside ==
  ASSUME ExclusionInv, read_hazard_count = 0, NEW t \in Readers
  PROVE  ~ReadsTable(t)
<1>1. Cardinality(InDispatch) = 0 /\ Cardinality(InSend) = 0
  BY FiniteReaders DEF ExclusionInv
<1>2. InDispatch = {} /\ InSend = {}
  BY <1>1, FiniteReaders, FS_EmptySet
<1>3. pc[t] \notin DispatchInside /\ (t \in Senders => pc[t] \in SendOutside)
  BY <1>2 DEF InDispatch, InSend
<1>4. t \notin Senders => pc[t] \in DispatcherPlaces
  BY DEF Readers, ExclusionInv
<1>5. QED
  BY <1>3, <1>4
  DEF ReadsTable, DispatcherPlaces, DispatchInside, DispatchOutside, SendInside, SendOutside

\* The thread that connects and disconnects keeps the exclusion: it goes on
\* only when it has seen the count at zero.
LEMMA CdcExcludes ==
  ASSUME ExclusionInv, CdcNext \/ ReleaseStep(Cdc)
  PROVE  ExclusionInv'
<1> DEFINE Same == UNCHANGED <<read_hazard_count, receivers_hazard>>
           Quiet(l) == l \in {"idle", "store", "release", "release_chain", "quiesce"}
<1> USE DEF Labels, CdcPlaces
<1>1. CASE \/ \E r \in Receivers : Connect(r) \/ Disconnect(r)
           \/ CdcExitConnect \/ CdcExitDisconnect \/ CdcQuiesce \/ ReleaseStep(Cdc)
  <2>1. UNCHANGED read_hazard_count /\ \E l : Quiet(l) /\ Goto(Cdc, l)
    BY <1>1, Zenon
    DEF Connect, Disconnect, CdcExitConnect, CdcExitDisconnect, CdcQuiesce, ReleaseStep,
        ReleaseReference, ReleaseChain, Step, bus
  <2>2. QED BY <2>1, CdcMoves
<1>2. CASE CdcStore
  <2>1. UNCHANGED read_hazard_count /\ Goto(Cdc, "wait") /\ receivers_hazard' = "cdc"
    BY <1>2, Zenon DEF CdcStore, Step
  <2>2. QED BY <2>1, CdcMoves
<1>3. CASE CdcWait
  <2>1. Same /\ pc[Cdc] = "wait" /\ Goto(Cdc, "modify") /\ read_hazard_count = 0
    BY <1>3, Zenon DEF CdcWait, Step, bus, table
  <2>2. QED BY <2>1, CdcMoves, NobodyInside DEF ExclusionInv
<1>4. CASE CdcModify
  <2>1. /\ Same /\ pc[Cdc] = "modify"
        /\ Goto(Cdc, "exit_connect") \/ Goto(Cdc, "exit_disconnect")
    BY <1>4, Zenon DEF CdcModify
  <2>2. QED BY <2>1, CdcMoves DEF ExclusionInv, ReadersExcludeCdc, WritesTable
<1>5. QED BY <1>1, <1>2, <1>3, <1>4 DEF CdcNext, CdcStep

\* At the start nobody is inside.
LEMMA ExclusionInit == Init => ExclusionInv
<1> SUFFICES ASSUME Init PROVE ExclusionInv
  OBVIOUS
<1>1. /\ pc \in [Threads -> Labels] /\ \A t \in Threads : pc[t] = "idle"
      /\ read_hazard_count = 0
  BY DEF Init, Labels, CdcPlaces
<1>2. InDispatch = {} /\ InSend = {}
  BY <1>1 DEF InDispatch, InSend, DispatchInside, SendOutside, Readers, Threads
<1>3. read_hazard_count = Cardinality(InDispatch) + Cardinality(InSend)
  BY <1>1, <1>2, FS_EmptySet
<1>4. pc[Cdc] = "idle"
  BY <1>1 DEF Threads
<1>5. \A t \in Dispatchers : pc[t] \in DispatcherPlaces
  BY <1>1 DEF DispatcherPlaces, Readers, Threads
<1>6. QED BY <1>1, <1>3, <1>4, <1>5 DEF ExclusionInv, ReadersExcludeCdc, WritesTable

(***************************************************************************)
(* No thread is between a successful test of the read hazard and its exit  *)
(* while cncbus_connect or cncbus_disconnect writes the table of           *)
(* receivers.                                                              *)
(***************************************************************************)
THEOREM ExclusionCorrect == Spec => []ReadersExcludeCdc
<1>1. ExclusionInv /\ [Next]_vars => ExclusionInv'
  <2> SUFFICES ASSUME ExclusionInv, [Next]_vars PROVE ExclusionInv'
    OBVIOUS
  <2>1. CASE UNCHANGED vars
    <3>1. UNCHANGED <<pc, receivers_hazard, read_hazard_count>>
      BY <2>1, Zenon DEF vars, bus, table
    <3>2. QED BY <3>1, NobodyMoves
  <2>2. CASE ReaderNext
    BY <2>2, DispatchExcludes, ReleaseExcludes, SendExcludes, CdcExcludes DEF ReaderNext, Threads
  <2>3. CASE CdcNext
    BY <2>3, CdcExcludes
  <2>4. QED BY <2>1, <2>2, <2>3 DEF Next
<1>2. ExclusionInv => ReadersExcludeCdc
  BY DEF ExclusionInv
<1>3. QED BY <1>1, <1>2, ExclusionInit, PTL DEF Spec

-----------------------------------------------------------------------------
(* Who uses a receiver.  A dispatcher has one from the table while it is   *)
(* inside the read hazard, and keeps it by the dispatch bit it latched; a  *)
(* sender's pending receivers are in the table until the sender leaves.    *)

Delivers == {"deliver", "release", "release_chain"}
Pends == {"send_chain", "send_dispatch", "send_try", "send_enqueue", "send_clear"}
            \cup DispatchInside \cup DispatchOutside
Unsent == {"send_enter", "send_test", "send_undo", "send_collect"}
HasChain == {"send_try", "send_enqueue", "send_clear", "send_release"}

ReaderInv(t) ==
  /\ pc[t] \in Delivers <=> disp[t].msgs # <<>>
  /\ pc[t] \in {"next", "try"} => disp[t].num = Len(receivers)
  /\ pc[t] = "try" => disp[t].rcv \in Range(receivers)
  /\ Latched(t) => /\ disp[t].rcv \in Registered /\ disp[t].rcv \in Receivers
                   /\ "dispatch" \in hazard[disp[t].rcv]

SenderInv(t) ==
  /\ Range(send[t].pending) \subseteq Range(receivers) /\ IsInjective(send[t].pending)
  /\ pc[t] \in Pends <=> send[t].pending # <<>>
  /\ send[t].pending # <<>> => send[t].i \in 1 .. Len(send[t].pending)
  /\ pc[t] \in Unsent \cup {"idle"} => send[t].i = 1
  /\ pc[t] \in HasChain \cup {"send_exit"} \/ send[t].chain = NoChain
  /\ pc[t] \in HasChain => send[t].chain # NoChain
  /\ pc[t] = "idle" <=> send[t].msg = NoFrag

CdcInv ==
  /\ pc[Cdc] \in CdcPlaces
  /\ pc[Cdc] \in {"release", "release_chain"} <=> disp[Cdc].msgs # <<>>
  /\ pc[Cdc] \in {"idle", "release", "release_chain"} <=> disp[Cdc].rcv = 0
  /\ pc[Cdc] = "exit_connect" => disp[Cdc].rcv \in Range(receivers)
  /\ pc[Cdc] \in {"exit_disconnect", "quiesce"} => disp[Cdc].rcv \notin Range(receivers)

BusTypes ==
  /\ receivers \in Seq(Receivers) /\ IsInjective(receivers)
  /\ next_dispatch_slot \in 0 .. SlotModulus - 1
  /\ hazard \in [Receivers -> SUBSET Bits] /\ queue \in [Receivers -> Seq(Chains)]
  /\ free_chains \subseteq Chains
  /\ disp \in [Threads -> DispatchLocals] /\ send \in [Senders -> SendLocals]

HazardInv ==
  /\ BusTypes /\ CdcInv
  /\ \A t \in Readers : ReaderInv(t)
  /\ \A t \in Senders : SenderInv(t)
  /\ \A t, u \in Readers : Latched(t) /\ Latched(u) /\ disp[t].rcv = disp[u].rcv => t = u

-----------------------------------------------------------------------------
(* Where the chains are.                                                   *)

Homes == ({"queue"} \X Receivers) \cup ({"hands"} \X Threads) \cup ({"sender"} \X Senders)
           \cup {<<"free", 0>>}
Held(h) ==
  CASE h[1] = "queue" -> Range(queue[h[2]])
    [] h[1] = "hands" -> Range(disp[h[2]].msgs)
    [] h[1] = "sender" -> {send[h[2]].chain} \ {NoChain}
    [] h[1] = "free" -> free_chains

ChainInv ==
  /\ \A r \in Receivers : IsInjective(queue[r]) /\ (r \notin Registered => queue[r] = <<>>)
  /\ \A t \in Threads : IsInjective(disp[t].msgs)
  /\ \A c \in Chains : \E h \in Homes : c \in Held(h)
  /\ \A h, g \in Homes : h # g => Held(h) \cap Held(g) = {}

-----------------------------------------------------------------------------
(* What the fragments hold.  A message has a number and as many references *)
(* as users from the moment it has a receiver until the last is dropped.   *)

Users(f) == Cardinality(CountedChains(f)) + Cardinality(CountedSenders(f))

MessageOK(f) ==
  /\ f \in free_frags => Users(f) = 0
  /\ msg_data[f].ref_count = Users(f)
  /\ Users(f) = 0 <=> msg_data[f].id = 0
  /\ msg_data[f].id < next_id /\ msg_data[f].id \notin signaled

FragTypes ==
  /\ free_frags \subseteq Frags /\ chain_msg \in [Chains -> Frags \cup {NoFrag}]
  /\ msg_data \in [Frags -> [id : Nat, ref_count : Int]]
  /\ next_id \in Nat \ {0} /\ signaled \subseteq 1 .. next_id - 1
  /\ \A c \in Chains : chain_msg[c] = NoFrag <=> c \in free_chains

SenderFrag(t) ==
  /\ send[t].msg \notin free_frags
  /\ send[t].chain # NoChain => chain_msg[send[t].chain] = send[t].msg
  /\ pc[t] \in Unsent => msg_data[send[t].msg].id = 0

\* A fragment that is not free holds a message with users, or one that a sender is building.
Kept(f) ==
  f \in free_frags \/ msg_data[f].id # 0 \/ \E t \in Senders : pc[t] \in Unsent /\ send[t].msg = f

FragInv ==
  /\ FragTypes
  /\ \A t \in Senders : SenderFrag(t)
  /\ \A t, u \in Senders : send[t].msg = send[u].msg => t = u \/ send[t].msg = NoFrag
  /\ \A f \in Frags : MessageOK(f) /\ Kept(f)
  /\ \A f, g \in Frags : msg_data[f].id = msg_data[g].id => f = g \/ msg_data[f].id = 0

\* A step of a reader that leaves the table and the other threads alone.
OnlyMoves(t) ==
  /\ receivers' = receivers /\ t # Cdc
  /\ \A u \in Threads : u # t => pc'[u] = pc[u] /\ disp'[u] = disp[u]
  /\ \A u \in Senders : u # t => send'[u] = send[u]

\* The bits that the other threads latched stay, and a latch takes a bit that was clear.
LatchKept(t) ==
  /\ \A r \in Receivers : "dispatch" \in hazard[r] =>
       "dispatch" \in hazard'[r] \/ (Latched(t) /\ r = disp[t].rcv)
  /\ Latched(t)' =>
       \/ Latched(t) /\ disp'[t].rcv = disp[t].rcv
       \/ "dispatch" \notin hazard[disp'[t].rcv]

\* A step that changes the places of one reader only, and no bit but its own
\* dispatch bit, keeps what the hazard words say.
LEMMA OneReaderMoves ==
  ASSUME HazardInv, NEW t \in Readers, OnlyMoves(t), LatchKept(t), BusTypes', ReaderInv(t)',
         t \in Senders => SenderInv(t)'
  PROVE  HazardInv'
<1>1. Cdc \in Threads /\ Readers \subseteq Threads /\ Senders \subseteq Threads /\ t \in Threads
  BY DEF Threads, Readers
<1>2. /\ pc'[Cdc] = pc[Cdc] /\ disp'[Cdc] = disp[Cdc] /\ receivers' = receivers
      /\ Registered' = Registered
  BY <1>1 DEF OnlyMoves, Registered
<1>3. CdcInv'
  BY <1>2 DEF HazardInv, CdcInv
<1>4. ASSUME NEW u \in Readers, u # t PROVE ReaderInv(u)'
  <2>1. pc'[u] = pc[u] /\ disp'[u] = disp[u] /\ ReaderInv(u) /\ Latched(u)' = Latched(u)
    BY <1>1, <1>4 DEF OnlyMoves, HazardInv, Latched
  <2>2. Latched(u) => "dispatch" \in hazard'[disp[u].rcv]
    BY <1>4, <2>1 DEF LatchKept, HazardInv, ReaderInv
  <2>3. QED
    BY <1>2, <2>1, <2>2 DEF ReaderInv
<1>5. ASSUME NEW u \in Senders, u # t PROVE SenderInv(u)'
  <2>1. pc'[u] = pc[u] /\ send'[u] = send[u] /\ SenderInv(u)
    BY <1>1, <1>5 DEF OnlyMoves, HazardInv
  <2>2. QED
    BY <1>2, <2>1 DEF SenderInv
<1>6. ASSUME NEW u \in Readers, u # t, Latched(t)', Latched(u)' PROVE disp'[t].rcv # disp'[u].rcv
  <2>1. Latched(u) /\ disp'[u].rcv = disp[u].rcv /\ "dispatch" \in hazard[disp[u].rcv]
    BY <1>1, <1>6 DEF OnlyMoves, HazardInv, ReaderInv, Latched
  <2>2. QED
    BY <1>6, <2>1 DEF LatchKept, HazardInv
<1>7. ASSUME NEW u \in Readers, NEW v \in Readers, u # v, Latched(u)', Latched(v)'
      PROVE  disp'[u].rcv # disp'[v].rcv
  <2>1. CASE u = t \/ v = t
    BY <1>6, <1>7, <2>1
  <2>2. CASE u # t /\ v # t
    <3>1. /\ Latched(u) /\ disp'[u].rcv = disp[u].rcv
          /\ Latched(v) /\ disp'[v].rcv = disp[v].rcv
      BY <1>1, <1>7, <2>2 DEF OnlyMoves, Latched
    <3>2. QED
      BY <1>7, <3>1 DEF HazardInv
  <2>3. QED
    BY <2>1, <2>2
<1>8. QED
  BY <1>3, <1>4, <1>5, <1>7 DEF HazardInv

\* A sender's own call of cncbus_dispatch changes nothing of its message.
LEMMA SenderDispatches ==
  ASSUME NEW t \in Senders, SenderInv(t), pc[t] \in Pends \ HasChain, pc'[t] \in Pends \ HasChain,
         UNCHANGED <<receivers, send>>
  PROVE  SenderInv(t)'
BY DEF SenderInv, Unsent, Pends, HasChain, DispatchInside, DispatchOutside

\* The threads, and the places of the senders that dispatch.
LEMMA ThreadFacts ==
  /\ Readers \subseteq Threads /\ Senders \subseteq Readers /\ Dispatchers \subseteq Readers
  /\ Cdc \in Threads /\ Cdc \notin Readers
  /\ \A t \in Readers : t \in Dispatchers <=> t \notin Senders
BY ThreadsAssumption DEF Threads, Readers

\* Steps of cncbus_dispatch that change the table's hazard and the thread's own variables at most.
LEMMA DispatchInReadHazard ==
  ASSUME HazardInv, ExclusionInv, NEW t \in Readers,
         \/ DispatchBegin(t) \/ DispatchReenter(t) \/ DispatchTest(t) \/ DispatchUndo(t)
         \/ DispatchPick(t) \/ DispatchEnd(t) \/ DispatchLeave(t) \/ DispatchDeliver(t)
  PROVE  HazardInv'
<1> DEFINE Moves(l) == pc' = [pc EXCEPT ![t] = l]
           Same == UNCHANGED <<receivers, receivers_hazard, hazard, queue, free_chains, send>>
<1> USE DEF Labels
<1>0. /\ t \in Threads /\ t # Cdc /\ (t \in Dispatchers <=> t \notin Senders)
      /\ pc \in [Threads -> Labels]
  BY ThreadFacts DEF ExclusionInv
<1>1. ASSUME NEW l \in Labels, Moves(l), Same, disp' \in [Threads -> DispatchLocals],
             \A u \in Threads : u # t => disp'[u] = disp[u],
             next_dispatch_slot' \in 0 .. SlotModulus - 1,
             ReaderInv(t)', Latched(t)' => Latched(t) /\ disp'[t].rcv = disp[t].rcv,
             t \in Senders => pc[t] \in Pends \ HasChain /\ l \in Pends \ HasChain
      PROVE  HazardInv'
  <2>1. OnlyMoves(t) /\ LatchKept(t)
    BY <1>0, <1>1 DEF OnlyMoves, LatchKept
  <2>2. BusTypes'
    BY <1>1 DEF HazardInv, BusTypes
  <2>3. t \in Senders => SenderInv(t)'
    BY <1>0, <1>1, SenderDispatches DEF HazardInv
  <2>4. QED
    BY <1>1, <2>1, <2>2, <2>3, OneReaderMoves
<1>2. /\ disp \in [Threads -> DispatchLocals] /\ ReaderInv(t) /\ next_dispatch_slot \in 0 .. SlotModulus - 1
      /\ receivers \in Seq(Receivers)
  BY DEF HazardInv, BusTypes
<1>3. IdleDispatch \in DispatchLocals /\ IdleDispatch.msgs = <<>>
  BY DEF IdleDispatch, DispatchLocals
<1> DEFINE InPends(l) == t \in Senders => l \in Pends \ HasChain
<1>4. ASSUME pc[t] \in {"undo", "next"}, DispatchReturn(t), Same, next_dispatch_slot' = next_dispatch_slot
      PROVE  HazardInv'
  <2>1. CASE t \in Dispatchers
    <3>1. Moves("idle") /\ disp' = [disp EXCEPT ![t] = IdleDispatch]
      BY <1>4, <2>1 DEF DispatchReturn, Goto
    <3>2. ReaderInv(t)' /\ ~Latched(t)'
      BY <1>0, <1>2, <1>3, <3>1 DEF ReaderInv, Latched, Delivers
    <3>3. QED
      BY <1>0, <1>1, <1>2, <1>3, <1>4, <2>1, <3>1, <3>2 DEF SendOutside
  <2>2. CASE t \notin Dispatchers
    <3>1. Moves("send_chain") /\ disp' = [disp EXCEPT ![t] = IdleDispatch]
      BY <1>4, <2>2 DEF DispatchReturn, Goto
    <3>2. ReaderInv(t)' /\ ~Latched(t)'
      BY <1>0, <1>2, <1>3, <3>1 DEF ReaderInv, Latched, Delivers
    <3>3. QED
      BY <1>0, <1>1, <1>2, <1>3, <1>4, <2>2, <3>1, <3>2
      DEF SendInside, Pends, HasChain, DispatchInside
  <2>3. QED
    BY <2>1, <2>2
<1>5. CASE DispatchBegin(t)
  <2>1. /\ pc[t] \in {"idle", "send_dispatch"} /\ (t \in Senders => pc[t] = "send_dispatch")
        /\ Moves("test") /\ Same /\ next_dispatch_slot' = next_dispatch_slot
        /\ \E mode \in {"single_message", "flush"} : disp' = [disp EXCEPT ![t].mode = mode]
    BY <1>0, <1>5, MessagesAssumption
    DEF DispatchBegin, Goto, table, slots, rcvs, memory
  <2>2. PICK mode \in {"single_message", "flush"} : disp' = [disp EXCEPT ![t].mode = mode]
    BY <2>1
  <2>3. /\ disp' \in [Threads -> DispatchLocals] /\ disp'[t].msgs = disp[t].msgs
        /\ \A u \in Threads : u # t => disp'[u] = disp[u]
    BY <1>0, <1>2, <2>2, ZenonT(40) DEF DispatchLocals
  <2>4. ReaderInv(t)' /\ ~Latched(t)'
    BY <1>0, <1>2, <2>1, <2>3 DEF ReaderInv, Latched, Delivers
  <2>5. QED
    BY <1>0, <1>1, <1>2, <2>1, <2>3, <2>4 DEF Pends, HasChain, DispatchInside
<1>6. CASE DispatchReenter(t)
  <2>1. pc[t] = "reenter" /\ Moves("test") /\ Same /\ UNCHANGED <<disp, next_dispatch_slot>>
    BY <1>6 DEF DispatchReenter, Step, Goto, table, slots, rcvs, memory
  <2>2. ReaderInv(t)' /\ ~Latched(t)'
    BY <1>0, <1>2, <2>1 DEF ReaderInv, Latched, Delivers
  <2>3. QED
    BY <1>0, <1>1, <1>2, <2>1, <2>2 DEF Pends, HasChain, DispatchInside, DispatchOutside
<1>7. CASE DispatchTest(t)
  <2>1. CASE ReadAllowed
    <3>1. /\ pc[t] = "test" /\ Moves("next") /\ Same /\ UNCHANGED next_dispatch_slot
          /\ disp' = [disp EXCEPT ![t].num = Len(receivers),
                                  ![t].all_busy = @ /\ receivers # <<>>]
      BY <1>7, <2>1 DEF DispatchTest, Goto, bus, table, slots, rcvs, memory
    <3>2. /\ disp' \in [Threads -> DispatchLocals] /\ disp'[t].msgs = disp[t].msgs
          /\ disp'[t].num = Len(receivers) /\ \A u \in Threads : u # t => disp'[u] = disp[u]
      <4> DEFINE b == disp[t].all_busy /\ receivers # <<>>
      <4>1. b \in BOOLEAN /\ disp' = [disp EXCEPT ![t].num = Len(receivers), ![t].all_busy = b]
        BY <3>1
      <4>2. Len(receivers) \in Nat
        BY <1>2
      <4> HIDE DEF b
      <4>3. QED
        BY <1>0, <1>2, <4>1, <4>2, ZenonT(30) DEF DispatchLocals
    <3>3. ReaderInv(t)' /\ ~Latched(t)'
      BY <1>0, <1>2, <3>1, <3>2 DEF ReaderInv, Latched, Delivers
    <3>4. QED
      BY <1>0, <1>1, <1>2, <3>1, <3>2, <3>3 DEF Pends, HasChain, DispatchInside
  <2>2. CASE ~ReadAllowed
    <3>1. pc[t] = "test" /\ Moves("undo") /\ Same /\ UNCHANGED <<disp, next_dispatch_slot>>
      BY <1>7, <2>2 DEF DispatchTest, Goto, bus, table, slots, rcvs, memory
    <3>2. ReaderInv(t)' /\ ~Latched(t)'
      BY <1>0, <1>2, <3>1 DEF ReaderInv, Latched, Delivers
    <3>3. QED
      BY <1>0, <1>1, <1>2, <3>1, <3>2 DEF Pends, HasChain, DispatchInside
  <2>3. QED
    BY <2>1, <2>2
<1>8. CASE DispatchUndo(t)
  BY <1>4, <1>8 DEF DispatchUndo, table, slots, rcvs, memory
<1>9. CASE DispatchEnd(t)
  BY <1>4, <1>9 DEF DispatchEnd, table, slots, rcvs, memory
<1>10. CASE DispatchPick(t)
  <2> DEFINE r == receivers[(next_dispatch_slot % disp[t].num) + 1]
  <2>1. /\ pc[t] = "next" /\ Moves("try") /\ Same /\ disp[t].i < disp[t].num
        /\ disp' = [disp EXCEPT ![t].rcv = r]
        /\ next_dispatch_slot' = (next_dispatch_slot + 1) % SlotModulus
    BY <1>10 DEF DispatchPick, Step, Goto, rcvs, memory
  <2>2. disp[t].num = Len(receivers) /\ disp[t].i \in Nat /\ Len(receivers) \in Nat
    BY <1>0, <1>2, <2>1 DEF ReaderInv, DispatchLocals
  <2>3. (next_dispatch_slot % disp[t].num) + 1 \in 1 .. Len(receivers)
    <3>1. \A n \in Nat, m \in Nat \ {0} : (n % m) + 1 \in 1 .. m
      OBVIOUS
    <3>2. disp[t].num \in Nat \ {0} /\ next_dispatch_slot \in Nat
      BY <1>2, <2>1, <2>2, ReceiversAssumption
    <3>3. (next_dispatch_slot % disp[t].num) + 1 \in 1 .. disp[t].num
      BY <3>1, <3>2
    <3>4. QED
      BY <2>2, <3>3
  <2>4. r \in Range(receivers) /\ r \in Receivers
    BY <1>2, <2>3, MembersOf
  <2> HIDE DEF r
  <2>5. /\ disp' \in [Threads -> DispatchLocals] /\ disp'[t].msgs = disp[t].msgs
        /\ disp'[t].rcv = r /\ disp'[t].num = disp[t].num
        /\ \A u \in Threads : u # t => disp'[u] = disp[u]
    BY <1>0, <1>2, <2>1, <2>4, ZenonT(30) DEF DispatchLocals
  <2>6. ReaderInv(t)' /\ ~Latched(t)'
    BY <1>0, <1>2, <2>1, <2>4, <2>5 DEF ReaderInv, Latched, Delivers
  <2>7. next_dispatch_slot' \in 0 .. SlotModulus - 1
    <3>1. \A n \in Nat, m \in Nat \ {0} : (n + 1) % m \in 0 .. m - 1
      OBVIOUS
    <3>2. QED
      BY <1>2, <2>1, <3>1, ReceiversAssumption
  <2>8. QED
    BY <1>0, <1>1, <1>2, <2>1, <2>5, <2>6, <2>7 DEF Pends, HasChain, DispatchInside
<1>11. CASE DispatchLeave(t) \/ DispatchDeliver(t)
  <2>1. /\ Same /\ UNCHANGED <<disp, next_dispatch_slot>>
        /\ \/ pc[t] = "leave" /\ Moves("lock")
           \/ pc[t] = "deliver" /\ Moves("release")
    BY <1>11 DEF DispatchLeave, DispatchDeliver, Step, Goto, bus, table, slots, rcvs, memory
  <2>2. ReaderInv(t)' /\ Latched(t) /\ disp'[t].rcv = disp[t].rcv
    BY <1>0, <1>2, <2>1, ThreadFacts DEF ReaderInv, Latched, Delivers, Registered
  <2>3. QED
    BY <1>0, <1>1, <1>2, <2>1, <2>2 DEF Pends, HasChain, DispatchInside, DispatchOutside
<1>12. QED
  BY <1>5, <1>6, <1>7, <1>8, <1>9, <1>10, <1>11

\* The locals of a dispatch that goes on to the next receiver.
LEMMA NextReceiver ==
  ASSUME NEW t \in Threads, disp \in [Threads -> DispatchLocals],
         \/ disp' = [disp EXCEPT ![t].i = @ + 1, ![t].rcv = 0]
         \/ disp' = [disp EXCEPT ![t].i = @ + 1, ![t].rcv = 0, ![t].result = "ok"]
  PROVE  /\ disp' \in [Threads -> DispatchLocals] /\ disp'[t].msgs = disp[t].msgs
         /\ disp'[t].num = disp[t].num /\ \A u \in Threads : u # t => disp'[u] = disp[u]
<1>1. disp[t] \in DispatchLocals /\ disp[t].i + 1 \in Nat
  BY DEF DispatchLocals
<1>2. CASE disp' = [disp EXCEPT ![t].i = @ + 1, ![t].rcv = 0]
  <2>1. disp'[t] = [disp[t] EXCEPT !.i = @ + 1, !.rcv = 0]
    BY <1>2
  <2>2. \A u \in Threads : u # t => disp'[u] = disp[u]
    BY <1>2
  <2>3. disp'[t] \in DispatchLocals /\ disp'[t].msgs = disp[t].msgs /\ disp'[t].num = disp[t].num
    BY <1>1, <2>1 DEF DispatchLocals
  <2>4. disp' \in [Threads -> DispatchLocals]
    BY <1>2, <2>2, <2>3
  <2>5. QED
    BY <2>2, <2>3, <2>4
<1>3. CASE disp' = [disp EXCEPT ![t].i = @ + 1, ![t].rcv = 0, ![t].result = "ok"]
  <2>1. disp'[t] = [disp[t] EXCEPT !.i = @ + 1, !.rcv = 0, !.result = "ok"]
    BY <1>3
  <2>2. \A u \in Threads : u # t => disp'[u] = disp[u]
    BY <1>3
  <2>3. disp'[t] \in DispatchLocals /\ disp'[t].msgs = disp[t].msgs /\ disp'[t].num = disp[t].num
    BY <1>1, <2>1 DEF DispatchLocals
  <2>4. disp' \in [Threads -> DispatchLocals]
    BY <1>3, <2>2, <2>3
  <2>5. QED
    BY <2>2, <2>3, <2>4
<1>4. QED
  BY <1>2, <1>3

\* Steps of cncbus_dispatch on a receiver's hazard word and queue.
LEMMA DispatchOnReceiver ==
  ASSUME HazardInv, ExclusionInv, NEW t \in Readers,
         DispatchTry(t) \/ DispatchLock(t) \/ DispatchDetach(t) \/ DispatchNothing(t) \/ DispatchDone(t)
  PROVE  HazardInv'
<1> DEFINE Moves(l) == pc' = [pc EXCEPT ![t] = l]
           r == disp[t].rcv
           Same == UNCHANGED <<receivers, next_dispatch_slot, free_chains, send>>
<1> USE DEF Labels
<1>0. /\ t \in Threads /\ t # Cdc /\ (t \in Dispatchers <=> t \notin Senders)
      /\ pc \in [Threads -> Labels]
  BY ThreadFacts DEF ExclusionInv
<1>1. ASSUME NEW l \in Labels, Moves(l), Same, disp' \in [Threads -> DispatchLocals],
             \A u \in Threads : u # t => disp'[u] = disp[u],
             hazard' \in [Receivers -> SUBSET Bits], queue' \in [Receivers -> Seq(Chains)],
             ReaderInv(t)', LatchKept(t),
             t \in Senders => pc[t] \in Pends \ HasChain /\ l \in Pends \ HasChain
      PROVE  HazardInv'
  <2>1. OnlyMoves(t)
    BY <1>0, <1>1 DEF OnlyMoves
  <2>2. BusTypes'
    BY <1>1 DEF HazardInv, BusTypes
  <2>3. t \in Senders => SenderInv(t)'
    BY <1>0, <1>1, SenderDispatches DEF HazardInv
  <2>4. QED
    BY <1>1, <2>1, <2>2, <2>3, OneReaderMoves
<1>2. /\ disp \in [Threads -> DispatchLocals] /\ ReaderInv(t) /\ receivers \in Seq(Receivers)
      /\ hazard \in [Receivers -> SUBSET Bits] /\ queue \in [Receivers -> Seq(Chains)]
      /\ disp[t].i \in Nat /\ r \in Receivers \cup {0}
  BY <1>0 DEF HazardInv, BusTypes, DispatchLocals
<1>3. pc[t] = "try" => r \in Receivers
  BY <1>2, MembersOf DEF ReaderInv
<1>4. Latched(t) => r \in Receivers /\ r \in Registered /\ "dispatch" \in hazard[r]
  BY <1>2 DEF ReaderInv
<1>5. IdleDispatch \in DispatchLocals /\ IdleDispatch.msgs = <<>>
  BY DEF IdleDispatch, DispatchLocals
<1> HIDE DEF r
<1>6. CASE DispatchTry(t)
  <2>1. /\ pc[t] = "try" /\ Same /\ queue' = queue /\ r \in Receivers
        /\ hazard' = [hazard EXCEPT ![r] = @ \cup {"dispatch"}]
    BY <1>3, <1>6 DEF DispatchTry, bus, table, slots, memory, r
  <2>2. /\ hazard' \in [Receivers -> SUBSET Bits]
        /\ \A x \in Receivers : hazard[x] \subseteq hazard'[x]
        /\ hazard'[r] = hazard[r] \cup {"dispatch"}
    BY <1>2, <2>1 DEF Bits
  <2>3. r \in Registered /\ Registered' = Registered
    BY <1>0, <1>2, <1>6, <2>1, ThreadFacts DEF ReaderInv, Registered, r, DispatchTry
  <2>4. CASE Latch(r)
    <3>1. Moves("leave") /\ disp' = [disp EXCEPT ![t].all_busy = FALSE]
      BY <1>6, <2>4 DEF DispatchTry, Goto, r
    <3>2. /\ disp' \in [Threads -> DispatchLocals] /\ disp'[t].msgs = disp[t].msgs
          /\ disp'[t].rcv = r /\ \A u \in Threads : u # t => disp'[u] = disp[u]
      BY <1>0, <1>2, <3>1, ZenonT(40) DEF DispatchLocals, r
    <3>3. ReaderInv(t)'
      BY <1>0, <1>2, <2>1, <2>2, <2>3, <3>1, <3>2 DEF ReaderInv, Latched, Delivers
    <3>4. LatchKept(t)
      BY <2>2, <2>4, <3>2 DEF LatchKept, Latch
    <3>5. QED
      BY <1>0, <1>1, <1>2, <2>1, <2>2, <3>1, <3>2, <3>3, <3>4
      DEF Pends, HasChain, DispatchInside
  <2>5. CASE ~Latch(r)
    <3>1. Moves("next") /\ disp' = [disp EXCEPT ![t].i = @ + 1, ![t].rcv = 0]
      BY <1>6, <2>5 DEF DispatchTry, Goto, r
    <3>2. /\ disp' \in [Threads -> DispatchLocals] /\ disp'[t].msgs = disp[t].msgs
          /\ disp'[t].num = disp[t].num /\ \A u \in Threads : u # t => disp'[u] = disp[u]
      BY <1>0, <1>2, <3>1, NextReceiver, Zenon
    <3>3. ReaderInv(t)' /\ ~Latched(t)'
      BY <1>0, <1>2, <2>1, <3>1, <3>2 DEF ReaderInv, Latched, Delivers
    <3>4. LatchKept(t)
      BY <2>2, <3>3 DEF LatchKept
    <3>5. QED
      BY <1>0, <1>1, <1>2, <2>1, <2>2, <3>1, <3>2, <3>3, <3>4
      DEF Pends, HasChain, DispatchInside
  <2>6. QED
    BY <2>4, <2>5
<1>7. CASE DispatchLock(t)
  <2>1. /\ pc[t] = "lock" /\ Moves("detach") /\ Same /\ UNCHANGED <<queue, disp>>
        /\ hazard' = [hazard EXCEPT ![r] = @ \cup {"access"}]
    BY <1>7 DEF DispatchLock, Step, Goto, bus, table, slots, memory, r
  <2>2. Latched(t) /\ Registered' = Registered
    BY <1>0, <2>1, ThreadFacts DEF Latched, Registered
  <2>3. /\ hazard' \in [Receivers -> SUBSET Bits]
        /\ \A x \in Receivers : hazard[x] \subseteq hazard'[x]
    BY <1>2, <2>1 DEF Bits
  <2>4. ReaderInv(t)' /\ LatchKept(t)
    BY <1>0, <1>2, <1>4, <2>1, <2>2, <2>3 DEF ReaderInv, LatchKept, Latched, Delivers, r
  <2>5. QED
    BY <1>0, <1>1, <1>2, <2>1, <2>3, <2>4 DEF Pends, HasChain, DispatchOutside
<1>8. CASE DispatchDetach(t)
  <2> DEFINE q == queue[r]
             n == Unhooked(disp[t].mode, q)
  <2>1. /\ pc[t] = "detach" /\ Moves("deliver") /\ Same /\ q # <<>>
        /\ disp' = [disp EXCEPT ![t].msgs = SubSeq(q, 1, n)]
        /\ queue' = [queue EXCEPT ![r] = SubSeq(q, n + 1, Len(q))]
        /\ hazard' = [hazard EXCEPT ![r] = hazard[r] \ {"access"}]
    BY <1>8 DEF DispatchDetach, Step, Goto, bus, table, slots, memory, r, Unlocked
  <2>2. Latched(t) /\ Registered' = Registered /\ r \in Receivers
    BY <1>0, <1>4, <2>1, ThreadFacts DEF Latched, Registered
  <2>3. q \in Seq(Chains) /\ Len(q) \in Nat \ {0} /\ n \in 1 .. Len(q)
    BY <1>2, <2>1, <2>2 DEF Unhooked
  <2> HIDE DEF q, n
  <2>4. SubSeq(q, 1, n) \in Seq(Chains) /\ SubSeq(q, 1, n) # <<>> /\ SubSeq(q, n + 1, Len(q)) \in Seq(Chains)
    BY <2>3
  <2>5. /\ disp' \in [Threads -> DispatchLocals] /\ disp'[t].msgs # <<>> /\ disp'[t].rcv = r
        /\ \A u \in Threads : u # t => disp'[u] = disp[u]
    BY <1>0, <1>2, <2>1, <2>4, ZenonT(40) DEF DispatchLocals, r
  <2>6. /\ queue' \in [Receivers -> Seq(Chains)] /\ hazard' \in [Receivers -> SUBSET Bits]
        /\ \A x \in Receivers : "dispatch" \in hazard[x] => "dispatch" \in hazard'[x]
    BY <1>2, <2>1, <2>4 DEF Bits
  <2>7. ReaderInv(t)' /\ LatchKept(t)
    BY <1>0, <1>2, <1>4, <2>1, <2>2, <2>5, <2>6 DEF ReaderInv, LatchKept, Latched, Delivers, r
  <2>8. QED
    BY <1>0, <1>1, <1>2, <2>1, <2>5, <2>6, <2>7 DEF Pends, HasChain, DispatchOutside
<1>9. ASSUME Latched(t), ~Latched(t)', Same, queue' = queue,
             hazard' = [hazard EXCEPT ![r] = @ \ {"dispatch"}]
               \/ hazard' = [hazard EXCEPT ![r] = @ \ {"access", "dispatch"}]
      PROVE  hazard' \in [Receivers -> SUBSET Bits] /\ LatchKept(t)
  BY <1>2, <1>9 DEF LatchKept, Bits, r
<1>10. CASE DispatchNothing(t)
  <2>1. /\ pc[t] = "detach" /\ Moves("reenter") /\ Same /\ queue' = queue
        /\ hazard' = [hazard EXCEPT ![r] = @ \ {"access", "dispatch"}]
        /\ disp' = [disp EXCEPT ![t].i = @ + 1, ![t].rcv = 0]
    BY <1>10 DEF DispatchNothing, Step, Goto, bus, table, slots, memory, r
  <2>2. /\ disp' \in [Threads -> DispatchLocals] /\ disp'[t].msgs = disp[t].msgs
        /\ \A u \in Threads : u # t => disp'[u] = disp[u]
    BY <1>0, <1>2, <2>1, NextReceiver, Zenon
  <2>3. ReaderInv(t)' /\ ~Latched(t)' /\ Latched(t)
    BY <1>0, <1>2, <2>1, <2>2 DEF ReaderInv, Latched, Delivers
  <2>4. QED
    BY <1>0, <1>1, <1>2, <1>9, <2>1, <2>2, <2>3 DEF Pends, HasChain, DispatchOutside
<1>11. CASE DispatchDone(t)
  <2>1. /\ pc[t] = "delivered" /\ Same /\ queue' = queue
        /\ hazard' = [hazard EXCEPT ![r] = hazard[r] \ {"dispatch"}]
        /\ \/ disp' = [disp EXCEPT ![t] = IdleDispatch]
              /\ IF t \in Dispatchers THEN Moves("idle") ELSE Moves("send_chain")
           \/ /\ disp' = [disp EXCEPT ![t].i = @ + 1, ![t].rcv = 0, ![t].result = "ok"]
              /\ Moves("reenter")
    BY <1>11 DEF DispatchDone, DispatchReturn, Goto, bus, table, slots, memory, r, Unlatched
  <2>2. disp[t].msgs = <<>>
    BY <1>2, <2>1 DEF ReaderInv, Delivers
  <2>3. /\ disp' \in [Threads -> DispatchLocals] /\ disp'[t].msgs = <<>>
        /\ \A u \in Threads : u # t => disp'[u] = disp[u]
    <3>1. CASE disp' = [disp EXCEPT ![t] = IdleDispatch]
      BY <1>0, <1>2, <1>5, <3>1
    <3>2. CASE disp' = [disp EXCEPT ![t].i = @ + 1, ![t].rcv = 0, ![t].result = "ok"]
      BY <1>0, <1>2, <2>2, <3>2, NextReceiver, Zenon
    <3>3. QED
      BY <2>1, <3>1, <3>2
  <2>4. PICK l \in {"idle", "send_chain", "reenter"} :
          Moves(l) /\ (t \in Senders => l # "idle") /\ (t \in Dispatchers => l # "send_chain")
    BY <1>0, <2>1
  <2>5. ReaderInv(t)' /\ ~Latched(t)' /\ Latched(t)
    BY <1>0, <1>2, <2>1, <2>3, <2>4 DEF ReaderInv, Latched, Delivers
  <2>6. QED
    BY <1>0, <1>1, <1>2, <1>9, <2>1, <2>3, <2>4, <2>5
    DEF Pends, HasChain, DispatchOutside, SendInside, SendOutside
<1>12. QED
  BY <1>6, <1>7, <1>8, <1>10, <1>11

\* A reader that delivers releases the chains it unhooked.
LEMMA ReaderReleases ==
  ASSUME HazardInv, ExclusionInv, NEW t \in Readers, ReleaseStep(t)
  PROVE  HazardInv'
<1> DEFINE Moves(l) == pc' = [pc EXCEPT ![t] = l]
           c == Head(disp[t].msgs)
<1> USE DEF Labels
<1>0. /\ t \in Threads /\ t # Cdc /\ pc \in [Threads -> Labels]
      /\ disp \in [Threads -> DispatchLocals] /\ ReaderInv(t)
      /\ free_chains \subseteq Chains /\ disp[t].msgs \in Seq(Chains)
  BY ThreadFacts DEF ExclusionInv, HazardInv, BusTypes, DispatchLocals
<1>1. /\ pc[t] \in {"release", "release_chain"}
      /\ UNCHANGED <<receivers, next_dispatch_slot, hazard, queue, send>>
  BY ReleaseStep(t), Zenon DEF ReleaseStep, ReleaseReference, ReleaseChain, Step, bus, table, slots, rcvs
<1>2. disp[t].msgs # <<>> /\ c \in Chains /\ Tail(disp[t].msgs) \in Seq(Chains)
      /\ Len(Tail(disp[t].msgs)) = Len(disp[t].msgs) - 1
  BY <1>0, <1>1 DEF ReaderInv, Delivers
<1>3. /\ disp' \in [Threads -> DispatchLocals] /\ free_chains' \subseteq Chains
      /\ disp'[t].rcv = disp[t].rcv /\ \A u \in Threads : u # t => disp'[u] = disp[u]
      /\ \E l \in {"release_chain", "deliver", "delivered"} :
           Moves(l) /\ (l = "delivered" <=> disp'[t].msgs = <<>>)
  <2>1. CASE ReleaseReference(t)
    BY <1>0, <1>2, <2>1 DEF ReleaseReference, Step, Goto
  <2>2. CASE ReleaseChain(t)
    <3>1. /\ disp' = [disp EXCEPT ![t].msgs = Tail(@)]
          /\ free_chains' = free_chains \cup {c}
          /\ \/ Len(disp[t].msgs) > 1 /\ Moves("deliver")
             \/ Len(disp[t].msgs) = 1 /\ Moves("delivered")
      BY <1>0, <2>2 DEF ReleaseChain, PushChain, Goto
    <3>2. /\ disp' \in [Threads -> DispatchLocals] /\ disp'[t].rcv = disp[t].rcv
          /\ disp'[t].msgs = Tail(disp[t].msgs) /\ \A u \in Threads : u # t => disp'[u] = disp[u]
      <4> DEFINE rest == Tail(disp[t].msgs)
      <4>1. disp' = [disp EXCEPT ![t].msgs = rest] /\ rest \in Seq(Chains)
        BY <1>2, <3>1
      <4> HIDE DEF rest
      <4>2. /\ disp' \in [Threads -> DispatchLocals] /\ disp'[t].rcv = disp[t].rcv
            /\ disp'[t].msgs = rest /\ \A u \in Threads : u # t => disp'[u] = disp[u]
        BY <1>0, <4>1, ZenonT(30) DEF DispatchLocals
      <4>3. QED
        BY <4>2 DEF rest
    <3>3. \A q \in Seq(Chains) : Len(q) > 1 => Tail(q) # <<>>
      OBVIOUS
    <3>4. ASSUME NEW q \in Seq(Chains), Len(q) = 1 PROVE Tail(q) = <<>>
      <4>1. q # <<>>
        BY <3>4, EmptySeq
      <4>2. Tail(q) \in Seq(Chains) /\ Len(Tail(q)) = 0
        BY <3>4, <4>1, HeadTailProperties
      <4>3. QED
        BY <4>2, EmptySeq
    <3> HIDE DEF c
    <3>6. \/ Moves("deliver") /\ disp'[t].msgs # <<>>
          \/ Moves("delivered") /\ disp'[t].msgs = <<>>
      BY <1>0, <3>1, <3>2, <3>3, <3>4
    <3>7. free_chains' \subseteq Chains
      BY <1>0, <1>2, <3>1
    <3>5. QED
      BY <3>2, <3>6, <3>7
  <2>3. QED
    BY <2>1, <2>2, ReleaseStep(t) DEF ReleaseStep
<1>4. PICK l \in {"release_chain", "deliver", "delivered"} :
        Moves(l) /\ (l = "delivered" <=> disp'[t].msgs = <<>>)
  BY <1>3
<1>5. ReaderInv(t)' /\ Latched(t)
  BY <1>0, <1>1, <1>3, <1>4, ThreadFacts DEF ReaderInv, Latched, Delivers, Registered
<1>6. OnlyMoves(t) /\ LatchKept(t)
  BY <1>0, <1>1, <1>3, <1>4, <1>5 DEF OnlyMoves, LatchKept
<1>7. BusTypes'
  BY <1>1, <1>3 DEF BusTypes, HazardInv
<1>8. t \in Senders => SenderInv(t)'
  BY <1>0, <1>1, <1>4, SenderDispatches DEF HazardInv, Pends, HasChain, DispatchOutside
<1>9. QED
  BY <1>5, <1>6, <1>7, <1>8, OneReaderMoves

\* A list with one more member at position i.
LEMMA InsertedOf ==
  ASSUME NEW S, NEW q \in Seq(S), IsInjective(q), NEW i \in 1 .. Len(q) + 1,
         NEW x \in S, x \notin Range(q)
  PROVE  /\ InsertAt(q, i, x) \in Seq(S) /\ IsInjective(InsertAt(q, i, x))
         /\ Range(InsertAt(q, i, x)) = Range(q) \cup {x}
<1> DEFINE p == SubSeq(q, 1, i - 1)
           r == SubSeq(q, i, Len(q))
<1>1. Len(q) \in Nat /\ i - 1 \in 0 .. Len(q) /\ (i - 1) + 1 = i
  OBVIOUS
<1>2. /\ p \in Seq(S) /\ r \in Seq(S) /\ Range(q) = Range(p) \cup Range(r)
      /\ IsInjective(p) /\ IsInjective(r) /\ Range(p) \cap Range(r) = {}
  <2>1. \A n \in 0 .. Len(q) :
          /\ SubSeq(q, 1, n) \in Seq(S) /\ SubSeq(q, n + 1, Len(q)) \in Seq(S)
          /\ Range(q) = Range(SubSeq(q, 1, n)) \cup Range(SubSeq(q, n + 1, Len(q)))
          /\ IsInjective(SubSeq(q, 1, n)) /\ IsInjective(SubSeq(q, n + 1, Len(q)))
          /\ Range(SubSeq(q, 1, n)) \cap Range(SubSeq(q, n + 1, Len(q))) = {}
    BY CutOf, Zenon
  <2>2. QED
    BY <1>1, <2>1
<1> HIDE DEF p, r
<1>3. p \o <<x>> = Append(p, x)
  BY <1>2
<1>4. /\ Append(p, x) \in Seq(S) /\ Range(Append(p, x)) = Range(p) \cup {x}
      /\ IsInjective(Append(p, x))
  BY <1>2, AppendOf
<1>5. Range(Append(p, x)) \cap Range(r) = {}
  BY <1>2, <1>4
<1>6. /\ Append(p, x) \o r \in Seq(S) /\ IsInjective(Append(p, x) \o r)
      /\ Range(Append(p, x) \o r) = Range(Append(p, x)) \cup Range(r)
  <2>1. \A a, b \in Seq(S) :
          /\ a \o b \in Seq(S) /\ Len(a \o b) = Len(a) + Len(b)
          /\ Range(a \o b) = Range(a) \cup Range(b)
          /\ IsInjective(a) /\ IsInjective(b) /\ Range(a) \cap Range(b) = {} => IsInjective(a \o b)
    BY ConcatOf
  <2>2. QED
    BY <1>2, <1>4, <1>5, <2>1
<1>7. InsertAt(q, i, x) = Append(p, x) \o r
  BY <1>3 DEF InsertAt, p, r
<1>8. Range(p) \cup {x} \cup Range(r) = Range(q) \cup {x}
  BY <1>2
<1>9. QED
  BY <1>4, <1>6, <1>7, <1>8

\* A sender moves: it changes its own variables, and no dispatch bit.
LEMMA SenderMoves ==
  ASSUME HazardInv, ExclusionInv, NEW t \in Senders, NEW l \in SendInside \cup SendOutside,
         pc[t] \in SendInside \cup SendOutside, pc' = [pc EXCEPT ![t] = l],
         UNCHANGED <<receivers, next_dispatch_slot, disp>>,
         hazard' \in [Receivers -> SUBSET Bits], queue' \in [Receivers -> Seq(Chains)],
         \A r \in Receivers : "dispatch" \in hazard[r] => "dispatch" \in hazard'[r],
         free_chains' \subseteq Chains, send'[t] \in SendLocals,
         send' = [send EXCEPT ![t] = send'[t]], SenderInv(t)'
  PROVE  HazardInv'
<1>1. t \in Readers /\ t \in Threads /\ t # Cdc /\ pc \in [Threads -> Labels]
  BY ThreadFacts DEF ExclusionInv
<1>2. /\ send \in [Senders -> SendLocals] /\ disp \in [Threads -> DispatchLocals] /\ ReaderInv(t)
  BY <1>1 DEF HazardInv, BusTypes
<1>3. OnlyMoves(t)
  BY <1>1, <1>2 DEF OnlyMoves
<1>4. pc'[t] = l
  BY <1>1
<1>5. LatchKept(t) /\ ReaderInv(t)'
  BY <1>1, <1>2, <1>4 DEF LatchKept, ReaderInv, Latched, Delivers, SendInside, SendOutside
<1>6. BusTypes'
  BY <1>2 DEF HazardInv, BusTypes
<1>7. QED
  BY <1>1, <1>3, <1>5, <1>6, OneReaderMoves

\* The list that collect_receivers makes names receivers of the table, each once.
LEMMA Collected ==
  ASSUME BusTypes, NEW t \in Senders, SendCollect(t)
  PROVE  \E dest \in Destinations, p \in Seq(Receivers) :
           /\ send' = [send EXCEPT ![t].pending = p]
           /\ p # <<>> /\ IsInjective(p) /\ Len(p) \in Nat \ {0}
           /\ Range(p) \subseteq Range(receivers) /\ Range(p) \subseteq dest
<1>15. PICK dest \in Destinations :
         LET matched == {i \in DOMAIN receivers : receivers[i] \in dest} IN
         /\ matched # {}
         /\ \E f \in Ascending(matched) :
              send' = [send EXCEPT ![t].pending = [k \in DOMAIN f |-> receivers[f[k]]]]
  BY Zenon DEF SendCollect
<1> DEFINE matched == {i \in DOMAIN receivers : receivers[i] \in dest}
           n == Cardinality(matched)
<1>16. matched # {}
  BY <1>15
<1>17. PICK f \in Ascending(matched) :
         send' = [send EXCEPT ![t].pending = [k \in DOMAIN f |-> receivers[f[k]]]]
  BY <1>15
<1> DEFINE pending == [k \in DOMAIN f |-> receivers[f[k]]]
<1>18. send' = [send EXCEPT ![t].pending = pending]
  BY <1>17
<1>1. /\ receivers \in Seq(Receivers) /\ IsInjective(receivers) /\ Len(receivers) \in Nat
      /\ matched \subseteq 1 .. Len(receivers)
  BY DEF BusTypes
<1>2. IsFiniteSet(1 .. Len(receivers))
  BY <1>1, FS_Interval
<1>3. IsFiniteSet(matched)
  BY <1>1, <1>2, FS_Subset
<1>4. n \in Nat \ {0}
  BY <1>3, <1>16, FS_CardinalityType, FS_EmptySet
<1>5. f \in [1 .. n -> matched] /\ \A i, j \in 1 .. n : i < j => f[i] < f[j]
  BY DEF Ascending
<1> HIDE DEF n
<1>6. pending \in [1 .. n -> Receivers] /\ \A k \in 1 .. n : pending[k] = receivers[f[k]]
  BY <1>1, <1>5
<1>7. \A k \in 1 .. n : pending[k] \in Range(receivers) /\ pending[k] \in dest
  BY <1>1, <1>5, <1>6, MembersOf
<1> HIDE DEF pending
<1>8. \A m \in Nat : \A g \in [1 .. m -> Receivers] : g \in Seq(Receivers) /\ Len(g) = m
  OBVIOUS
<1>9. pending \in Seq(Receivers) /\ Len(pending) = n
  BY <1>4, <1>6, <1>8
<1>10. pending # <<>>
  BY <1>4, <1>9, EmptySeq
<1>11. ASSUME NEW i \in 1 .. n, NEW j \in 1 .. n, pending[i] = pending[j] PROVE i = j
  <2>1. f[i] = f[j]
    BY <1>1, <1>5, <1>6, <1>11 DEF IsInjective
  <2>2. f[i] \in Nat /\ f[j] \in Nat /\ i \in Nat /\ j \in Nat
    BY <1>1, <1>4, <1>5
  <2>3. QED
    BY <1>5, <2>1, <2>2
<1>12. IsInjective(pending)
  BY <1>6, <1>11 DEF IsInjective
<1>13. Range(pending) \subseteq Range(receivers) /\ Range(pending) \subseteq dest
  BY <1>6, <1>7 DEF Range
<1>14. QED
  BY <1>4, <1>9, <1>10, <1>12, <1>13, <1>18

\* The pending list without the receiver the sender is done with.
LEMMA DroppedLocals ==
  ASSUME BusTypes, NEW t \in Senders, SenderInv(t), send[t].pending # <<>>,
         NEW c \in Chains \cup {NoChain}, Dropped(t, c)
  PROVE  LET rest == RemoveAt(send[t].pending, send[t].i) IN
         /\ rest \in Seq(Receivers) /\ IsInjective(rest)
         /\ Range(rest) = Range(send[t].pending) \ {send[t].pending[send[t].i]}
         /\ send' = [send EXCEPT ![t] = send'[t]] /\ send'[t] \in SendLocals
         /\ send'[t].pending = rest /\ send'[t].chain = c /\ send'[t].msg = send[t].msg
         /\ rest # <<>> => send'[t].i \in 1 .. Len(rest)
         /\ \/ rest = <<>> /\ Goto(t, "send_exit")
            \/ rest # <<>> /\ c = NoChain /\ Goto(t, "send_chain")
            \/ rest # <<>> /\ c # NoChain /\ Goto(t, "send_try")
<1> DEFINE p == send[t].pending
           i == send[t].i
           rest == RemoveAt(p, i)
           n == Wrap(i, Len(rest))
<1>1. send \in [Senders -> SendLocals] /\ p \in Seq(Receivers) /\ i \in 1 .. Len(p) /\ IsInjective(p)
      /\ Len(p) \in Nat
  BY DEF BusTypes, SendLocals, SenderInv
<1>2. /\ rest \in Seq(Receivers) /\ IsInjective(rest) /\ Len(rest) = Len(p) - 1
      /\ Range(rest) = Range(p) \ {p[i]}
  BY <1>1, RemovedOf
<1>3. n \in Nat /\ (rest # <<>> => n \in 1 .. Len(rest))
  <2>1. rest # <<>> => Len(rest) \in Nat \ {0}
    BY <1>2, EmptySeq
  <2>2. QED
    BY <1>1, <1>2, <2>1 DEF Wrap
<1>4. /\ send' = [send EXCEPT ![t].pending = rest, ![t].chain = c, ![t].i = n]
      /\ \/ rest = <<>> /\ Goto(t, "send_exit")
         \/ rest # <<>> /\ c = NoChain /\ Goto(t, "send_chain")
         \/ rest # <<>> /\ c # NoChain /\ Goto(t, "send_try")
  BY DEF Dropped
<1> HIDE DEF rest, n
<1>5. /\ send'[t] \in SendLocals /\ send'[t].pending = rest /\ send'[t].chain = c
      /\ send'[t].i = n /\ send'[t].msg = send[t].msg /\ send' = [send EXCEPT ![t] = send'[t]]
  BY <1>1, <1>2, <1>3, <1>4 DEF SendLocals
<1>6. QED
  BY <1>2, <1>3, <1>4, <1>5 DEF rest, p, i

\* Construction of a message and cncbus_send_async.
LEMMA SenderSteps ==
  ASSUME HazardInv, ExclusionInv, free_frags \subseteq Frags, NEW t \in Senders,
         MsgBegin(t) \/ SendStep(t)
  PROVE  HazardInv'
<1> DEFINE Moves(l) == pc' = [pc EXCEPT ![t] = l]
           s == send[t]
           Table == UNCHANGED <<receivers, next_dispatch_slot, disp>>
           Rcvs == UNCHANGED <<hazard, queue>>
           Local == send'[t] \in SendLocals /\ send' = [send EXCEPT ![t] = send'[t]]
<1> USE DEF SendInside, SendOutside
<1>0. /\ t \in Readers /\ t \in Threads /\ t # Cdc /\ pc \in [Threads -> Labels]
      /\ BusTypes /\ SenderInv(t) /\ ReaderInv(t)
  BY ThreadFacts DEF ExclusionInv, HazardInv
<1>1. /\ send \in [Senders -> SendLocals] /\ s \in SendLocals /\ free_chains \subseteq Chains
      /\ hazard \in [Receivers -> SUBSET Bits] /\ queue \in [Receivers -> Seq(Chains)]
      /\ receivers \in Seq(Receivers)
      /\ s.pending \in Seq(Receivers) /\ s.chain \in Chains \cup {NoChain}
      /\ s.i \in Nat /\ s.msg \in Frags \cup {NoFrag}
      /\ NoFrag \notin Frags /\ NoChain \notin Chains
  BY <1>0, MessagesAssumption DEF BusTypes, SendLocals
<1>2. ASSUME send' = send PROVE Local
  BY <1>1, <1>2
<1>3. pc[t] \in Pends => s.pending # <<>> /\ s.i \in 1 .. Len(s.pending)
  BY <1>0 DEF SenderInv
<1>4. pc[t] \in Pends => s.pending[s.i] \in Receivers /\ s.pending[s.i] \in Range(receivers)
  BY <1>0, <1>1, <1>3, MembersOf DEF SenderInv
<1>5. IdleSend \in SendLocals /\ IdleSend.pending = <<>> /\ IdleSend.chain = NoChain /\ IdleSend.i = 1
      /\ IdleSend.msg = NoFrag /\ IsInjective(<<>>) /\ Range(<<>>) = {}
  BY EmptyList DEF IdleSend, SendLocals
<1>18. ASSUME NEW d \in SendLocals, send' = [send EXCEPT ![t] = d] PROVE Local /\ send'[t] = d
  <2>1. send'[t] = d
    BY <1>1, <1>18
  <2>2. QED
    BY <1>18, <2>1
<1> HIDE DEF s
<1>6. CASE SendEnter(t) \/ SendTest(t) \/ SendUndo(t)
  <2>1. /\ Table /\ Rcvs /\ UNCHANGED <<free_chains, send>>
        /\ pc[t] \in {"send_enter", "send_test", "send_undo"}
        /\ Moves("send_test") \/ Moves("send_collect") \/ Moves("send_undo") \/ Moves("send_enter")
    BY <1>6 DEF SendEnter, SendTest, SendUndo, Step, Goto, bus, table, slots, rcvs, memory
  <2>2. PICK l \in {"send_test", "send_collect", "send_undo", "send_enter"} : Moves(l)
    BY <2>1
  <2>3. SenderInv(t)'
    BY <1>0, <2>1, <2>2
    DEF SenderInv, Unsent, Pends, HasChain, DispatchInside, DispatchOutside
  <2>4. QED
    BY <1>1, <1>2, <2>1, <2>2, <2>3, SenderMoves
<1>7. CASE MsgBegin(t)
  <2>1. PICK f \in free_frags : send' = [send EXCEPT ![t].msg = f]
    BY <1>7 DEF MsgBegin
  <2>2. /\ Table /\ Rcvs /\ UNCHANGED free_chains /\ pc[t] = "idle" /\ Moves("send_enter")
        /\ f \in Frags /\ f # NoFrag
    BY <1>1, <1>7, <2>1 DEF MsgBegin, Step, Goto, bus, table, slots, rcvs
  <2>3. /\ Local /\ send'[t].pending = s.pending /\ send'[t].i = s.i /\ send'[t].chain = s.chain
        /\ send'[t].msg = f
    BY <1>1, <2>1, <2>2 DEF SendLocals, s
  <2>4. SenderInv(t)'
    BY <1>0, <1>1, <2>2, <2>3
    DEF SenderInv, Unsent, Pends, HasChain, DispatchInside, DispatchOutside, s
  <2>5. QED
    BY <1>1, <2>2, <2>3, <2>4, SenderMoves
<1>8. CASE SendCollect(t)
  <2>2. PICK p \in Seq(Receivers) :
          /\ send' = [send EXCEPT ![t].pending = p] /\ p # <<>> /\ IsInjective(p)
          /\ Len(p) \in Nat \ {0} /\ Range(p) \subseteq Range(receivers)
    BY <1>0, <1>8, Collected
  <2>3. /\ Table /\ Rcvs /\ UNCHANGED free_chains
        /\ pc[t] = "send_collect" /\ Moves("send_chain")
    BY <1>8 DEF SendCollect, Step, Goto, bus, table, slots, rcvs
  <2>4. /\ Local /\ send'[t].pending = p /\ send'[t].i = s.i /\ send'[t].chain = s.chain
        /\ send'[t].msg = s.msg
    BY <1>1, <2>2 DEF SendLocals, s
  <2>5. s.i = 1
    BY <1>0, <2>3 DEF SenderInv, Unsent, s
  <2>6. SenderInv(t)'
    BY <1>0, <1>1, <2>2, <2>3, <2>4, <2>5
    DEF SenderInv, Unsent, Pends, HasChain, DispatchInside, DispatchOutside, s
  <2>7. QED
    BY <1>1, <2>3, <2>4, <2>6, SenderMoves
<1>9. CASE SendToNobody(t) \/ SendDrop(t)
  <2>1. /\ Table /\ Rcvs /\ UNCHANGED free_chains
        /\ pc[t] \in {"send_collect", "send_drop"} /\ Moves("idle")
        /\ send' = [send EXCEPT ![t] = IdleSend]
    BY <1>9 DEF SendToNobody, SendDrop, Step, Goto, bus, table, slots, rcvs
  <2>2. Local /\ send'[t] = IdleSend
    BY <1>5, <1>18, <2>1
  <2>3. SenderInv(t)'
    BY <1>0, <1>5, <2>1, <2>2
    DEF SenderInv, Unsent, Pends, HasChain, DispatchInside, DispatchOutside
  <2>4. QED
    BY <1>1, <2>1, <2>2, <2>3, SenderMoves
<1>10. CASE SendGetChain(t)
  <2>1. PICK c \in free_chains : /\ send' = [send EXCEPT ![t].chain = c]
                                 /\ free_chains' = free_chains \ {c}
    BY <1>10 DEF SendGetChain
  <2>2. /\ Table /\ Rcvs /\ pc[t] = "send_chain" /\ Moves("send_try") /\ c \in Chains /\ c # NoChain
    BY <1>1, <1>10, <2>1 DEF SendGetChain, Step, Goto, bus, table, slots, rcvs
  <2>3. /\ Local /\ send'[t].pending = s.pending /\ send'[t].i = s.i /\ send'[t].chain = c
        /\ send'[t].msg = s.msg
    BY <1>1, <2>1, <2>2 DEF SendLocals, s
  <2>4. SenderInv(t)'
    BY <1>0, <1>1, <2>2, <2>3
    DEF SenderInv, Unsent, Pends, HasChain, DispatchInside, DispatchOutside, s
  <2>5. free_chains' \subseteq Chains
    BY <1>1, <2>1
  <2>6. QED
    BY <1>1, <2>2, <2>3, <2>4, <2>5, SenderMoves
<1>11. CASE SendNoChain(t)
  <2>1. /\ Table /\ Rcvs /\ UNCHANGED <<free_chains, send>>
        /\ pc[t] = "send_chain" /\ Moves("send_dispatch")
    BY <1>11 DEF SendNoChain, Step, Goto, bus, table, slots, rcvs, memory
  <2>2. SenderInv(t)'
    BY <1>0, <2>1 DEF SenderInv, Unsent, Pends, HasChain, DispatchInside, DispatchOutside
  <2>3. QED
    BY <1>1, <1>2, <2>1, <2>2, SenderMoves
<1>12. ASSUME pc[t] \in {"send_try", "send_enqueue", "send_clear"}, NEW c \in Chains \cup {NoChain},
              Dropped(t, c), Table, UNCHANGED free_chains,
              hazard' \in [Receivers -> SUBSET Bits], queue' \in [Receivers -> Seq(Chains)],
              \A r \in Receivers : "dispatch" \in hazard[r] => "dispatch" \in hazard'[r]
       PROVE  HazardInv'
  <2> DEFINE rest == RemoveAt(s.pending, s.i)
  <2>1. s.pending # <<>> /\ s.msg # NoFrag
    BY <1>0, <1>3, <1>12 DEF Pends, SenderInv, s
  <2>2. /\ rest \in Seq(Receivers) /\ IsInjective(rest) /\ Range(rest) \subseteq Range(s.pending)
        /\ Local /\ send'[t].pending = rest /\ send'[t].chain = c /\ send'[t].msg = s.msg
        /\ rest # <<>> => send'[t].i \in 1 .. Len(rest)
        /\ \/ rest = <<>> /\ Moves("send_exit")
           \/ rest # <<>> /\ c = NoChain /\ Moves("send_chain")
           \/ rest # <<>> /\ c # NoChain /\ Moves("send_try")
    BY <1>0, <1>12, <2>1, DroppedLocals, ZenonT(30) DEF s, Goto
  <2> HIDE DEF rest
  <2>3. PICK l \in {"send_exit", "send_chain", "send_try"} :
          /\ Moves(l) /\ (l = "send_exit" <=> rest = <<>>)
          /\ (l = "send_chain" => c = NoChain) /\ (l = "send_try" => c # NoChain)
    BY <2>2
  <2>4. Range(s.pending) \subseteq Range(receivers)
    BY <1>0 DEF SenderInv, s
  <2>5. SenderInv(t)'
    BY <1>0, <1>12, <2>1, <2>2, <2>3, <2>4
    DEF SenderInv, Unsent, Pends, HasChain, DispatchInside, DispatchOutside
  <2>6. QED
    BY <1>1, <1>12, <2>2, <2>3, <2>5, SenderMoves
<1>13. CASE SendTry(t)
  <2> DEFINE r == s.pending[s.i]
  <2>1. /\ pc[t] = "send_try" /\ Table /\ UNCHANGED <<free_chains, queue>> /\ r \in Receivers
        /\ hazard' = [hazard EXCEPT ![r] = @ \cup {"access"}]
        /\ \/ (Moves("send_clear") \/ Moves("send_enqueue")) /\ UNCHANGED send
           \/ Dropped(t, s.chain)
           \/ UNCHANGED pc /\ send' = [send EXCEPT ![t].i = Wrap(@ + 1, Len(s.pending))]
    BY <1>4, <1>13, SMTT(90) DEF SendTry, Goto, bus, table, slots, memory, s, Pends
  <2>2. /\ hazard' \in [Receivers -> SUBSET Bits]
        /\ \A x \in Receivers : "dispatch" \in hazard[x] => "dispatch" \in hazard'[x]
    BY <1>1, <2>1 DEF Bits
  <2>3. CASE Dropped(t, s.chain)
    BY <1>1, <1>12, <2>1, <2>2, <2>3
  <2>4. CASE (Moves("send_clear") \/ Moves("send_enqueue")) /\ UNCHANGED send
    <3>1. SenderInv(t)'
      BY <1>0, <2>1, <2>4 DEF SenderInv, Unsent, Pends, HasChain, DispatchInside, DispatchOutside
    <3>2. QED
      BY <1>1, <1>2, <2>1, <2>2, <2>4, <3>1, SenderMoves, ZenonT(30)
  <2>5. CASE UNCHANGED pc /\ send' = [send EXCEPT ![t].i = Wrap(@ + 1, Len(s.pending))]
    <3> DEFINE n == Wrap(s.i + 1, Len(s.pending))
    <3>1. s.i \in 1 .. Len(s.pending) /\ Len(s.pending) \in Nat
      BY <1>1, <1>3, <2>1 DEF Pends
    <3>2. n \in 1 .. Len(s.pending)
      BY <3>1 DEF Wrap
    <3>3. send' = [send EXCEPT ![t].i = n]
      BY <2>5 DEF s
    <3> HIDE DEF n
    <3>8. n \in Nat
      BY <3>1, <3>2
    <3>4. /\ Local /\ send'[t].pending = s.pending /\ send'[t].i = n /\ send'[t].chain = s.chain
          /\ send'[t].msg = s.msg
      BY <1>1, <3>3, <3>8 DEF SendLocals, s
    <3>5. Moves("send_try")
      BY <1>0, <2>1, <2>5
    <3>6. SenderInv(t)'
      BY <1>0, <1>1, <2>1, <3>2, <3>4, <3>5
      DEF SenderInv, Unsent, Pends, HasChain, DispatchInside, DispatchOutside, s
    <3>7. QED
      BY <1>1, <2>1, <2>2, <3>4, <3>5, <3>6, SenderMoves, Zenon
  <2>6. QED
    BY <2>1, <2>3, <2>4, <2>5
<1>14. CASE SendEnqueue(t) \/ SendClear(t)
  <2> DEFINE r == s.pending[s.i]
  <2>1. /\ pc[t] \in {"send_enqueue", "send_clear"} /\ Table /\ UNCHANGED free_chains
        /\ r \in Receivers /\ hazard' = [hazard EXCEPT ![r] = hazard[r] \ {"access"}]
        /\ \/ /\ queue' = [queue EXCEPT ![r] = Append(@, s.chain)] /\ Dropped(t, NoChain)
              /\ pc[t] = "send_enqueue"
           \/ queue' = queue /\ Dropped(t, s.chain)
    BY <1>4, <1>14, Zenon
    DEF SendEnqueue, SendClear, Unlocked, Enqueued, ChainLeft, bus, table, slots, memory, s, Pends
  <2>2. /\ hazard' \in [Receivers -> SUBSET Bits]
        /\ \A x \in Receivers : "dispatch" \in hazard[x] => "dispatch" \in hazard'[x]
    BY <1>1, <2>1, ZenonT(30) DEF Bits
  <2>3. s.chain \in Chains
    BY <1>0, <1>1, <2>1, Zenon DEF SenderInv, HasChain, s
  <2>4. queue' \in [Receivers -> Seq(Chains)]
    <3>1. queue[r] \in Seq(Chains) /\ Append(queue[r], s.chain) \in Seq(Chains)
      BY <1>1, <2>1, <2>3
    <3>2. queue' = queue \/ queue' = [queue EXCEPT ![r] = Append(queue[r], s.chain)]
      BY <2>1
    <3> HIDE DEF r
    <3>3. QED
      BY <1>1, <3>1, <3>2
  <2>5. QED
    BY <1>1, <1>12, <2>1, <2>2, <2>4
<1>15. CASE SendExit(t)
  <2>1. /\ Table /\ Rcvs /\ UNCHANGED <<free_chains, send>> /\ pc[t] = "send_exit"
        /\ IF s.chain # NoChain THEN Moves("send_release") ELSE Moves("send_drop")
    BY <1>15 DEF SendExit, Dangling, Goto, table, slots, rcvs, memory, s
  <2>2. PICK l \in {"send_release", "send_drop"} :
          Moves(l) /\ (l = "send_release" <=> s.chain # NoChain)
    BY <2>1
  <2>3. SenderInv(t)'
    BY <1>0, <2>1, <2>2 DEF SenderInv, Unsent, Pends, HasChain, DispatchInside, DispatchOutside, s
  <2>4. QED
    BY <1>1, <1>2, <2>1, <2>2, <2>3, SenderMoves
<1>16. CASE SendRelease(t)
  <2>1. /\ Table /\ Rcvs /\ pc[t] = "send_release" /\ Moves("send_drop")
        /\ send' = [send EXCEPT ![t].chain = NoChain]
        /\ free_chains' = free_chains \cup {s.chain}
    BY <1>16 DEF SendRelease, PushChain, Step, Goto, bus, table, slots, rcvs, s
  <2>2. s.chain \in Chains
    BY <1>0, <1>1, <2>1 DEF SenderInv, HasChain, s
  <2>3. /\ Local /\ send'[t].pending = s.pending /\ send'[t].i = s.i /\ send'[t].chain = NoChain
        /\ send'[t].msg = s.msg
    BY <1>1, <2>1 DEF SendLocals, s
  <2>4. SenderInv(t)'
    BY <1>0, <1>1, <2>1, <2>3
    DEF SenderInv, Unsent, Pends, HasChain, DispatchInside, DispatchOutside, s
  <2>5. free_chains' \subseteq Chains
    BY <1>1, <2>1, <2>2
  <2>6. QED
    BY <1>1, <2>1, <2>3, <2>4, <2>5, SenderMoves
<1>17. QED
  BY <1>6, <1>7, <1>8, <1>9, <1>10, <1>11, <1>13, <1>14, <1>15, <1>16 DEF SendStep

\* A step of the connecting thread that leaves the table alone.
LEMMA CdcStays ==
  ASSUME HazardInv, NEW l \in CdcPlaces, pc \in [Threads -> Labels],
         pc' = [pc EXCEPT ![Cdc] = l], UNCHANGED <<receivers, send>>,
         \A t \in Readers : disp'[t] = disp[t],
         \A t \in Readers : Latched(t) =>
           disp[t].rcv \in Registered' /\ "dispatch" \in hazard'[disp[t].rcv],
         BusTypes', CdcInv'
  PROVE  HazardInv'
<1>1. \A t \in Readers : pc'[t] = pc[t] /\ t \in Threads
  BY ThreadFacts
<1>2. \A t \in Readers : ReaderInv(t)' /\ Latched(t)' = Latched(t)
  BY <1>1 DEF HazardInv, ReaderInv, Latched
<1>3. \A t \in Senders : SenderInv(t)'
  BY <1>1, ThreadFacts DEF HazardInv, SenderInv
<1>4. QED
  BY <1>2, <1>3 DEF HazardInv

\* The local variables of the connecting thread.
LEMMA CdcLocals ==
  ASSUME disp \in [Threads -> DispatchLocals], NEW v \in Receivers \cup {0}, NEW m \in Seq(Chains),
         \/ disp' = [disp EXCEPT ![Cdc].rcv = v] /\ m = disp[Cdc].msgs
         \/ disp' = [disp EXCEPT ![Cdc].msgs = m, ![Cdc].rcv = v]
         \/ disp' = [disp EXCEPT ![Cdc].msgs = m] /\ v = disp[Cdc].rcv
  PROVE  /\ disp' \in [Threads -> DispatchLocals] /\ \A t \in Readers : disp'[t] = disp[t]
         /\ disp'[Cdc].rcv = v /\ disp'[Cdc].msgs = m
<1>1. Cdc \in Threads /\ \A t \in Readers : t # Cdc /\ t \in Threads
  BY ThreadFacts
<1>2. disp[Cdc] \in DispatchLocals
  BY <1>1
<1>3. \/ disp'[Cdc] = [disp[Cdc] EXCEPT !.rcv = v] /\ m = disp[Cdc].msgs
      \/ disp'[Cdc] = [disp[Cdc] EXCEPT !.msgs = m, !.rcv = v]
      \/ disp'[Cdc] = [disp[Cdc] EXCEPT !.msgs = m] /\ v = disp[Cdc].rcv
  BY <1>1
<1>4. disp'[Cdc] \in DispatchLocals /\ disp'[Cdc].rcv = v /\ disp'[Cdc].msgs = m
  BY <1>2, <1>3, ZenonT(30) DEF DispatchLocals
<1>5. \A t \in Threads : t # Cdc => disp'[t] = disp[t]
  <2>1. CASE disp' = [disp EXCEPT ![Cdc].rcv = v]
    BY <2>1
  <2>2. CASE disp' = [disp EXCEPT ![Cdc].msgs = m, ![Cdc].rcv = v]
    BY <2>2
  <2>3. CASE disp' = [disp EXCEPT ![Cdc].msgs = m]
    BY <2>3
  <2>4. QED
    BY <2>1, <2>2, <2>3
<1>6. DOMAIN disp' = Threads /\ disp' = [t \in Threads |-> disp'[t]]
  <2>1. CASE disp' = [disp EXCEPT ![Cdc].rcv = v]
    BY <2>1
  <2>2. CASE disp' = [disp EXCEPT ![Cdc].msgs = m, ![Cdc].rcv = v]
    BY <2>2
  <2>3. CASE disp' = [disp EXCEPT ![Cdc].msgs = m]
    BY <2>3
  <2>4. QED
    BY <2>1, <2>2, <2>3
<1>7. \A t \in Threads : disp'[t] \in DispatchLocals
  BY <1>4, <1>5
<1>8. QED
  BY <1>1, <1>4, <1>5, <1>6, <1>7

\* cncbus_connect and cncbus_disconnect change the table by one receiver.
LEMMA TableChanges ==
  ASSUME NEW r \in Receivers, receivers \in Seq(Receivers), IsInjective(receivers)
  PROVE  /\ r \in Range(receivers) =>
              /\ Removed(r) \in Seq(Receivers) /\ IsInjective(Removed(r))
              /\ Range(Removed(r)) = Range(receivers) \ {r}
         /\ r \notin Range(receivers) =>
              /\ Inserted(r) \in Seq(Receivers) /\ IsInjective(Inserted(r))
              /\ Range(Inserted(r)) = Range(receivers) \cup {r}
<1>2. receivers \in Seq(Receivers) /\ IsInjective(receivers)
  OBVIOUS
<1>3. r \in Range(receivers) =>
        /\ Removed(r) \in Seq(Receivers) /\ IsInjective(Removed(r))
        /\ Range(Removed(r)) = Range(receivers) \ {r}
  <2>1. SUFFICES ASSUME r \in Range(receivers)
                 PROVE  /\ Removed(r) \in Seq(Receivers) /\ IsInjective(Removed(r))
                        /\ Range(Removed(r)) = Range(receivers) \ {r}
    OBVIOUS
  <2>2. \E i \in DOMAIN receivers : receivers[i] = r
    BY <2>1 DEF Range
  <2>3. Position(r) \in DOMAIN receivers /\ receivers[Position(r)] = r
    BY <2>2 DEF Position
  <2>4. Position(r) \in 1 .. Len(receivers)
    BY <1>2, <2>3
  <2>5. \A i \in 1 .. Len(receivers) :
          /\ RemoveAt(receivers, i) \in Seq(Receivers) /\ IsInjective(RemoveAt(receivers, i))
          /\ Range(RemoveAt(receivers, i)) = Range(receivers) \ {receivers[i]}
    BY <1>2, RemovedOf, Zenon
  <2>6. QED
    BY <2>3, <2>4, <2>5 DEF Removed
<1>4. r \notin Range(receivers) =>
        /\ Inserted(r) \in Seq(Receivers) /\ IsInjective(Inserted(r))
        /\ Range(Inserted(r)) = Range(receivers) \cup {r}
  <2>1. LowerBound(r) \in 1 .. Len(receivers) + 1
    <3> DEFINE before == {i \in DOMAIN receivers : receivers[i] > r}
    <3>1. Len(receivers) \in Nat /\ DOMAIN receivers = 1 .. Len(receivers)
      BY <1>2
    <3>2. before \in SUBSET (1 .. Len(receivers))
      BY <3>1
    <3>3. IsFiniteSet(before) /\ Cardinality(before) <= Len(receivers)
      <4>3. \A n \in Nat : IsFiniteSet(1 .. n) /\ Cardinality(1 .. n) = n
        <5>1. TAKE n \in Nat
        <5>2. QED
          BY FS_Interval
      <4>1. IsFiniteSet(1 .. Len(receivers)) /\ Cardinality(1 .. Len(receivers)) = Len(receivers)
        BY <3>1, <4>3
      <4> HIDE DEF before
      <4>2. QED
        BY <3>2, <4>1, FS_Subset
    <3>4. Cardinality(before) \in Nat
      BY <3>3, FS_CardinalityType
    <3>5. QED
      BY <3>1, <3>3, <3>4 DEF LowerBound
  <2>2. QED
    BY <1>2, <2>1, InsertedOf DEF Inserted
<1>5. QED
  BY <1>3, <1>4

\* cncbus_connect and cncbus_disconnect, and the release of what a disconnect drops.
LEMMA CdcSteps ==
  ASSUME HazardInv, ExclusionInv, CdcNext \/ ReleaseStep(Cdc)
  PROVE  HazardInv'
<1> DEFINE d == disp[Cdc]
           Moves(l) == pc' = [pc EXCEPT ![Cdc] = l]
           Local == /\ disp' \in [Threads -> DispatchLocals]
                    /\ \A t \in Readers : disp'[t] = disp[t]
<1> USE DEF CdcPlaces
<1>0. /\ pc \in [Threads -> Labels] /\ Cdc \in Threads /\ Readers \subseteq Threads /\ Cdc \notin Readers
      /\ BusTypes /\ CdcInv /\ \A t \in Readers : ReaderInv(t)
  BY ThreadFacts DEF ExclusionInv, HazardInv
<1>1. /\ disp \in [Threads -> DispatchLocals] /\ d.rcv \in Receivers \cup {0} /\ d.msgs \in Seq(Chains)
      /\ receivers \in Seq(Receivers) /\ IsInjective(receivers) /\ Range(receivers) \subseteq Receivers
      /\ 0 \notin Receivers /\ free_chains \subseteq Chains
      /\ hazard \in [Receivers -> SUBSET Bits] /\ queue \in [Receivers -> Seq(Chains)]
  BY <1>0, ReceiversAssumption, MembersOf DEF BusTypes, DispatchLocals
<1>2. \A t \in Readers : Latched(t) => /\ disp[t].rcv \in Receivers /\ disp[t].rcv \in Registered
                                       /\ "dispatch" \in hazard[disp[t].rcv]
  BY <1>0 DEF ReaderInv
<1>3. Registered = Range(receivers) \cup {d.rcv}
  BY DEF Registered
<1>4. ASSUME NEW v \in Receivers \cup {0}, disp' = [disp EXCEPT ![Cdc].rcv = v]
      PROVE  Local /\ disp'[Cdc].rcv = v /\ disp'[Cdc].msgs = d.msgs
  BY <1>1, <1>4, CdcLocals
<1>13. ASSUME NEW v \in Receivers \cup {0}, NEW m \in Seq(Chains),
              disp' = [disp EXCEPT ![Cdc].msgs = m, ![Cdc].rcv = v]
       PROVE  Local /\ disp'[Cdc].rcv = v /\ disp'[Cdc].msgs = m
  BY <1>1, <1>13, CdcLocals
<1>14. ASSUME NEW m \in Seq(Chains), disp' = [disp EXCEPT ![Cdc].msgs = m]
       PROVE  Local /\ disp'[Cdc].rcv = d.rcv /\ disp'[Cdc].msgs = m
  BY <1>1, <1>14, CdcLocals
<1> HIDE DEF d
<1>5. ASSUME NEW r \in Receivers, Connect(r) PROVE HazardInv'
  <2>1. /\ pc[Cdc] = "idle" /\ Moves("store") /\ r \notin Range(receivers)
        /\ hazard' = [hazard EXCEPT ![r] = {}] /\ queue' = [queue EXCEPT ![r] = <<>>]
        /\ disp' = [disp EXCEPT ![Cdc].rcv = r]
        /\ UNCHANGED <<receivers, next_dispatch_slot, free_chains, send>>
    BY <1>5 DEF Connect, Step, Goto, bus, table, slots, memory
  <2>2. Local /\ disp'[Cdc].rcv = r /\ disp'[Cdc].msgs = d.msgs /\ d.rcv = 0
    BY <1>0, <1>4, <2>1 DEF CdcInv, d
  <2>3. hazard' \in [Receivers -> SUBSET Bits] /\ queue' \in [Receivers -> Seq(Chains)]
    BY <1>1, <2>1
  <2>4. BusTypes'
    BY <1>0, <2>1, <2>2, <2>3 DEF BusTypes
  <2>5. CdcInv'
    BY <1>0, <1>1, <2>1, <2>2 DEF CdcInv, d
  <2>6. \A t \in Readers : Latched(t) =>
          disp[t].rcv \in Registered' /\ "dispatch" \in hazard'[disp[t].rcv]
    BY <1>1, <1>2, <1>3, <2>1, <2>2 DEF Registered
  <2>7. QED
    BY <1>0, <2>1, <2>2, <2>4, <2>5, <2>6, CdcStays
<1>6. ASSUME NEW r \in Receivers, Disconnect(r) PROVE HazardInv'
  <2>1. /\ pc[Cdc] = "idle" /\ Moves("store") /\ r \in Range(receivers)
        /\ hazard' = [hazard EXCEPT ![r] = @ \cup {"destroyed"}]
        /\ disp' = [disp EXCEPT ![Cdc].rcv = r]
        /\ UNCHANGED <<receivers, next_dispatch_slot, free_chains, queue, send>>
    BY <1>6 DEF Disconnect, Step, Goto, bus, table, slots, memory
  <2>2. Local /\ disp'[Cdc].rcv = r /\ disp'[Cdc].msgs = d.msgs /\ d.rcv = 0
    BY <1>0, <1>4, <2>1 DEF CdcInv, d
  <2>3. hazard' \in [Receivers -> SUBSET Bits] /\ \A x \in Receivers : hazard[x] \subseteq hazard'[x]
    BY <1>1, <2>1 DEF Bits
  <2>4. BusTypes'
    BY <1>0, <2>1, <2>2, <2>3 DEF BusTypes
  <2>5. CdcInv'
    BY <1>0, <1>1, <2>1, <2>2 DEF CdcInv, d
  <2>6. \A t \in Readers : Latched(t) =>
          disp[t].rcv \in Registered' /\ "dispatch" \in hazard'[disp[t].rcv]
    BY <1>1, <1>2, <1>3, <2>1, <2>2, <2>3 DEF Registered
  <2>7. QED
    BY <1>0, <2>1, <2>2, <2>4, <2>5, <2>6, CdcStays
<1>7. CASE CdcStore \/ CdcWait \/ CdcExitDisconnect
  <2>1. /\ UNCHANGED <<receivers, next_dispatch_slot, free_chains, hazard, queue, disp, send>>
        /\ \/ pc[Cdc] = "store" /\ Moves("wait")
           \/ pc[Cdc] = "wait" /\ Moves("modify")
           \/ pc[Cdc] = "exit_disconnect" /\ Moves("quiesce")
    BY <1>7 DEF CdcStore, CdcWait, CdcExitDisconnect, Step, Goto, bus, table, slots, rcvs, memory
  <2>2. BusTypes' /\ Registered' = Registered
    BY <1>0, <2>1 DEF BusTypes, Registered
  <2>3. PICK l \in CdcPlaces : /\ Moves(l) /\ l \in {"wait", "modify", "quiesce"}
                               /\ l = "quiesce" => pc[Cdc] = "exit_disconnect"
    BY <2>1
  <2>4. CdcInv'
    BY <1>0, <2>1, <2>3 DEF CdcInv
  <2>5. QED
    BY <1>0, <1>2, <2>1, <2>2, <2>3, <2>4, CdcStays
<1>8. CASE CdcExitConnect
  <2>1. /\ pc[Cdc] = "exit_connect" /\ Moves("idle") /\ disp' = [disp EXCEPT ![Cdc].rcv = 0]
        /\ UNCHANGED <<receivers, next_dispatch_slot, free_chains, hazard, queue, send>>
    BY <1>8 DEF CdcExitConnect, Step, Goto, slots, rcvs, memory
  <2>2. Local /\ disp'[Cdc].rcv = 0 /\ disp'[Cdc].msgs = d.msgs /\ d.rcv \in Range(receivers)
    BY <1>0, <1>4, <2>1 DEF CdcInv, d
  <2>3. BusTypes' /\ Registered \subseteq Registered'
    BY <1>0, <1>3, <2>1, <2>2 DEF BusTypes, Registered
  <2>4. CdcInv'
    BY <1>0, <2>1, <2>2 DEF CdcInv, d
  <2>5. QED
    BY <1>0, <1>2, <2>1, <2>2, <2>3, <2>4, CdcStays
<1>9. CASE CdcQuiesce
  <2> DEFINE r == d.rcv
  <2>1. /\ pc[Cdc] = "quiesce" /\ hazard[r] = {"destroyed"}
        /\ disp' = [disp EXCEPT ![Cdc].msgs = queue[r], ![Cdc].rcv = 0]
        /\ queue' = [queue EXCEPT ![r] = <<>>]
        /\ IF queue[r] = <<>> THEN Moves("idle") ELSE Moves("release")
        /\ UNCHANGED <<receivers, next_dispatch_slot, free_chains, hazard, send>>
    BY <1>9 DEF CdcQuiesce, Quiesced, Goto, bus, table, slots, memory, d
  <2>2. r \in Receivers /\ queue[r] \in Seq(Chains) /\ r \notin Range(receivers)
    BY <1>0, <1>1, <2>1 DEF CdcInv, d
  <2>3. /\ Local /\ disp'[Cdc].rcv = 0 /\ disp'[Cdc].msgs = queue[r]
        /\ queue' \in [Receivers -> Seq(Chains)]
    <3>1. queue' \in [Receivers -> Seq(Chains)]
      <4>1. queue' = [queue EXCEPT ![r] = <<>>]
        BY <2>1
      <4> HIDE DEF r
      <4>2. QED
        BY <1>1, <4>1, EmptySeq
    <3>2. Local /\ disp'[Cdc].rcv = 0 /\ disp'[Cdc].msgs = queue[r]
      <4> DEFINE q == queue[r]
      <4>1. q \in Seq(Chains) /\ disp' = [disp EXCEPT ![Cdc].msgs = q, ![Cdc].rcv = 0]
        BY <2>1, <2>2
      <4> HIDE DEF q
      <4>2. Local /\ disp'[Cdc].rcv = 0 /\ disp'[Cdc].msgs = q
        BY <1>13, <4>1
      <4>3. QED
        BY <4>2 DEF q
    <3>3. QED
      BY <3>1, <3>2
  <2>4. BusTypes'
    BY <1>0, <2>1, <2>3 DEF BusTypes
  <2>5. PICK l \in {"idle", "release"} : Moves(l) /\ (l = "idle" <=> queue[r] = <<>>)
    BY <2>1
  <2>6. CdcInv'
    BY <1>0, <2>1, <2>3, <2>5 DEF CdcInv
  <2>7. \A t \in Readers : Latched(t) => disp[t].rcv \in Registered'
    BY <1>2, <1>3, <2>1, <2>2 DEF Registered
  <2>8. QED
    BY <1>0, <1>2, <2>1, <2>3, <2>4, <2>5, <2>6, <2>7, CdcStays
<1>10. CASE CdcModify
  <2> DEFINE r == d.rcv
  <2>1. /\ pc[Cdc] = "modify"
        /\ \/ r \in Range(receivers) /\ receivers' = Removed(r) /\ Moves("exit_disconnect")
           \/ r \notin Range(receivers) /\ receivers' = Inserted(r) /\ Moves("exit_connect")
        /\ UNCHANGED <<next_dispatch_slot, free_chains, hazard, queue, disp, send>>
    BY <1>10 DEF CdcModify, Goto, rcvs, memory, d
  <2>2. r \in Receivers
    BY <1>0, <1>1, <2>1 DEF CdcInv, d
  <2>3. r \in Range(receivers) =>
          /\ Removed(r) \in Seq(Receivers) /\ IsInjective(Removed(r))
          /\ Range(Removed(r)) = Range(receivers) \ {r}
    BY <1>1, <2>2, TableChanges
  <2>4. r \notin Range(receivers) =>
          /\ Inserted(r) \in Seq(Receivers) /\ IsInjective(Inserted(r))
          /\ Range(Inserted(r)) = Range(receivers) \cup {r}
    BY <1>1, <2>2, TableChanges
  <2>5. /\ receivers' \in Seq(Receivers) /\ IsInjective(receivers')
        /\ Range(receivers') \cup {r} = Range(receivers) \cup {r}
    BY <2>1, <2>3, <2>4
  <2>6. BusTypes' /\ Registered' = Registered
    BY <1>0, <1>3, <2>1, <2>5 DEF BusTypes, Registered, d
  <2>7. CdcInv'
    BY <1>0, <2>1, <2>2, <2>3, <2>4 DEF CdcInv, d
  <2>8. \A t \in Readers : ~ReadsTable(t) /\ pc'[t] = pc[t]
    BY <1>0, <2>1 DEF ExclusionInv, ReadersExcludeCdc, WritesTable
  <2>9. \A t \in Readers : ReaderInv(t)' /\ Latched(t)' = Latched(t)
    BY <1>0, <2>1, <2>6, <2>8 DEF ReaderInv, Latched, ReadsTable
  <2>10. ASSUME NEW t \in Senders PROVE SenderInv(t)'
    <3>1. t \in Readers /\ SenderInv(t) /\ pc[t] \notin Pends
      BY <2>8, <2>10, ThreadFacts DEF HazardInv, ReadsTable, Pends, SendInside
    <3>2. send[t].pending = <<>>
      BY <3>1 DEF SenderInv
    <3>3. Range(send'[t].pending) \subseteq Range(receivers')
      BY <2>1, <3>2, EmptyList
    <3>4. QED
      BY <2>1, <2>8, <3>1, <3>3 DEF SenderInv
  <2>11. QED
    BY <2>1, <2>6, <2>7, <2>9, <2>10 DEF HazardInv
<1>11. CASE ReleaseStep(Cdc)
  <2> DEFINE rest == Tail(d.msgs)
  <2>1. /\ pc[Cdc] \in {"release", "release_chain"}
        /\ UNCHANGED <<receivers, next_dispatch_slot, hazard, queue, send>>
    BY <1>11, Zenon DEF ReleaseStep, ReleaseReference, ReleaseChain, Step, bus, table, slots, rcvs
  <2>2. /\ d.msgs # <<>> /\ Head(d.msgs) \in Chains /\ rest \in Seq(Chains) /\ d.rcv = 0
        /\ Len(rest) = Len(d.msgs) - 1 /\ Len(d.msgs) \in Nat
    BY <1>0, <1>1, <2>1 DEF CdcInv, d
  <2>3. /\ Local /\ disp'[Cdc].rcv = d.rcv /\ free_chains' \subseteq Chains
        /\ \E l \in {"release", "release_chain", "idle"} :
             Moves(l) /\ (l = "idle" <=> disp'[Cdc].msgs = <<>>)
    <3>1. CASE ReleaseReference(Cdc)
      BY <1>1, <2>2, <3>1, SMTT(30) DEF ReleaseReference, Step, Goto, d
    <3>2. CASE ReleaseChain(Cdc)
      <4>1. /\ disp' = [disp EXCEPT ![Cdc].msgs = rest]
            /\ free_chains' = free_chains \cup {Head(d.msgs)}
            /\ \/ Len(d.msgs) > 1 /\ Moves("release")
               \/ Len(d.msgs) = 1 /\ Moves("idle")
        BY <3>2 DEF ReleaseChain, PushChain, Goto, d
      <4>3. free_chains' \subseteq Chains
        BY <1>1, <2>2, <4>1
      <4> HIDE DEF rest
      <4>2. (rest = <<>>) <=> (Len(d.msgs) = 1)
        <5>1. rest = <<>> => Len(rest) = 0
          BY EmptySeq
        <5>2. rest # <<>> => Len(rest) \in Nat \ {0}
          BY <2>2, EmptySeq
        <5>3. QED
          BY <2>2, <5>1, <5>2
      <4>4. Local /\ disp'[Cdc].rcv = d.rcv /\ disp'[Cdc].msgs = rest
        BY <1>14, <2>2, <4>1
      <4>5. \/ Moves("release") /\ rest # <<>>
            \/ Moves("idle") /\ rest = <<>>
        BY <2>2, <4>1, <4>2
      <4>6. QED
        BY <4>3, <4>4, <4>5
    <3>3. QED
      BY <1>11, <3>1, <3>2 DEF ReleaseStep
  <2>4. PICK l \in {"release", "release_chain", "idle"} :
          Moves(l) /\ (l = "idle" <=> disp'[Cdc].msgs = <<>>)
    BY <2>3
  <2>5. BusTypes' /\ Registered' = Registered
    BY <1>0, <1>3, <2>1, <2>3 DEF BusTypes, Registered
  <2>6. CdcInv'
    BY <1>0, <2>1, <2>2, <2>3, <2>4 DEF CdcInv
  <2>7. QED
    BY <1>0, <1>2, <2>1, <2>3, <2>4, <2>5, <2>6, CdcStays
<1>12. QED
  BY <1>5, <1>6, <1>7, <1>8, <1>9, <1>10, <1>11 DEF CdcNext, CdcStep

\* The homes, and what they hold.
LEMMA HomesAre ==
  /\ \A r \in Receivers : <<"queue", r>> \in Homes /\ Held(<<"queue", r>>) = Range(queue[r])
  /\ \A t \in Threads : <<"hands", t>> \in Homes /\ Held(<<"hands", t>>) = Range(disp[t].msgs)
  /\ \A t \in Senders : /\ <<"sender", t>> \in Homes
                        /\ Held(<<"sender", t>>) = {send[t].chain} \ {NoChain}
  /\ <<"free", 0>> \in Homes /\ Held(<<"free", 0>>) = free_chains
  /\ \A h \in Homes : \/ \E r \in Receivers : h = <<"queue", r>>
                      \/ \E t \in Threads : h = <<"hands", t>>
                      \/ \E t \in Senders : h = <<"sender", t>>
                      \/ h = <<"free", 0>>
BY DEF Homes, Held

\* The homes of chains after a step, one by one.
LEMMA HomesArePrimed ==
  /\ \A r \in Receivers : Held(<<"queue", r>>)' = Range(queue'[r])
  /\ \A t \in Threads : Held(<<"hands", t>>)' = Range(disp'[t].msgs)
  /\ \A t \in Senders : Held(<<"sender", t>>)' = {send'[t].chain} \ {NoChain}
  /\ Held(<<"free", 0>>)' = free_chains'
BY DEF Held

\* Every chain has one home.
OneHome ==
  /\ \A c \in Chains : \E h \in Homes : c \in Held(h)
  /\ \A h, g \in Homes : h # g => Held(h) \cap Held(g) = {}

\* Chains move from home h to home g.
LEMMA ChainsMove ==
  ASSUME OneHome, NEW h \in Homes, NEW g \in Homes, h # g, NEW M, M \subseteq Held(h),
         Held(h)' = Held(h) \ M, Held(g)' = Held(g) \cup M,
         \A x \in Homes : x # h /\ x # g => Held(x)' = Held(x)
  PROVE  OneHome'
<1>1. ASSUME NEW c \in Chains PROVE \E x \in Homes : c \in Held(x)'
  <2>1. PICK x \in Homes : c \in Held(x)
    BY DEF OneHome
  <2>2. CASE x = h /\ c \in M
    BY <2>2
  <2>3. CASE ~(x = h /\ c \in M)
    BY <2>1, <2>3
  <2>4. QED
    BY <2>2, <2>3
<1>2. ASSUME NEW x \in Homes, NEW y \in Homes, x # y PROVE Held(x)' \cap Held(y)' = {}
  <2>1. Held(x) \cap Held(y) = {} /\ Held(x) \cap Held(h) \subseteq (IF x = h THEN Held(h) ELSE {})
        /\ Held(y) \cap Held(h) \subseteq (IF y = h THEN Held(h) ELSE {})
    BY <1>2 DEF OneHome
  <2>2. CASE x = g
    BY <1>2, <2>1, <2>2
  <2>3. CASE y = g
    BY <1>2, <2>1, <2>3
  <2>4. CASE x # g /\ y # g
    BY <1>2, <2>1, <2>4
  <2>5. QED
    BY <2>2, <2>3, <2>4
<1>3. Homes' = Homes
  BY DEF Homes
<1>4. QED
  BY <1>1, <1>2, <1>3 DEF OneHome

\* What a step does not do to the chains that moves none.
ChainsStay ==
  /\ UNCHANGED <<queue, free_chains>> /\ Registered \cap Receivers \subseteq Registered'
  /\ \A t \in Threads : disp'[t].msgs = disp[t].msgs
  /\ \A t \in Senders : send'[t].chain = send[t].chain

\* A step that moves no chain.
LEMMA ChainsStayHome == ASSUME ChainInv, ChainsStay PROVE ChainInv'
<1>1. ASSUME NEW h \in Homes PROVE Held(h)' = Held(h)
  <2>1. ASSUME NEW r \in Receivers, h = <<"queue", r>> PROVE Held(h)' = Held(h)
    BY <2>1 DEF ChainsStay, Held
  <2>2. ASSUME NEW t \in Threads, h = <<"hands", t>> PROVE Held(h)' = Held(h)
    BY <2>2 DEF ChainsStay, Held
  <2>3. ASSUME NEW t \in Senders, h = <<"sender", t>> PROVE Held(h)' = Held(h)
    BY <2>3 DEF ChainsStay, Held
  <2>4. CASE h = <<"free", 0>>
    BY <2>4 DEF ChainsStay, Held
  <2>5. QED
    BY <2>1, <2>2, <2>3, <2>4, HomesAre
<1>2. Homes' = Homes
  BY DEF Homes
<1>3. QED
  BY <1>1, <1>2 DEF ChainInv, ChainsStay

\* The steps of the readers that move no chain.
LEMMA ReadersLeaveChains ==
  ASSUME HazardInv, ExclusionInv, NEW t \in Readers,
         DispatchBegin(t) \/ DispatchStep(t) \/ ReleaseReference(t), ~DispatchDetach(t)
  PROVE  ChainsStay
<1>1. /\ t \in Threads /\ t # Cdc /\ Senders \subseteq Threads /\ Cdc \in Threads
      /\ disp \in [Threads -> DispatchLocals] /\ ReaderInv(t)
  BY ThreadFacts DEF HazardInv, BusTypes
<1>2. UNCHANGED <<queue, free_chains, send, receivers>>
  BY Zenon DEF DispatchBegin, DispatchStep, ReleaseReference, DispatchReenter, DispatchTest, DispatchUndo,
         DispatchPick, DispatchEnd, DispatchTry, DispatchLeave, DispatchLock, DispatchNothing,
         DispatchDeliver, DispatchDone, DispatchReturn, bus, table, slots, rcvs, memory
<1>3. IdleDispatch.msgs = <<>>
  BY DEF IdleDispatch
<1>4. \A u \in Threads : disp'[u].msgs = disp[u].msgs /\ (u # t => disp'[u] = disp[u])
  <2>1. CASE \/ DispatchReenter(t) \/ DispatchLeave(t) \/ DispatchLock(t) \/ DispatchDeliver(t)
             \/ ReleaseReference(t)
    BY <2>1, Zenon DEF DispatchReenter, DispatchLeave, DispatchLock, DispatchDeliver, ReleaseReference
  <2>2. CASE DispatchBegin(t)
    BY <1>1, <2>2 DEF DispatchBegin, DispatchLocals
  <2>3. CASE DispatchTest(t)
    BY <1>1, <2>3 DEF DispatchTest, DispatchLocals
  <2>4. ASSUME disp[t].msgs = <<>>, DispatchReturn(t)
        PROVE  \A u \in Threads : disp'[u].msgs = disp[u].msgs /\ (u # t => disp'[u] = disp[u])
    BY <1>1, <1>3, <2>4 DEF DispatchReturn
  <2>5. CASE DispatchUndo(t) \/ DispatchEnd(t)
    BY <1>1, <2>4, <2>5 DEF DispatchUndo, DispatchEnd, ReaderInv, Delivers
  <2>6. CASE DispatchPick(t)
    BY <1>1, <2>6 DEF DispatchPick, DispatchLocals
  <2>7. CASE DispatchTry(t)
    <3>1. \/ disp' = [disp EXCEPT ![t].all_busy = FALSE]
          \/ disp' = [disp EXCEPT ![t].i = @ + 1, ![t].rcv = 0]
      BY <2>7 DEF DispatchTry
    <3>2. CASE disp' = [disp EXCEPT ![t].all_busy = FALSE]
      BY <1>1, <3>2 DEF DispatchLocals
    <3>3. QED
      BY <1>1, <3>1, <3>2, NextReceiver, Zenon
  <2>8. CASE DispatchNothing(t)
    BY <1>1, <2>8, NextReceiver, Zenon DEF DispatchNothing
  <2>9. CASE DispatchDone(t)
    <3>1. \/ disp' = [disp EXCEPT ![t].i = @ + 1, ![t].rcv = 0, ![t].result = "ok"]
          \/ DispatchReturn(t)
      BY <2>9 DEF DispatchDone
    <3>2. disp[t].msgs = <<>>
      BY <1>1, <2>9 DEF DispatchDone, ReaderInv, Delivers
    <3>3. QED
      BY <1>1, <2>4, <3>1, <3>2, NextReceiver, Zenon
  <2>10. QED
    BY <2>1, <2>2, <2>3, <2>5, <2>6, <2>7, <2>8, <2>9 DEF DispatchStep
<1>5. Registered' = Registered
  BY <1>1, <1>2, <1>4 DEF Registered
<1>6. QED
  BY <1>1, <1>2, <1>4, <1>5 DEF ChainsStay

\* The steps of the senders that move no chain.
LEMMA SendersLeaveChains ==
  ASSUME HazardInv, ExclusionInv, NEW t \in Senders, MsgBegin(t) \/ SendStep(t),
         ~SendGetChain(t), ~SendEnqueue(t), ~SendRelease(t)
  PROVE  ChainsStay
<1>1. /\ t \in Threads /\ send \in [Senders -> SendLocals] /\ SenderInv(t) /\ send[t] \in SendLocals
      /\ BusTypes
  BY ThreadFacts DEF HazardInv, BusTypes
<1>2. UNCHANGED <<queue, free_chains, disp, receivers>>
  BY Zenon DEF MsgBegin, SendStep, SendEnter, SendTest, SendUndo, SendCollect, SendToNobody, SendNoChain,
         SendTry, SendClear, SendExit, SendDrop, bus, table, slots, rcvs, memory
<1>3. \A u \in Senders : send'[u].chain = send[u].chain
  <2>1. CASE SendEnter(t) \/ SendTest(t) \/ SendUndo(t) \/ SendNoChain(t) \/ SendExit(t)
    BY <2>1 DEF SendEnter, SendTest, SendUndo, SendNoChain, SendExit
  <2>2. CASE MsgBegin(t)
    BY <1>1, <2>2 DEF MsgBegin, SendLocals
  <2>3. CASE SendCollect(t)
    <3>1. PICK p \in Seq(Receivers) : send' = [send EXCEPT ![t].pending = p]
      BY <1>1, <2>3, Collected
    <3>2. QED
      BY <1>1, <3>1 DEF SendLocals
  <2>4. CASE SendToNobody(t) \/ SendDrop(t)
    <3>1. /\ send' = [send EXCEPT ![t] = IdleSend]
          /\ pc[t] \in {"send_collect", "send_drop"}
      BY <2>4 DEF SendToNobody, SendDrop, Step
    <3>2. send[t].chain = NoChain
      BY <1>1, <3>1 DEF SenderInv, HasChain
    <3>3. QED
      BY <1>1, <3>1, <3>2 DEF IdleSend
  <2>5. ASSUME Dropped(t, send[t].chain), pc[t] \in {"send_try", "send_clear"}
        PROVE  \A u \in Senders : send'[u].chain = send[u].chain
    <3>1. send[t].pending # <<>> /\ send[t].chain \in Chains \cup {NoChain}
      BY <1>1, <2>5 DEF SenderInv, Pends, SendLocals
    <3>2. send' = [send EXCEPT ![t] = send'[t]] /\ send'[t].chain = send[t].chain
      BY <1>1, <2>5, <3>1, DroppedLocals, Zenon
    <3>3. QED
      BY <1>1, <3>2
  <2>6. CASE SendTry(t)
    <3>1. CASE UNCHANGED send
      BY <3>1
    <3>2. CASE send' = [send EXCEPT ![t].i = Wrap(@ + 1, Len(send[t].pending))]
      BY <1>1, <3>2 DEF SendLocals
    <3>3. QED
      BY <2>5, <2>6, <3>1, <3>2, Zenon DEF SendTry
  <2>7. CASE SendClear(t)
    BY <2>5, <2>7 DEF SendClear
  <2>8. QED
    BY <2>1, <2>2, <2>3, <2>4, <2>6, <2>7 DEF SendStep
<1>4. QED
  BY <1>2, <1>3 DEF ChainsStay, Registered

\* The steps of the connecting thread that move no chain.
LEMMA CdcLeavesChains ==
  ASSUME HazardInv, ExclusionInv, ChainInv, CdcNext \/ ReleaseReference(Cdc), ~CdcQuiesce
  PROVE  ChainsStay
<1>0. /\ Cdc \in Threads /\ Cdc \notin Readers /\ disp \in [Threads -> DispatchLocals] /\ CdcInv
      /\ BusTypes /\ queue \in [Receivers -> Seq(Chains)] /\ disp[Cdc].msgs \in Seq(Chains)
      /\ receivers \in Seq(Receivers) /\ 0 \notin Receivers
      /\ \A t \in Threads : t # Cdc => t \in Readers
  BY ThreadFacts, ReceiversAssumption DEF HazardInv, BusTypes, DispatchLocals, Threads
<1>1. /\ UNCHANGED <<free_chains, send>>
  BY DEF CdcNext, CdcStep, CdcStore, CdcWait, CdcModify, CdcExitConnect, CdcExitDisconnect, Connect,
         Disconnect, ReleaseReference, memory
<1>2. ASSUME NEW v \in Receivers \cup {0}, disp' = [disp EXCEPT ![Cdc].rcv = v]
      PROVE  (\A t \in Threads : disp'[t].msgs = disp[t].msgs) /\ disp'[Cdc].rcv = v
  BY <1>0, <1>2, CdcLocals, Zenon
<1>3. CASE \E r \in Receivers : Connect(r) \/ Disconnect(r)
  <2>1. PICK r \in Receivers : Connect(r) \/ Disconnect(r)
    BY <1>3
  <2>2. /\ pc[Cdc] = "idle" /\ disp' = [disp EXCEPT ![Cdc].rcv = r] /\ receivers' = receivers
        /\ \/ queue' = queue
           \/ r \notin Range(receivers) /\ queue' = [queue EXCEPT ![r] = <<>>]
    BY <2>1 DEF Connect, Disconnect, Step, bus, table, slots
  <2>3. Registered = Range(receivers) \cup {0} /\ Registered' = Range(receivers) \cup {r}
    BY <1>0, <1>2, <2>2 DEF CdcInv, Registered
  <2>4. queue' = queue
    <3>1. CASE r \notin Range(receivers)
      <4>1. r \notin Registered
        BY <1>0, <2>3, <3>1
      <4>2. queue[r] = <<>>
        BY <4>1 DEF ChainInv
      <4>3. QED
        BY <1>0, <2>2, <4>2
    <3>2. QED
      BY <2>2, <3>1
  <2>5. \A t \in Threads : disp'[t].msgs = disp[t].msgs
    BY <1>2, <2>2
  <2>6. QED
    BY <1>0, <1>1, <2>3, <2>4, <2>5 DEF ChainsStay
<1>4. ASSUME UNCHANGED <<queue, disp>>, Registered \subseteq Registered' PROVE ChainsStay
  BY <1>1, <1>4 DEF ChainsStay
<1>5. CASE CdcStore \/ CdcWait \/ CdcExitDisconnect \/ ReleaseReference(Cdc)
  <2>1. UNCHANGED <<queue, disp, receivers>>
    BY <1>5, Zenon DEF CdcStore, CdcWait, CdcExitDisconnect, ReleaseReference, bus, table, slots, rcvs
  <2>2. QED
    BY <1>4, <2>1 DEF Registered
<1>6. CASE CdcExitConnect
  <2>1. /\ pc[Cdc] = "exit_connect" /\ disp' = [disp EXCEPT ![Cdc].rcv = 0]
        /\ UNCHANGED <<queue, receivers>>
    BY <1>6 DEF CdcExitConnect, Step, slots, rcvs
  <2>2. Registered \subseteq Registered'
    BY <1>0, <2>1 DEF CdcInv, Registered
  <2>3. QED
    BY <1>1, <1>2, <2>1, <2>2 DEF ChainsStay
<1>7. CASE CdcModify
  <2> DEFINE r == disp[Cdc].rcv
  <2>1. /\ UNCHANGED <<queue, disp>> /\ pc[Cdc] = "modify"
        /\ receivers' = IF r \in Range(receivers) THEN Removed(r) ELSE Inserted(r)
    BY <1>7 DEF CdcModify, rcvs
  <2>2. r \in Receivers
    BY <1>0, <2>1 DEF CdcInv, DispatchLocals
  <2>3. Range(receivers') \cup {r} = Range(receivers) \cup {r}
    BY <1>0, <2>1, <2>2, TableChanges DEF BusTypes
  <2>4. QED
    BY <1>4, <2>1, <2>3 DEF Registered
<1>8. QED
  BY <1>3, <1>5, <1>6, <1>7 DEF CdcNext, CdcStep

\* The homes from which and to which no chain moves.
LEMMA HomesStay ==
  ASSUME NEW h, NEW g,
         \A r \in Receivers : <<"queue", r>> \notin {h, g} => queue'[r] = queue[r],
         \A t \in Threads : <<"hands", t>> \notin {h, g} => disp'[t].msgs = disp[t].msgs,
         \A t \in Senders : <<"sender", t>> \notin {h, g} => send'[t].chain = send[t].chain,
         <<"free", 0>> \notin {h, g} => free_chains' = free_chains
  PROVE  \A x \in Homes : x # h /\ x # g => Held(x)' = Held(x)
<1> SUFFICES ASSUME NEW x \in Homes, x # h, x # g PROVE Held(x)' = Held(x)
  OBVIOUS
<1>1. ASSUME NEW r \in Receivers, x = <<"queue", r>> PROVE Held(x)' = Held(x)
  <2>1. queue'[r] = queue[r]
    BY <1>1
  <2>2. QED
    BY <1>1, <2>1 DEF Held
<1>2. ASSUME NEW t \in Threads, x = <<"hands", t>> PROVE Held(x)' = Held(x)
  <2>1. disp'[t].msgs = disp[t].msgs
    BY <1>2
  <2>2. QED
    BY <1>2, <2>1 DEF Held
<1>3. ASSUME NEW t \in Senders, x = <<"sender", t>> PROVE Held(x)' = Held(x)
  <2>1. send'[t].chain = send[t].chain
    BY <1>3
  <2>2. QED
    BY <1>3, <2>1 DEF Held
<1>4. CASE x = <<"free", 0>>
  BY <1>4 DEF Held
<1>5. QED
  BY <1>1, <1>2, <1>3, <1>4, HomesAre

\* A thread that releases chains has them in its hands.
LEMMA ReleasesHeld ==
  ASSUME HazardInv, NEW t \in Threads, pc[t] \in {"release", "release_chain"}
  PROVE  /\ disp[t].msgs \in Seq(Chains) /\ disp[t].msgs # <<>> /\ Head(disp[t].msgs) \in Chains
         /\ Tail(disp[t].msgs) \in Seq(Chains)
<1>1. disp[t].msgs \in Seq(Chains)
  BY DEF HazardInv, BusTypes, DispatchLocals
<1>2. disp[t].msgs # <<>>
  BY ThreadFacts DEF HazardInv, CdcInv, ReaderInv, Delivers, Threads
<1>3. QED
  BY <1>1, <1>2

\* The local chains of a thread, when nothing else of its locals changes.
LEMMA HandsChange ==
  ASSUME disp \in [Threads -> DispatchLocals], NEW t \in Threads, NEW m \in Seq(Chains),
         disp' = [disp EXCEPT ![t].msgs = m]
  PROVE  /\ disp'[t].msgs = m /\ disp'[t].rcv = disp[t].rcv
         /\ \A u \in Threads : u # t => disp'[u] = disp[u]
BY DEF DispatchLocals

\* bus_release_msg_chain gives a chain back to the free list.
LEMMA ReleaseMovesChain ==
  ASSUME HazardInv, ChainInv, NEW t \in Threads, ReleaseChain(t)
  PROVE  ChainInv'
<1> DEFINE m == disp[t].msgs
           h == <<"hands", t>>
           g == <<"free", 0>>
<1>1. /\ disp' = [disp EXCEPT ![t].msgs = Tail(m)] /\ free_chains' = free_chains \cup {Head(m)}
      /\ UNCHANGED <<queue, send, receivers>> /\ pc[t] = "release_chain"
  BY DEF ReleaseChain, PushChain, bus, table, slots, rcvs
<1>2. m \in Seq(Chains) /\ m # <<>> /\ Tail(m) \in Seq(Chains) /\ IsInjective(m)
  BY <1>1, ReleasesHeld DEF ChainInv
<1>3. /\ disp \in [Threads -> DispatchLocals] /\ Cdc \in Threads
  BY ThreadFacts DEF HazardInv, BusTypes
<1> HIDE DEF m
<1>4. /\ disp'[t].msgs = Tail(m) /\ disp'[t].rcv = disp[t].rcv
      /\ \A u \in Threads : u # t => disp'[u] = disp[u]
  BY <1>1, <1>2, <1>3, HandsChange
<1>5. /\ IsInjective(Tail(m)) /\ Range(m) = {Head(m)} \cup Range(Tail(m))
      /\ Head(m) \notin Range(Tail(m))
  BY <1>2, TailOf
<1>6. OneHome'
  <2>1. h \in Homes /\ g \in Homes /\ h # g
    BY HomesAre
  <2>2. Held(h) = Range(m) /\ Held(h)' = Range(Tail(m)) /\ Held(g)' = Held(g) \cup {Head(m)}
    BY <1>1, <1>4, HomesAre, HomesArePrimed DEF m
  <2>3. {Head(m)} \subseteq Held(h) /\ Held(h)' = Held(h) \ {Head(m)}
    BY <1>5, <2>2
  <2>4. \A u \in Threads : <<"hands", u>> \notin {h, g} => disp'[u].msgs = disp[u].msgs
    BY <1>4
  <2>5. \A x \in Homes : x # h /\ x # g => Held(x)' = Held(x)
    BY <1>1, <2>4, HomesStay
  <2>6. OneHome
    BY DEF ChainInv, OneHome
  <2> HIDE DEF h, g
  <2>7. QED
    BY <2>1, <2>2, <2>3, <2>5, <2>6, ChainsMove
<1>7. Registered' = Registered
  BY <1>1, <1>3, <1>4 DEF Registered
<1>8. \A u \in Threads : IsInjective(disp'[u].msgs)
  BY <1>4, <1>5 DEF ChainInv
<1>9. QED
  BY <1>1, <1>6, <1>7, <1>8 DEF ChainInv, OneHome

\* A dispatch takes chains from the head of a queue into its hands.
LEMMA DetachMovesChains ==
  ASSUME HazardInv, ChainInv, NEW t \in Readers, DispatchDetach(t)
  PROVE  ChainInv'
<1>0. PICK r : r = disp[t].rcv
  OBVIOUS
<1> DEFINE q == queue[r]
           n == Unhooked(disp[t].mode, q)
           m == SubSeq(q, 1, n)
           rest == SubSeq(q, n + 1, Len(q))
           h == <<"queue", r>>
           g == <<"hands", t>>
<1>1. /\ pc[t] = "detach" /\ q # <<>>
      /\ disp' = [disp EXCEPT ![t].msgs = m] /\ queue' = [queue EXCEPT ![r] = rest]
      /\ UNCHANGED <<free_chains, send, receivers>>
  BY <1>0 DEF DispatchDetach, Step, bus, table, slots, memory
<1>2. /\ disp \in [Threads -> DispatchLocals] /\ Cdc \in Threads /\ t \in Threads /\ t # Cdc
      /\ queue \in [Receivers -> Seq(Chains)] /\ ReaderInv(t)
  BY ThreadFacts DEF HazardInv, BusTypes
<1>3. r \in Receivers /\ r \in Registered /\ disp[t].msgs = <<>>
  BY <1>0, <1>1, <1>2 DEF ReaderInv, Latched, Delivers
<1>4. q \in Seq(Chains) /\ IsInjective(q) /\ n \in 0 .. Len(q)
  <2>1. q \in Seq(Chains) /\ Len(q) \in Nat \ {0}
    BY <1>1, <1>2, <1>3, EmptySeq
  <2>2. IsInjective(q)
    BY <1>3 DEF ChainInv
  <2> HIDE DEF q
  <2>3. QED
    BY <2>1, <2>2 DEF Unhooked
<1> HIDE DEF q, n
<1>5. /\ m \in Seq(Chains) /\ rest \in Seq(Chains) /\ Range(q) = Range(m) \cup Range(rest)
      /\ IsInjective(m) /\ IsInjective(rest) /\ Range(m) \cap Range(rest) = {}
  <2>1. \A k \in 0 .. Len(q) :
          /\ SubSeq(q, 1, k) \in Seq(Chains) /\ SubSeq(q, k + 1, Len(q)) \in Seq(Chains)
          /\ Range(q) = Range(SubSeq(q, 1, k)) \cup Range(SubSeq(q, k + 1, Len(q)))
          /\ IsInjective(SubSeq(q, 1, k)) /\ IsInjective(SubSeq(q, k + 1, Len(q)))
          /\ Range(SubSeq(q, 1, k)) \cap Range(SubSeq(q, k + 1, Len(q))) = {}
    BY <1>4, CutOf, Zenon
  <2>2. QED
    BY <1>4, <2>1
<1> HIDE DEF m, rest
<1>6. /\ disp'[t].msgs = m /\ disp'[t].rcv = disp[t].rcv
      /\ \A u \in Threads : u # t => disp'[u] = disp[u]
  BY <1>1, <1>2, <1>5, HandsChange
<1>7. queue'[r] = rest /\ \A x \in Receivers : x # r => queue'[x] = queue[x]
  BY <1>1, <1>2, <1>3
<1>8. OneHome'
  <2>1. h \in Homes /\ g \in Homes /\ h # g
    BY <1>2, <1>3, HomesAre
  <2>2. Held(h) = Range(q) /\ Held(g) = {} /\ Held(h)' = Range(rest) /\ Held(g)' = Range(m)
    BY <1>2, <1>3, <1>6, <1>7, HomesAre, HomesArePrimed, EmptyList DEF q
  <2>3. Range(m) \subseteq Held(h) /\ Held(h)' = Held(h) \ Range(m) /\ Held(g)' = Held(g) \cup Range(m)
    BY <1>5, <2>2
  <2>4. /\ \A u \in Threads : <<"hands", u>> \notin {h, g} => disp'[u].msgs = disp[u].msgs
        /\ \A x \in Receivers : <<"queue", x>> \notin {h, g} => queue'[x] = queue[x]
    BY <1>6, <1>7
  <2>5. \A x \in Homes : x # h /\ x # g => Held(x)' = Held(x)
    BY <1>1, <2>4, HomesStay
  <2>6. OneHome
    BY DEF ChainInv, OneHome
  <2> HIDE DEF h, g
  <2>7. QED
    BY <2>1, <2>3, <2>5, <2>6, ChainsMove
<1>9. Registered' = Registered
  BY <1>1, <1>2, <1>6 DEF Registered
<1>10. \A u \in Threads : IsInjective(disp'[u].msgs)
  BY <1>5, <1>6 DEF ChainInv
<1>11. \A x \in Receivers : IsInjective(queue'[x]) /\ (x \notin Registered' => queue'[x] = <<>>)
  BY <1>3, <1>5, <1>7, <1>9 DEF ChainInv
<1>12. QED
  BY <1>8, <1>10, <1>11 DEF ChainInv, OneHome

\* The chain of a sender.
LEMMA ChainChanges ==
  ASSUME send \in [Senders -> SendLocals], NEW t \in Senders, NEW c,
         send' = [send EXCEPT ![t].chain = c]
  PROVE  /\ send'[t].chain = c /\ send'[t].msg = send[t].msg
         /\ \A u \in Senders : u # t => send'[u] = send[u]
BY DEF SendLocals

\* A sender gets a chain from the free list, and gives one back.
LEMMA SendMovesFreeChain ==
  ASSUME HazardInv, ChainInv, NEW t \in Senders, SendGetChain(t) \/ SendRelease(t)
  PROVE  ChainInv'
<1> DEFINE h == <<"free", 0>>
           g == <<"sender", t>>
<1>1. UNCHANGED <<queue, disp, receivers>> /\ pc[t] \in {"send_chain", "send_release"}
  BY DEF SendGetChain, SendRelease, Step, bus, table, slots, rcvs
<1>2. /\ send \in [Senders -> SendLocals] /\ SenderInv(t) /\ NoChain \notin Chains
      /\ send[t].chain \in Chains \cup {NoChain} /\ free_chains \subseteq Chains
  BY MessagesAssumption DEF HazardInv, BusTypes, SendLocals
<1>3. h \in Homes /\ g \in Homes /\ h # g /\ OneHome
  BY HomesAre DEF ChainInv, OneHome
<1>4. Held(h) = free_chains /\ Held(g) = {send[t].chain} \ {NoChain}
  BY HomesAre
<1>5. Held(h)' = free_chains' /\ Held(g)' = {send'[t].chain} \ {NoChain}
  BY HomesArePrimed
<1>6. ASSUME \A u \in Senders : u # t => send'[u] = send[u]
      PROVE  \A x \in Homes : x # h /\ x # g => Held(x)' = Held(x)
  <2>1. \A u \in Senders : <<"sender", u>> \notin {h, g} => send'[u].chain = send[u].chain
    BY <1>6
  <2>2. QED
    BY <1>1, <2>1, HomesStay
<1> HIDE DEF h, g
<1>7. OneHome'
  <2>1. CASE SendGetChain(t)
    <3>1. PICK c \in free_chains : /\ free_chains' = free_chains \ {c}
                                   /\ send' = [send EXCEPT ![t].chain = c]
      BY <2>1 DEF SendGetChain
    <3>2. send'[t].chain = c /\ \A u \in Senders : u # t => send'[u] = send[u]
      BY <1>2, <3>1, ChainChanges
    <3>3. send[t].chain = NoChain /\ c # NoChain
      BY <1>2, <2>1 DEF SendGetChain, Step, SenderInv, HasChain
    <3>4. {c} \subseteq Held(h) /\ Held(h)' = Held(h) \ {c} /\ Held(g)' = Held(g) \cup {c}
      BY <1>4, <1>5, <3>1, <3>2, <3>3
    <3>5. QED
      BY <1>3, <1>6, <3>2, <3>4, ChainsMove
  <2>2. CASE SendRelease(t)
    <3> DEFINE c == send[t].chain
    <3>1. free_chains' = free_chains \cup {c} /\ send' = [send EXCEPT ![t].chain = NoChain]
      BY <2>2 DEF SendRelease, PushChain
    <3>2. send'[t].chain = NoChain /\ \A u \in Senders : u # t => send'[u] = send[u]
      BY <1>2, <3>1, ChainChanges
    <3>3. c # NoChain
      BY <1>2, <2>2 DEF SendRelease, Step, SenderInv, HasChain
    <3>4. {c} \subseteq Held(g) /\ Held(g)' = Held(g) \ {c} /\ Held(h)' = Held(h) \cup {c}
      BY <1>4, <1>5, <3>1, <3>2, <3>3
    <3>5. QED
      BY <1>3, <1>6, <3>2, <3>4, ChainsMove, ZenonT(30)
  <2>3. QED
    BY <2>1, <2>2
<1>8. QED
  BY <1>1, <1>7 DEF ChainInv, OneHome, Registered

\* A sender appends its chain to a receiver's queue.
LEMMA EnqueueMovesChain ==
  ASSUME HazardInv, ChainInv, NEW t \in Senders, SendEnqueue(t)
  PROVE  ChainInv'
<1>0. PICK r : r = send[t].pending[send[t].i]
  OBVIOUS
<1> DEFINE c == send[t].chain
           q == queue[r]
           h == <<"sender", t>>
           g == <<"queue", r>>
<1>1. /\ pc[t] = "send_enqueue" /\ queue' = [queue EXCEPT ![r] = Append(q, c)]
      /\ Dropped(t, NoChain) /\ UNCHANGED <<free_chains, disp, receivers>>
  BY <1>0 DEF SendEnqueue, Enqueued, ChainLeft, bus, table, slots, memory
<1>2. /\ BusTypes /\ SenderInv(t) /\ NoChain \notin Chains /\ queue \in [Receivers -> Seq(Chains)]
      /\ send \in [Senders -> SendLocals] /\ c \in Chains \cup {NoChain}
      /\ send[t].pending \in Seq(Receivers)
  BY MessagesAssumption DEF HazardInv, BusTypes, SendLocals
<1>3. c \in Chains /\ send[t].pending # <<>> /\ send[t].i \in 1 .. Len(send[t].pending)
  BY <1>1, <1>2 DEF SenderInv, HasChain, Pends
<1>4. r \in Receivers /\ r \in Registered
  BY <1>0, <1>2, <1>3, MembersOf DEF SenderInv, Registered
<1>5. send' = [send EXCEPT ![t] = send'[t]] /\ send'[t].chain = NoChain
  BY <1>1, <1>2, <1>3, DroppedLocals, Zenon
<1>6. \A u \in Senders : u # t => send'[u] = send[u]
  BY <1>2, <1>5
<1>7. q \in Seq(Chains) /\ IsInjective(q) /\ queue'[r] = Append(q, c)
      /\ \A x \in Receivers : x # r => queue'[x] = queue[x]
  BY <1>1, <1>2, <1>4 DEF ChainInv
<1>8. h \in Homes /\ g \in Homes /\ h # g /\ OneHome
  BY <1>4, HomesAre DEF ChainInv, OneHome
<1>9. Held(h) = {c} /\ Held(g) = Range(q)
  BY <1>2, <1>3, <1>4, HomesAre
<1>10. Held(h)' = {} /\ Held(g)' = Range(Append(q, c))
  BY <1>4, <1>5, <1>7, HomesArePrimed
<1>11. c \notin Range(q)
  BY <1>8, <1>9 DEF OneHome
<1> HIDE DEF c, q
<1>12. Range(Append(q, c)) = Range(q) \cup {c} /\ IsInjective(Append(q, c))
  BY <1>3, <1>7, <1>11, AppendOf
<1>13. OneHome'
  <2>1. /\ \A u \in Senders : <<"sender", u>> \notin {h, g} => send'[u].chain = send[u].chain
        /\ \A x \in Receivers : <<"queue", x>> \notin {h, g} => queue'[x] = queue[x]
    BY <1>6, <1>7
  <2>2. \A x \in Homes : x # h /\ x # g => Held(x)' = Held(x)
    BY <1>1, <2>1, HomesStay
  <2> HIDE DEF h, g
  <2>3. {c} \subseteq Held(h) /\ Held(h)' = Held(h) \ {c} /\ Held(g)' = Held(g) \cup {c}
    BY <1>9, <1>10, <1>12
  <2>4. QED
    BY <1>8, <2>2, <2>3, ChainsMove
<1>14. \A x \in Receivers : IsInjective(queue'[x]) /\ (x \notin Registered => queue'[x] = <<>>)
  BY <1>4, <1>7, <1>12 DEF ChainInv
<1>15. QED
  BY <1>1, <1>13, <1>14 DEF ChainInv, OneHome, Registered

\* cncbus_disconnect takes what is left in the queue, which is empty when the receiver is gone.
LEMMA QuiesceMovesChains ==
  ASSUME HazardInv, ChainInv, CdcQuiesce
  PROVE  ChainInv'
<1>0. PICK r : r = disp[Cdc].rcv
  OBVIOUS
<1> DEFINE q == queue[r]
           h == <<"queue", r>>
           g == <<"hands", Cdc>>
<1>1. /\ pc[Cdc] = "quiesce" /\ disp' = [disp EXCEPT ![Cdc].msgs = q, ![Cdc].rcv = 0]
      /\ queue' = [queue EXCEPT ![r] = <<>>] /\ UNCHANGED <<free_chains, send, receivers>>
  BY <1>0 DEF CdcQuiesce, bus, table, slots, memory
<1>2. /\ disp \in [Threads -> DispatchLocals] /\ Cdc \in Threads /\ CdcInv
      /\ queue \in [Receivers -> Seq(Chains)] /\ r \in Receivers \cup {0}
      /\ \A t \in Threads : t # Cdc => t \in Readers
  BY <1>0, ThreadFacts DEF HazardInv, BusTypes, DispatchLocals, Threads
<1>3. r \in Receivers /\ disp[Cdc].msgs = <<>>
  BY <1>0, <1>1, <1>2 DEF CdcInv
<1>4. q \in Seq(Chains) /\ IsInjective(q) /\ 0 \notin Receivers
  BY <1>2, <1>3, ReceiversAssumption DEF ChainInv
<1>5. Registered = Range(receivers) \cup {r}
  BY <1>0 DEF Registered
<1> HIDE DEF q
<1>6. /\ disp'[Cdc].msgs = q /\ disp'[Cdc].rcv = 0 /\ \A u \in Readers : disp'[u] = disp[u]
  BY <1>1, <1>2, <1>4, CdcLocals, Zenon
<1>7. queue'[r] = <<>> /\ \A x \in Receivers : x # r => queue'[x] = queue[x]
  BY <1>1, <1>2, <1>3
<1>8. h \in Homes /\ g \in Homes /\ h # g /\ OneHome
  BY <1>2, <1>3, HomesAre DEF ChainInv, OneHome
<1>9. Held(h) = Range(q) /\ Held(g) = {}
  BY <1>2, <1>3, HomesAre, EmptyList DEF q
<1>10. Held(h)' = {} /\ Held(g)' = Range(q)
  BY <1>2, <1>3, <1>6, <1>7, HomesArePrimed, EmptyList
<1>11. OneHome'
  <2>1. /\ \A u \in Threads : <<"hands", u>> \notin {h, g} => disp'[u].msgs = disp[u].msgs
        /\ \A x \in Receivers : <<"queue", x>> \notin {h, g} => queue'[x] = queue[x]
    BY <1>2, <1>6, <1>7
  <2>2. \A x \in Homes : x # h /\ x # g => Held(x)' = Held(x)
    BY <1>1, <2>1, HomesStay
  <2> HIDE DEF h, g
  <2>3. /\ Range(q) \subseteq Held(h) /\ Held(h)' = Held(h) \ Range(q)
        /\ Held(g)' = Held(g) \cup Range(q)
    BY <1>9, <1>10
  <2>4. QED
    BY <1>8, <2>2, <2>3, ChainsMove
<1>12. \A u \in Threads : IsInjective(disp'[u].msgs)
  BY <1>2, <1>4, <1>6 DEF ChainInv
<1>13. Registered' = Range(receivers) \cup {0}
  BY <1>1, <1>6 DEF Registered
<1>14. \A x \in Receivers : IsInjective(queue'[x]) /\ (x \notin Registered' => queue'[x] = <<>>)
  BY <1>5, <1>7, <1>13, EmptyList DEF ChainInv
<1>15. QED
  BY <1>11, <1>12, <1>14 DEF ChainInv, OneHome

-----------------------------------------------------------------------------
(* The references.                                                         *)

\* A chain whose reference was dropped and that is not back in the free list yet.
InRelease(c) == \E t \in Threads : Dropping(t) /\ c = Head(disp[t].msgs)

\* The users of a fragment are counted, and a fragment without any has neither
\* a chain nor a sender.
LEMMA UsersAre ==
  ASSUME NEW f
  PROVE  /\ IsFiniteSet(CountedChains(f)) /\ IsFiniteSet(CountedSenders(f))
         /\ Cardinality(CountedChains(f)) \in Nat /\ Cardinality(CountedSenders(f)) \in Nat
         /\ Users(f) \in Nat
         /\ Users(f) = 0 <=> CountedChains(f) = {} /\ CountedSenders(f) = {}
         /\ CountedChains(f) = {c \in Chains : chain_msg[c] = f /\ ~InRelease(c)}
         /\ CountedChains(f)' = {c \in Chains : chain_msg'[c] = f /\ ~InRelease(c)'}
         /\ Users(f) = Cardinality(CountedChains(f)) + Cardinality(CountedSenders(f))
         /\ Users(f)' = Cardinality(CountedChains(f)') + Cardinality(CountedSenders(f)')
<1>1. CountedChains(f) \in SUBSET Chains /\ CountedSenders(f) \in SUBSET Senders
  BY DEF CountedChains, CountedSenders
<1>2. IsFiniteSet(CountedChains(f)) /\ IsFiniteSet(CountedSenders(f))
  BY <1>1, FS_Subset, ThreadsAssumption, MessagesAssumption
<1>3. Cardinality(CountedChains(f)) \in Nat /\ Cardinality(CountedSenders(f)) \in Nat
  BY <1>2, FS_CardinalityType
<1>4. /\ Cardinality(CountedChains(f)) = 0 <=> CountedChains(f) = {}
      /\ Cardinality(CountedSenders(f)) = 0 <=> CountedSenders(f) = {}
  BY <1>2, FS_EmptySet
<1>5. /\ CountedChains(f) = {c \in Chains : chain_msg[c] = f /\ ~InRelease(c)}
      /\ CountedChains(f)' = {c \in Chains : chain_msg'[c] = f /\ ~InRelease(c)'}
  BY DEF CountedChains, InRelease
<1>6. Users(f) = 0 <=> CountedChains(f) = {} /\ CountedSenders(f) = {}
  BY <1>3, <1>4 DEF Users
<1>7. QED
  BY <1>2, <1>3, <1>5, <1>6 DEF Users

\* One user more, one user less.
LEMMA UsersChange ==
  ASSUME NEW f, NEW x
  PROVE  /\ x \notin CountedChains(f) => Cardinality(CountedChains(f) \cup {x}) = Cardinality(CountedChains(f)) + 1
         /\ x \in CountedChains(f) => Cardinality(CountedChains(f) \ {x}) = Cardinality(CountedChains(f)) - 1
         /\ x \notin CountedSenders(f) => Cardinality(CountedSenders(f) \cup {x}) = Cardinality(CountedSenders(f)) + 1
         /\ x \in CountedSenders(f) => Cardinality(CountedSenders(f) \ {x}) = Cardinality(CountedSenders(f)) - 1
<1>1. \A S, y : IsFiniteSet(S) =>
        /\ Cardinality(S \cup {y}) = Cardinality(S) + 1 - (IF y \in S THEN 1 ELSE 0)
        /\ Cardinality(S \ {y}) = Cardinality(S) - (IF y \in S THEN 1 ELSE 0)
  BY CardinalityWith
<1>2. /\ IsFiniteSet(CountedChains(f)) /\ IsFiniteSet(CountedSenders(f))
      /\ Cardinality(CountedChains(f)) \in Nat /\ Cardinality(CountedSenders(f)) \in Nat
  BY UsersAre
<1>3. QED
  BY <1>1, <1>2

\* A chain that is released is nowhere else.
LEMMA ReleasedApart ==
  ASSUME HazardInv, ChainInv, NEW t \in Threads, pc[t] \in {"release", "release_chain"}
  PROVE  LET c == Head(disp[t].msgs) IN
         /\ c \in Chains /\ c \notin free_chains
         /\ \A u \in Senders : send[u].chain # c
         /\ \A u \in Threads : u # t /\ Dropping(u) => Head(disp[u].msgs) # c
<1> DEFINE c == Head(disp[t].msgs)
           h == <<"hands", t>>
<1>1. c \in Chains /\ c \in Held(h) /\ h \in Homes /\ OneHome /\ c # NoChain
  <2>1. disp[t].msgs \in Seq(Chains) /\ disp[t].msgs # <<>> /\ c \in Chains
    BY ReleasesHeld
  <2>2. c \in Range(disp[t].msgs)
    BY <2>1, MembersOf, EmptySeq
  <2>3. QED
    BY <2>1, <2>2, HomesAre, MessagesAssumption DEF ChainInv, OneHome
<1>2. \A g \in Homes : g # h => c \notin Held(g)
  BY <1>1 DEF OneHome
<1>3. c \notin free_chains
  BY <1>2, HomesAre
<1>4. ASSUME NEW u \in Senders PROVE send[u].chain # c
  <2>1. <<"sender", u>> \in Homes /\ <<"sender", u>> # h /\ Held(<<"sender", u>>) = {send[u].chain} \ {NoChain}
    BY HomesAre
  <2>2. QED
    BY <1>1, <1>2, <2>1
<1>5. ASSUME NEW u \in Threads, u # t, Dropping(u) PROVE Head(disp[u].msgs) # c
  <2>1. disp[u].msgs \in Seq(Chains) /\ disp[u].msgs # <<>>
    BY <1>5, ReleasesHeld DEF Dropping
  <2>2. Head(disp[u].msgs) \in Range(disp[u].msgs)
    BY <2>1, MembersOf, EmptySeq
  <2>3. <<"hands", u>> \in Homes /\ <<"hands", u>> # h /\ Held(<<"hands", u>>) = Range(disp[u].msgs)
    BY <1>5, HomesAre
  <2>4. QED
    BY <1>2, <2>2, <2>3
<1>6. QED
  BY <1>1, <1>3, <1>4, <1>5

\* A chain in the free list, or of a sender, is not released by anybody.
LEMMA NotInRelease ==
  ASSUME HazardInv, ChainInv, NEW c,
         c \in free_chains \/ \E u \in Senders : c = send[u].chain
  PROVE  ~InRelease(c)
BY ReleasedApart DEF InRelease, Dropping

\* The steps that change no message.
LEMMA FragsStay ==
  ASSUME FragInv, FragTypes', UNCHANGED <<msg_data, next_id, signaled>>,
         free_frags' \subseteq free_frags,
         \A f \in Frags : /\ CountedChains(f)' = CountedChains(f)
                          /\ CountedSenders(f)' = CountedSenders(f),
         \A t \in Senders : SenderFrag(t)', \A f \in Frags : Kept(f)',
         \A t, u \in Senders : send'[t].msg = send'[u].msg => t = u \/ send'[t].msg = NoFrag
  PROVE  FragInv'
<1>1. \A f \in Frags : Users(f)' = Users(f)
  BY UsersAre DEF Users
<1>2. \A f \in Frags : MessageOK(f)'
  BY <1>1 DEF FragInv, MessageOK
<1>3. QED
  BY <1>2 DEF FragInv

\* The steps that change one message.
LEMMA OneFragChanges ==
  ASSUME FragInv, NEW f \in Frags, FragTypes', next_id <= next_id',
         \A g \in Frags : g # f => /\ msg_data'[g] = msg_data[g]
                                   /\ CountedChains(g)' = CountedChains(g)
                                   /\ CountedSenders(g)' = CountedSenders(g)
                                   /\ g \in free_frags' => g \in free_frags,
         signaled' \subseteq signaled \cup ({msg_data[f].id} \ {0}),
         MessageOK(f)', msg_data'[f].id \in {msg_data[f].id, 0, next_id},
         \A t \in Senders : SenderFrag(t)', \A g \in Frags : Kept(g)',
         \A t, u \in Senders : send'[t].msg = send'[u].msg => t = u \/ send'[t].msg = NoFrag
  PROVE  FragInv'
<1>1. /\ next_id \in Nat /\ next_id' \in Nat /\ \A g \in Frags : msg_data[g].id \in Nat
      /\ \A g, k \in Frags : msg_data[g].id = msg_data[k].id => g = k \/ msg_data[g].id = 0
      /\ \A g \in Frags : MessageOK(g)
  BY DEF FragInv, FragTypes
<1>2. ASSUME NEW g \in Frags, g # f PROVE MessageOK(g)'
  <2>1. Users(g)' = Users(g) /\ msg_data'[g] = msg_data[g] /\ (g \in free_frags' => g \in free_frags)
    BY <1>2, UsersAre DEF Users
  <2>2. msg_data[g].id < next_id /\ msg_data[g].id \notin signaled
    BY <1>1 DEF MessageOK
  <2>3. msg_data[g].id < next_id' /\ msg_data[g].id \notin signaled'
    BY <1>1, <1>2, <2>2
  <2>4. QED
    BY <1>1, <2>1, <2>3 DEF MessageOK
<1>3. \A g \in Frags : MessageOK(g)'
  BY <1>2
<1>4. ASSUME NEW g \in Frags, NEW k \in Frags, msg_data'[g].id = msg_data'[k].id, g # k
      PROVE  msg_data'[g].id = 0
  <2>1. \A x \in Frags : msg_data[x].id < next_id
    BY <1>1 DEF MessageOK
  <2>2. CASE g # f /\ k # f
    BY <1>1, <1>4, <2>2
  <2>3. CASE g = f
    BY <1>1, <1>4, <2>1, <2>3
  <2>4. CASE k = f
    BY <1>1, <1>4, <2>1, <2>4
  <2>5. QED
    BY <2>2, <2>3, <2>4
<1>5. QED
  BY <1>3, <1>4 DEF FragInv

\* What a step does that concerns no message and no chain.
CountsStay ==
  /\ UNCHANGED <<memory, sent>>
  /\ \A t \in Threads : Dropping(t)' = Dropping(t) /\ (Dropping(t) => disp'[t].msgs = disp[t].msgs)
  /\ \A t \in Senders : /\ send'[t].msg = send[t].msg
                        /\ send'[t].chain \in {send[t].chain, NoChain}
                        /\ pc'[t] \in Unsent <=> pc[t] \in Unsent

\* A step that changes no user and no count.
LEMMA FragsUntouched == ASSUME FragInv, CountsStay PROVE FragInv'
<1>1. UNCHANGED <<free_chains, free_frags, chain_msg, msg_data, next_id, signaled>>
  BY DEF CountsStay, memory, sent
<1>2. \A c : InRelease(c)' = InRelease(c)
  BY DEF CountsStay, InRelease
<1>3. \A f \in Frags : CountedChains(f)' = CountedChains(f)
  BY <1>1, <1>2, UsersAre
<1>4. \A f \in Frags : CountedSenders(f)' = CountedSenders(f)
  BY DEF CountsStay, CountedSenders, Unsent
<1>5. FragTypes' /\ \A t \in Senders : SenderFrag(t)'
  BY <1>1 DEF CountsStay, FragInv, FragTypes, SenderFrag
<1>6. \A t, u \in Senders : send'[t].msg = send'[u].msg => t = u \/ send'[t].msg = NoFrag
  BY DEF CountsStay, FragInv
<1>7. ASSUME NEW f \in Frags PROVE Kept(f)'
  <2>1. Kept(f)
    BY DEF FragInv
  <2>2. \A t \in Senders : /\ pc[t] \in Unsent => pc'[t] \in Unsent
                           /\ send'[t].msg = send[t].msg
    BY DEF CountsStay
  <2>3. QED
    BY <1>1, <2>1, <2>2 DEF Kept
<1>8. QED
  BY <1>1, <1>3, <1>4, <1>5, <1>6, <1>7, FragsStay

\* One reference less, and the fragment when it was the last.
LEMMA MessageDropped ==
  ASSUME NEW f \in Frags, msg_data \in [Frags -> [id : Nat, ref_count : Int]], DropReference(f)
  PROVE  /\ msg_data' \in [Frags -> [id : Nat, ref_count : Int]]
         /\ \A g \in Frags : g # f => msg_data'[g] = msg_data[g]
         /\ free_frags' = IF LastReference(f) THEN free_frags \cup {f} ELSE free_frags
         /\ msg_data'[f] = IF LastReference(f) THEN NoMessage
                           ELSE [id |-> msg_data[f].id, ref_count |-> msg_data[f].ref_count - 1]
<1>1. CASE LastReference(f)
  BY <1>1 DEF DropReference, Free, NoMessage
<1>2. CASE ~LastReference(f)
  <2>1. /\ msg_data' = [msg_data EXCEPT ![f].ref_count = @ - 1] /\ free_frags' = free_frags
        /\ msg_data[f] \in [id : Nat, ref_count : Int]
    BY <1>2 DEF DropReference
  <2>2. msg_data' = [msg_data EXCEPT ![f] = [msg_data[f] EXCEPT !.ref_count = @ - 1]]
    BY <2>1
  <2>3. [msg_data[f] EXCEPT !.ref_count = @ - 1]
          = [id |-> msg_data[f].id, ref_count |-> msg_data[f].ref_count - 1]
    BY <2>1
  <2>4. QED
    BY <1>2, <2>1, <2>2, <2>3
<1>3. QED
  BY <1>1, <1>2

\* The message of a sender that is not idle is in a fragment.
LEMMA SenderFrags ==
  ASSUME HazardInv, NEW t \in Senders
  PROVE  /\ send[t].msg \in Frags \cup {NoFrag} /\ (pc[t] # "idle" => send[t].msg \in Frags)
         /\ pc[t] \in Unsent => send[t].msg \in Frags
         /\ send[t].chain \in Chains \cup {NoChain}
BY DEF HazardInv, BusTypes, SendLocals, SenderInv, Unsent

\* The last chain of a message takes the message with it; the others only count down.
LEMMA ReferenceDropped ==
  ASSUME ExclusionInv, HazardInv, ChainInv, FragInv, NEW t \in Threads, ReleaseReference(t)
  PROVE  FragInv'
<1>0. PICK c, f : c = Head(disp[t].msgs) /\ f = chain_msg[c]
  OBVIOUS
<1> DEFINE last == msg_data[f].ref_count = 1
<1>1. /\ pc[t] = "release" /\ pc' = [pc EXCEPT ![t] = "release_chain"]
      /\ UNCHANGED <<free_chains, chain_msg, next_id, disp, send>>
      /\ DropReference(f)
      /\ signaled' = IF last THEN signaled \cup {msg_data[f].id} ELSE signaled
  BY <1>0 DEF ReleaseReference, Step, Goto, LastReference
<1>2. /\ c \in Chains /\ c \notin free_chains /\ c # NoChain /\ pc \in [Threads -> Labels]
      /\ \A u \in Threads : u # t /\ Dropping(u) => Head(disp[u].msgs) # c
  BY <1>0, <1>1, ReleasedApart, MessagesAssumption DEF ExclusionInv
<1>3. /\ f \in Frags /\ FragTypes /\ MessageOK(f) /\ msg_data \in [Frags -> [id : Nat, ref_count : Int]]
      /\ next_id \in Nat \ {0} /\ signaled \subseteq 1 .. next_id - 1 /\ free_frags \subseteq Frags
  BY <1>0, <1>2 DEF FragInv, FragTypes
<1>4. \A x : InRelease(x)' <=> InRelease(x) \/ x = c
  BY <1>0, <1>1, <1>2 DEF InRelease, Dropping
<1>5. ~InRelease(c)
  BY <1>1, <1>2 DEF InRelease, Dropping
<1>6. \A g \in Frags : /\ CountedChains(g)' = CountedChains(g) \ {c}
                       /\ c \in CountedChains(g) <=> g = f
                       /\ CountedSenders(g)' = CountedSenders(g)
  <2>1. ASSUME NEW g \in Frags PROVE CountedSenders(g)' = CountedSenders(g)
    <3>1. \A u \in Senders : pc'[u] = pc[u] \/ (pc[u] = "release" /\ pc'[u] = "release_chain")
      BY <1>1, <1>2, ThreadFacts
    <3>2. QED
      BY <1>1, <3>1 DEF CountedSenders
  <2>2. QED
    BY <1>0, <1>1, <1>2, <1>4, <1>5, <2>1, UsersAre
<1>7. Users(f) \in Nat \ {0} /\ Users(f)' = Users(f) - 1 /\ msg_data[f].ref_count = Users(f)
  <2>1. Cardinality(CountedChains(f) \ {c}) = Cardinality(CountedChains(f)) - 1
    BY <1>3, <1>6, UsersChange
  <2>2. Users(f)' = Users(f) - 1
    <3>1. /\ CountedChains(f)' = CountedChains(f) \ {c}
          /\ CountedSenders(f)' = CountedSenders(f)
      BY <1>3, <1>6
    <3>2. Users(f)' = Cardinality(CountedChains(f) \ {c}) + Cardinality(CountedSenders(f))
      BY <3>1, UsersAre
    <3>3. QED
      BY <2>1, <3>2, UsersAre
  <2>3. CountedChains(f) # {}
    BY <1>3, <1>6
  <2>4. QED
    BY <1>3, <2>2, <2>3, UsersAre DEF MessageOK
<1>8. msg_data[f].id \in 1 .. next_id - 1 /\ msg_data[f].id \notin signaled
  BY <1>3, <1>7 DEF MessageOK
<1>9. ASSUME NEW u \in Senders, send[u].msg = f PROVE Users(f) > 1
  <2>1. pc[u] \notin Unsent
    BY <1>8, <1>9 DEF FragInv, SenderFrag
  <2>2. u \in CountedSenders(f) /\ c \in CountedChains(f)
    BY <1>3, <1>6, <1>9, <2>1 DEF CountedSenders, Unsent
  <2>3. Cardinality(CountedSenders(f)) > 0 /\ Cardinality(CountedChains(f)) > 0
    BY <2>2, UsersAre, FS_EmptySet
  <2>4. QED
    BY <2>3, UsersAre DEF Users
<1>10. /\ msg_data' \in [Frags -> [id : Nat, ref_count : Int]]
       /\ \A g \in Frags : g # f => msg_data'[g] = msg_data[g]
       /\ free_frags' = IF last THEN free_frags \cup {f} ELSE free_frags
       /\ msg_data'[f] = IF last THEN NoMessage
                         ELSE [id |-> msg_data[f].id, ref_count |-> msg_data[f].ref_count - 1]
  BY <1>1, <1>3, MessageDropped DEF LastReference
<1>11. MessageOK(f)'
  <2>1. CASE last
    BY <1>1, <1>3, <1>7, <1>8, <1>10, <2>1 DEF MessageOK, NoMessage
  <2>2. CASE ~last
    BY <1>1, <1>3, <1>7, <1>8, <1>10, <2>2 DEF MessageOK
  <2>3. QED
    BY <2>1, <2>2
<1>12. FragTypes'
  BY <1>1, <1>3, <1>8, <1>10 DEF FragTypes
<1>13. ASSUME NEW u \in Senders PROVE SenderFrag(u)'
  <2>1. pc'[u] \in Unsent => pc[u] \in Unsent
    BY <1>1, <1>2, ThreadFacts DEF Unsent
  <2>2. SenderFrag(u) /\ (send[u].msg = f => ~last)
    BY <1>7, <1>9, <1>13 DEF FragInv
  <2>3. send[u].msg \in Frags \cup {NoFrag} /\ (pc[u] \in Unsent => send[u].msg \in Frags)
    BY SenderFrags
  <2>4. send[u].msg \notin free_frags'
    BY <1>10, <2>2 DEF SenderFrag
  <2>5. pc[u] \in Unsent => msg_data'[send[u].msg].id = 0
    BY <1>8, <1>10, <2>2, <2>3 DEF SenderFrag
  <2>6. QED
    BY <1>1, <2>1, <2>2, <2>4, <2>5 DEF SenderFrag
<1>14. \A u, v \in Senders : send'[u].msg = send'[v].msg => u = v \/ send'[u].msg = NoFrag
  BY <1>1 DEF FragInv
<1>15. \A g \in Frags : g # f => /\ msg_data'[g] = msg_data[g]
                                 /\ CountedChains(g)' = CountedChains(g)
                                 /\ CountedSenders(g)' = CountedSenders(g)
                                 /\ g \in free_frags' => g \in free_frags
  BY <1>6, <1>10
<1>16. signaled' \subseteq signaled \cup ({msg_data[f].id} \ {0})
  BY <1>1, <1>8
<1>17. msg_data'[f].id \in {msg_data[f].id, 0, next_id} /\ next_id <= next_id'
  BY <1>1, <1>3, <1>10 DEF NoMessage
<1>18. ASSUME NEW g \in Frags PROVE Kept(g)'
  <2>1. Kept(g) /\ free_frags \subseteq free_frags'
    BY <1>10 DEF FragInv
  <2>2. \A u \in Senders : pc[u] \in Unsent => pc'[u] \in Unsent
    BY <1>1, <1>2, ThreadFacts DEF Unsent
  <2>3. g \notin free_frags' /\ msg_data[g].id # 0 => msg_data'[g].id # 0
    <3>1. CASE g = f
      BY <1>3, <1>8, <1>10, <3>1
    <3>2. CASE g # f
      BY <1>10, <3>2
    <3>3. QED
      BY <3>1, <3>2
  <2>4. QED
    BY <1>1, <2>1, <2>2, <2>3 DEF Kept
<1>19. QED
  BY <1>3, <1>11, <1>12, <1>13, <1>14, <1>15, <1>16, <1>17, <1>18, OneFragChanges

\* A released chain goes back to the free list: its reference was dropped before.
LEMMA ChainPushed ==
  ASSUME ExclusionInv, HazardInv, ChainInv, FragInv, NEW t \in Threads, ReleaseChain(t)
  PROVE  FragInv'
<1>0. PICK c : c = Head(disp[t].msgs)
  OBVIOUS
<1>1. /\ pc[t] = "release_chain" /\ disp' = [disp EXCEPT ![t].msgs = Tail(disp[t].msgs)]
      /\ UNCHANGED <<free_frags, msg_data, next_id, signaled, send>>
      /\ free_chains' = free_chains \cup {c} /\ chain_msg' = [chain_msg EXCEPT ![c] = NoFrag]
      /\ \E l \in {"release", "deliver", "idle", "delivered"} : pc' = [pc EXCEPT ![t] = l]
      /\ t # Cdc => pc'[t] # "idle"
  BY <1>0 DEF ReleaseChain, PushChain, Goto, sent, ExclusionInv
<1>2. /\ c \in Chains /\ c \notin free_chains /\ pc \in [Threads -> Labels]
      /\ \A u \in Senders : send[u].chain # c
      /\ \A u \in Threads : u # t /\ Dropping(u) => Head(disp[u].msgs) # c
  BY <1>0, <1>1, ReleasedApart DEF ExclusionInv
<1>3. /\ disp'[t].msgs = Tail(disp[t].msgs) /\ \A u \in Threads : u # t => disp'[u] = disp[u]
  BY <1>1, ReleasesHeld, HandsChange DEF HazardInv, BusTypes
<1>4. /\ \A u \in Threads : u # t => pc'[u] = pc[u]
      /\ pc'[t] \in {"release", "deliver", "idle", "delivered"}
  BY <1>1, <1>2
<1>5. InRelease(c) /\ \A x : InRelease(x)' <=> InRelease(x) /\ x # c
  BY <1>0, <1>1, <1>2, <1>3, <1>4 DEF InRelease, Dropping
<1>6. FragTypes /\ NoFrag \notin Frags
  BY MessagesAssumption DEF FragInv
<1>7. ASSUME NEW f \in Frags
      PROVE  CountedChains(f)' = CountedChains(f) /\ CountedSenders(f)' = CountedSenders(f)
  <2>1. CountedChains(f)' = CountedChains(f)
    <3>1. chain_msg'[c] # f /\ \A x \in Chains : x # c => chain_msg'[x] = chain_msg[x]
      BY <1>1, <1>2, <1>6, <1>7 DEF FragTypes
    <3>2. \A x \in Chains : (chain_msg'[x] = f /\ ~InRelease(x)') <=> (chain_msg[x] = f /\ ~InRelease(x))
      BY <1>5, <3>1
    <3>3. QED
      BY <3>2, UsersAre
  <2>2. \A u \in Senders : pc'[u] \in Unsent <=> pc[u] \in Unsent
    BY <1>1, <1>4, ThreadFacts DEF Unsent
  <2>3. QED
    BY <1>1, <2>1, <2>2 DEF CountedSenders, Unsent
<1>8. FragTypes'
  BY <1>1, <1>2, <1>6 DEF FragTypes
<1>9. ASSUME NEW u \in Senders PROVE SenderFrag(u)'
  <2>1. pc'[u] \in Unsent => pc[u] \in Unsent
    BY <1>1, <1>4, ThreadFacts DEF Unsent
  <2>2. SenderFrag(u) /\ send[u].chain # c /\ send[u].chain \in Chains \cup {NoChain}
    BY <1>2, SenderFrags DEF FragInv
  <2>3. send[u].chain # NoChain => chain_msg'[send[u].chain] = chain_msg[send[u].chain]
    BY <1>1, <1>6, <2>2 DEF FragTypes
  <2>4. QED
    BY <1>1, <2>1, <2>2, <2>3 DEF SenderFrag
<1>10. \A u, v \in Senders : send'[u].msg = send'[v].msg => u = v \/ send'[u].msg = NoFrag
  BY <1>1 DEF FragInv
<1>11. ASSUME NEW f \in Frags PROVE Kept(f)'
  <2>1. Kept(f)
    BY DEF FragInv
  <2>2. \A u \in Senders : pc[u] \in Unsent => pc'[u] \in Unsent
    BY <1>1, <1>4, ThreadFacts DEF Unsent
  <2>3. QED
    BY <1>1, <2>1, <2>2 DEF Kept
<1>12. QED
  BY <1>1, <1>7, <1>8, <1>9, <1>10, <1>11, FragsStay

\* What a sender's step does to the counted senders and to the chains that are released.
LEMMA SenderCounts ==
  ASSUME ExclusionInv, NEW t \in Senders, NEW l \in Labels, Goto(t, l),
         pc[t] # "release_chain", l # "release_chain", disp' = disp,
         \A u \in Senders : u # t => send'[u] = send[u]
  PROVE  /\ \A x : InRelease(x)' <=> InRelease(x)
         /\ \A f : /\ send'[t].msg = f /\ l \notin Unsent => CountedSenders(f)' = CountedSenders(f) \cup {t}
                   /\ send'[t].msg # f \/ l \in Unsent => CountedSenders(f)' = CountedSenders(f) \ {t}
                   /\ t \in CountedSenders(f) <=> send[t].msg = f /\ pc[t] \notin Unsent
         /\ pc'[t] = l /\ \A u \in Senders : u # t => pc'[u] = pc[u]
<1>1. t \in Threads /\ pc \in [Threads -> Labels] /\ Senders \subseteq Threads
  BY ThreadFacts DEF ExclusionInv
<1>2. pc'[t] = l /\ \A u \in Threads : u # t => pc'[u] = pc[u]
  BY <1>1 DEF Goto
<1>3. \A x : InRelease(x)' <=> InRelease(x)
  BY <1>1, <1>2 DEF InRelease, Dropping
<1>4. QED
  BY <1>1, <1>2, <1>3 DEF CountedSenders, Unsent

\* A sender takes a free fragment for its message.
LEMMA MessageBegun ==
  ASSUME ExclusionInv, HazardInv, ChainInv, FragInv, NEW t \in Senders, MsgBegin(t)
  PROVE  FragInv'
<1>1. PICK f \in free_frags : /\ free_frags' = free_frags \ {f}
                              /\ send' = [send EXCEPT ![t].msg = f]
  BY DEF MsgBegin
<1>2. /\ pc[t] = "idle" /\ Goto(t, "send_enter") /\ disp' = disp
      /\ UNCHANGED <<free_chains, chain_msg, msg_data, next_id, signaled>>
  BY DEF MsgBegin, Step, sent
<1>3. /\ FragTypes /\ f \in Frags /\ NoFrag \notin Frags /\ send \in [Senders -> SendLocals]
      /\ SenderInv(t) /\ MessageOK(f)
  BY MessagesAssumption DEF FragInv, FragTypes, HazardInv, BusTypes
<1>4. /\ send'[t].msg = f /\ send'[t].chain = send[t].chain
      /\ \A u \in Senders : u # t => send'[u] = send[u]
  BY <1>1, <1>3 DEF SendLocals
<1>5. send[t].msg = NoFrag /\ send[t].chain = NoChain
  BY <1>2, <1>3 DEF SenderInv, HasChain
<1>6. /\ \A x : InRelease(x)' <=> InRelease(x)
      /\ \A g \in Frags : CountedSenders(g)' = CountedSenders(g) \ {t} /\ t \notin CountedSenders(g)
      /\ pc'[t] = "send_enter" /\ \A u \in Senders : u # t => pc'[u] = pc[u]
  <2>1. "send_enter" \in Labels /\ "send_enter" \in Unsent
    BY DEF Unsent, Labels, SendOutside
  <2>2. /\ \A x : InRelease(x)' <=> InRelease(x)
        /\ \A g : /\ CountedSenders(g)' = CountedSenders(g) \ {t}
                  /\ t \in CountedSenders(g) => send[t].msg = g
        /\ pc'[t] = "send_enter" /\ \A u \in Senders : u # t => pc'[u] = pc[u]
    BY <1>2, <1>4, <2>1, SenderCounts
  <2>3. QED
    BY <1>3, <1>5, <2>2
<1>7. ASSUME NEW g \in Frags
      PROVE  CountedChains(g)' = CountedChains(g) /\ CountedSenders(g)' = CountedSenders(g)
  <2>1. CountedChains(g)' = CountedChains(g)
    BY <1>2, <1>6, UsersAre
  <2>2. QED
    BY <1>6, <2>1
<1>8. FragTypes' /\ free_frags' \subseteq free_frags
  BY <1>1, <1>2, <1>3 DEF FragTypes
<1>9. msg_data[f].id = 0
  BY <1>1, <1>3 DEF MessageOK
<1>10. ASSUME NEW u \in Senders PROVE SenderFrag(u)'
  <2>1. CASE u = t
    BY <1>1, <1>2, <1>4, <1>5, <1>9, <2>1 DEF SenderFrag
  <2>2. CASE u # t
    <3>1. SenderFrag(u) /\ send'[u] = send[u] /\ pc'[u] = pc[u]
      BY <1>4, <1>6, <2>2 DEF FragInv
    <3>2. QED
      BY <1>2, <1>8, <3>1 DEF SenderFrag
  <2>3. QED
    BY <2>1, <2>2
<1>11. \A u \in Senders : send[u].msg # f
  BY <1>1 DEF FragInv, SenderFrag
<1>12. \A u, v \in Senders : send'[u].msg = send'[v].msg => u = v \/ send'[u].msg = NoFrag
  BY <1>4, <1>11 DEF FragInv
<1>13. ASSUME NEW g \in Frags PROVE Kept(g)'
  <2>1. CASE g = f
    BY <1>4, <1>6, <2>1 DEF Kept, Unsent
  <2>2. CASE g # f
    <3>1. Kept(g) /\ (g \in free_frags => g \in free_frags') /\ msg_data' = msg_data
      BY <1>1, <1>2, <2>2 DEF FragInv
    <3>2. \A u \in Senders : pc[u] \in Unsent /\ send[u].msg = g =>
            pc'[u] \in Unsent /\ send'[u].msg = g
      BY <1>2, <1>4, <1>6 DEF Unsent
    <3>3. QED
      BY <3>1, <3>2 DEF Kept
  <2>3. QED
    BY <2>1, <2>2
<1>14. QED
  BY <1>2, <1>7, <1>8, <1>10, <1>12, <1>13, FragsStay

\* What a sender's step on its own message leaves alone.
LEMMA OwnMessage ==
  ASSUME HazardInv, FragInv, NEW t \in Senders, NEW f \in Frags, send[t].msg = f,
         \A u \in Senders : u # t => send'[u] = send[u] /\ pc'[u] = pc[u],
         \A u \in Senders : u # t /\ send[u].chain # NoChain =>
           chain_msg'[send[u].chain] = chain_msg[send[u].chain],
         \A g \in Frags : g # f => msg_data'[g] = msg_data[g],
         free_frags' \subseteq free_frags \cup {f},
         send'[t].msg \in {f, NoFrag}, SenderFrag(t)'
  PROVE  /\ \A u \in Senders : SenderFrag(u)'
         /\ \A u, v \in Senders : send'[u].msg = send'[v].msg => u = v \/ send'[u].msg = NoFrag
<1>1. \A u \in Senders : u # t => send[u].msg # f
  BY MessagesAssumption DEF FragInv
<1>2. ASSUME NEW u \in Senders, u # t PROVE SenderFrag(u)'
  <2>1. SenderFrag(u) /\ send'[u] = send[u] /\ pc'[u] = pc[u] /\ send[u].msg # f
    BY <1>1, <1>2 DEF FragInv
  <2>2. /\ send[u].msg \in Frags \cup {NoFrag} /\ (pc[u] \in Unsent => send[u].msg \in Frags)
    BY SenderFrags
  <2>3. send[u].msg \notin free_frags'
    BY <2>1 DEF SenderFrag
  <2>4. pc[u] \in Unsent => msg_data'[send[u].msg].id = 0
    BY <2>1, <2>2 DEF SenderFrag
  <2>5. QED
    BY <1>2, <2>1, <2>3, <2>4 DEF SenderFrag
<1>3. \A u \in Senders : u # t => send'[u].msg = send[u].msg
  OBVIOUS
<1>4. \A u, v \in Senders : send[u].msg = send[v].msg => u = v \/ send[u].msg = NoFrag
  BY DEF FragInv
<1>5. QED
  BY <1>1, <1>2, <1>3, <1>4

\* A sender's step on its own message.
LEMMA OwnMessageChanges ==
  ASSUME ExclusionInv, HazardInv, FragInv, NEW t \in Senders, NEW f \in Frags, send[t].msg = f,
         NEW l \in Labels, Goto(t, l), pc[t] # "release_chain", l # "release_chain", disp' = disp,
         \A u \in Senders : u # t => send'[u] = send[u],
         send'[t].msg \in {f, NoFrag}, SenderFrag(t)',
         FragTypes', signaled' = signaled, next_id <= next_id',
         \A u \in Senders : u # t /\ send[u].chain # NoChain =>
           chain_msg'[send[u].chain] = chain_msg[send[u].chain],
         \A g \in Frags : g # f => /\ msg_data'[g] = msg_data[g]
                                   /\ \A c \in Chains : chain_msg'[c] = g <=> chain_msg[c] = g,
         free_frags' \subseteq free_frags \cup {f}, free_frags \subseteq free_frags', Kept(f)',
         MessageOK(f)', msg_data'[f].id \in {msg_data[f].id, 0, next_id}
  PROVE  FragInv'
<1>1. /\ \A x : InRelease(x)' <=> InRelease(x)
      /\ \A g : /\ send'[t].msg # g \/ l \in Unsent => CountedSenders(g)' = CountedSenders(g) \ {t}
                /\ t \in CountedSenders(g) => send[t].msg = g
      /\ \A u \in Senders : u # t => pc'[u] = pc[u]
  BY SenderCounts
<1>2. ASSUME NEW g \in Frags, g # f
      PROVE  CountedChains(g)' = CountedChains(g) /\ CountedSenders(g)' = CountedSenders(g)
  <2>1. \A c \in Chains : (chain_msg'[c] = g /\ ~InRelease(c)') <=> (chain_msg[c] = g /\ ~InRelease(c))
    BY <1>1, <1>2
  <2>2. CountedChains(g)' = CountedChains(g)
    <3>1. /\ CountedChains(g) = {c \in Chains : chain_msg[c] = g /\ ~InRelease(c)}
          /\ CountedChains(g)' = {c \in Chains : chain_msg'[c] = g /\ ~InRelease(c)'}
      BY UsersAre
    <3>2. QED
      BY <2>1, <3>1
  <2>3. send'[t].msg # g /\ send[t].msg # g
    BY <1>2, MessagesAssumption
  <2>4. CountedSenders(g)' = CountedSenders(g) \ {t} /\ t \notin CountedSenders(g)
    BY <1>1, <2>3
  <2>5. QED
    BY <2>2, <2>4
<1>3. /\ \A u \in Senders : SenderFrag(u)'
      /\ \A u, v \in Senders : send'[u].msg = send'[v].msg => u = v \/ send'[u].msg = NoFrag
  BY <1>1, OwnMessage
<1>4. \A g \in Frags : g # f => (g \in free_frags' => g \in free_frags)
  OBVIOUS
<1>5. \A g \in Frags : g # f => /\ msg_data'[g] = msg_data[g]
                                /\ CountedChains(g)' = CountedChains(g)
                                /\ CountedSenders(g)' = CountedSenders(g)
                                /\ g \in free_frags' => g \in free_frags
  BY <1>2, <1>4
<1>6. signaled' \subseteq signaled \cup ({msg_data[f].id} \ {0})
  OBVIOUS
<1>7. ASSUME NEW g \in Frags PROVE Kept(g)'
  <2>1. CASE g = f
    BY <2>1
  <2>2. CASE g # f
    <3>1. Kept(g) /\ msg_data'[g] = msg_data[g] /\ (g \in free_frags => g \in free_frags')
      BY <2>2 DEF FragInv
    <3>2. \A u \in Senders : send[u].msg = g => pc'[u] = pc[u] /\ send'[u].msg = g
      BY <1>1, <2>2
    <3>3. QED
      BY <3>1, <3>2 DEF Kept
  <2>3. QED
    BY <2>1, <2>2
<1>8. QED
  BY <1>3, <1>5, <1>6, <1>7, OneFragChanges

\* A message that has a receiver gets its number and the sender's reference.
LEMMA MessageNumbered ==
  ASSUME ExclusionInv, HazardInv, ChainInv, FragInv, NEW t \in Senders, SendCollect(t)
  PROVE  FragInv'
<1>0. PICK f : f = send[t].msg
  OBVIOUS
<1>1. /\ pc[t] = "send_collect" /\ Goto(t, "send_chain") /\ disp' = disp /\ next_id' = next_id + 1
      /\ UNCHANGED <<free_chains, free_frags, chain_msg, signaled>>
      /\ msg_data' = [msg_data EXCEPT ![f] = [id |-> next_id, ref_count |-> 1]]
  BY <1>0 DEF SendCollect, Step
<1>2. /\ FragTypes /\ f \in Frags /\ send \in [Senders -> SendLocals] /\ MessageOK(f)
      /\ SenderInv(t) /\ SenderFrag(t) /\ NoFrag \notin Frags /\ "send_chain" \in Labels
  BY <1>0, <1>1, SenderFrags, MessagesAssumption
  DEF FragInv, HazardInv, BusTypes, Labels, SendInside
<1>3. PICK p \in Seq(Receivers) : send' = [send EXCEPT ![t].pending = p]
  BY Collected DEF HazardInv
<1>4. /\ send'[t].msg = f /\ send'[t].chain = send[t].chain
      /\ \A u \in Senders : u # t => send'[u] = send[u]
  BY <1>0, <1>2, <1>3 DEF SendLocals
<1>5. /\ msg_data' \in [Frags -> [id : Nat, ref_count : Int]]
      /\ \A g \in Frags : g # f => msg_data'[g] = msg_data[g]
      /\ msg_data'[f] = [id |-> next_id, ref_count |-> 1] /\ next_id \in Nat \ {0}
  BY <1>1, <1>2 DEF FragTypes
<1>6. FragTypes'
  BY <1>1, <1>2, <1>5 DEF FragTypes
<1>7. Users(f) = 0 /\ CountedChains(f) = {} /\ CountedSenders(f) = {}
  BY <1>0, <1>1, <1>2, UsersAre DEF SenderFrag, Unsent, MessageOK
<1>8. Users(f)' = 1
  <2>1. /\ \A x : InRelease(x)' <=> InRelease(x)
        /\ CountedSenders(f)' = CountedSenders(f) \cup {t}
    BY <1>1, <1>2, <1>4, SenderCounts DEF Unsent
  <2>2. CountedChains(f)' = CountedChains(f) /\ CountedSenders(f)' = CountedSenders(f) \cup {t}
    BY <1>1, <2>1, UsersAre
  <2>6. t \notin CountedSenders(f)
    BY <1>7
  <2>3. Cardinality(CountedSenders(f) \cup {t}) = Cardinality(CountedSenders(f)) + 1
    BY <2>6, UsersChange
  <2>4. Users(f)' = Cardinality(CountedChains(f)) + Cardinality(CountedSenders(f) \cup {t})
    BY <2>2, UsersAre
  <2>5. /\ Users(f) = Cardinality(CountedChains(f)) + Cardinality(CountedSenders(f))
        /\ Cardinality(CountedChains(f)) \in Nat /\ Cardinality(CountedSenders(f)) \in Nat
    BY UsersAre
  <2>7. QED
    BY <1>7, <2>3, <2>4, <2>5
<1>9. MessageOK(f)'
  <2>1. f \notin free_frags /\ next_id \notin signaled
    BY <1>0, <1>2 DEF SenderFrag, FragTypes
  <2>2. QED
    BY <1>1, <1>5, <1>8, <2>1 DEF MessageOK
<1>10. SenderFrag(t)'
  BY <1>0, <1>1, <1>2, <1>4 DEF SenderFrag, Goto, Unsent, ExclusionInv, Readers, Threads
<1>11. \A g \in Frags : g # f => /\ msg_data'[g] = msg_data[g]
                                 /\ \A c \in Chains : chain_msg'[c] = g <=> chain_msg[c] = g
  BY <1>1, <1>5
<1>12. msg_data'[f].id = next_id /\ next_id <= next_id' /\ send[t].msg = f
  BY <1>0, <1>1, <1>5
<1>13. Kept(f)' /\ free_frags \subseteq free_frags'
  BY <1>1, <1>5 DEF Kept
<1>14. QED
  BY <1>1, <1>2, <1>4, <1>6, <1>9, <1>10, <1>11, <1>12, <1>13, OwnMessageChanges

\* Nobody has the address: the sender's fragment is free again.
LEMMA MessageFreed ==
  ASSUME ExclusionInv, HazardInv, ChainInv, FragInv, NEW t \in Senders, SendToNobody(t)
  PROVE  FragInv'
<1>0. PICK f : f = send[t].msg
  OBVIOUS
<1>1. /\ pc[t] = "send_collect" /\ Goto(t, "idle") /\ disp' = disp /\ send' = [send EXCEPT ![t] = IdleSend]
      /\ UNCHANGED <<free_chains, chain_msg, signaled, next_id>>
      /\ free_frags' = free_frags \cup {f} /\ msg_data' = [msg_data EXCEPT ![f] = NoMessage]
  BY <1>0 DEF SendToNobody, Step, Free, sent
<1>2. /\ FragTypes /\ f \in Frags /\ send \in [Senders -> SendLocals] /\ MessageOK(f)
      /\ SenderFrag(t) /\ NoFrag \notin Frags /\ "idle" \in Labels
  BY <1>0, <1>1, SenderFrags, MessagesAssumption
  DEF FragInv, HazardInv, BusTypes, Labels, SendOutside
<1>4. /\ send'[t].msg = NoFrag /\ send'[t].chain = NoChain
      /\ \A u \in Senders : u # t => send'[u] = send[u]
  BY <1>1, <1>2 DEF IdleSend
<1>5. /\ msg_data' \in [Frags -> [id : Nat, ref_count : Int]] /\ next_id \in Nat \ {0}
      /\ \A g \in Frags : g # f => msg_data'[g] = msg_data[g]
      /\ msg_data'[f] = NoMessage /\ NoMessage.id = 0 /\ NoMessage.ref_count = 0
      /\ signaled \subseteq 1 .. next_id - 1
  BY <1>1, <1>2 DEF FragTypes, NoMessage
<1>6. FragTypes'
  BY <1>1, <1>2, <1>5 DEF FragTypes
<1>7. Users(f) = 0 /\ CountedChains(f) = {} /\ CountedSenders(f) = {}
  BY <1>0, <1>1, <1>2, UsersAre DEF SenderFrag, Unsent, MessageOK
<1>8. Users(f)' = 0
  <2>1. /\ \A x : InRelease(x)' <=> InRelease(x)
        /\ CountedSenders(f)' = CountedSenders(f) \ {t}
    BY <1>1, <1>2, <1>4, SenderCounts
  <2>2. CountedChains(f)' = CountedChains(f) /\ CountedSenders(f)' = CountedSenders(f)
    BY <1>1, <1>7, <2>1, UsersAre
  <2>4. Users(f)' = Cardinality(CountedChains(f)) + Cardinality(CountedSenders(f))
    BY <2>2, UsersAre
  <2>5. QED
    BY <1>7, <2>4, UsersAre
<1>9. MessageOK(f)'
  BY <1>1, <1>5, <1>8 DEF MessageOK
<1>10. SenderFrag(t)'
  BY <1>1, <1>2, <1>4 DEF SenderFrag, Goto, Unsent, ExclusionInv, Readers, Threads, FragTypes
<1>11. \A g \in Frags : g # f => /\ msg_data'[g] = msg_data[g]
                                 /\ \A c \in Chains : chain_msg'[c] = g <=> chain_msg[c] = g
  BY <1>1, <1>5
<1>12. msg_data'[f].id = 0 /\ next_id <= next_id' /\ send[t].msg = f
  BY <1>0, <1>1, <1>5
<1>13. Kept(f)' /\ free_frags \subseteq free_frags'
  BY <1>1 DEF Kept
<1>14. QED
  BY <1>1, <1>2, <1>4, <1>6, <1>9, <1>10, <1>11, <1>12, <1>13, OwnMessageChanges

\* A chain for the next receiver, and its reference.
LEMMA ChainTaken ==
  ASSUME ExclusionInv, HazardInv, ChainInv, FragInv, NEW t \in Senders, SendGetChain(t)
  PROVE  FragInv'
<1>0. PICK f : f = send[t].msg
  OBVIOUS
<1>1. /\ pc[t] = "send_chain" /\ Goto(t, "send_try") /\ disp' = disp
      /\ UNCHANGED <<free_frags, signaled, next_id>>
      /\ msg_data' = [msg_data EXCEPT ![f].ref_count = @ + 1]
  BY <1>0 DEF SendGetChain, Step, AddReference, sent
<1>2. /\ FragTypes /\ f \in Frags /\ send \in [Senders -> SendLocals] /\ MessageOK(f)
      /\ SenderFrag(t) /\ NoFrag \notin Frags /\ NoChain \notin Chains /\ "send_try" \in Labels
  BY <1>0, <1>1, SenderFrags, MessagesAssumption
  DEF FragInv, HazardInv, BusTypes, Labels, SendInside
<1>3. PICK c \in free_chains : /\ free_chains' = free_chains \ {c}
                               /\ chain_msg' = [chain_msg EXCEPT ![c] = f]
                               /\ send' = [send EXCEPT ![t].chain = c]
  BY <1>0 DEF SendGetChain
<1>4. /\ send'[t].msg = f /\ send'[t].chain = c
      /\ \A u \in Senders : u # t => send'[u] = send[u]
  BY <1>0, <1>2, <1>3, ChainChanges
<1>14. /\ c \in Chains /\ chain_msg[c] = NoFrag /\ ~InRelease(c)
       /\ \A u \in Senders : send[u].chain # c
  <2>1. c \in Chains
    BY <1>3 DEF HazardInv, BusTypes
  <2>2. ASSUME NEW u \in Senders, send[u].chain = c PROVE FALSE
    <3>1. /\ <<"sender", u>> \in Homes /\ <<"free", 0>> \in Homes /\ <<"sender", u>> # <<"free", 0>>
          /\ c \in Held(<<"sender", u>>) /\ c \in Held(<<"free", 0>>)
      BY <1>2, <1>3, <2>1, <2>2, HomesAre
    <3>2. QED
      BY <3>1 DEF ChainInv
  <2>3. QED
    BY <1>2, <1>3, <2>1, <2>2, NotInRelease DEF FragTypes
<1>5. /\ msg_data' \in [Frags -> [id : Nat, ref_count : Int]] /\ next_id \in Nat \ {0}
      /\ \A g \in Frags : g # f => msg_data'[g] = msg_data[g]
      /\ msg_data'[f].id = msg_data[f].id /\ msg_data'[f].ref_count = msg_data[f].ref_count + 1
  <2>1. msg_data[f] \in [id : Nat, ref_count : Int] /\ msg_data \in [Frags -> [id : Nat, ref_count : Int]]
    BY <1>2 DEF FragTypes
  <2>2. msg_data' = [msg_data EXCEPT ![f] = [msg_data[f] EXCEPT !.ref_count = @ + 1]]
    BY <1>1
  <2>3. [msg_data[f] EXCEPT !.ref_count = @ + 1]
          = [id |-> msg_data[f].id, ref_count |-> msg_data[f].ref_count + 1]
    BY <2>1
  <2>4. QED
    BY <1>2, <2>1, <2>2, <2>3 DEF FragTypes
<1>15. chain_msg' \in [Chains -> Frags \cup {NoFrag}] /\ chain_msg'[c] = f
       /\ \A x \in Chains : x # c => chain_msg'[x] = chain_msg[x]
  BY <1>2, <1>3, <1>14 DEF FragTypes
<1>6. FragTypes'
  BY <1>1, <1>2, <1>3, <1>5, <1>14, <1>15 DEF FragTypes
<1>7. t \in CountedSenders(f)
  BY <1>0, <1>1 DEF CountedSenders
<1>8. Users(f)' = Users(f) + 1 /\ Users(f) # 0
  <2>1. /\ \A x : InRelease(x)' <=> InRelease(x)
        /\ CountedSenders(f)' = CountedSenders(f) \cup {t}
    BY <1>1, <1>2, <1>4, SenderCounts DEF Unsent
  <2>2. CountedChains(f)' = CountedChains(f) \cup {c} /\ c \notin CountedChains(f)
    BY <1>2, <1>14, <1>15, <2>1, UsersAre
  <2>3. CountedSenders(f)' = CountedSenders(f)
    BY <1>7, <2>1
  <2>4. Cardinality(CountedChains(f) \cup {c}) = Cardinality(CountedChains(f)) + 1
    BY <2>2, UsersChange
  <2>5. Users(f)' = Cardinality(CountedChains(f) \cup {c}) + Cardinality(CountedSenders(f))
    BY <2>2, <2>3, UsersAre
  <2>6. QED
    BY <1>7, <2>4, <2>5, UsersAre
<1>9. MessageOK(f)'
  BY <1>1, <1>2, <1>5, <1>8, UsersAre DEF MessageOK
<1>10. SenderFrag(t)'
  BY <1>0, <1>1, <1>2, <1>4, <1>15 DEF SenderFrag, Goto, Unsent, ExclusionInv, Readers, Threads
<1>11. \A g \in Frags : g # f => /\ msg_data'[g] = msg_data[g]
                                 /\ \A x \in Chains : chain_msg'[x] = g <=> chain_msg[x] = g
  BY <1>2, <1>5, <1>14, <1>15
<1>12. next_id <= next_id' /\ send[t].msg = f /\ free_frags' \subseteq free_frags \cup {f}
  BY <1>0, <1>1, <1>5
<1>16. \A u \in Senders : u # t /\ send[u].chain # NoChain =>
         chain_msg'[send[u].chain] = chain_msg[send[u].chain]
  BY <1>14, <1>15, SenderFrags
<1>17. Kept(f)' /\ free_frags \subseteq free_frags'
  <2>1. msg_data[f].id # 0
    BY <1>2, <1>8 DEF MessageOK
  <2>2. QED
    BY <1>1, <1>5, <2>1 DEF Kept
<1>18. QED
  BY <1>1, <1>2, <1>4, <1>5, <1>6, <1>9, <1>10, <1>11, <1>12, <1>16, <1>17, OwnMessageChanges

\* A sender's chain that no receiver took: its reference is not the last.
LEMMA DanglingReleased ==
  ASSUME ExclusionInv, HazardInv, ChainInv, FragInv, NEW t \in Senders, SendRelease(t)
  PROVE  FragInv'
<1>0. PICK f, c : f = send[t].msg /\ c = send[t].chain
  OBVIOUS
<1>1. /\ pc[t] = "send_release" /\ Goto(t, "send_drop") /\ disp' = disp /\ DropReference(f)
      /\ UNCHANGED <<signaled, next_id>> /\ send' = [send EXCEPT ![t].chain = NoChain]
      /\ free_chains' = free_chains \cup {c} /\ chain_msg' = [chain_msg EXCEPT ![c] = NoFrag]
  BY <1>0 DEF SendRelease, PushChain, Step, sent
<1>2. /\ FragTypes /\ f \in Frags /\ send \in [Senders -> SendLocals] /\ MessageOK(f)
      /\ SenderFrag(t) /\ NoFrag \notin Frags /\ NoChain \notin Chains /\ "send_drop" \in Labels
      /\ SenderInv(t)
  BY <1>0, <1>1, SenderFrags, MessagesAssumption
  DEF FragInv, HazardInv, BusTypes, Labels, SendOutside
<1>3. c \in Chains /\ chain_msg[c] = f /\ ~InRelease(c)
  <2>1. c \in Chains
    BY <1>0, <1>1, <1>2, SenderFrags DEF SenderInv, HasChain
  <2>2. QED
    BY <1>0, <1>2, <2>1, NotInRelease DEF SenderFrag
<1>4. /\ send'[t].msg = f /\ send'[t].chain = NoChain
      /\ \A u \in Senders : u # t => send'[u] = send[u]
  BY <1>0, <1>1, <1>2, ChainChanges
<1>5. \A u \in Senders : u # t => send[u].chain # c
  <2>1. SUFFICES ASSUME NEW u \in Senders, u # t, send[u].chain = c PROVE FALSE
    OBVIOUS
  <2>2. /\ <<"sender", u>> \in Homes /\ <<"sender", t>> \in Homes /\ <<"sender", u>> # <<"sender", t>>
        /\ c \in Held(<<"sender", u>>) /\ c \in Held(<<"sender", t>>)
    BY <1>0, <1>2, <1>3, <2>1, HomesAre
  <2>3. QED
    BY <2>2 DEF ChainInv
<1>6. t \in CountedSenders(f) /\ c \in CountedChains(f)
  <2>1. t \in CountedSenders(f)
    BY <1>0, <1>1 DEF CountedSenders
  <2>2. CountedChains(f) = {x \in Chains : chain_msg[x] = f /\ ~InRelease(x)}
    BY UsersAre
  <2>3. QED
    BY <1>3, <2>1, <2>2
<1>7. Users(f)' = Users(f) - 1 /\ Users(f) > 1
  <2>1. /\ \A x : InRelease(x)' <=> InRelease(x)
        /\ CountedSenders(f)' = CountedSenders(f) \cup {t}
    BY <1>1, <1>2, <1>4, SenderCounts DEF Unsent
  <2>2. \A x \in Chains : (chain_msg'[x] = f /\ ~InRelease(x)')
                            <=> (chain_msg[x] = f /\ ~InRelease(x)) /\ x # c
    BY <1>1, <1>2, <1>3, <2>1 DEF FragTypes
  <2>3. /\ CountedChains(f) = {x \in Chains : chain_msg[x] = f /\ ~InRelease(x)}
        /\ CountedChains(f)' = {x \in Chains : chain_msg'[x] = f /\ ~InRelease(x)'}
        /\ Users(f) = Cardinality(CountedChains(f)) + Cardinality(CountedSenders(f))
        /\ Cardinality(CountedChains(f)) \in Nat /\ Cardinality(CountedSenders(f)) \in Nat
    BY UsersAre
  <2>4. CountedChains(f)' = CountedChains(f) \ {c} /\ CountedSenders(f)' = CountedSenders(f)
    BY <1>6, <2>1, <2>2, <2>3
  <2>5. Cardinality(CountedChains(f) \ {c}) = Cardinality(CountedChains(f)) - 1
    BY <1>6, UsersChange
  <2>6. Users(f)' = Cardinality(CountedChains(f) \ {c}) + Cardinality(CountedSenders(f))
    BY <2>4, UsersAre
  <2>7. Cardinality(CountedChains(f)) # 0 /\ Cardinality(CountedSenders(f)) # 0
    <3>1. IsFiniteSet(CountedChains(f)) /\ IsFiniteSet(CountedSenders(f))
      BY UsersAre
    <3>2. QED
      BY <1>6, <3>1, FS_EmptySet
  <2>8. QED
    BY <2>3, <2>5, <2>6, <2>7
<1>8. ~LastReference(f)
  BY <1>2, <1>7 DEF MessageOK, LastReference
<1>9. /\ msg_data' \in [Frags -> [id : Nat, ref_count : Int]] /\ next_id \in Nat \ {0}
      /\ \A g \in Frags : g # f => msg_data'[g] = msg_data[g]
      /\ free_frags' = free_frags /\ msg_data'[f].id = msg_data[f].id
      /\ msg_data'[f].ref_count = msg_data[f].ref_count - 1
  <2>1. /\ msg_data \in [Frags -> [id : Nat, ref_count : Int]] /\ next_id \in Nat \ {0}
        /\ free_frags \subseteq Frags
    BY <1>2 DEF FragTypes
  <2>2. /\ msg_data' \in [Frags -> [id : Nat, ref_count : Int]]
        /\ \A g \in Frags : g # f => msg_data'[g] = msg_data[g]
        /\ free_frags' = IF LastReference(f) THEN free_frags \cup {f} ELSE free_frags
        /\ msg_data'[f] = IF LastReference(f) THEN NoMessage
                          ELSE [id |-> msg_data[f].id, ref_count |-> msg_data[f].ref_count - 1]
    BY <1>1, <1>2, <2>1, MessageDropped
  <2>3. /\ free_frags' = free_frags
        /\ msg_data'[f] = [id |-> msg_data[f].id, ref_count |-> msg_data[f].ref_count - 1]
    BY <1>8, <2>2
  <2>4. QED
    BY <2>1, <2>2, <2>3
<1>10. /\ chain_msg' \in [Chains -> Frags \cup {NoFrag}] /\ chain_msg'[c] = NoFrag
       /\ \A x \in Chains : x # c => chain_msg'[x] = chain_msg[x]
  BY <1>1, <1>2, <1>3 DEF FragTypes
<1>11. FragTypes'
  BY <1>1, <1>2, <1>9, <1>10 DEF FragTypes
<1>12. MessageOK(f)'
  BY <1>1, <1>2, <1>7, <1>9, UsersAre DEF MessageOK
<1>13. SenderFrag(t)'
  BY <1>0, <1>1, <1>2, <1>4, <1>9 DEF SenderFrag, Goto, Unsent, ExclusionInv, Readers, Threads
<1>14. \A g \in Frags : g # f => /\ msg_data'[g] = msg_data[g]
                                 /\ \A x \in Chains : chain_msg'[x] = g <=> chain_msg[x] = g
  BY <1>2, <1>3, <1>9, <1>10
<1>15. next_id <= next_id' /\ send[t].msg = f /\ free_frags' \subseteq free_frags \cup {f}
  BY <1>0, <1>1, <1>9
<1>16. \A u \in Senders : u # t /\ send[u].chain # NoChain =>
         chain_msg'[send[u].chain] = chain_msg[send[u].chain]
  BY <1>5, <1>10, SenderFrags
<1>17. Kept(f)' /\ free_frags \subseteq free_frags'
  <2>1. msg_data[f].id # 0
    BY <1>2, <1>7 DEF MessageOK
  <2>2. QED
    BY <1>9, <2>1 DEF Kept
<1>18. QED
  BY <1>1, <1>2, <1>4, <1>9, <1>11, <1>12, <1>13, <1>14, <1>15, <1>16, <1>17, OwnMessageChanges

\* The sender's own reference.
LEMMA OwnReferenceDropped ==
  ASSUME ExclusionInv, HazardInv, ChainInv, FragInv, NEW t \in Senders, SendDrop(t)
  PROVE  FragInv'
<1>0. PICK f : f = send[t].msg
  OBVIOUS
<1>1. /\ pc[t] = "send_drop" /\ Goto(t, "idle") /\ disp' = disp /\ DropReference(f)
      /\ UNCHANGED <<signaled, next_id, free_chains, chain_msg>> /\ send' = [send EXCEPT ![t] = IdleSend]
  BY <1>0 DEF SendDrop, Step, sent
<1>2. /\ FragTypes /\ f \in Frags /\ send \in [Senders -> SendLocals] /\ MessageOK(f)
      /\ NoFrag \notin Frags /\ "idle" \in Labels
  BY <1>0, <1>1, SenderFrags, MessagesAssumption
  DEF FragInv, HazardInv, BusTypes, Labels, SendOutside
<1>4. /\ send'[t].msg = NoFrag /\ send'[t].chain = NoChain
      /\ \A u \in Senders : u # t => send'[u] = send[u]
  BY <1>1, <1>2 DEF IdleSend
<1>6. t \in CountedSenders(f)
  BY <1>0, <1>1 DEF CountedSenders
<1>7. Users(f)' = Users(f) - 1 /\ Users(f) \in Nat \ {0}
  <2>1. /\ \A x : InRelease(x)' <=> InRelease(x)
        /\ CountedSenders(f)' = CountedSenders(f) \ {t}
    BY <1>1, <1>2, <1>4, SenderCounts
  <2>2. /\ CountedChains(f) = {x \in Chains : chain_msg[x] = f /\ ~InRelease(x)}
        /\ CountedChains(f)' = {x \in Chains : chain_msg'[x] = f /\ ~InRelease(x)'}
        /\ Users(f) = Cardinality(CountedChains(f)) + Cardinality(CountedSenders(f))
        /\ Cardinality(CountedChains(f)) \in Nat /\ Cardinality(CountedSenders(f)) \in Nat
    BY UsersAre
  <2>3. CountedChains(f)' = CountedChains(f) /\ CountedSenders(f)' = CountedSenders(f) \ {t}
    BY <1>1, <2>1, <2>2
  <2>4. Cardinality(CountedSenders(f) \ {t}) = Cardinality(CountedSenders(f)) - 1
    BY <1>6, UsersChange
  <2>5. Users(f)' = Cardinality(CountedChains(f)) + Cardinality(CountedSenders(f) \ {t})
    BY <2>3, UsersAre
  <2>6. Cardinality(CountedSenders(f)) # 0
    BY <1>6, UsersAre, FS_EmptySet
  <2>7. QED
    BY <2>2, <2>4, <2>5, <2>6
<1>8. /\ msg_data[f].ref_count = Users(f) /\ msg_data[f].id \in Nat \ {0} /\ f \notin free_frags
      /\ msg_data[f].id < next_id /\ msg_data[f].id \notin signaled /\ next_id \in Nat \ {0}
      /\ signaled \subseteq 1 .. next_id - 1 /\ free_frags \subseteq Frags
      /\ msg_data \in [Frags -> [id : Nat, ref_count : Int]]
  BY <1>2, <1>7 DEF MessageOK, FragTypes
<1>9. /\ msg_data' \in [Frags -> [id : Nat, ref_count : Int]]
      /\ \A g \in Frags : g # f => msg_data'[g] = msg_data[g]
      /\ free_frags' = IF LastReference(f) THEN free_frags \cup {f} ELSE free_frags
      /\ msg_data'[f] = IF LastReference(f) THEN NoMessage
                        ELSE [id |-> msg_data[f].id, ref_count |-> msg_data[f].ref_count - 1]
  BY <1>1, <1>2, <1>8, MessageDropped
<1>10. FragTypes'
  BY <1>1, <1>2, <1>8, <1>9 DEF FragTypes
<1>11. MessageOK(f)'
  <2>1. CASE LastReference(f)
    BY <1>1, <1>7, <1>8, <1>9, <2>1 DEF MessageOK, LastReference, NoMessage
  <2>2. CASE ~LastReference(f)
    BY <1>1, <1>7, <1>8, <1>9, <2>2 DEF MessageOK, LastReference
  <2>3. QED
    BY <2>1, <2>2
<1>12. SenderFrag(t)'
  BY <1>1, <1>2, <1>4, <1>10 DEF SenderFrag, Goto, Unsent, ExclusionInv, Readers, Threads, FragTypes
<1>13. \A g \in Frags : g # f => /\ msg_data'[g] = msg_data[g]
                                 /\ \A x \in Chains : chain_msg'[x] = g <=> chain_msg[x] = g
  BY <1>1, <1>9
<1>14. /\ next_id <= next_id' /\ send[t].msg = f /\ free_frags' \subseteq free_frags \cup {f}
       /\ msg_data'[f].id \in {msg_data[f].id, 0}
  BY <1>0, <1>1, <1>8, <1>9 DEF NoMessage
<1>15. Kept(f)' /\ free_frags \subseteq free_frags'
  <2>1. CASE LastReference(f)
    BY <1>9, <2>1 DEF Kept
  <2>2. CASE ~LastReference(f)
    BY <1>8, <1>9, <2>2 DEF Kept
  <2>3. QED
    BY <2>1, <2>2
<1>16. QED
  BY <1>1, <1>2, <1>4, <1>10, <1>11, <1>12, <1>13, <1>14, <1>15, OwnMessageChanges
\* A dispatch moves one thread, and never to or from bus_release_msg_chain's second half.
LEMMA DispatchMoves ==
  ASSUME HazardInv, ExclusionInv, NEW t \in Readers, DispatchBegin(t) \/ DispatchStep(t)
  PROVE  /\ \A u \in Threads : u # t => pc'[u] = pc[u] /\ disp'[u] = disp[u]
         /\ pc[t] # "release_chain" /\ pc'[t] # "release_chain"
         /\ pc[t] \notin Unsent /\ pc'[t] \notin Unsent /\ pc'[t] \notin HasChain
<1> DEFINE Spots == {"idle", "send_chain", "send_dispatch"} \cup DispatchInside
                      \cup (DispatchOutside \ {"release_chain"})
<1>1. t \in Threads /\ pc \in [Threads -> Labels] /\ disp \in [Threads -> DispatchLocals]
  BY ThreadFacts DEF HazardInv, BusTypes, ExclusionInv
<1>2. pc[t] \in Spots /\ \E l \in Spots : Goto(t, l)
  BY DEF DispatchBegin, DispatchStep, DispatchReenter, DispatchTest, DispatchUndo,
         DispatchPick, DispatchEnd, DispatchTry, DispatchLeave, DispatchLock, DispatchDetach,
         DispatchNothing, DispatchDeliver, DispatchDone, DispatchReturn, Step,
         DispatchInside, DispatchOutside
<1>3. \A u \in Threads : u # t => disp'[u] = disp[u]
  <2>1. CASE \/ DispatchBegin(t) \/ DispatchReenter(t) \/ DispatchTest(t) \/ DispatchUndo(t)
             \/ DispatchPick(t) \/ DispatchEnd(t)
    BY <1>1, <2>1 DEF DispatchBegin, DispatchReenter, DispatchTest, DispatchUndo, DispatchPick,
                      DispatchEnd, DispatchReturn
  <2>2. CASE \/ DispatchTry(t) \/ DispatchLeave(t) \/ DispatchLock(t) \/ DispatchDetach(t)
             \/ DispatchNothing(t) \/ DispatchDeliver(t) \/ DispatchDone(t)
    BY <1>1, <2>2 DEF DispatchTry, DispatchLeave, DispatchLock, DispatchDetach, DispatchNothing,
                      DispatchDeliver, DispatchDone, DispatchReturn
  <2>3. QED
    BY <2>1, <2>2 DEF DispatchStep
<1>4. PICK l \in Spots : Goto(t, l)
  BY <1>2
<1>5. pc'[t] = l /\ \A u \in Threads : u # t => pc'[u] = pc[u]
  BY <1>1, <1>4 DEF Goto
<1>6. \A x \in Spots : x # "release_chain" /\ x \notin Unsent /\ x \notin HasChain
  BY DEF DispatchInside, DispatchOutside, Unsent, HasChain
<1>7. QED
  BY <1>2, <1>3, <1>5, <1>6

\* The steps of the readers that drop no reference.
LEMMA ReadersLeaveCounts ==
  ASSUME HazardInv, ExclusionInv, NEW t \in Readers, DispatchBegin(t) \/ DispatchStep(t)
  PROVE  CountsStay
<1>1. UNCHANGED <<memory, sent, send>>
  BY DEF DispatchBegin, DispatchStep, DispatchReenter, DispatchTest, DispatchUndo,
         DispatchPick, DispatchEnd, DispatchTry, DispatchLeave, DispatchLock, DispatchDetach,
         DispatchNothing, DispatchDeliver, DispatchDone, DispatchReturn, memory, sent
<1>2. \A u \in Threads : Dropping(u)' = Dropping(u) /\ (Dropping(u) => disp'[u].msgs = disp[u].msgs)
  BY DispatchMoves DEF Dropping
<1>3. \A u \in Senders : pc'[u] \in Unsent <=> pc[u] \in Unsent
  BY DispatchMoves, ThreadFacts
<1>4. QED
  BY <1>1, <1>2, <1>3 DEF CountsStay

\* The steps of cncbus_send_async that drop no reference and take none.
SendsOnly(t) ==
  \/ SendEnter(t) \/ SendTest(t) \/ SendUndo(t) \/ SendNoChain(t)
  \/ SendTry(t) \/ SendEnqueue(t) \/ SendClear(t) \/ SendExit(t)

\* Walking over the receivers, a sender changes no count.
LEMMA SendersLeaveCounts ==
  ASSUME HazardInv, ExclusionInv, NEW t \in Senders, SendsOnly(t)
  PROVE  CountsStay
<1> DEFINE Sending == {"send_chain", "send_dispatch", "send_try", "send_enqueue", "send_clear",
                       "send_exit", "send_release", "send_drop"}
<1>1. /\ t \in Threads /\ t # Cdc /\ Senders \subseteq Threads /\ pc \in [Threads -> Labels]
      /\ send \in [Senders -> SendLocals] /\ SenderInv(t) /\ BusTypes
      /\ send[t].chain \in Chains \cup {NoChain}
  BY ThreadFacts DEF HazardInv, BusTypes, ExclusionInv, SendLocals
<1>2. UNCHANGED <<memory, sent, disp>>
  BY Zenon DEF SendsOnly, SendEnter, SendTest, SendUndo, SendNoChain, SendTry, SendEnqueue, SendClear,
         SendExit
<1>3. \/ pc[t] \in Unsent /\ \E l \in Unsent : Goto(t, l)
      \/ pc[t] \in Sending /\ \E l \in Sending : Goto(t, l)
      \/ pc[t] \in Sending /\ pc' = pc
  BY Zenon DEF SendsOnly, SendEnter, SendTest, SendUndo, SendNoChain, SendTry, SendEnqueue, SendClear,
         SendExit, Dropped, Step, Unsent
<1>4. /\ pc[t] # "release_chain" /\ pc'[t] # "release_chain" /\ (pc'[t] \in Unsent <=> pc[t] \in Unsent)
      /\ \A u \in Threads : u # t => pc'[u] = pc[u]
  BY <1>1, <1>3 DEF Goto, Unsent
<1>5. \A u \in Senders : /\ send'[u].msg = send[u].msg
                         /\ send'[u].chain \in {send[u].chain, NoChain}
  <2>1. CASE SendEnter(t) \/ SendTest(t) \/ SendUndo(t) \/ SendNoChain(t) \/ SendExit(t)
    BY <2>1 DEF SendEnter, SendTest, SendUndo, SendNoChain, SendExit
  <2>2. ASSUME NEW c \in {send[t].chain, NoChain}, Dropped(t, c), send[t].pending # <<>>
        PROVE  \A u \in Senders : /\ send'[u].msg = send[u].msg
                                  /\ send'[u].chain \in {send[u].chain, NoChain}
    <3>1. c \in Chains \cup {NoChain}
      BY <1>1, <2>2
    <3>2. /\ send' = [send EXCEPT ![t] = send'[t]] /\ send'[t].chain = c
          /\ send'[t].msg = send[t].msg
      BY <1>1, <2>2, <3>1, DroppedLocals, Zenon
    <3>3. QED
      BY <1>1, <2>2, <3>2
  <2>3. pc[t] \in {"send_try", "send_enqueue", "send_clear"} => send[t].pending # <<>>
    BY <1>1 DEF SenderInv, Pends
  <2>4. CASE SendTry(t)
    <3>1. CASE UNCHANGED send
      BY <3>1
    <3>2. CASE send' = [send EXCEPT ![t].i = Wrap(@ + 1, Len(send[t].pending))]
      BY <1>1, <3>2 DEF SendLocals
    <3>3. QED
      BY <2>2, <2>3, <2>4, <3>1, <3>2, Zenon DEF SendTry
  <2>5. CASE SendEnqueue(t) \/ SendClear(t)
    BY <2>2, <2>3, <2>5 DEF SendEnqueue, SendClear, ChainLeft
  <2>6. QED
    BY <2>1, <2>4, <2>5 DEF SendsOnly
<1>6. QED
  BY <1>1, <1>2, <1>4, <1>5 DEF CountsStay, Dropping

\* The steps of the connecting thread.
LEMMA CdcLeavesCounts ==
  ASSUME HazardInv, ExclusionInv, CdcNext
  PROVE  CountsStay
<1>1. /\ Cdc \in Threads /\ Cdc \notin Senders /\ Senders \subseteq Threads /\ pc \in [Threads -> Labels]
      /\ disp \in [Threads -> DispatchLocals]
  BY ThreadFacts DEF HazardInv, BusTypes, ExclusionInv
<1>2. UNCHANGED <<memory, sent, send>>
  BY DEF CdcNext, CdcStep, CdcStore, CdcWait, CdcModify, CdcExitConnect, CdcExitDisconnect,
         CdcQuiesce, Connect, Disconnect
<1>3. /\ pc[Cdc] # "release_chain"
      /\ \E l \in CdcPlaces \ {"release_chain"} : Goto(Cdc, l)
  BY DEF CdcNext, CdcStep, CdcStore, CdcWait, CdcModify, CdcExitConnect, CdcExitDisconnect,
         CdcQuiesce, Connect, Disconnect, Step, CdcPlaces
<1>4. pc'[Cdc] # "release_chain" /\ \A u \in Threads : u # Cdc => pc'[u] = pc[u]
  BY <1>1, <1>3 DEF Goto
<1>5. \A u \in Threads : u # Cdc => disp'[u] = disp[u]
  BY <1>1 DEF CdcNext, CdcStep, CdcStore, CdcWait, CdcModify, CdcExitConnect, CdcExitDisconnect,
              CdcQuiesce, Connect, Disconnect
<1>6. QED
  BY <1>1, <1>2, <1>3, <1>4, <1>5 DEF CountsStay, Dropping

-----------------------------------------------------------------------------
(* The initial state.                                                      *)

\* At the start no hazard word has a bit.
LEMMA HazardInit == Init => HazardInv
<1> SUFFICES ASSUME Init PROVE HazardInv
  OBVIOUS
<1>1. /\ <<>> \in Seq(Receivers) /\ <<>> \in Seq(Chains) /\ IsInjective(<<>>) /\ Range(<<>>) = {}
      /\ Len(<<>>) = 0 /\ 0 \in 0 .. SlotModulus - 1
  BY EmptyList, ReceiversAssumption
<1>2. BusTypes
  <2>1. IdleDispatch \in DispatchLocals /\ IdleSend \in SendLocals
    BY <1>1 DEF IdleDispatch, IdleSend, DispatchLocals, SendLocals
  <2>2. QED
    BY <1>1, <2>1 DEF Init, BusTypes, Threads
<1>3. \A t \in Threads : /\ pc[t] = "idle" /\ disp[t] = IdleDispatch
                         /\ disp[t].msgs = <<>> /\ disp[t].rcv = 0
  BY DEF Init, IdleDispatch
<1>4. \A t \in Senders : /\ send[t].pending = <<>> /\ send[t].i = 1 /\ send[t].chain = NoChain
                         /\ send[t].msg = NoFrag
  BY DEF Init, IdleSend
<1>5. CdcInv
  BY <1>3, ThreadFacts DEF CdcInv, CdcPlaces
<1>6. \A t \in Readers : ReaderInv(t) /\ ~Latched(t)
  BY <1>3, ThreadFacts DEF ReaderInv, Latched, Delivers
<1>7. \A t \in Senders : SenderInv(t)
  BY <1>1, <1>3, <1>4, ThreadFacts
  DEF SenderInv, Pends, Unsent, HasChain, DispatchInside, DispatchOutside
<1>8. QED
  BY <1>2, <1>5, <1>6, <1>7 DEF HazardInv

\* At the start all chains are free.
LEMMA ChainInit == Init => ChainInv
<1> SUFFICES ASSUME Init PROVE ChainInv
  OBVIOUS
<1>1. IsInjective(<<>>) /\ Range(<<>>) = {}
  BY EmptyList
<1>2. \A h \in Homes : Held(h) = IF h = <<"free", 0>> THEN Chains ELSE {}
  <2>1. /\ \A r \in Receivers : Held(<<"queue", r>>) = {}
        /\ \A t \in Threads : Held(<<"hands", t>>) = {}
        /\ \A t \in Senders : Held(<<"sender", t>>) = {}
        /\ Held(<<"free", 0>>) = Chains
    BY <1>1, HomesAre DEF Init, IdleDispatch, IdleSend
  <2>2. QED
    BY <2>1, HomesAre
<1>3. \A r \in Receivers : queue[r] = <<>>
  BY DEF Init
<1>4. \A t \in Threads : disp[t].msgs = <<>>
  BY DEF Init, IdleDispatch
<1>5. QED
  BY <1>1, <1>2, <1>3, <1>4, HomesAre DEF ChainInv

\* At the start all fragments are free.
LEMMA FragInit == Init => FragInv
<1> SUFFICES ASSUME Init PROVE FragInv
  OBVIOUS
<1>1. /\ free_frags = Frags /\ free_chains = Chains /\ chain_msg = [c \in Chains |-> NoFrag]
      /\ msg_data = [f \in Frags |-> NoMessage] /\ next_id = 1 /\ signaled = {}
      /\ \A t \in Senders : send[t].msg = NoFrag /\ send[t].chain = NoChain
      /\ \A t \in Senders : pc[t] = "idle"
  BY ThreadFacts DEF Init, IdleSend
<1>2. NoFrag \notin Frags
  BY MessagesAssumption
<1>3. ASSUME NEW f \in Frags PROVE Users(f) = 0
  <2>1. CountedChains(f) = {} /\ CountedSenders(f) = {}
    BY <1>1, <1>2 DEF CountedChains, CountedSenders
  <2>2. QED
    BY <2>1, UsersAre
<1>4. \A f \in Frags : msg_data[f].id = 0 /\ msg_data[f].ref_count = 0
  BY <1>1 DEF NoMessage
<1>5. \A f \in Frags : MessageOK(f)
  BY <1>1, <1>3, <1>4 DEF MessageOK
<1>6. FragTypes
  BY <1>1, <1>2 DEF FragTypes, NoMessage
<1>7. \A t \in Senders : SenderFrag(t)
  BY <1>1, <1>2 DEF SenderFrag, Unsent
<1>8. QED
  BY <1>1, <1>4, <1>5, <1>6, <1>7 DEF FragInv, Kept
-----------------------------------------------------------------------------
(* The invariant of the bus.                                               *)

BusInv == ExclusionInv /\ HazardInv /\ ChainInv /\ FragInv

\* Nothing happens.
LEMMA HazardStutters ==
  ASSUME HazardInv, UNCHANGED vars
  PROVE  HazardInv'
<1>1. UNCHANGED <<receivers, next_dispatch_slot, hazard, queue, free_chains, pc, disp, send>>
  BY Zenon DEF vars, bus, table, slots, rcvs, memory
<1>2. BusTypes' /\ CdcInv' /\ Registered' = Registered
  BY <1>1 DEF HazardInv, BusTypes, CdcInv, Registered
<1>3. \A t \in Readers : ReaderInv(t)' /\ Latched(t)' = Latched(t)
  BY <1>1, <1>2 DEF HazardInv, ReaderInv, Latched
<1>4. \A t \in Senders : SenderInv(t)'
  BY <1>1 DEF HazardInv, SenderInv
<1>5. QED
  BY <1>1, <1>2, <1>3, <1>4 DEF HazardInv

\* A step that changes nothing keeps the invariant.
LEMMA BusInvStutters ==
  ASSUME BusInv, UNCHANGED vars
  PROVE  BusInv'
<1>1. UNCHANGED <<receivers, receivers_hazard, read_hazard_count, queue, memory, sent, pc, disp, send>>
  BY Zenon DEF vars, bus, table, slots, rcvs
<1>2. ExclusionInv'
  BY <1>1, NobodyMoves DEF BusInv
<1>3. HazardInv'
  BY HazardStutters DEF BusInv
<1>4. ChainsStay
  BY <1>1 DEF ChainsStay, memory, Registered
<1>5. CountsStay
  BY <1>1 DEF CountsStay, Dropping
<1>6. QED
  BY <1>2, <1>3, <1>4, <1>5, ChainsStayHome, FragsUntouched DEF BusInv

\* The steps of cncbus_dispatch.
LEMMA DispatchesKeepBus ==
  ASSUME BusInv, NEW t \in Readers, DispatchBegin(t) \/ DispatchStep(t)
  PROVE  BusInv'
<1>1. ExclusionInv /\ HazardInv /\ ChainInv /\ FragInv
  BY DEF BusInv
<1>2. ExclusionInv'
  BY <1>1, DispatchExcludes
<1>3. HazardInv'
  BY <1>1, DispatchInReadHazard, DispatchOnReceiver DEF DispatchStep
<1>4. ChainInv'
  <2>1. CASE DispatchDetach(t)
    BY <1>1, <2>1, DetachMovesChains
  <2>2. CASE ~DispatchDetach(t)
    BY <1>1, <2>2, ReadersLeaveChains, ChainsStayHome
  <2>3. QED
    BY <2>1, <2>2
<1>5. FragInv'
  BY <1>1, ReadersLeaveCounts, FragsUntouched
<1>6. QED
  BY <1>2, <1>3, <1>4, <1>5 DEF BusInv

\* The steps of bus_release_msg_chain.
LEMMA ReleasesKeepBus ==
  ASSUME BusInv, NEW t \in Threads, ReleaseStep(t)
  PROVE  BusInv'
<1>1. ExclusionInv /\ HazardInv /\ ChainInv /\ FragInv /\ (t # Cdc => t \in Readers)
  BY DEF BusInv, Threads
<1>2. ExclusionInv'
  BY <1>1, ReleaseExcludes, CdcExcludes
<1>3. HazardInv'
  BY <1>1, ReaderReleases, CdcSteps
<1>4. CASE ReleaseReference(t)
  <2>1. ChainsStay
    <3>1. CASE t = Cdc
      <4>1. ~CdcQuiesce
        BY <1>4, <3>1 DEF ReleaseReference, CdcQuiesce, Step
      <4>2. QED
        BY <1>1, <1>4, <3>1, <4>1, CdcLeavesChains
    <3>2. CASE t # Cdc
      <4>1. ~DispatchDetach(t)
        BY <1>4 DEF ReleaseReference, DispatchDetach, Step
      <4>2. QED
        BY <1>1, <1>4, <3>2, <4>1, ReadersLeaveChains
    <3>3. QED
      BY <3>1, <3>2
  <2>2. ChainInv' /\ FragInv'
    BY <1>1, <1>4, <2>1, ChainsStayHome, ReferenceDropped
  <2>3. QED
    BY <1>2, <1>3, <2>2 DEF BusInv
<1>5. CASE ReleaseChain(t)
  <2>1. ChainInv' /\ FragInv'
    BY <1>1, <1>5, ReleaseMovesChain, ChainPushed
  <2>2. QED
    BY <1>2, <1>3, <2>1 DEF BusInv
<1>6. QED
  BY <1>4, <1>5 DEF ReleaseStep

\* The steps of a sender.
LEMMA SendsKeepBus ==
  ASSUME BusInv, NEW t \in Senders, MsgBegin(t) \/ SendStep(t)
  PROVE  BusInv'
<1>1. ExclusionInv /\ HazardInv /\ ChainInv /\ FragInv /\ free_frags \subseteq Frags
  BY DEF BusInv, FragInv, FragTypes
<1>2. ExclusionInv'
  BY <1>1, SendExcludes
<1>3. HazardInv'
  BY <1>1, SenderSteps
<1>4. ChainInv'
  <2>1. CASE SendGetChain(t) \/ SendRelease(t)
    BY <1>1, <2>1, SendMovesFreeChain
  <2>2. CASE SendEnqueue(t)
    BY <1>1, <2>2, EnqueueMovesChain
  <2>3. CASE ~SendGetChain(t) /\ ~SendEnqueue(t) /\ ~SendRelease(t)
    BY <1>1, <2>3, SendersLeaveChains, ChainsStayHome
  <2>4. QED
    BY <2>1, <2>2, <2>3
<1>5. FragInv'
  <2>1. CASE SendsOnly(t)
    BY <1>1, <2>1, SendersLeaveCounts, FragsUntouched
  <2>2. CASE MsgBegin(t)
    BY <1>1, <2>2, MessageBegun
  <2>3. CASE SendCollect(t)
    BY <1>1, <2>3, MessageNumbered
  <2>4. CASE SendToNobody(t)
    BY <1>1, <2>4, MessageFreed
  <2>5. CASE SendGetChain(t)
    BY <1>1, <2>5, ChainTaken
  <2>6. CASE SendRelease(t)
    BY <1>1, <2>6, DanglingReleased
  <2>7. CASE SendDrop(t)
    BY <1>1, <2>7, OwnReferenceDropped
  <2>8. QED
    BY <2>1, <2>2, <2>3, <2>4, <2>5, <2>6, <2>7 DEF SendStep, SendsOnly
<1>6. QED
  BY <1>2, <1>3, <1>4, <1>5 DEF BusInv

\* The steps of the thread that connects and disconnects.
LEMMA CdcKeepsBus ==
  ASSUME BusInv, CdcNext
  PROVE  BusInv'
<1>1. ExclusionInv /\ HazardInv /\ ChainInv /\ FragInv
  BY DEF BusInv
<1>2. ExclusionInv'
  BY <1>1, CdcExcludes
<1>3. HazardInv'
  BY <1>1, CdcSteps
<1>4. ChainInv'
  <2>1. CASE CdcQuiesce
    BY <1>1, <2>1, QuiesceMovesChains
  <2>2. CASE ~CdcQuiesce
    BY <1>1, <2>2, CdcLeavesChains, ChainsStayHome
  <2>3. QED
    BY <2>1, <2>2
<1>5. FragInv'
  BY <1>1, CdcLeavesCounts, FragsUntouched
<1>6. QED
  BY <1>2, <1>3, <1>4, <1>5 DEF BusInv

\* The invariant holds in every state of the bus.
THEOREM BusInvariant == Spec => []BusInv
<1>1. Init => BusInv
  BY ExclusionInit, HazardInit, ChainInit, FragInit DEF BusInv
<1>2. BusInv /\ [Next]_vars => BusInv'
  <2> SUFFICES ASSUME BusInv, [Next]_vars PROVE BusInv'
    OBVIOUS
  <2>1. CASE UNCHANGED vars
    BY <2>1, BusInvStutters
  <2>2. CASE ReaderNext
    BY <2>2, DispatchesKeepBus, ReleasesKeepBus, SendsKeepBus DEF ReaderNext
  <2>3. CASE CdcNext
    BY <2>3, CdcKeepsBus
  <2>4. QED
    BY <2>1, <2>2, <2>3 DEF Next
<1>3. QED
  BY <1>1, <1>2, PTL DEF Spec

(***************************************************************************)
(* "A connected receiver will receive messages serially": a dispatch bit   *)
(* is held by one thread at a time, from the latch of the receiver to the  *)
(* end of the delivery.                                                    *)
(***************************************************************************)
THEOREM DeliveriesAreSerial == Spec => []SerialDelivery
<1>1. BusInv => SerialDelivery
  BY DEF BusInv, HazardInv, SerialDelivery, Latched
<1>2. QED
  BY <1>1, BusInvariant, PTL

(***************************************************************************)
(* A receiver that was disconnected is used by nobody: a dispatch holds    *)
(* its bit, which the disconnect awaits, and a sender's pending receivers  *)
(* stay in the table while it is inside the read hazard.                   *)
(***************************************************************************)
THEOREM DisconnectedIsUnused == Spec => []NoUseAfterDisconnect
<1>1. BusInv => NoUseAfterDisconnect
  BY DEF BusInv, HazardInv, ReaderInv, SenderInv, NoUseAfterDisconnect, Registered
<1>2. QED
  BY <1>1, BusInvariant, PTL

-----------------------------------------------------------------------------
(* The chains and the fragments.                                           *)

\* The word that closes the table.
TableHazard == receivers_hazard \in {"none", "cdc"}

\* The table's hazard has two values.
LEMMA TableHazardTyped == Spec => []TableHazard
<1>1. Init => TableHazard
  BY DEF Init, TableHazard
<1>2. TableHazard /\ [Next]_vars => TableHazard'
  <2> SUFFICES ASSUME TableHazard, [Next]_vars PROVE TableHazard'
    OBVIOUS
  <2>1. CASE UNCHANGED vars
    BY <2>1 DEF vars, bus, table, TableHazard
  <2>2. ASSUME NEW t \in Readers, DispatchBegin(t) \/ DispatchStep(t) PROVE receivers_hazard' = receivers_hazard
    BY <2>2 DEF DispatchBegin, DispatchStep, DispatchReenter, DispatchTest, DispatchUndo,
         DispatchPick, DispatchEnd, DispatchTry, DispatchLeave, DispatchLock, DispatchDetach,
         DispatchNothing, DispatchDeliver, DispatchDone, bus, table
  <2>3. ASSUME NEW t \in Threads, ReleaseStep(t) PROVE receivers_hazard' = receivers_hazard
    BY <2>3 DEF ReleaseStep, ReleaseReference, ReleaseChain, bus, table
  <2>4. ASSUME NEW t \in Senders, MsgBegin(t) \/ SendStep(t) PROVE receivers_hazard' = receivers_hazard
    BY <2>4, Zenon DEF MsgBegin, SendStep, SendEnter, SendTest, SendUndo, SendCollect, SendToNobody,
         SendGetChain, SendNoChain, SendTry, SendEnqueue, SendClear, SendExit, SendRelease, SendDrop,
         bus, table
  <2>5. CASE CdcNext
    BY <2>5 DEF CdcNext, CdcStep, CdcStore, CdcWait, CdcModify, CdcExitConnect, CdcExitDisconnect,
         CdcQuiesce, Connect, Disconnect, ExitCdcHazard, TableHazard, bus, table
  <2>6. QED
    BY <2>1, <2>2, <2>3, <2>4, <2>5 DEF Next, ReaderNext, TableHazard
<1>3. QED
  BY <1>1, <1>2, PTL DEF Spec

\* The types of the bus.
LEMMA BusTypeOK == ASSUME BusInv, TableHazard PROVE TypeOK
<1>1. BusTypes /\ FragTypes /\ ExclusionInv /\ CdcInv
  BY DEF BusInv, HazardInv, FragInv
<1>2. read_hazard_count \in Int
  BY <1>1, FiniteReaders DEF ExclusionInv
<1>3. next_id \in Nat /\ signaled \subseteq Nat
  BY <1>1 DEF FragTypes
<1>4. QED
  BY <1>1, <1>2, <1>3 DEF TypeOK, TableHazard, BusTypes, FragTypes, ExclusionInv, Labels

\* A queue without repetition is no longer than there are chains.
LEMMA QueuesAreShort ==
  ASSUME NEW q \in Seq(Chains), IsInjective(q)
  PROVE  \A i \in DOMAIN q : i \in 1 .. Cardinality(Chains)
<1>1. Len(q) \in Nat /\ DOMAIN q = 1 .. Len(q) /\ Range(q) \subseteq Chains
  BY MembersOf
<1>2. IsFiniteSet(Chains) /\ IsFiniteSet(Range(q)) /\ Cardinality(Range(q)) <= Cardinality(Chains)
      /\ Cardinality(Chains) \in Nat
  BY <1>1, MessagesAssumption, FS_Subset, FS_CardinalityType
<1>3. Cardinality(1 .. Len(q)) = Len(q) /\ IsFiniteSet(1 .. Len(q))
  BY <1>1, FS_Interval
<1>4. Cardinality(Range(q)) = Len(q)
  <2>1. q \in Bijection(1 .. Len(q), Range(q))
    BY <1>1 DEF Bijection, Injection, Surjection, IsInjective, Range
  <2>2. ExistsBijection(1 .. Len(q), Range(q))
    BY <2>1 DEF ExistsBijection
  <2>3. QED
    BY <1>3, <2>2, FS_Bijection
<1>5. QED
  BY <1>1, <1>2, <1>4

\* The places of a chain, one by one.
LEMMA PlacesAre ==
  ASSUME BusInv, NEW c \in Chains
  PROVE  /\ \A r \in Receivers : \A i \in DOMAIN queue[r] :
              queue[r][i] = c => <<"queue", r, i>> \in Places(c)
         /\ \A t \in Threads : \A i \in DOMAIN disp[t].msgs :
              disp[t].msgs[i] = c => <<"hands", t, i>> \in Places(c)
         /\ \A t \in Senders : send[t].chain = c => <<"sender", t>> \in Places(c)
         /\ c \in free_chains => <<"free">> \in Places(c)
         /\ \A p \in Places(c) :
              \/ \E r \in Receivers : \E i \in DOMAIN queue[r] : queue[r][i] = c /\ p = <<"queue", r, i>>
              \/ \E t \in Threads : \E i \in DOMAIN disp[t].msgs :
                   disp[t].msgs[i] = c /\ p = <<"hands", t, i>>
              \/ \E t \in Senders : send[t].chain = c /\ p = <<"sender", t>>
              \/ c \in free_chains /\ p = <<"free">>
<1>1. /\ \A r \in Receivers : queue[r] \in Seq(Chains) /\ IsInjective(queue[r])
      /\ \A t \in Threads : disp[t].msgs \in Seq(Chains) /\ IsInjective(disp[t].msgs)
  BY DEF BusInv, HazardInv, BusTypes, DispatchLocals, ChainInv
<1>2. /\ \A r \in Receivers : \A i \in DOMAIN queue[r] : i \in 1 .. Cardinality(Chains)
      /\ \A t \in Threads : \A i \in DOMAIN disp[t].msgs : i \in 1 .. Cardinality(Chains)
  BY <1>1, QueuesAreShort
<1> DEFINE N == 1 .. Cardinality(Chains)
           Q == {q \in Receivers \X N : q[2] \in DOMAIN queue[q[1]] /\ queue[q[1]][q[2]] = c}
           H == {q \in Threads \X N : q[2] \in DOMAIN disp[q[1]].msgs /\ disp[q[1]].msgs[q[2]] = c}
           InQueue == {<<"queue", p[1], p[2]>> : p \in Q}
           InHands == {<<"hands", p[1], p[2]>> : p \in H}
           AtSender == {<<"sender", t>> : t \in {u \in Senders : send[u].chain = c}}
           IsFree == {<<"free">> : x \in {c} \cap free_chains}
<1>3. Places(c) = InQueue \cup InHands \cup AtSender \cup IsFree
  BY DEF Places
<1>4. /\ \A r \in Receivers : \A i \in DOMAIN queue[r] : queue[r][i] = c => <<"queue", r, i>> \in InQueue
      /\ \A p \in InQueue : \E r \in Receivers : \E i \in DOMAIN queue[r] :
           queue[r][i] = c /\ p = <<"queue", r, i>>
  <2>1. ASSUME NEW r \in Receivers, NEW i \in DOMAIN queue[r], queue[r][i] = c
        PROVE  <<"queue", r, i>> \in InQueue
    <3>1. <<r, i>> \in Q
      BY <1>2, <2>1
    <3>2. QED
      BY <3>1
  <2>2. ASSUME NEW p \in InQueue
        PROVE  \E r \in Receivers : \E i \in DOMAIN queue[r] :
                 queue[r][i] = c /\ p = <<"queue", r, i>>
    <3>1. PICK q \in Q : p = <<"queue", q[1], q[2]>>
      OBVIOUS
    <3>2. q[1] \in Receivers /\ q[2] \in DOMAIN queue[q[1]] /\ queue[q[1]][q[2]] = c
      OBVIOUS
    <3>3. QED
      BY <3>1, <3>2
  <2>3. QED
    BY <2>1, <2>2
<1>5. /\ \A t \in Threads : \A i \in DOMAIN disp[t].msgs :
           disp[t].msgs[i] = c => <<"hands", t, i>> \in InHands
      /\ \A p \in InHands : \E t \in Threads : \E i \in DOMAIN disp[t].msgs :
           disp[t].msgs[i] = c /\ p = <<"hands", t, i>>
  <2>1. ASSUME NEW t \in Threads, NEW i \in DOMAIN disp[t].msgs, disp[t].msgs[i] = c
        PROVE  <<"hands", t, i>> \in InHands
    <3>1. <<t, i>> \in H
      BY <1>2, <2>1
    <3>2. QED
      BY <3>1
  <2>2. ASSUME NEW p \in InHands
        PROVE  \E t \in Threads : \E i \in DOMAIN disp[t].msgs :
                 disp[t].msgs[i] = c /\ p = <<"hands", t, i>>
    <3>1. PICK q \in H : p = <<"hands", q[1], q[2]>>
      OBVIOUS
    <3>2. q[1] \in Threads /\ q[2] \in DOMAIN disp[q[1]].msgs /\ disp[q[1]].msgs[q[2]] = c
      OBVIOUS
    <3>3. QED
      BY <3>1, <3>2
  <2>3. QED
    BY <2>1, <2>2
<1>6. /\ \A t \in Senders : send[t].chain = c => <<"sender", t>> \in AtSender
      /\ \A p \in AtSender : \E t \in Senders : send[t].chain = c /\ p = <<"sender", t>>
      /\ c \in free_chains => <<"free">> \in IsFree
      /\ \A p \in IsFree : c \in free_chains /\ p = <<"free">>
  OBVIOUS
<1> HIDE DEF InQueue, InHands, AtSender, IsFree
<1>7. QED
  BY <1>3, <1>4, <1>5, <1>6

\* A chain is in one place.
LEMMA OnePlace ==
  ASSUME BusInv, NEW c \in Chains
  PROVE  Cardinality(Places(c)) = 1
<1>1. PICK h \in Homes : c \in Held(h)
  BY DEF BusInv, ChainInv
<1>2. \A g \in Homes : c \in Held(g) => g = h
  BY <1>1 DEF BusInv, ChainInv
<1>3. /\ \A r \in Receivers : c \in Range(queue[r]) => h = <<"queue", r>>
      /\ \A t \in Threads : c \in Range(disp[t].msgs) => h = <<"hands", t>>
      /\ \A t \in Senders : send[t].chain = c => h = <<"sender", t>>
      /\ c \in free_chains => h = <<"free", 0>>
  BY <1>2, HomesAre, MessagesAssumption
<1>4. /\ \A r \in Receivers : \A i \in DOMAIN queue[r] : queue[r][i] = c => h = <<"queue", r>>
      /\ \A t \in Threads : \A i \in DOMAIN disp[t].msgs : disp[t].msgs[i] = c => h = <<"hands", t>>
  BY <1>3 DEF Range
<1>5. \A p \in Places(c) :
        \/ \E r \in Receivers : \E i \in DOMAIN queue[r] :
             h = <<"queue", r>> /\ queue[r][i] = c /\ p = <<"queue", r, i>>
        \/ \E t \in Threads : \E i \in DOMAIN disp[t].msgs :
             h = <<"hands", t>> /\ disp[t].msgs[i] = c /\ p = <<"hands", t, i>>
        \/ \E t \in Senders : h = <<"sender", t>> /\ p = <<"sender", t>>
        \/ h = <<"free", 0>> /\ p = <<"free">>
  BY <1>3, <1>4, PlacesAre
<1>6. /\ \A r \in Receivers : IsInjective(queue[r])
      /\ \A t \in Threads : IsInjective(disp[t].msgs)
  BY DEF BusInv, ChainInv
<1>7. \E x : Places(c) = {x}
  <2>1. ASSUME NEW r \in Receivers, h = <<"queue", r>> PROVE \E x : Places(c) = {x}
    <3>1. c \in Range(queue[r])
      BY <1>1, <2>1, HomesAre
    <3>2. PICK i \in DOMAIN queue[r] : queue[r][i] = c
      BY <3>1 DEF Range
    <3>3. <<"queue", r, i>> \in Places(c)
      BY <3>2, PlacesAre
    <3>4. \A j \in DOMAIN queue[r] : queue[r][j] = c => j = i
      BY <1>6, <3>2 DEF IsInjective
    <3>5. \A p \in Places(c) : p = <<"queue", r, i>>
      BY <1>5, <2>1, <3>4
    <3>6. QED
      BY <3>3, <3>5
  <2>2. ASSUME NEW t \in Threads, h = <<"hands", t>> PROVE \E x : Places(c) = {x}
    <3>1. c \in Range(disp[t].msgs)
      BY <1>1, <2>2, HomesAre
    <3>2. PICK i \in DOMAIN disp[t].msgs : disp[t].msgs[i] = c
      BY <3>1 DEF Range
    <3>3. <<"hands", t, i>> \in Places(c)
      BY <3>2, PlacesAre
    <3>4. \A j \in DOMAIN disp[t].msgs : disp[t].msgs[j] = c => j = i
      BY <1>6, <3>2 DEF IsInjective
    <3>5. \A p \in Places(c) : p = <<"hands", t, i>>
      BY <1>5, <2>2, <3>4
    <3>6. QED
      BY <3>3, <3>5
  <2>3. ASSUME NEW t \in Senders, h = <<"sender", t>> PROVE \E x : Places(c) = {x}
    <3>1. send[t].chain = c
      BY <1>1, <2>3, HomesAre
    <3>2. <<"sender", t>> \in Places(c)
      BY <3>1, PlacesAre
    <3>3. \A p \in Places(c) : p = <<"sender", t>>
      BY <1>5, <2>3
    <3>4. QED
      BY <3>2, <3>3
  <2>4. CASE h = <<"free", 0>>
    <3>1. <<"free">> \in Places(c)
      BY <1>1, <2>4, HomesAre, PlacesAre
    <3>2. \A p \in Places(c) : p = <<"free">>
      BY <1>5, <2>4
    <3>3. QED
      BY <3>1, <3>2
  <2>5. QED
    BY <2>1, <2>2, <2>3, <2>4, HomesAre
<1>8. QED
  BY <1>7, FS_Singleton

(***************************************************************************)
(* No chain is lost or in two places, and a fragment is freed with its     *)
(* last reference: a fragment that is not free has a sender that builds    *)
(* its message or as many users, at least one, as ref_count says.  Sends   *)
(* that run out of chains, deliveries, receivers that go with messages in  *)
(* their queues.                                                           *)
(***************************************************************************)
THEOREM ConservesMessages == Spec => []MessagesConserved
<1>1. BusInv /\ TableHazard => ChainConservation
  BY BusTypeOK, OnePlace DEF ChainConservation
<1>2. BusInv => ReferencesCounted
  <2> SUFFICES ASSUME BusInv, NEW f \in Frags
      PROVE  /\ f \in free_frags => Users(f) = 0
             /\ msg_data[f].ref_count \in {0, Users(f)}
             /\ msg_data[f].ref_count = 0 => CountedChains(f) = {}
             /\ \/ f \in free_frags
                \/ \E t \in Building : send[t].msg = f
                \/ Users(f) > 0 /\ msg_data[f].ref_count = Users(f)
             /\ msg_data[f].id \notin signaled
    BY DEF ReferencesCounted, Users
  <2>1. MessageOK(f) /\ Kept(f)
    BY DEF BusInv, FragInv
  <2>2. \/ f \in free_frags
        \/ \E t \in Building : send[t].msg = f
        \/ Users(f) > 0 /\ msg_data[f].ref_count = Users(f)
    <3>1. CASE msg_data[f].id # 0
      BY <2>1, <3>1, UsersAre DEF MessageOK
    <3>2. CASE \E t \in Senders : pc[t] \in Unsent /\ send[t].msg = f
      BY <3>2 DEF Building, Unsent
    <3>3. QED
      BY <2>1, <3>1, <3>2 DEF Kept
  <2>3. QED
    BY <2>1, <2>2, UsersAre DEF MessageOK
<1>3. QED
  BY <1>1, <1>2, BusInvariant, TableHazardTyped, PTL DEF MessagesConserved


-----------------------------------------------------------------------------
(* The bus implements BusService.  A receiver is known from the change of  *)
(* the table to the end of the disconnect, and is leaving from the mark in *)
(* its hazard word on.                                                     *)

\* A disconnect changes the table.
Closing == pc[Cdc] \in {"store", "wait", "modify"}

\* Only the receiver that is being disconnected has the mark; the one that is
\* being connected has no bit and no message before it is in the table; a
\* sender that clears its bit after a vain attempt has found the mark.
LeavingInv ==
  /\ Closing /\ disp[Cdc].rcv \notin Range(receivers) =>
       hazard[disp[Cdc].rcv] = {} /\ queue[disp[Cdc].rcv] = <<>>
  /\ \A r \in Range(receivers) : "destroyed" \in hazard[r] <=> Closing /\ r = disp[Cdc].rcv
  /\ pc[Cdc] \in {"exit_disconnect", "quiesce"} => "destroyed" \in hazard[disp[Cdc].rcv]
  /\ \A t \in Senders : pc[t] = "send_clear" => "destroyed" \in hazard[send[t].pending[send[t].i]]

\* The chains of the messages that are in the service's queue of a receiver.
Boxed(r) == InHand(r) \o queue[r]

\* Dispatcher t delivers to r.
Hands(t, r) == pc[t] \in Delivers /\ disp[t].rcv = r

\* What is in that queue, and what is sent to it, has a number.
BoxFacts ==
  /\ \A r \in Receivers : /\ InHand(r) \in Seq(Chains) /\ queue[r] \in Seq(Chains)
                          /\ Boxed(r) \in Seq(Chains)
  /\ \A t \in Readers, r \in Receivers : Hands(t, r) => InHand(r) = Undelivered(t)
  /\ \A r \in Receivers : (\A t \in Readers : ~Hands(t, r)) => InHand(r) = <<>>
  /\ \A r \in Receivers : \A c \in Range(Boxed(r)) :
       chain_msg[c] \in Frags /\ msg_data[chain_msg[c]].id # 0
  /\ \A t \in Senders : send[t].pending # <<>> => send[t].msg \in Frags /\ msg_data[send[t].msg].id # 0

\* What a step that is not the connecting thread's does to the receivers' words and queues.
RcvsKept ==
  /\ receivers' = receivers
  /\ \A x \in Receivers :
       /\ "destroyed" \in hazard'[x] <=> "destroyed" \in hazard[x]
       /\ x \notin Range(receivers) /\ hazard[x] = {} => hazard'[x] = {} /\ queue'[x] = queue[x]

\* Dispatches mark no receiver and touch none that is outside the table.
LEMMA DispatchesKeepRcvs ==
  ASSUME HazardInv, NEW t \in Readers, DispatchBegin(t) \/ DispatchStep(t)
  PROVE  RcvsKept
<1>0. PICK r : r = disp[t].rcv
  OBVIOUS
<1>1. /\ hazard \in [Receivers -> SUBSET Bits] /\ queue \in [Receivers -> Seq(Chains)]
      /\ pc[t] = "try" => r \in Range(receivers)
      /\ Latched(t) => r \in Receivers /\ "dispatch" \in hazard[r]
  BY <1>0 DEF HazardInv, BusTypes, ReaderInv
<1>2. receivers' = receivers
  BY SMTT(90) DEF DispatchBegin, DispatchStep, DispatchReenter, DispatchTest, DispatchUndo,
         DispatchPick, DispatchEnd, DispatchTry, DispatchLeave, DispatchLock, DispatchDetach,
         DispatchNothing, DispatchDeliver, DispatchDone, bus, table, slots
<1>3. CASE UNCHANGED <<hazard, queue>>
  BY <1>2, <1>3 DEF RcvsKept
<1>4. CASE DispatchTry(t)
  <2>1. pc[t] = "try" /\ queue' = queue /\ hazard' = [hazard EXCEPT ![r] = hazard[r] \cup {"dispatch"}]
    BY <1>0, <1>4 DEF DispatchTry
  <2>2. QED
    BY <1>1, <1>2, <2>1 DEF RcvsKept
<1>5. CASE DispatchLock(t) \/ DispatchDetach(t) \/ DispatchNothing(t) \/ DispatchDone(t)
  <2>1. /\ Latched(t)
        /\ \E h \in {hazard[r] \cup {"access"}, hazard[r] \ {"access"}, hazard[r] \ {"access", "dispatch"},
                     hazard[r] \ {"dispatch"}} : hazard' = [hazard EXCEPT ![r] = h]
        /\ queue' = queue \/ \E q : queue' = [queue EXCEPT ![r] = q]
    BY <1>0, <1>5, ZenonT(30) DEF DispatchLock, DispatchDetach, DispatchNothing, DispatchDone, Step, Latched,
                      Unlocked, Unlatched
  <2>2. \A x \in Receivers : x # r => hazard'[x] = hazard[x] /\ queue'[x] = queue[x]
    BY <1>1, <2>1
  <2>3. "destroyed" \in hazard'[r] <=> "destroyed" \in hazard[r]
    BY <1>1, <2>1
  <2>4. QED
    BY <1>1, <1>2, <2>1, <2>2, <2>3 DEF RcvsKept
<1>6. QED
  BY <1>3, <1>4, <1>5
  DEF DispatchBegin, DispatchStep, DispatchReenter, DispatchTest, DispatchUndo, DispatchPick,
      DispatchEnd, DispatchLeave, DispatchDeliver, rcvs

\* Nor do sends.
LEMMA SendsKeepRcvs ==
  ASSUME HazardInv, NEW t \in Senders, MsgBegin(t) \/ SendStep(t)
  PROVE  RcvsKept
<1>0. PICK r : r = send[t].pending[send[t].i]
  OBVIOUS
<1>1. /\ hazard \in [Receivers -> SUBSET Bits] /\ queue \in [Receivers -> Seq(Chains)]
      /\ send[t].pending \in Seq(Receivers) /\ SenderInv(t)
  BY <1>0 DEF HazardInv, BusTypes, SendLocals
<1>2. receivers' = receivers
  BY Zenon DEF MsgBegin, SendStep, SendEnter, SendTest, SendUndo, SendCollect, SendToNobody,
         SendGetChain, SendNoChain, SendTry, SendEnqueue, SendClear, SendExit, SendRelease, SendDrop,
         bus, table, slots
<1>3. CASE UNCHANGED <<hazard, queue>>
  BY <1>2, <1>3 DEF RcvsKept
<1>4. CASE SendTry(t) \/ SendEnqueue(t) \/ SendClear(t)
  <2>1. /\ pc[t] \in {"send_try", "send_enqueue", "send_clear"}
        /\ \E h \in {hazard[r] \cup {"access"}, hazard[r] \ {"access"}} : hazard' = [hazard EXCEPT ![r] = h]
        /\ queue' = queue \/ \E q : queue' = [queue EXCEPT ![r] = q]
    BY <1>0, <1>4, Zenon DEF SendTry, SendEnqueue, SendClear, Step, Unlocked
  <2>2. r \in Range(receivers)
    BY <1>0, <1>1, <2>1, MembersOf DEF SenderInv, Pends
  <2>3. \A x \in Receivers : x # r => hazard'[x] = hazard[x] /\ queue'[x] = queue[x]
    BY <1>1, <2>1
  <2>4. r \in Receivers => ("destroyed" \in hazard'[r] <=> "destroyed" \in hazard[r])
    BY <1>1, <2>1
  <2>5. QED
    BY <1>2, <2>2, <2>3, <2>4 DEF RcvsKept
<1>5. QED
  BY <1>3, <1>4
  DEF MsgBegin, SendStep, SendEnter, SendTest, SendUndo, SendCollect, SendToNobody,
      SendGetChain, SendNoChain, SendExit, SendRelease, SendDrop, rcvs

\* The receiver that is connected or disconnected.
LEMMA ClosingReceiver ==
  ASSUME HazardInv
  PROVE  /\ disp[Cdc].rcv \in Receivers \cup {0} /\ Range(receivers) \subseteq Receivers
         /\ Closing \/ pc[Cdc] \in {"exit_disconnect", "quiesce", "exit_connect"} => disp[Cdc].rcv \in Receivers
BY ThreadFacts, MembersOf DEF HazardInv, BusTypes, CdcInv, DispatchLocals, Closing

\* A step that leaves the receivers and the disconnect where they are.
LEMMA LeavingKept ==
  ASSUME HazardInv, HazardInv', LeavingInv, RcvsKept, disp'[Cdc].rcv = disp[Cdc].rcv,
         \/ pc'[Cdc] = pc[Cdc]
         \/ {pc[Cdc], pc'[Cdc]} \subseteq {"idle", "release", "release_chain"},
         \A t \in Senders : pc'[t] = "send_clear" =>
           \/ pc[t] = "send_clear" /\ send'[t] = send[t]
           \/ "destroyed" \in hazard'[send'[t].pending[send'[t].i]]
  PROVE  LeavingInv'
<1>1. /\ Closing' <=> Closing
      /\ pc'[Cdc] \in {"exit_disconnect", "quiesce"} <=> pc[Cdc] \in {"exit_disconnect", "quiesce"}
  BY DEF Closing
<1>2. disp[Cdc].rcv \in Receivers \cup {0} /\ Range(receivers) \subseteq Receivers
      /\ (Closing \/ pc[Cdc] \in {"exit_disconnect", "quiesce"} => disp[Cdc].rcv \in Receivers)
  BY ClosingReceiver
<1>3. /\ Closing' /\ disp'[Cdc].rcv \notin Range(receivers') =>
           hazard'[disp'[Cdc].rcv] = {} /\ queue'[disp'[Cdc].rcv] = <<>>
  BY <1>1, <1>2 DEF LeavingInv, RcvsKept
<1>4. \A r \in Range(receivers') : "destroyed" \in hazard'[r] <=> Closing' /\ r = disp'[Cdc].rcv
  BY <1>1, <1>2 DEF LeavingInv, RcvsKept
<1>5. pc'[Cdc] \in {"exit_disconnect", "quiesce"} => "destroyed" \in hazard'[disp'[Cdc].rcv]
  BY <1>1, <1>2 DEF LeavingInv, RcvsKept
<1>6. ASSUME NEW t \in Senders, pc'[t] = "send_clear"
      PROVE  "destroyed" \in hazard'[send'[t].pending[send'[t].i]]
  <2>1. CASE pc[t] = "send_clear" /\ send'[t] = send[t]
    <3>1. SenderInv(t) /\ send[t].pending \in Seq(Receivers) /\ send[t].pending # <<>>
      BY <2>1 DEF HazardInv, BusTypes, SendLocals, SenderInv, Pends
    <3>2. send[t].pending[send[t].i] \in Receivers
      BY <3>1, MembersOf DEF SenderInv
    <3>3. "destroyed" \in hazard[send[t].pending[send[t].i]]
      BY <2>1 DEF LeavingInv
    <3>4. QED
      BY <2>1, <3>2, <3>3 DEF RcvsKept
  <2>2. QED
    BY <1>6, <2>1
<1>7. QED
  BY <1>3, <1>4, <1>5, <1>6 DEF LeavingInv
\* A step of a sender is its own.
LEMMA SendMoves ==
  ASSUME HazardInv, ExclusionInv, NEW t \in Senders, MsgBegin(t) \/ SendStep(t)
  PROVE  /\ disp' = disp /\ \A u \in Threads : u # t => pc'[u] = pc[u]
         /\ \A u \in Senders : u # t => send'[u] = send[u]
<1>1. /\ t \in Threads /\ pc \in [Threads -> Labels] /\ send \in [Senders -> SendLocals]
      /\ SenderInv(t) /\ BusTypes /\ send[t].chain \in Chains \cup {NoChain}
  BY ThreadFacts DEF HazardInv, BusTypes, ExclusionInv, SendLocals
<1>2. disp' = disp
  BY Zenon DEF MsgBegin, SendStep, SendEnter, SendTest, SendUndo, SendCollect, SendToNobody,
         SendGetChain, SendNoChain, SendTry, SendEnqueue, SendClear, SendExit, SendRelease, SendDrop
<1>3. pc' = pc \/ \E l : Goto(t, l)
  BY Zenon DEF MsgBegin, SendStep, SendEnter, SendTest, SendUndo, SendCollect, SendToNobody,
         SendGetChain, SendNoChain, SendTry, SendEnqueue, SendClear, SendExit, SendRelease, SendDrop,
         Step, Dropped
<1>4. \A u \in Threads : u # t => pc'[u] = pc[u]
  BY <1>1, <1>3 DEF Goto
<1>5. \A u \in Senders : u # t => send'[u] = send[u]
  <2>1. CASE \/ MsgBegin(t) \/ SendEnter(t) \/ SendTest(t) \/ SendUndo(t) \/ SendToNobody(t)
             \/ SendGetChain(t) \/ SendNoChain(t) \/ SendExit(t) \/ SendRelease(t) \/ SendDrop(t)
             \/ SendCollect(t)
    BY <1>1, <2>1 DEF MsgBegin, SendEnter, SendTest, SendUndo, SendToNobody, SendGetChain,
                      SendNoChain, SendExit, SendRelease, SendDrop, SendCollect
  <2>2. CASE SendTry(t) \/ SendEnqueue(t) \/ SendClear(t)
    BY <1>1, <2>2, Zenon DEF SendTry, SendEnqueue, SendClear, Dropped
  <2>3. QED
    BY <2>1, <2>2 DEF SendStep
<1>6. QED
  BY <1>2, <1>4, <1>5

\* At the start no receiver is known.
LEMMA LeavingInit == Init => LeavingInv
BY EmptyList, ThreadFacts DEF Init, LeavingInv, Closing

\* The readers do not touch the receiver that is connected, nor any mark.
LEMMA ReadersKeepLeaving ==
  ASSUME HazardInv, HazardInv', ExclusionInv, LeavingInv,
         \/ \E t \in Readers : DispatchBegin(t) \/ DispatchStep(t)
         \/ \E t \in Threads : ReleaseStep(t)
         \/ \E t \in Senders : MsgBegin(t) \/ SendStep(t)
  PROVE  LeavingInv'
<1>0. Cdc \notin Readers /\ Cdc \in Threads /\ Senders \subseteq Readers /\ Readers \subseteq Threads
      /\ pc \in [Threads -> Labels] /\ disp \in [Threads -> DispatchLocals]
  BY ThreadFacts DEF ExclusionInv, HazardInv, BusTypes
<1>1. ASSUME NEW t \in Readers, DispatchBegin(t) \/ DispatchStep(t) PROVE LeavingInv'
  <2>1. RcvsKept
    BY <1>1, DispatchesKeepRcvs
  <2>2. send' = send
    BY <1>1, Zenon DEF DispatchBegin, DispatchStep, DispatchReenter, DispatchTest, DispatchUndo,
         DispatchPick, DispatchEnd, DispatchTry, DispatchLeave, DispatchLock, DispatchDetach,
         DispatchNothing, DispatchDeliver, DispatchDone, DispatchReturn
  <2>3. pc'[t] # "send_clear" /\ \A u \in Threads : u # t => pc'[u] = pc[u] /\ disp'[u] = disp[u]
    BY <1>1, DispatchMoves DEF HasChain
  <2>4. QED
    BY <1>0, <2>1, <2>2, <2>3, LeavingKept
<1>2. ASSUME NEW t \in Threads, ReleaseStep(t) PROVE LeavingInv'
  <2>1. RcvsKept
    BY <1>2, Zenon DEF RcvsKept, ReleaseStep, ReleaseReference, ReleaseChain, bus, table, slots, rcvs
  <2>2. /\ send' = send /\ pc[t] \in {"release", "release_chain"}
        /\ \E l \in {"release", "release_chain", "deliver", "delivered", "idle"} :
             Goto(t, l) /\ (t = Cdc => l \in {"release", "release_chain", "idle"})
        /\ disp' = disp \/ disp' = [disp EXCEPT ![t].msgs = Tail(@)]
    BY <1>2, Zenon DEF ReleaseStep, ReleaseReference, ReleaseChain, Step
  <2>3. pc'[t] # "send_clear" /\ \A u \in Threads : u # t => pc'[u] = pc[u]
    BY <1>0, <2>2 DEF Goto
  <2>4. disp'[Cdc].rcv = disp[Cdc].rcv
    BY <1>0, <2>2 DEF DispatchLocals
  <2>5. t = Cdc => {pc[Cdc], pc'[Cdc]} \subseteq {"idle", "release", "release_chain"}
    BY <1>0, <2>2 DEF Goto
  <2>6. \A u \in Senders : pc'[u] = "send_clear" => pc[u] = "send_clear" /\ send'[u] = send[u]
    BY <1>0, <2>2, <2>3
  <2>7. pc'[Cdc] = pc[Cdc] \/ {pc[Cdc], pc'[Cdc]} \subseteq {"idle", "release", "release_chain"}
    BY <1>0, <2>3, <2>5
  <2>8. QED
    BY <2>1, <2>4, <2>6, <2>7, LeavingKept
<1>3. ASSUME NEW t \in Senders, MsgBegin(t) \/ SendStep(t) PROVE LeavingInv'
  <2>1. RcvsKept
    BY <1>3, SendsKeepRcvs
  <2>2. /\ disp' = disp /\ \A u \in Threads : u # t => pc'[u] = pc[u]
        /\ \A u \in Senders : u # t => send'[u] = send[u]
    BY <1>3, SendMoves
  <2>3. pc'[t] = "send_clear" => "destroyed" \in hazard'[send'[t].pending[send'[t].i]]
    <3> SUFFICES ASSUME pc'[t] = "send_clear"
                 PROVE  "destroyed" \in hazard'[send'[t].pending[send'[t].i]]
      OBVIOUS
    <3>1. PICK r : r = send[t].pending[send[t].i]
      OBVIOUS
    <3>2. /\ SendTry(t) /\ "destroyed" \in hazard[r] /\ send' = send
          /\ hazard' = [hazard EXCEPT ![r] = hazard[r] \cup {"access"}]
      <4>1. SendTry(t)
        BY <1>0, <1>3, Zenon DEF MsgBegin, SendStep, SendEnter, SendTest, SendUndo, SendCollect,
          SendToNobody, SendGetChain, SendNoChain, SendEnqueue, SendClear, SendExit, SendRelease,
          SendDrop, Dropped, Step, Goto
      <4>2. pc[t] = "send_try"
        BY <4>1, SMTT(90) DEF SendTry
      <4>3. "destroyed" \in hazard[r] /\ send' = send
        BY <1>0, <3>1, <4>1, <4>2, Zenon DEF SendTry, Dropped, Goto
      <4>4. QED
        BY <3>1, <4>1, <4>3, Zenon DEF SendTry
    <3>3. SenderInv(t) /\ send[t].pending \in Seq(Receivers) /\ pc[t] = "send_try"
          /\ hazard \in [Receivers -> SUBSET Bits]
      BY <3>2 DEF HazardInv, BusTypes, SendLocals, SendTry
    <3>4. r \in Receivers
      BY <3>1, <3>3, MembersOf DEF SenderInv, Pends
    <3>5. QED
      BY <3>1, <3>2, <3>3, <3>4
  <2>4. QED
    BY <1>0, <2>1, <2>2, <2>3, LeavingKept
<1>4. QED
  BY <1>1, <1>2, <1>3
\* The marks of the receivers while one is connected or disconnected.
LEMMA CdcKeepsLeaving ==
  ASSUME HazardInv, HazardInv', ExclusionInv, ChainInv, LeavingInv, CdcNext
  PROVE  LeavingInv'
<1> DEFINE x == disp[Cdc].rcv
<1>0. /\ Cdc \notin Readers /\ Cdc \in Threads /\ Senders \subseteq Readers /\ Readers \subseteq Threads
      /\ pc \in [Threads -> Labels] /\ disp \in [Threads -> DispatchLocals] /\ CdcInv /\ BusTypes
      /\ receivers \in Seq(Receivers) /\ IsInjective(receivers) /\ 0 \notin Receivers
      /\ hazard \in [Receivers -> SUBSET Bits] /\ queue \in [Receivers -> Seq(Chains)]
      /\ Range(receivers) \subseteq Receivers
  BY ThreadFacts, MembersOf, ReceiversAssumption DEF ExclusionInv, HazardInv, BusTypes
<1>1. send' = send /\ \E l \in CdcPlaces : Goto(Cdc, l)
  BY DEF CdcNext, CdcStep, CdcStore, CdcWait, CdcModify, CdcExitConnect, CdcExitDisconnect,
         CdcQuiesce, Connect, Disconnect, Step, CdcPlaces
<1>2. \A u \in Threads : u # Cdc => pc'[u] = pc[u]
  BY <1>0, <1>1 DEF Goto
<1>3. ASSUME NEW t \in Senders, pc'[t] = "send_clear"
      PROVE  /\ "destroyed" \in hazard[send[t].pending[send[t].i]]
             /\ send[t].pending[send[t].i] \in Range(receivers)
             /\ send'[t] = send[t]
  <2>1. pc[t] = "send_clear"
    BY <1>0, <1>2, <1>3
  <2>2. SenderInv(t) /\ send[t].pending \in Seq(Receivers) /\ send[t].pending # <<>>
    BY <2>1 DEF HazardInv, BusTypes, SendLocals, SenderInv, Pends
  <2>3. send[t].pending[send[t].i] \in Range(receivers)
    BY <2>2, MembersOf DEF SenderInv
  <2>4. QED
    BY <1>1, <2>1, <2>3 DEF LeavingInv
<1>4. ASSUME NEW r \in Receivers, Connect(r) \/ Disconnect(r) PROVE LeavingInv'
  <2>1. /\ pc[Cdc] = "idle" /\ Goto(Cdc, "store") /\ receivers' = receivers
        /\ disp' = [disp EXCEPT ![Cdc].rcv = r]
    BY <1>4 DEF Connect, Disconnect, Step, bus, table, slots
  <2>2. pc'[Cdc] = "store" /\ disp'[Cdc].rcv = r
    BY <1>0, <2>1 DEF Goto, DispatchLocals
  <2>3. \A y \in Range(receivers) : "destroyed" \notin hazard[y]
    BY <2>1 DEF LeavingInv, Closing
  <2>4. /\ \A y \in Receivers : y # r => hazard'[y] = hazard[y]
        /\ r \notin Range(receivers) => hazard'[r] = {} /\ queue'[r] = <<>>
        /\ r \in Range(receivers) => hazard'[r] = hazard[r] \cup {"destroyed"}
    BY <1>0, <1>4 DEF Connect, Disconnect
  <2>5. \A t \in Senders : pc'[t] = "send_clear" =>
          "destroyed" \in hazard'[send'[t].pending[send'[t].i]]
    BY <1>0, <1>3, <2>3
  <2>6. \A y \in Range(receivers) : "destroyed" \in hazard'[y] <=> y = r
    BY <1>0, <2>3, <2>4
  <2>7. QED
    BY <2>1, <2>2, <2>4, <2>5, <2>6 DEF LeavingInv, Closing
<1>5. CASE CdcStore \/ CdcWait \/ CdcExitDisconnect
  <2>1. /\ UNCHANGED <<receivers, hazard, queue, disp>>
        /\ \/ pc[Cdc] \in {"store", "wait"} /\ pc'[Cdc] \in {"wait", "modify"}
           \/ pc[Cdc] = "exit_disconnect" /\ pc'[Cdc] = "quiesce"
    BY <1>0, <1>5 DEF CdcStore, CdcWait, CdcExitDisconnect, Step, Goto, bus, table, slots, rcvs
  <2>2. (Closing' <=> Closing)
        /\ (pc'[Cdc] \in {"exit_disconnect", "quiesce"} <=> pc[Cdc] \in {"exit_disconnect", "quiesce"})
    BY <2>1 DEF Closing
  <2>3. QED
    BY <1>3, <2>1, <2>2 DEF LeavingInv
<1>6. CASE CdcExitConnect \/ CdcQuiesce
  <2>1. /\ UNCHANGED <<receivers, hazard>>
        /\ pc[Cdc] \in {"exit_connect", "quiesce"} /\ pc'[Cdc] \in {"idle", "release"}
    BY <1>0, <1>6 DEF CdcExitConnect, CdcQuiesce, Step, Goto, bus, table, slots, rcvs
  <2>2. ~Closing /\ ~Closing' /\ pc'[Cdc] \notin {"exit_disconnect", "quiesce"}
    BY <2>1 DEF Closing
  <2>3. QED
    BY <1>3, <2>1, <2>2 DEF LeavingInv
<1>7. CASE CdcModify
  <2>1. /\ UNCHANGED <<hazard, queue, disp>> /\ pc[Cdc] = "modify"
        /\ receivers' = IF x \in Range(receivers) THEN Removed(x) ELSE Inserted(x)
        /\ Goto(Cdc, IF x \in Range(receivers) THEN "exit_disconnect" ELSE "exit_connect")
    BY <1>7 DEF CdcModify, rcvs
  <2>2. pc'[Cdc] = IF x \in Range(receivers) THEN "exit_disconnect" ELSE "exit_connect"
    BY <1>0, <2>1 DEF Goto
  <2>3. x \in Receivers /\ Closing /\ ~Closing'
    BY <2>1, <2>2, ClosingReceiver DEF Closing
  <2>4. /\ x \in Range(receivers) => Range(receivers') = Range(receivers) \ {x}
        /\ x \notin Range(receivers) => Range(receivers') = Range(receivers) \cup {x}
    BY <1>0, <2>1, <2>3, TableChanges
  <2>5. \A y \in Range(receivers') : "destroyed" \notin hazard[y]
    BY <2>3, <2>4 DEF LeavingInv
  <2>6. x \in Range(receivers) => "destroyed" \in hazard[x]
    BY <2>3 DEF LeavingInv
  <2>7. \A t \in Senders : pc'[t] = "send_clear" =>
          "destroyed" \in hazard'[send'[t].pending[send'[t].i]]
    BY <1>3, <2>1
  <2>8. QED
    BY <2>1, <2>2, <2>3, <2>5, <2>6, <2>7 DEF LeavingInv
<1>8. QED
  BY <1>4, <1>5, <1>6, <1>7 DEF CdcNext, CdcStep
\* The chains of a receiver that are in hand and in its queue are counted.
LEMMA BoxesAre == BusInv => BoxFacts
<1> SUFFICES ASSUME BusInv PROVE BoxFacts
  OBVIOUS
<1>0. /\ HazardInv /\ ChainInv /\ FragInv /\ Readers \subseteq Threads /\ Senders \subseteq Readers
      /\ \A r \in Receivers : queue[r] \in Seq(Chains)
      /\ \A t \in Readers : disp[t].msgs \in Seq(Chains) /\ IsInjective(disp[t].msgs)
      /\ \A t \in Readers : pc[t] \in Delivers <=> disp[t].msgs # <<>>
  BY ThreadFacts DEF BusInv, HazardInv, BusTypes, DispatchLocals, ChainInv, ReaderInv
<1>1. ASSUME NEW t \in Readers, NEW r \in Receivers, Hands(t, r)
      PROVE  InHand(r) = Undelivered(t)
  <2> DEFINE holders == {u \in Readers : disp[u].rcv = r /\ disp[u].msgs # <<>>}
  <2>1. t \in holders
    BY <1>0, <1>1 DEF Hands
  <2>2. \A u \in holders : u = t
    <3>1. \A u \in holders : Latched(u) /\ disp[u].rcv = r
      BY <1>0 DEF Latched, Delivers
    <3>2. QED
      BY <1>0, <2>1, <3>1 DEF HazardInv
  <2>3. (CHOOSE u \in holders : TRUE) = t
    BY <2>1, <2>2
  <2>4. QED
    BY <2>1, <2>3 DEF InHand
<1>2. ASSUME NEW r \in Receivers, \A t \in Readers : ~Hands(t, r)
      PROVE  InHand(r) = <<>>
  <2>1. {u \in Readers : disp[u].rcv = r /\ disp[u].msgs # <<>>} = {}
    BY <1>0, <1>2 DEF Hands
  <2>2. QED
    BY <2>1 DEF InHand
<1>3. ASSUME NEW t \in Readers, pc[t] \in Delivers
      PROVE  /\ Undelivered(t) \in Seq(Chains)
             /\ \A c \in Range(Undelivered(t)) : c \in Range(disp[t].msgs) /\ ~(Dropping(t) /\ c = Head(disp[t].msgs))
  <2>1. disp[t].msgs # <<>>
    BY <1>0, <1>3
  <2>2. /\ Tail(disp[t].msgs) \in Seq(Chains) /\ Head(disp[t].msgs) \notin Range(Tail(disp[t].msgs))
        /\ Range(Tail(disp[t].msgs)) \subseteq Range(disp[t].msgs)
    BY <1>0, <2>1, TailOf
  <2>3. QED
    BY <1>0, <2>2 DEF Undelivered, Dropping
<1>4. ASSUME NEW r \in Receivers
      PROVE  InHand(r) \in Seq(Chains) /\ queue[r] \in Seq(Chains) /\ Boxed(r) \in Seq(Chains)
             /\ Range(Boxed(r)) = Range(InHand(r)) \cup Range(queue[r])
  <2>1. InHand(r) \in Seq(Chains)
    <3>1. CASE \E t \in Readers : Hands(t, r)
      BY <1>1, <1>3, <3>1 DEF Hands
    <3>2. CASE \A t \in Readers : ~Hands(t, r)
      <4>1. <<>> \in Seq(Chains)
        OBVIOUS
      <4>2. QED
        BY <1>2, <3>2, <4>1
    <3>3. QED
      BY <3>1, <3>2
  <2>2. QED
    BY <1>0, <2>1, ConcatOf DEF Boxed
<1>5. ASSUME NEW c \in Chains, NEW h \in Homes, c \in Held(h), h # <<"free", 0>>, ~InRelease(c)
      PROVE  chain_msg[c] \in Frags /\ msg_data[chain_msg[c]].id # 0
  <2>1. c \notin free_chains
    BY <1>0, <1>5, HomesAre DEF ChainInv
  <2>2. PICK f \in Frags : f = chain_msg[c]
    BY <1>0, <2>1 DEF FragInv, FragTypes
  <2>3. MessageOK(f)
    BY <1>0 DEF FragInv
  <2>4. c \in CountedChains(f)
    BY <1>5, <2>2, UsersAre
  <2>5. Users(f) # 0
    BY <2>4, UsersAre
  <2>6. QED
    BY <2>2, <2>3, <2>5 DEF MessageOK
<1>6. ASSUME NEW r \in Receivers, NEW c \in Range(Boxed(r))
      PROVE  chain_msg[c] \in Frags /\ msg_data[chain_msg[c]].id # 0
  <2>1. c \in Chains
    BY <1>4, MembersOf
  <2>2. \A u \in Threads : Dropping(u) => Head(disp[u].msgs) \in Held(<<"hands", u>>)
    <3>1. ASSUME NEW u \in Threads, Dropping(u) PROVE Head(disp[u].msgs) \in Held(<<"hands", u>>)
      <4>1. disp[u].msgs \in Seq(Chains) /\ disp[u].msgs # <<>>
        BY <1>0, <3>1, ReleasesHeld DEF Dropping
      <4>2. Head(disp[u].msgs) \in Range(disp[u].msgs)
        BY <4>1, MembersOf, EmptySeq
      <4>3. QED
        BY <4>2, HomesAre
    <3>2. QED
      BY <3>1
  <2>3. CASE c \in Range(queue[r])
    <3>1. PICK h \in Homes : h = <<"queue", r>> /\ c \in Held(h)
      BY <2>3, HomesAre
    <3>2. ASSUME InRelease(c) PROVE FALSE
      <4>1. PICK u \in Threads : Dropping(u) /\ c = Head(disp[u].msgs)
        BY <3>2 DEF InRelease
      <4>2. <<"hands", u>> \in Homes /\ <<"hands", u>> # h /\ c \in Held(<<"hands", u>>)
        BY <2>2, <3>1, <4>1, HomesAre
      <4>3. QED
        BY <1>0, <3>1, <4>2 DEF ChainInv
    <3>3. QED
      BY <1>5, <2>1, <3>1, <3>2
  <2>4. CASE c \in Range(InHand(r))
    <3>1. PICK t \in Readers : Hands(t, r)
      BY <1>2, <2>4, EmptyList
    <3>2. c \in Range(disp[t].msgs) /\ ~(Dropping(t) /\ c = Head(disp[t].msgs))
      BY <1>1, <1>3, <2>4, <3>1 DEF Hands
    <3>3. PICK h \in Homes : h = <<"hands", t>> /\ c \in Held(h)
      BY <1>0, <3>2, HomesAre
    <3>4. ASSUME InRelease(c) PROVE FALSE
      <4>1. PICK u \in Threads : Dropping(u) /\ c = Head(disp[u].msgs)
        BY <3>4 DEF InRelease
      <4>2. u # t
        BY <3>2, <4>1
      <4>3. <<"hands", u>> \in Homes /\ <<"hands", u>> # h /\ c \in Held(<<"hands", u>>)
        BY <2>2, <3>3, <4>1, <4>2, HomesAre
      <4>4. QED
        BY <1>0, <3>3, <4>3 DEF ChainInv
    <3>5. QED
      BY <1>5, <2>1, <3>3, <3>4
  <2>5. QED
    BY <1>4, <2>3, <2>4
<1>7. ASSUME NEW t \in Senders, send[t].pending # <<>>
      PROVE  send[t].msg \in Frags /\ msg_data[send[t].msg].id # 0
  <2>1. SenderInv(t) /\ send[t].msg \in Frags \cup {NoFrag}
    BY <1>0 DEF HazardInv, BusTypes, SendLocals
  <2>2. pc[t] \in Pends /\ pc[t] \notin Unsent /\ pc[t] # "idle"
    BY <1>7, <2>1 DEF SenderInv, Pends, Unsent, DispatchInside, DispatchOutside
  <2>3. PICK f \in Frags : f = send[t].msg
    BY <2>1, <2>2 DEF SenderInv
  <2>4. t \in CountedSenders(f)
    BY <2>2, <2>3 DEF CountedSenders, Unsent
  <2>5. Users(f) # 0 /\ MessageOK(f)
    BY <1>0, <2>4, UsersAre DEF FragInv
  <2>6. QED
    BY <2>3, <2>5 DEF MessageOK
<1>8. QED
  BY <1>1, <1>2, <1>4, <1>6, <1>7 DEF BoxFacts
-----------------------------------------------------------------------------
(* The state of BusService the bus stands for.                             *)

Id(c) == msg_data[chain_msg[c]].id
Reaching(t) == {<<msg_data[send[t].msg].id, r>> : r \in Range(send[t].pending)}

reaching == [t \in Senders |-> Reaching(t)]
box == [r \in Receivers |-> Box(r)]
leaving == {r \in Connected : "destroyed" \in hazard[r]}

\* The service's variables, and what they are after a step.
LEMMA Mapping ==
  /\ reaching = [t \in Senders |-> {<<msg_data[send[t].msg].id, r>> : r \in Range(send[t].pending)}]
  /\ reaching' = [t \in Senders |-> {<<msg_data[send[t].msg].id, r>> : r \in Range(send[t].pending)}]'
  /\ box = [r \in Receivers |-> Box(r)] /\ box' = [r \in Receivers |-> Box(r)]'
  /\ leaving = {r \in Connected : "destroyed" \in hazard[r]}
  /\ leaving' = {r \in Connected : "destroyed" \in hazard[r]}'
BY DEF reaching, box, leaving, Reaching

\* A message keeps its number while somebody uses it.
NumbersKept ==
  /\ \A c \in Chains : chain_msg'[c] = chain_msg[c] \/ chain_msg[c] = NoFrag \/ chain_msg'[c] = NoFrag
  /\ \A f \in Frags : msg_data'[f].id = msg_data[f].id \/ msg_data[f].id = 0 \/ msg_data'[f].id = 0

\* A chain that stays in the queue of a receiver keeps its number.
LEMMA IdsKept ==
  ASSUME BoxFacts, BoxFacts', NumbersKept, NEW r \in Receivers, NEW q \in Receivers,
         NEW c \in Range(Boxed(r)), c \in Range(Boxed(q)')
  PROVE  Id(c)' = Id(c)
<1>1. /\ c \in Chains /\ chain_msg[c] \in Frags /\ msg_data[chain_msg[c]].id # 0
      /\ chain_msg'[c] \in Frags /\ msg_data'[chain_msg'[c]].id # 0
  BY MembersOf DEF BoxFacts
<1>2. chain_msg'[c] = chain_msg[c]
  BY <1>1, MessagesAssumption DEF NumbersKept
<1>3. QED
  BY <1>1, <1>2 DEF NumbersKept, Id

\* The queue of a receiver, message by message.
BoxIds ==
  \A r \in Receivers :
    /\ Box(r) \in Seq(Nat) /\ Len(Box(r)) = Len(Boxed(r)) /\ Len(Boxed(r)) \in Nat
    /\ \A i \in 1 .. Len(Boxed(r)), c \in Chains : Boxed(r)[i] = c => Box(r)[i] = Id(c)

\* The numbers in a receiver's box are those of its chains, in their order.
LEMMA BoxIdsAre == BusInv => BoxIds
<1> SUFFICES ASSUME BusInv, NEW r \in Receivers
             PROVE  /\ Box(r) \in Seq(Nat) /\ Len(Box(r)) = Len(Boxed(r)) /\ Len(Boxed(r)) \in Nat
                    /\ \A i \in 1 .. Len(Boxed(r)), c \in Chains : Boxed(r)[i] = c => Box(r)[i] = Id(c)
  BY DEF BoxIds
<1>0. BoxFacts /\ FragTypes
  BY BoxesAre DEF BusInv, FragInv
<1>1. PICK q : q = Boxed(r)
  OBVIOUS
<1>2. q \in Seq(Chains) /\ DOMAIN q = 1 .. Len(q) /\ Len(q) \in Nat
      /\ \A i \in 1 .. Len(q) : q[i] \in Range(q) /\ q[i] \in Chains
  BY <1>0, <1>1, MembersOf DEF BoxFacts
<1>3. Box(r) = [i \in 1 .. Len(q) |-> Id(q[i])]
  BY <1>1, <1>2 DEF Box, Boxed, Id
<1>4. \A i \in 1 .. Len(q) : Id(q[i]) \in Nat
  BY <1>0, <1>1, <1>2 DEF BoxFacts, FragTypes, Id
<1>5. QED
  BY <1>1, <1>2, <1>3, <1>4

\* What a state of the bus is known by.
View == BusInv /\ BoxFacts /\ BoxIds

\* A box of the same chains has the same numbers.
LEMMA BoxKept ==
  ASSUME View, View', NumbersKept, NEW r \in Receivers, Boxed(r)' = Boxed(r)
  PROVE  Box(r)' = Box(r)
<1>1. PICK q, p : q = Boxed(r) /\ p = Boxed(r)' /\ p = q
  OBVIOUS
<1>2. q \in Seq(Chains) /\ Len(q) \in Nat
      /\ \A i \in 1 .. Len(q) : q[i] \in Range(q) /\ q[i] \in Chains
  BY <1>1, MembersOf DEF View, BoxFacts
<1>3. \A c \in Range(q) : Id(c)' = Id(c)
  BY <1>1, IdsKept DEF View
<1>4. \A i \in 1 .. Len(q) : Box(r)[i] = Id(q[i])
  BY <1>1, <1>2 DEF View, BoxIds
<1>5. \A i \in 1 .. Len(p), c \in Chains : p[i] = c => Box(r)'[i] = Id(c)'
  <2>1. BoxIds'
    BY DEF View
  <2>2. \A i \in 1 .. Len(Boxed(r)'), c \in Chains : Boxed(r)'[i] = c => Box(r)'[i] = Id(c)'
    BY <2>1, Zenon DEF BoxIds
  <2>3. QED
    BY <1>1, <2>2, Zenon
<1>6. \A i \in 1 .. Len(q) : Box(r)'[i] = Box(r)[i]
  BY <1>1, <1>2, <1>3, <1>4, <1>5
<1>7. Box(r) \in Seq(Nat) /\ Box(r)' \in Seq(Nat) /\ Len(Box(r)) = Len(q) /\ Len(Box(r)') = Len(q)
  BY <1>1 DEF View, BoxIds
<1>8. QED
  BY <1>6, <1>7, SeqEqual

\* A message is added at the end.
LEMMA BoxAppended ==
  ASSUME View, View', NumbersKept, NEW r \in Receivers, NEW x \in Chains,
         Boxed(r)' = Append(Boxed(r), x)
  PROVE  Box(r)' = Append(Box(r), Id(x)')
<1>1. PICK q, p : q = Boxed(r) /\ p = Boxed(r)'
  OBVIOUS
<1>2. /\ q \in Seq(Chains) /\ Len(q) \in Nat /\ p = Append(q, x) /\ Len(p) = Len(q) + 1
      /\ \A i \in 1 .. Len(q) : q[i] \in Range(q) /\ q[i] \in Chains /\ p[i] = q[i]
      /\ p[Len(q) + 1] = x /\ Range(p) = Range(q) \cup {x}
  <2>1. q \in Seq(Chains) /\ Len(q) \in Nat /\ p = Append(q, x)
        /\ \A i \in 1 .. Len(q) : q[i] \in Range(q) /\ q[i] \in Chains
    BY <1>1, MembersOf DEF View, BoxFacts
  <2>2. Range(p) = Range(q) \cup {x}
    BY <2>1, AppendOf
  <2>3. QED
    BY <2>1, <2>2
<1>3. \A c \in Range(q) : Id(c)' = Id(c)
  BY <1>1, <1>2, IdsKept DEF View
<1>4. \A i \in 1 .. Len(q) : Box(r)[i] = Id(q[i])
  BY <1>1, <1>2 DEF View, BoxIds
<1>5. \A i \in 1 .. Len(p), c \in Chains : p[i] = c => Box(r)'[i] = Id(c)'
  BY <1>1 DEF View, BoxIds
<1>6. /\ \A i \in 1 .. Len(q) : Box(r)'[i] = Box(r)[i]
      /\ Box(r)'[Len(q) + 1] = Id(x)'
  BY <1>2, <1>3, <1>4, <1>5, SMTT(30)
<1>7. Box(r) \in Seq(Nat) /\ Box(r)' \in Seq(Nat) /\ Len(Box(r)) = Len(q) /\ Len(Box(r)') = Len(q) + 1
  BY <1>1, <1>2 DEF View, BoxIds
<1>8. Id(x)' \in Nat
  BY <1>2, <1>6, <1>7
<1>9. PICK b, d, n : b = Box(r) /\ d = Box(r)' /\ n = Id(x)'
  OBVIOUS
<1>10. d = Append(b, n)
  <2>1. /\ Append(b, n) \in Seq(Nat) /\ Len(Append(b, n)) = Len(q) + 1 /\ d \in Seq(Nat)
        /\ Append(b, n)[Len(q) + 1] = n /\ \A i \in 1 .. Len(q) : Append(b, n)[i] = b[i]
    BY <1>7, <1>8, <1>9
  <2>2. Len(d) = Len(q) + 1 /\ \A i \in 1 .. Len(q) + 1 : d[i] = Append(b, n)[i]
    BY <1>2, <1>6, <1>7, <1>9, <2>1
  <2>3. QED
    BY <2>1, <2>2, SeqEqual
<1>11. QED
  BY <1>9, <1>10

\* The first message is delivered.
LEMMA BoxDelivered ==
  ASSUME View, View', NumbersKept, NEW r \in Receivers, Boxed(r) # <<>>, Boxed(r)' = Tail(Boxed(r))
  PROVE  Box(r) # <<>> /\ Box(r)' = Tail(Box(r))
<1>1. PICK q, p : q = Boxed(r) /\ p = Boxed(r)'
  OBVIOUS
<1>2. /\ q \in Seq(Chains) /\ Len(q) \in Nat \ {0} /\ Len(p) = Len(q) - 1
      /\ \A i \in 1 .. Len(q) : q[i] \in Range(q) /\ q[i] \in Chains
      /\ \A i \in 1 .. Len(p) : p[i] = q[i + 1] /\ p[i] \in Range(p)
  <2>1. q \in Seq(Chains) /\ q # <<>> /\ p = Tail(q)
        /\ \A i \in 1 .. Len(q) : q[i] \in Range(q) /\ q[i] \in Chains
    BY <1>1, MembersOf DEF View, BoxFacts
  <2>2. Len(q) \in Nat \ {0} /\ p \in Seq(Chains)
    BY <2>1, EmptySeq
  <2>3. \A i \in 1 .. Len(p) : p[i] \in Range(p)
    BY <2>2, MembersOf
  <2>4. QED
    BY <2>1, <2>2, <2>3
<1>3. \A c \in Range(q) : c \in Range(p) => Id(c)' = Id(c)
  BY <1>1, IdsKept DEF View
<1>4. \A i \in 1 .. Len(q) : Box(r)[i] = Id(q[i])
  BY <1>1, <1>2 DEF View, BoxIds
<1>5. \A i \in 1 .. Len(p), c \in Chains : p[i] = c => Box(r)'[i] = Id(c)'
  BY <1>1, ZenonT(30) DEF View, BoxIds
<1>6. \A i \in 1 .. Len(p) : i + 1 \in 1 .. Len(q)
  BY <1>2
<1>7. \A i \in 1 .. Len(p) : Box(r)'[i] = Box(r)[i + 1]
  BY <1>2, <1>3, <1>4, <1>5, <1>6
<1>8. Box(r) \in Seq(Nat) /\ Box(r)' \in Seq(Nat) /\ Len(Box(r)) = Len(q) /\ Len(Box(r)') = Len(q) - 1
  BY <1>1, <1>2, Zenon DEF View, BoxIds
<1>9. PICK b, d : b = Box(r) /\ d = Box(r)'
  OBVIOUS
<1>10. b # <<>> /\ d = Tail(b)
  <2>1. b \in Seq(Nat) /\ Len(b) \in Nat \ {0} /\ d \in Seq(Nat) /\ Len(d) = Len(b) - 1
        /\ \A i \in 1 .. Len(b) - 1 : d[i] = b[i + 1]
    BY <1>2, <1>7, <1>8, <1>9
  <2>2. b # <<>> /\ Tail(b) \in Seq(Nat) /\ Len(Tail(b)) = Len(b) - 1
        /\ \A i \in 1 .. Len(b) - 1 : Tail(b)[i] = b[i + 1]
    BY <2>1
  <2>3. QED
    BY <2>1, <2>2, SeqEqual
<1>11. QED
  BY <1>9, <1>10

\* What is in hand for a receiver.
LEMMA InHandKept ==
  ASSUME View, View', NEW r \in Receivers,
         \A t \in Readers : /\ Hands(t, r)' <=> Hands(t, r)
                            /\ Hands(t, r) => Undelivered(t)' = Undelivered(t)
  PROVE  InHand(r)' = InHand(r)
<1>1. /\ \A t \in Readers : Hands(t, r) => InHand(r) = Undelivered(t)
      /\ (\A t \in Readers : ~Hands(t, r)) => InHand(r) = <<>>
      /\ \A t \in Readers : Hands(t, r)' => InHand(r)' = Undelivered(t)'
      /\ (\A t \in Readers : ~Hands(t, r)') => InHand(r)' = <<>>
  BY DEF View, BoxFacts
<1>2. QED
  BY <1>1

\* What is sent to the receivers that one sender still has to reach.
LEMMA ReachingKept ==
  ASSUME View, View', NumbersKept, NEW t \in Senders,
         send'[t].pending = send[t].pending,
         send[t].pending = <<>> \/ send'[t].msg = send[t].msg
  PROVE  Reaching(t)' = Reaching(t)
<1>1. CASE send[t].pending = <<>>
  BY <1>1, EmptyList DEF Reaching
<1>2. CASE send[t].pending # <<>>
  <2>1. /\ send[t].msg \in Frags /\ msg_data[send[t].msg].id # 0
        /\ send'[t].msg = send[t].msg /\ msg_data'[send[t].msg].id # 0
    BY <1>2 DEF View, BoxFacts
  <2>2. msg_data'[send[t].msg].id = msg_data[send[t].msg].id
    BY <2>1 DEF NumbersKept
  <2>3. QED
    BY <2>1, <2>2 DEF Reaching
<1>3. QED
  BY <1>1, <1>2

\* The receivers that are known, and those that are leaving.
LEMMA TableKept ==
  ASSUME RcvsKept, View, disp'[Cdc].rcv = disp[Cdc].rcv,
         \/ pc'[Cdc] = pc[Cdc]
         \/ {pc[Cdc], pc'[Cdc]} \subseteq {"idle", "release", "release_chain"}
  PROVE  Connected' = Connected /\ leaving' = leaving
<1>1. Connected' = Connected
  BY DEF Connected, RcvsKept
<1>2. Connected \subseteq Receivers
  BY ClosingReceiver DEF View, BusInv, Connected
<1>3. QED
  BY <1>1, <1>2 DEF leaving, RcvsKept
-----------------------------------------------------------------------------
(* The steps, as the service sees them.                                    *)

\* A step after which the service's variables are what they were.
LEMMA Stutters ==
  ASSUME next_id' = next_id, Connected' = Connected, leaving' = leaving,
         \A t \in Senders : Reaching(t)' = Reaching(t), \A r \in Receivers : Box(r)' = Box(r)
  PROVE  UNCHANGED Service!vars
<1>1. reaching' = reaching /\ box' = box
  BY DEF reaching, box
<1>2. QED
  BY <1>1, Mapping DEF Service!vars

\* A number is lost only with the last reference, and given only to a message without one.
LEMMA DropKeepsNumbers ==
  ASSUME FragTypes, NEW f, DropReference(f), NEW g \in Frags
  PROVE  msg_data'[g].id \in {msg_data[g].id, 0}
<1>1. msg_data \in [Frags -> [id : Nat, ref_count : Int]] /\ msg_data[g] \in [id : Nat, ref_count : Int]
  BY DEF FragTypes
<1>2. CASE LastReference(f)
  <2>1. msg_data' = [msg_data EXCEPT ![f] = NoMessage]
    BY <1>2 DEF DropReference, Free
  <2>2. QED
    BY <1>1, <2>1 DEF NoMessage
<1>3. CASE ~LastReference(f)
  <2>1. msg_data' = [msg_data EXCEPT ![f].ref_count = @ - 1]
    BY <1>3 DEF DropReference
  <2>2. QED
    BY <1>1, <2>1
<1>4. QED
  BY <1>2, <1>3

\* Every step keeps the numbers of the messages somebody uses.
LEMMA StepsKeepNumbers ==
  ASSUME BusInv, [Next]_vars
  PROVE  NumbersKept
<1>0. /\ FragTypes /\ chain_msg \in [Chains -> Frags \cup {NoFrag}]
      /\ msg_data \in [Frags -> [id : Nat, ref_count : Int]]
      /\ \A c \in Chains : chain_msg[c] = NoFrag <=> c \in free_chains
  BY DEF BusInv, FragInv, FragTypes
<1>1. CASE UNCHANGED <<chain_msg, msg_data>>
  BY <1>1 DEF NumbersKept
<1>2. ASSUME NEW f, DropReference(f), NEW c, chain_msg' \in {chain_msg, [chain_msg EXCEPT ![c] = NoFrag]}
      PROVE  NumbersKept
  <2>1. \A x \in Chains : chain_msg'[x] = chain_msg[x] \/ chain_msg'[x] = NoFrag
    BY <1>0, <1>2
  <2>2. \A g \in Frags : msg_data'[g].id \in {msg_data[g].id, 0}
    BY <1>0, <1>2, DropKeepsNumbers
  <2>3. QED
    BY <2>1, <2>2 DEF NumbersKept
<1>3. ASSUME NEW t \in Readers, DispatchBegin(t) \/ DispatchStep(t) PROVE NumbersKept
  BY <1>1, <1>3, Zenon DEF DispatchBegin, DispatchStep, DispatchReenter, DispatchTest, DispatchUndo,
         DispatchPick, DispatchEnd, DispatchTry, DispatchLeave, DispatchLock, DispatchDetach,
         DispatchNothing, DispatchDeliver, DispatchDone, memory
<1>4. ASSUME NEW t \in Threads, ReleaseStep(t) PROVE NumbersKept
  <2>1. CASE ReleaseReference(t)
    BY <1>2, <2>1 DEF ReleaseReference
  <2>2. CASE ReleaseChain(t)
    <3>1. msg_data' = msg_data /\ \E c : chain_msg' = [chain_msg EXCEPT ![c] = NoFrag]
      BY <2>2 DEF ReleaseChain, PushChain
    <3>2. \A x \in Chains : chain_msg'[x] = chain_msg[x] \/ chain_msg'[x] = NoFrag
      BY <1>0, <3>1
    <3>3. QED
      BY <3>1, <3>2 DEF NumbersKept
  <2>3. QED
    BY <1>4, <2>1, <2>2 DEF ReleaseStep
<1>5. ASSUME NEW t \in Senders, MsgBegin(t) \/ SendStep(t) PROVE NumbersKept
  <2>1. CASE SendCollect(t)
    <3>1. PICK f : f = send[t].msg
      OBVIOUS
    <3>2. /\ pc[t] = "send_collect" /\ chain_msg' = chain_msg
          /\ msg_data' = [msg_data EXCEPT ![f] = [id |-> next_id, ref_count |-> 1]]
      BY <2>1, <3>1 DEF SendCollect, Step
    <3>3. msg_data[f].id = 0
      BY <3>1, <3>2 DEF BusInv, FragInv, SenderFrag, Unsent
    <3>4. QED
      BY <1>0, <3>2, <3>3 DEF NumbersKept
  <2>2. CASE SendToNobody(t)
    <3>1. chain_msg' = chain_msg /\ \E f : msg_data' = [msg_data EXCEPT ![f] = NoMessage]
      BY <2>2 DEF SendToNobody, Free
    <3>2. \A g \in Frags : msg_data'[g] \in {msg_data[g], NoMessage}
      BY <1>0, <3>1
    <3>3. QED
      BY <3>1, <3>2 DEF NumbersKept, NoMessage
  <2>3. CASE SendGetChain(t)
    <3>1. PICK f, c : /\ c \in free_chains /\ chain_msg' = [chain_msg EXCEPT ![c] = f]
                      /\ msg_data' = [msg_data EXCEPT ![f].ref_count = @ + 1]
      BY <2>3 DEF SendGetChain, AddReference
    <3>2. \A g \in Frags : msg_data'[g].id = msg_data[g].id
      BY <1>0, <3>1
    <3>3. \A x \in Chains : chain_msg'[x] = chain_msg[x] \/ chain_msg[x] = NoFrag
      BY <1>0, <3>1
    <3>4. QED
      BY <3>2, <3>3 DEF NumbersKept
  <2>4. CASE SendRelease(t) \/ SendDrop(t)
    BY <1>2, <2>4 DEF SendRelease, SendDrop, PushChain
  <2>5. CASE MsgBegin(t) \/ SendsOnly(t)
    BY <1>1, <2>5, Zenon DEF MsgBegin, SendsOnly, SendEnter, SendTest, SendUndo, SendNoChain, SendTry,
      SendEnqueue, SendClear, SendExit, memory
  <2>6. QED
    BY <1>5, <2>1, <2>2, <2>3, <2>4, <2>5 DEF SendStep, SendsOnly
<1>6. CASE CdcNext
  BY <1>1, <1>6 DEF CdcNext, CdcStep, CdcStore, CdcWait, CdcModify, CdcExitConnect,
    CdcExitDisconnect, CdcQuiesce, Connect, Disconnect, memory
<1>7. CASE UNCHANGED vars
  BY <1>1, <1>7 DEF vars, memory
<1>8. QED
  BY <1>3, <1>4, <1>5, <1>6, <1>7 DEF Next, ReaderNext

\* Only thread t moves, and what it has in hand for receiver r stays.
LEMMA OneHandMoves ==
  ASSUME View, View', NEW t \in Threads, NEW r \in Receivers,
         \A u \in Readers : u # t => pc'[u] = pc[u] /\ disp'[u] = disp[u],
         \/ t \notin Readers
         \/ ~Hands(t, r) /\ ~Hands(t, r)'
         \/ Hands(t, r) /\ Hands(t, r)' /\ Undelivered(t)' = Undelivered(t)
  PROVE  InHand(r)' = InHand(r)
<1>1. ASSUME NEW u \in Readers
      PROVE  /\ Hands(u, r)' <=> Hands(u, r)
             /\ Hands(u, r) => Undelivered(u)' = Undelivered(u)
  <2>1. CASE u = t
    BY <2>1
  <2>2. CASE u # t
    BY <2>2 DEF Hands, Undelivered
  <2>3. QED
    BY <2>1, <2>2
<1>2. QED
  BY <1>1, InHandKept

\* A thread that holds the dispatch bit of a receiver is the only one that delivers to it.
LEMMA OnlyHolder ==
  ASSUME View, NEW t \in Readers, Latched(t), NEW r, r = disp[t].rcv
  PROVE  /\ r \in Receivers /\ queue[r] \in Seq(Chains) /\ IsInjective(queue[r])
         /\ \A u \in Readers : Hands(u, r) => u = t
         /\ ~Hands(t, r) => InHand(r) = <<>>
<1>1. HazardInv /\ ReaderInv(t) /\ ChainInv /\ BoxFacts
  BY DEF View, BusInv, HazardInv
<1>2. r \in Receivers
  BY <1>1 DEF ReaderInv
<1>3. ASSUME NEW u \in Readers, Hands(u, r) PROVE u = t
  <2>1. Latched(u) /\ disp[u].rcv = r
    BY <1>3 DEF Hands, Latched, Delivers
  <2>2. QED
    BY <1>1, <2>1 DEF HazardInv
<1>4. QED
  BY <1>1, <1>2, <1>3 DEF BoxFacts, HazardInv, BusTypes, ChainInv

\* The steps that leave the senders' messages alone.
LEMMA SendersKeep ==
  ASSUME View, View', NumbersKept, send' = send
  PROVE  \A t \in Senders : Reaching(t)' = Reaching(t)
BY ReachingKept

\* A dispatch that does not deliver changes nothing the service knows.
LEMMA DispatchStutters ==
  ASSUME View, View', NumbersKept, NEW t \in Readers,
         DispatchBegin(t) \/ DispatchStep(t), ~DispatchDeliver(t)
  PROVE  UNCHANGED Service!vars
<1>0. /\ HazardInv /\ ExclusionInv /\ t \in Threads /\ Cdc \in Threads /\ Cdc # t
      /\ Readers \subseteq Threads /\ pc \in [Threads -> Labels]
      /\ disp \in [Threads -> DispatchLocals] /\ ReaderInv(t)
  BY ThreadFacts DEF View, BusInv, ExclusionInv, HazardInv, BusTypes
<1>1. \A u \in Threads : u # t => pc'[u] = pc[u] /\ disp'[u] = disp[u]
  BY <1>0, DispatchMoves
<1>2. send' = send /\ next_id' = next_id
  BY Zenon DEF DispatchBegin, DispatchStep, DispatchReenter, DispatchTest, DispatchUndo,
         DispatchPick, DispatchEnd, DispatchTry, DispatchLeave, DispatchLock, DispatchDetach,
         DispatchNothing, DispatchDeliver, DispatchDone, DispatchReturn, sent
<1>3. Connected' = Connected /\ leaving' = leaving
  <2>1. RcvsKept
    BY <1>0, DispatchesKeepRcvs
  <2>2. QED
    BY <1>0, <1>1, <2>1, TableKept
<1>4. ASSUME NEW r \in Receivers PROVE Boxed(r)' = Boxed(r)
  <2>1. CASE DispatchDetach(t)
    <3>1. PICK x, q, n : x = disp[t].rcv /\ q = queue[x] /\ n = Unhooked(disp[t].mode, q)
      OBVIOUS
    <3>2. /\ pc[t] = "detach" /\ Goto(t, "deliver") /\ q # <<>>
          /\ disp' = [disp EXCEPT ![t].msgs = SubSeq(q, 1, n)]
          /\ queue' = [queue EXCEPT ![x] = SubSeq(q, n + 1, Len(q))]
      BY <2>1, <3>1 DEF DispatchDetach, Step
    <3>3. Latched(t) /\ ~Hands(t, x) /\ ~Hands(t, r) /\ pc'[t] = "deliver"
      BY <1>0, <3>2 DEF Latched, Hands, Delivers, Goto
    <3>4. /\ x \in Receivers /\ q \in Seq(Chains) /\ IsInjective(q) /\ InHand(x) = <<>>
          /\ queue \in [Receivers -> Seq(Chains)]
      BY <1>0, <3>1, <3>3, OnlyHolder DEF HazardInv, BusTypes
    <3>5. disp'[t].rcv = x /\ disp'[t].msgs = SubSeq(q, 1, n)
      BY <1>0, <3>1, <3>2, ZenonT(30) DEF DispatchLocals
    <3>6. CASE r = x
      <4>1. n \in 0 .. Len(q)
        <5>1. Len(q) \in Nat \ {0}
          BY <3>2, <3>4, EmptySeq
        <5>2. QED
          BY <3>1, <5>1 DEF Unhooked
      <4>2. SubSeq(q, 1, n) \o SubSeq(q, n + 1, Len(q)) = q
        BY <3>4, <4>1, CutOf
      <4>3. Hands(t, x)' /\ Undelivered(t)' = SubSeq(q, 1, n)
        BY <3>3, <3>5 DEF Hands, Delivers, Undelivered
      <4>4. InHand(x)' = SubSeq(q, 1, n)
        BY <3>4, <4>3 DEF View, BoxFacts
      <4>5. queue'[x] = SubSeq(q, n + 1, Len(q))
        BY <3>2, <3>4
      <4>6. Boxed(x) = q
        <5>1. <<>> \o q = q
          BY <3>4, JoinedOf
        <5>2. QED
          BY <3>1, <3>4, <5>1 DEF Boxed
      <4>7. Boxed(r)' = q
        BY <3>6, <4>2, <4>4, <4>5 DEF Boxed
      <4>8. QED
        BY <3>6, <4>6, <4>7
    <3>7. CASE r # x
      <4>1. ~Hands(t, r)'
        BY <3>5, <3>7 DEF Hands
      <4>2. InHand(r)' = InHand(r)
        BY <1>0, <1>1, <3>3, <4>1, OneHandMoves
      <4>3. queue'[r] = queue[r]
        BY <3>2, <3>4, <3>7
      <4>4. QED
        BY <4>2, <4>3 DEF Boxed
    <3>8. QED
      BY <3>6, <3>7
  <2>2. CASE ~DispatchDetach(t)
    <3> DEFINE Spots == {"idle", "send_chain", "send_dispatch", "lock", "detach", "delivered",
                          "reenter"} \cup DispatchInside
    <3>0. \/ DispatchBegin(t) \/ DispatchReenter(t) \/ DispatchTest(t) \/ DispatchUndo(t)
          \/ DispatchPick(t) \/ DispatchEnd(t) \/ DispatchTry(t) \/ DispatchLeave(t)
          \/ DispatchLock(t) \/ DispatchNothing(t) \/ DispatchDone(t)
      BY <2>2 DEF DispatchStep
    <3>6. queue' = queue
      BY <3>0 DEF DispatchBegin, DispatchReenter, DispatchTest, DispatchUndo,
         DispatchPick, DispatchEnd, DispatchTry, DispatchLeave, DispatchLock,
         DispatchNothing, DispatchDone, rcvs
    <3>7. pc[t] \in Spots /\ \E l \in Spots : Goto(t, l)
      BY <3>0, SMTT(30) DEF DispatchBegin, DispatchReenter, DispatchTest, DispatchUndo,
         DispatchPick, DispatchEnd, DispatchTry, DispatchLeave, DispatchLock,
         DispatchNothing, DispatchDone, DispatchReturn, Step, DispatchInside
    <3>8. \A l \in Spots : l \notin Delivers
      BY DEF DispatchInside, Delivers
    <3> HIDE DEF Spots
    <3>1. queue' = queue /\ pc[t] \notin Delivers /\ \E l : Goto(t, l) /\ l \notin Delivers
      BY <3>6, <3>7, <3>8
    <3>2. pc'[t] \notin Delivers
      BY <1>0, <3>1 DEF Goto
    <3>3. ~Hands(t, r) /\ ~Hands(t, r)'
      BY <3>1, <3>2 DEF Hands
    <3>4. InHand(r)' = InHand(r)
      BY <1>0, <1>1, <3>3, OneHandMoves
    <3>5. QED
      BY <3>1, <3>4 DEF Boxed
  <2>3. QED
    BY <2>1, <2>2
<1>5. \A r \in Receivers : Box(r)' = Box(r)
  BY <1>4, BoxKept
<1>6. QED
  BY <1>2, <1>3, <1>5, SendersKeep, Stutters

\* on_msg_recv returns: the service delivers the first message of the receiver's queue.
LEMMA DeliverDelivers ==
  ASSUME View, View', NumbersKept, NEW t \in Readers, DispatchDeliver(t)
  PROVE  \E r \in Receivers : Service!Deliver(r)
<1>0. /\ HazardInv /\ ExclusionInv /\ t \in Threads /\ Cdc \in Threads /\ Cdc # t
      /\ Readers \subseteq Threads /\ pc \in [Threads -> Labels] /\ ReaderInv(t)
      /\ disp \in [Threads -> DispatchLocals]
  BY ThreadFacts DEF View, BusInv, ExclusionInv, HazardInv, BusTypes
<1>1. PICK x, m : x = disp[t].rcv /\ m = disp[t].msgs
  OBVIOUS
<1>2. /\ pc[t] = "deliver" /\ Goto(t, "release") /\ UNCHANGED <<queue, send, disp, next_id>>
  BY DEF DispatchDeliver, Step, rcvs, sent
<1>3. pc'[t] = "release" /\ \A u \in Threads : u # t => pc'[u] = pc[u] /\ disp'[u] = disp[u]
  BY <1>0, <1>2 DEF Goto
<1>4. Latched(t) /\ Hands(t, x) /\ Hands(t, x)' /\ m # <<>> /\ m \in Seq(Chains)
      /\ Undelivered(t) = m /\ Undelivered(t)' = Tail(m)
  BY <1>0, <1>1, <1>2, <1>3 DEF Latched, Hands, Delivers, Undelivered, ReaderInv, DispatchLocals
<1>5. x \in Receivers /\ queue[x] \in Seq(Chains)
  BY <1>1, <1>4, OnlyHolder
<1>6. InHand(x) = m /\ InHand(x)' = Tail(m)
  BY <1>4, <1>5 DEF View, BoxFacts
<1>7. Boxed(x) # <<>> /\ Boxed(x)' = Tail(Boxed(x))
  <2>1. m \o queue[x] # <<>> /\ Tail(m) \o queue[x] = Tail(m \o queue[x])
    BY <1>4, <1>5, JoinedOf, SMTT(30)
  <2>2. QED
    BY <1>2, <1>6, <2>1 DEF Boxed
<1>8. Box(x) # <<>> /\ Box(x)' = Tail(Box(x))
  BY <1>5, <1>7, BoxDelivered
<1>9. \A r \in Receivers : r # x => Box(r)' = Box(r)
  <2>1. ASSUME NEW r \in Receivers, r # x PROVE Box(r)' = Box(r)
    <3>1. ~Hands(t, r) /\ ~Hands(t, r)'
      BY <1>1, <1>2, <2>1 DEF Hands
    <3>2. InHand(r)' = InHand(r)
      BY <1>0, <1>3, <3>1, OneHandMoves
    <3>3. Boxed(r)' = Boxed(r)
      BY <1>2, <3>2 DEF Boxed
    <3>4. QED
      BY <3>3, BoxKept
  <2>2. QED
    BY <2>1
<1>10. Connected' = Connected /\ leaving' = leaving
  <2>1. RcvsKept
    BY <1>0, DispatchesKeepRcvs DEF DispatchStep
  <2>2. QED
    BY <1>0, <1>3, <2>1, TableKept
<1>11. reaching' = reaching
  BY <1>2, SendersKeep DEF reaching
<1>12. box[x] # <<>> /\ box' = [box EXCEPT ![x] = Tail(@)]
  BY <1>5, <1>8, <1>9 DEF box
<1>13. QED
  BY <1>2, <1>5, <1>10, <1>11, <1>12, Mapping DEF Service!Deliver

\* The service knows nothing of the release of chains.
LEMMA ReleaseStutters ==
  ASSUME View, View', NumbersKept, NEW t \in Threads, ReleaseStep(t)
  PROVE  UNCHANGED Service!vars
<1>0. /\ HazardInv /\ ExclusionInv /\ Cdc \in Threads /\ Readers \subseteq Threads
      /\ Cdc \notin Readers
      /\ pc \in [Threads -> Labels] /\ disp \in [Threads -> DispatchLocals]
  BY ThreadFacts DEF View, BusInv, ExclusionInv, HazardInv, BusTypes
<1>1. PICK m : m = disp[t].msgs
  OBVIOUS
<1>2. /\ m \in Seq(Chains) /\ m # <<>> /\ Tail(m) \in Seq(Chains)
      /\ pc[t] \in {"release", "release_chain"}
  <2>1. pc[t] \in {"release", "release_chain"}
    BY DEF ReleaseStep, ReleaseReference, ReleaseChain, Step
  <2>2. QED
    BY <1>0, <1>1, <2>1, ReleasesHeld
<1>3. UNCHANGED <<queue, hazard, receivers, send, next_id>>
  BY DEF ReleaseStep, ReleaseReference, ReleaseChain, rcvs, sent, bus, table, slots
<1>4. \E l : Goto(t, l) /\ (t = Cdc => l \in {"release", "release_chain", "idle"})
  BY DEF ReleaseStep, ReleaseReference, ReleaseChain, Step
<1>5. disp' = disp \/ disp' = [disp EXCEPT ![t].msgs = Tail(@)]
  BY DEF ReleaseStep, ReleaseReference, ReleaseChain
<1>6. /\ \A u \in Threads : u # t => pc'[u] = pc[u] /\ disp'[u] = disp[u]
      /\ \A u \in Threads : disp'[u].rcv = disp[u].rcv
      /\ t = Cdc => {pc[Cdc], pc'[Cdc]} \subseteq {"idle", "release", "release_chain"}
  <2>1. \A u \in Threads : u # t => pc'[u] = pc[u] /\ disp'[u] = disp[u]
    BY <1>0, <1>4, <1>5 DEF Goto
  <2>2. disp'[t].rcv = disp[t].rcv
    BY <1>0, <1>5 DEF DispatchLocals
  <2>3. t = Cdc => pc'[Cdc] \in {"release", "release_chain", "idle"}
    BY <1>0, <1>4 DEF Goto
  <2>4. QED
    BY <1>2, <2>1, <2>2, <2>3
<1>7. Connected' = Connected /\ leaving' = leaving
  <2>1. RcvsKept
    BY <1>3 DEF RcvsKept
  <2>2. QED
    BY <1>0, <1>6, <2>1, TableKept
<1>8. ASSUME NEW r \in Receivers PROVE InHand(r)' = InHand(r)
  <2>1. CASE t \notin Readers
    BY <1>0, <1>6, <2>1, OneHandMoves
  <2>2. CASE t \in Readers /\ disp[t].rcv # r
    <3>1. ~Hands(t, r) /\ ~Hands(t, r)'
      BY <1>6, <2>2 DEF Hands
    <3>2. QED
      BY <1>0, <1>6, <3>1, OneHandMoves
  <2>3. CASE t \in Readers /\ disp[t].rcv = r
    <3>1. Hands(t, r) /\ Undelivered(t) = Tail(m)
      BY <1>1, <1>2, <2>3 DEF Hands, Delivers, Undelivered
    <3>2. CASE pc'[t] = "delivered" /\ Len(m) = 1
      <4>1. Latched(t)' /\ ~Hands(t, r)' /\ disp'[t].rcv = r
        BY <1>6, <2>3, <3>2 DEF Latched, Hands, Delivers
      <4>2. \A u \in Readers : Hands(u, r) => u = t
        BY <1>2, <2>3, OnlyHolder DEF Latched
      <4>3. ASSUME NEW u \in Readers PROVE ~Hands(u, r)'
        <5>1. CASE u = t
          BY <4>1, <5>1
        <5>2. CASE u # t
          BY <1>0, <1>6, <4>2, <5>2 DEF Hands
        <5>3. QED
          BY <5>1, <5>2
      <4>4. InHand(r)' = <<>>
        BY <4>3 DEF View, BoxFacts
      <4>5. Tail(m) = <<>>
        <5>1. Len(Tail(m)) = 0
          BY <1>2, <3>2
        <5>2. QED
          BY <1>2, <5>1, EmptySeq
      <4>6. InHand(r) = Tail(m)
        BY <2>3, <3>1 DEF View, BoxFacts
      <4>7. QED
        BY <4>4, <4>5, <4>6
    <3>3. CASE pc'[t] = "release_chain" /\ disp' = disp
      <4>1. Hands(t, r)' /\ Undelivered(t)' = Tail(m)
        BY <1>1, <2>3, <3>3 DEF Hands, Delivers, Undelivered
      <4>2. QED
        BY <1>0, <1>6, <3>1, <4>1, OneHandMoves
    <3>4. CASE pc'[t] = "deliver" /\ disp' = [disp EXCEPT ![t].msgs = Tail(@)]
      <4>1. disp'[t].msgs = Tail(m) /\ disp'[t].rcv = r
        BY <1>0, <1>1, <2>3, <3>4 DEF DispatchLocals
      <4>2. Hands(t, r)' /\ Undelivered(t)' = Tail(m)
        BY <3>4, <4>1 DEF Hands, Delivers, Undelivered
      <4>3. QED
        BY <1>0, <1>6, <3>1, <4>2, OneHandMoves
    <3>5. QED
      <4>1. t # Cdc
        BY <1>0, <2>3
      <4>2. CASE ReleaseReference(t)
        BY <1>0, <3>3, <4>2 DEF ReleaseReference, Step, Goto
      <4>3. CASE ReleaseChain(t)
        <5>1. \/ Len(m) > 1 /\ Goto(t, "deliver") /\ disp' = [disp EXCEPT ![t].msgs = Tail(@)]
              \/ Len(m) = 1 /\ Goto(t, "delivered")
          BY <1>1, <4>1, <4>3 DEF ReleaseChain
        <5>2. QED
          BY <1>0, <3>2, <3>4, <5>1 DEF Goto
      <4>4. QED
        BY <4>2, <4>3 DEF ReleaseStep
  <2>4. QED
    BY <2>1, <2>2, <2>3
<1>9. \A r \in Receivers : Boxed(r)' = Boxed(r)
  BY <1>3, <1>8 DEF Boxed
<1>10. \A r \in Receivers : Box(r)' = Box(r)
  BY <1>9, BoxKept
<1>11. QED
  BY <1>3, <1>7, <1>10, SendersKeep, Stutters

\* What a step of a sender leaves as it is.
LEMMA SendLeaves ==
  ASSUME View, View', NumbersKept, NEW t \in Senders, MsgBegin(t) \/ SendStep(t)
  PROVE  /\ Connected' = Connected /\ leaving' = leaving
         /\ \A u \in Senders : u # t => Reaching(u)' = Reaching(u)
         /\ \A r \in Receivers : InHand(r)' = InHand(r)
<1> DEFINE Spots == {"idle", "send_enter", "send_release", "send_drop"} \cup SendInside
<1>0. /\ HazardInv /\ ExclusionInv /\ t \in Threads /\ t \in Readers /\ Cdc \in Threads /\ Cdc # t
      /\ Readers \subseteq Threads /\ Senders \subseteq Threads /\ pc \in [Threads -> Labels]
  BY ThreadFacts DEF View, BusInv, ExclusionInv
<1>1. /\ disp' = disp /\ \A u \in Threads : u # t => pc'[u] = pc[u]
      /\ \A u \in Senders : u # t => send'[u] = send[u]
  BY <1>0, SendMoves
<1>2. Connected' = Connected /\ leaving' = leaving
  <2>1. RcvsKept
    BY <1>0, SendsKeepRcvs
  <2>2. QED
    BY <1>0, <1>1, <2>1, TableKept
<1>3. ASSUME NEW u \in Senders, u # t PROVE Reaching(u)' = Reaching(u)
  BY <1>1, <1>3, ReachingKept
<1>4. pc[t] \in Spots /\ (pc' = pc \/ \E l \in Spots : Goto(t, l))
  <2>1. CASE \/ MsgBegin(t) \/ SendEnter(t) \/ SendTest(t) \/ SendUndo(t) \/ SendCollect(t)
             \/ SendToNobody(t) \/ SendGetChain(t) \/ SendNoChain(t) \/ SendExit(t)
             \/ SendRelease(t) \/ SendDrop(t)
    BY <2>1 DEF MsgBegin, SendEnter, SendTest, SendUndo, SendCollect, SendToNobody, SendGetChain,
                SendNoChain, SendExit, SendRelease, SendDrop, Step, SendInside
  <2>2. CASE SendTry(t) \/ SendEnqueue(t) \/ SendClear(t)
    BY <2>2, Zenon DEF SendTry, SendEnqueue, SendClear, Dropped, SendInside
  <2>3. QED
    BY <2>1, <2>2 DEF SendStep
<1>5. \A l \in Spots : l \notin Delivers
  BY DEF Delivers, SendInside
<1> HIDE DEF Spots
<1>6. pc[t] \notin Delivers /\ pc'[t] \notin Delivers
  BY <1>0, <1>4, <1>5 DEF Goto
<1>7. ASSUME NEW r \in Receivers PROVE InHand(r)' = InHand(r)
  <2>1. ~Hands(t, r) /\ ~Hands(t, r)'
    BY <1>6 DEF Hands
  <2>2. QED
    BY <1>0, <1>1, <2>1, OneHandMoves
<1>8. QED
  BY <1>2, <1>3, <1>7

\* The steps of a sender that reach no receiver and miss none.
LEMMA SendStutters ==
  ASSUME View, View', NumbersKept, NEW t \in Senders,
         \/ MsgBegin(t) \/ SendEnter(t) \/ SendTest(t) \/ SendUndo(t) \/ SendToNobody(t)
         \/ SendGetChain(t) \/ SendNoChain(t) \/ SendExit(t) \/ SendRelease(t) \/ SendDrop(t)
         \/ SendTry(t) /\ send'[t].pending = send[t].pending /\ send'[t].msg = send[t].msg
  PROVE  UNCHANGED Service!vars
<1>0. SenderInv(t) /\ send \in [Senders -> SendLocals] /\ (MsgBegin(t) \/ SendStep(t))
  BY DEF View, BusInv, HazardInv, BusTypes, SendStep
<1>1. UNCHANGED <<queue, next_id>>
  BY SMTT(90) DEF MsgBegin, SendEnter, SendTest, SendUndo, SendToNobody, SendGetChain, SendNoChain,
         SendExit, SendRelease, SendDrop, SendTry, rcvs, sent
<1>2. /\ send'[t].pending = send[t].pending
      /\ send[t].pending = <<>> \/ send'[t].msg = send[t].msg
  <2>1. CASE SendEnter(t) \/ SendTest(t) \/ SendUndo(t) \/ SendNoChain(t) \/ SendExit(t)
    BY <2>1 DEF SendEnter, SendTest, SendUndo, SendNoChain, SendExit
  <2>2. CASE SendGetChain(t)
    <3>1. \E c : send' = [send EXCEPT ![t].chain = c]
      BY <2>2 DEF SendGetChain
    <3>2. QED
      BY <1>0, <3>1 DEF SendLocals
  <2>3. CASE SendRelease(t)
    BY <1>0, <2>3 DEF SendLocals, SendRelease
  <2>4. CASE MsgBegin(t)
    <3>1. pc[t] = "idle" /\ \E f : send' = [send EXCEPT ![t].msg = f]
      BY <2>4 DEF MsgBegin, Step
    <3>2. send[t].pending = <<>>
      BY <1>0, <3>1 DEF SenderInv, Pends, DispatchInside, DispatchOutside
    <3>3. QED
      BY <1>0, <3>1, <3>2 DEF SendLocals
  <2>5. CASE SendToNobody(t) \/ SendDrop(t)
    <3>1. pc[t] \in {"send_collect", "send_drop"} /\ send' = [send EXCEPT ![t] = IdleSend]
      BY <2>5 DEF SendToNobody, SendDrop, Step
    <3>2. send[t].pending = <<>>
      BY <1>0, <3>1 DEF SenderInv, Pends, DispatchInside, DispatchOutside
    <3>3. QED
      BY <1>0, <3>1, <3>2 DEF IdleSend
  <2>6. QED
    BY <2>1, <2>2, <2>3, <2>4, <2>5
<1>3. \A u \in Senders : Reaching(u)' = Reaching(u)
  BY <1>0, <1>2, ReachingKept, SendLeaves
<1>4. \A r \in Receivers : Boxed(r)' = Boxed(r)
  BY <1>0, <1>1, SendLeaves DEF Boxed
<1>5. \A r \in Receivers : Box(r)' = Box(r)
  BY <1>4, BoxKept
<1>6. QED
  BY <1>0, <1>1, <1>3, <1>5, SendLeaves, Stutters

\* collect_receivers: the sender has to reach receivers that are connected.
LEMMA CollectSends ==
  ASSUME View, View', NumbersKept, NEW t \in Senders, SendCollect(t)
  PROVE  Service!Send(t)
<1>0. /\ SenderInv(t) /\ send \in [Senders -> SendLocals] /\ BusTypes /\ SendStep(t)
      /\ msg_data \in [Frags -> [id : Nat, ref_count : Int]]
  BY DEF View, BusInv, HazardInv, BusTypes, SendStep, FragInv, FragTypes
<1>1. PICK f : f = send[t].msg
  OBVIOUS
<1>2. /\ pc[t] = "send_collect" /\ next_id' = next_id + 1 /\ queue' = queue
      /\ msg_data' = [msg_data EXCEPT ![f] = [id |-> next_id, ref_count |-> 1]]
  BY <1>1 DEF SendCollect, Step, rcvs
<1>3. send[t].pending = <<>> /\ f \in Frags
  BY <1>0, <1>1, <1>2 DEF SenderInv, Pends, DispatchInside, DispatchOutside, SendLocals
<1>4. PICK p \in Seq(Receivers) :
        send' = [send EXCEPT ![t].pending = p] /\ Range(p) \subseteq Range(receivers)
  BY <1>0, Collected
<1>5. send'[t].pending = p /\ send'[t].msg = f /\ msg_data'[f].id = next_id
  BY <1>0, <1>1, <1>2, <1>3, <1>4 DEF SendLocals
<1>6. Reaching(t) = {}
  BY <1>3, EmptyList DEF Reaching
<1>7. Reaching(t)' = {next_id} \X Range(p)
  BY <1>5 DEF Reaching
<1>8. Range(p) \in SUBSET Connected
  BY <1>4 DEF Connected
<1>9. reaching[t] = {} /\ reaching' = [reaching EXCEPT ![t] = {next_id} \X Range(p)]
  BY <1>0, <1>6, <1>7, SendLeaves DEF reaching
<1>10. \A r \in Receivers : Boxed(r)' = Boxed(r)
  BY <1>0, <1>2, SendLeaves DEF Boxed
<1>11. box' = box
  BY <1>10, BoxKept DEF box
<1>12. Connected' = Connected /\ leaving' = leaving
  BY <1>0, SendLeaves
<1>13. QED
  BY <1>2, <1>8, <1>9, <1>11, <1>12, Mapping DEF Service!Send

\* A receiver that is dropped from the pending list is one that was to be reached.
LEMMA DroppedPair ==
  ASSUME View, View', NumbersKept, NEW t \in Senders, MsgBegin(t) \/ SendStep(t), msg_data' = msg_data,
         pc[t] \in Pends, NEW c \in Chains \cup {NoChain}, Dropped(t, c),
         NEW r, r = send[t].pending[send[t].i], NEW p, p = <<msg_data[send[t].msg].id, r>>
  PROVE  /\ r \in Receivers /\ r \in Range(receivers)
         /\ p \in reaching[t] /\ p[1] = msg_data[send[t].msg].id /\ p[2] = r
         /\ reaching' = [reaching EXCEPT ![t] = @ \ {p}]
<1>0. SenderInv(t) /\ send \in [Senders -> SendLocals] /\ BusTypes /\ Range(receivers) \subseteq Receivers
  BY MembersOf DEF View, BusInv, HazardInv, BusTypes
<1>1. send[t].pending # <<>> /\ send[t].pending \in Seq(Receivers) /\ send[t].i \in 1 .. Len(send[t].pending)
  BY <1>0 DEF SenderInv, SendLocals
<1>2. r \in Range(send[t].pending) /\ r \in Range(receivers)
  BY <1>0, <1>1, MembersOf DEF SenderInv
<1>3. PICK rest : rest = RemoveAt(send[t].pending, send[t].i)
  OBVIOUS
<1>4. /\ Range(rest) = Range(send[t].pending) \ {r}
      /\ send'[t].pending = rest /\ send'[t].msg = send[t].msg
  BY <1>0, <1>1, <1>3, DroppedLocals
<1>5. Reaching(t)' = Reaching(t) \ {p} /\ p \in Reaching(t)
  BY <1>2, <1>4 DEF Reaching
<1>6. reaching' = [reaching EXCEPT ![t] = @ \ {p}] /\ p \in reaching[t]
  BY <1>5, SendLeaves DEF reaching
<1>7. QED
  BY <1>0, <1>2, <1>6

\* A receiver that is being disconnected is missed.
LEMMA TryMisses ==
  ASSUME View, View', LeavingInv, NumbersKept, NEW t \in Senders,
         SendTry(t) \/ SendClear(t)
  PROVE  \/ UNCHANGED Service!vars
         \/ \E p \in reaching[t] : Service!Miss(t, p)
<1>0. /\ SenderInv(t) /\ send \in [Senders -> SendLocals] /\ BusTypes
      /\ (MsgBegin(t) \/ SendStep(t)) /\ pc[t] \in Pends
      /\ send[t].chain \in Chains \cup {NoChain} /\ UNCHANGED <<queue, msg_data, next_id>>
  BY Zenon DEF View, BusInv, HazardInv, BusTypes, SendStep, SendTry, SendClear, Pends, SendLocals,
         memory, sent
<1>1. PICK r, p : r = send[t].pending[send[t].i] /\ p = <<msg_data[send[t].msg].id, r>>
  OBVIOUS
<1>2. ASSUME "destroyed" \in hazard[r], Dropped(t, send[t].chain)
      PROVE  p \in reaching[t] /\ Service!Miss(t, p)
  <2>1. /\ r \in Range(receivers) /\ p \in reaching[t] /\ p[2] = r
        /\ reaching' = [reaching EXCEPT ![t] = @ \ {p}]
    BY <1>0, <1>1, <1>2, DroppedPair
  <2>2. p[2] \in leaving
    BY <1>2, <2>1 DEF leaving, Connected
  <2>3. \A x \in Receivers : Boxed(x)' = Boxed(x)
    BY <1>0, SendLeaves DEF Boxed
  <2>4. box' = box
    BY <2>3, BoxKept DEF box
  <2>5. Connected' = Connected /\ leaving' = leaving
    BY <1>0, SendLeaves
  <2>6. QED
    BY <1>0, <2>1, <2>2, <2>4, <2>5, Mapping DEF Service!Miss
<1>3. CASE SendClear(t)
  <2>1. pc[t] = "send_clear" /\ Dropped(t, send[t].chain)
    BY <1>3 DEF SendClear
  <2>2. "destroyed" \in hazard[r]
    BY <1>1, <2>1 DEF LeavingInv
  <2>3. QED
    BY <1>2, <2>1, <2>2
<1>4. CASE SendTry(t)
  <2>1. \/ send' = send
        \/ "destroyed" \in hazard[r] /\ Dropped(t, send[t].chain)
        \/ \E i : send' = [send EXCEPT ![t].i = i]
    <3>1. \/ send' = send
          \/ "destroyed" \in hazard[r] /\ Dropped(t, send[t].chain)
          \/ send' = [send EXCEPT ![t].i = Wrap(@ + 1, Len(send[t].pending))]
      BY <1>1, <1>4, Zenon DEF SendTry
    <3>2. QED
      BY <3>1
  <2>2. CASE "destroyed" \in hazard[r] /\ Dropped(t, send[t].chain)
    BY <1>2, <2>2
  <2>3. CASE send' = send \/ \E i : send' = [send EXCEPT ![t].i = i]
    <3>1. send'[t].pending = send[t].pending /\ send'[t].msg = send[t].msg
      BY <1>0, <2>3 DEF SendLocals
    <3>2. QED
      BY <1>4, <3>1, SendStutters
  <2>4. QED
    BY <2>1, <2>2, <2>3
<1>5. QED
  BY <1>3, <1>4

\* The message is appended to the receiver's queue.
LEMMA EnqueueReaches ==
  ASSUME View, View', NumbersKept, NEW t \in Senders, SendEnqueue(t)
  PROVE  \E p \in reaching[t] : Service!Reach(t, p)
<1>0. /\ SenderInv(t) /\ send \in [Senders -> SendLocals] /\ BusTypes
      /\ (MsgBegin(t) \/ SendStep(t)) /\ pc[t] \in Pends /\ pc[t] \in HasChain
      /\ UNCHANGED <<chain_msg, msg_data, next_id>> /\ Dropped(t, NoChain)
      /\ queue \in [Receivers -> Seq(Chains)] /\ SenderFrag(t)
  BY DEF View, BusInv, HazardInv, BusTypes, SendStep, SendEnqueue, Pends, SendLocals,
         memory, sent, HasChain, ChainLeft, FragInv
<1>1. PICK r, p, c : /\ r = send[t].pending[send[t].i] /\ p = <<msg_data[send[t].msg].id, r>>
                     /\ c = send[t].chain
  OBVIOUS
<1>2. c \in Chains /\ chain_msg[c] = send[t].msg
  BY <1>0, <1>1 DEF SenderInv, SendLocals, SenderFrag
<1>3. /\ r \in Receivers /\ p \in reaching[t] /\ p[1] = msg_data[send[t].msg].id /\ p[2] = r
      /\ reaching' = [reaching EXCEPT ![t] = @ \ {p}]
  BY <1>0, <1>1, DroppedPair
<1>4. queue' = [queue EXCEPT ![r] = Append(queue[r], c)]
  BY <1>1 DEF SendEnqueue, Enqueued
<1>5. Boxed(r)' = Append(Boxed(r), c)
  <2>1. InHand(r) \in Seq(Chains) /\ queue[r] \in Seq(Chains)
    BY <1>3 DEF View, BoxFacts
  <2>2. InHand(r) \o Append(queue[r], c) = Append(InHand(r) \o queue[r], c)
    BY <1>2, <2>1, JoinedOf
  <2>3. queue'[r] = Append(queue[r], c) /\ InHand(r)' = InHand(r)
    BY <1>0, <1>3, <1>4, SendLeaves
  <2>4. QED
    BY <2>2, <2>3 DEF Boxed
<1>6. Box(r)' = Append(Box(r), p[1])
  <2>1. Id(c)' = p[1]
    BY <1>0, <1>2, <1>3 DEF Id
  <2>2. QED
    BY <1>2, <1>3, <1>5, <2>1, BoxAppended
<1>7. ASSUME NEW x \in Receivers, x # r PROVE Box(x)' = Box(x)
  <2>1. queue'[x] = queue[x] /\ InHand(x)' = InHand(x)
    BY <1>0, <1>4, <1>7, SendLeaves
  <2>2. Boxed(x)' = Boxed(x)
    BY <2>1 DEF Boxed
  <2>3. QED
    BY <2>2, BoxKept
<1>8. box' = [box EXCEPT ![p[2]] = Append(@, p[1])]
  BY <1>3, <1>6, <1>7 DEF box
<1>9. Connected' = Connected /\ leaving' = leaving
  BY <1>0, SendLeaves
<1>10. Service!Reach(t, p)
  BY <1>0, <1>3, <1>8, <1>9, Mapping DEF Service!Reach
<1>11. QED
  BY <1>3, <1>10

\* Nobody delivers to a receiver whose dispatch bit is clear.
LEMMA NothingInHand ==
  ASSUME View, NEW r \in Receivers, "dispatch" \notin hazard[r]
  PROVE  InHand(r) = <<>> /\ Boxed(r) = queue[r]
<1>1. ASSUME NEW t \in Readers PROVE ~Hands(t, r)
  <2>1. Hands(t, r) => Latched(t) /\ disp[t].rcv = r
    BY DEF Hands, Latched, Delivers
  <2>2. ReaderInv(t)
    BY DEF View, BusInv, HazardInv
  <2>3. QED
    BY <2>1, <2>2 DEF ReaderInv
<1>2. InHand(r) = <<>> /\ queue[r] \in Seq(Chains)
  BY <1>1 DEF View, BoxFacts
<1>3. <<>> \o queue[r] = queue[r]
  BY <1>2, JoinedOf
<1>4. QED
  BY <1>2, <1>3 DEF Boxed

\* What the connecting thread leaves as it is.
LEMMA CdcLeaves ==
  ASSUME View, View', NumbersKept, CdcNext
  PROVE  /\ next_id' = next_id /\ reaching' = reaching /\ \E l \in CdcPlaces : pc'[Cdc] = l
         /\ \A r \in Receivers : InHand(r)' = InHand(r)
         /\ \A r \in Receivers : queue'[r] = queue[r] => Box(r)' = Box(r)
<1>0. /\ Cdc \in Threads /\ Cdc \notin Readers /\ Readers \subseteq Threads
      /\ pc \in [Threads -> Labels] /\ disp \in [Threads -> DispatchLocals]
  BY ThreadFacts DEF View, BusInv, ExclusionInv, HazardInv, BusTypes
<1>1. send' = send /\ next_id' = next_id /\ \E l \in CdcPlaces : Goto(Cdc, l)
  BY DEF CdcNext, CdcStep, CdcStore, CdcWait, CdcModify, CdcExitConnect, CdcExitDisconnect,
         CdcQuiesce, Connect, Disconnect, Step, CdcPlaces, sent
<1>2. \A u \in Threads : u # Cdc => pc'[u] = pc[u]
  BY <1>0, <1>1 DEF Goto
<1>3. \A u \in Threads : u # Cdc => disp'[u] = disp[u]
  BY <1>0 DEF CdcNext, CdcStep, CdcStore, CdcWait, CdcModify, CdcExitConnect, CdcExitDisconnect,
         CdcQuiesce, Connect, Disconnect
<1>4. \A r \in Receivers : InHand(r)' = InHand(r)
  BY <1>0, <1>2, <1>3, OneHandMoves
<1>5. \A r \in Receivers : queue'[r] = queue[r] => Boxed(r)' = Boxed(r)
  BY <1>4 DEF Boxed
<1>6. \A r \in Receivers : queue'[r] = queue[r] => Box(r)' = Box(r)
  BY <1>5, BoxKept
<1>7. reaching' = reaching
  BY <1>1, SendersKeep DEF reaching
<1>8. \E l \in CdcPlaces : pc'[Cdc] = l
  BY <1>0, <1>1 DEF Goto
<1>9. QED
  BY <1>1, <1>4, <1>6, <1>7, <1>8

\* The steps of a connect and of a disconnect that change nothing the service knows.
LEMMA CdcStutters ==
  ASSUME View, View', LeavingInv, NumbersKept, CdcNext,
         \/ \E r \in Receivers : Connect(r)
         \/ CdcStore \/ CdcWait \/ CdcExitConnect \/ CdcExitDisconnect
         \/ CdcModify /\ disp[Cdc].rcv \in Range(receivers)
  PROVE  UNCHANGED Service!vars
<1>0. /\ Cdc \in Threads /\ CdcInv /\ BusTypes /\ ChainInv /\ HazardInv
      /\ pc \in [Threads -> Labels] /\ disp \in [Threads -> DispatchLocals]
      /\ queue \in [Receivers -> Seq(Chains)] /\ hazard \in [Receivers -> SUBSET Bits]
      /\ receivers \in Seq(Receivers) /\ IsInjective(receivers) /\ Range(receivers) \subseteq Receivers
  BY ThreadFacts, MembersOf DEF View, BusInv, ExclusionInv, HazardInv, BusTypes
<1>1. ASSUME \A r \in Receivers : queue'[r] = queue[r], Connected' = Connected, leaving' = leaving
      PROVE  UNCHANGED Service!vars
  <2>1. box' = box
    BY <1>1, CdcLeaves DEF box
  <2>2. QED
    BY <1>1, <2>1, CdcLeaves, Mapping DEF Service!vars
<1>2. ASSUME NEW r \in Receivers, Connect(r) PROVE UNCHANGED Service!vars
  <2>1. /\ pc[Cdc] = "idle" /\ Goto(Cdc, "store") /\ r \notin Range(receivers) /\ receivers' = receivers
        /\ hazard' = [hazard EXCEPT ![r] = {}] /\ queue' = [queue EXCEPT ![r] = <<>>]
    BY <1>2 DEF Connect, Step, bus, table, slots
  <2>2. pc'[Cdc] = "store" /\ disp[Cdc].rcv = 0
    BY <1>0, <2>1 DEF Goto, CdcInv
  <2>3. r \notin Registered
    BY <2>1, <2>2, ReceiversAssumption DEF Registered
  <2>4. queue[r] = <<>>
    BY <1>0, <2>3 DEF ChainInv
  <2>5. \A x \in Receivers : queue'[x] = queue[x]
    BY <1>0, <2>1, <2>4
  <2>6. Connected = Range(receivers) /\ Connected' = Range(receivers)
    BY <2>1, <2>2 DEF Connected
  <2>7. \A x \in Range(receivers) : hazard'[x] = hazard[x]
    BY <1>0, <2>1
  <2>8. leaving' = leaving
    BY <2>6, <2>7 DEF leaving
  <2>9. QED
    BY <1>1, <2>5, <2>6, <2>8
<1>3. CASE CdcStore \/ CdcWait \/ CdcExitConnect \/ CdcExitDisconnect
  <2>1. UNCHANGED <<queue, hazard, receivers>>
    BY <1>3 DEF CdcStore, CdcWait, CdcExitConnect, CdcExitDisconnect, rcvs, bus, table, slots
  <2>2. \/ {pc[Cdc], pc'[Cdc]} \cap {"exit_disconnect", "quiesce"} = {}
        \/ {pc[Cdc], pc'[Cdc]} \subseteq {"exit_disconnect", "quiesce"} /\ disp'[Cdc].rcv = disp[Cdc].rcv
    BY <1>0, <1>3 DEF CdcStore, CdcWait, CdcExitConnect, CdcExitDisconnect, Step, Goto
  <2>3. Connected' = Connected
    BY <2>1, <2>2 DEF Connected
  <2>4. leaving' = leaving
    BY <2>1, <2>3 DEF leaving
  <2>5. QED
    BY <1>1, <2>1, <2>3, <2>4
<1>4. CASE CdcModify /\ disp[Cdc].rcv \in Range(receivers)
  <2>1. PICK x \in Receivers : x = disp[Cdc].rcv
    BY <1>0, <1>4
  <2>2. /\ UNCHANGED <<queue, hazard, disp>> /\ pc[Cdc] = "modify" /\ receivers' = Removed(x)
        /\ Goto(Cdc, "exit_disconnect")
    BY <1>4, <2>1 DEF CdcModify, rcvs
  <2>3. pc'[Cdc] = "exit_disconnect"
    BY <1>0, <2>2 DEF Goto
  <2>4. Range(receivers') = Range(receivers) \ {x}
    BY <1>0, <1>4, <2>1, <2>2, TableChanges
  <2>5. Connected' = Connected
    BY <1>4, <2>1, <2>2, <2>3, <2>4 DEF Connected
  <2>6. leaving' = leaving
    BY <2>2, <2>5 DEF leaving
  <2>7. QED
    BY <1>1, <2>2, <2>5, <2>6
<1>5. QED
  BY <1>2, <1>3, <1>4

\* The table has one receiver more.
LEMMA ModifyConnects ==
  ASSUME View, View', LeavingInv, NumbersKept, CdcModify, disp[Cdc].rcv \notin Range(receivers)
  PROVE  \E r \in Receivers : Service!Connect(r)
<1>0. /\ Cdc \in Threads /\ CdcNext /\ HazardInv
      /\ pc \in [Threads -> Labels] /\ disp \in [Threads -> DispatchLocals]
      /\ receivers \in Seq(Receivers) /\ IsInjective(receivers)
  BY ThreadFacts DEF View, BusInv, ExclusionInv, HazardInv, BusTypes, CdcNext, CdcStep
<1>1. pc[Cdc] = "modify" /\ Closing
  BY DEF CdcModify, Closing
<1>2. PICK x \in Receivers : x = disp[Cdc].rcv
  BY <1>0, <1>1, ClosingReceiver
<1>3. /\ UNCHANGED <<queue, hazard, disp>> /\ receivers' = Inserted(x) /\ Goto(Cdc, "exit_connect")
  BY <1>2 DEF CdcModify, rcvs
<1>4. pc'[Cdc] = "exit_connect"
  BY <1>0, <1>3 DEF Goto
<1>5. Range(receivers') = Range(receivers) \cup {x}
  BY <1>0, <1>2, <1>3, TableChanges
<1>6. hazard[x] = {} /\ queue[x] = <<>>
  BY <1>1, <1>2 DEF LeavingInv
<1>7. Connected = Range(receivers) /\ Connected' = Connected \cup {x} /\ x \notin Connected
  BY <1>1, <1>2, <1>4, <1>5 DEF Connected
<1>8. leaving' = leaving
  BY <1>3, <1>6, <1>7 DEF leaving
<1>9. box[x] = <<>>
  <2>1. Boxed(x) = <<>>
    BY <1>6, NothingInHand
  <2>2. Len(Boxed(x)) = 0
    BY <2>1
  <2>3. Box(x) \in Seq(Nat) /\ Len(Box(x)) = 0
    BY <2>2 DEF View, BoxIds
  <2>4. Box(x) = <<>>
    BY <2>3, EmptySeq
  <2>5. QED
    BY <2>4 DEF box
<1>10. box' = box
  BY <1>0, <1>3, CdcLeaves DEF box
<1>11. next_id' = next_id /\ reaching' = reaching
  BY <1>0, CdcLeaves
<1>12. QED
  BY <1>2, <1>7, <1>8, <1>9, <1>10, <1>11, Mapping DEF Service!Connect

\* The receiver is marked.
LEMMA DisconnectLeaves ==
  ASSUME View, View', LeavingInv, NumbersKept, NEW r \in Receivers, Disconnect(r)
  PROVE  Service!DisconnectBegins(r)
<1>0. /\ Cdc \in Threads /\ CdcNext /\ pc \in [Threads -> Labels]
      /\ hazard \in [Receivers -> SUBSET Bits]
      /\ Range(receivers) \subseteq Receivers
  BY ThreadFacts, MembersOf DEF View, BusInv, ExclusionInv, HazardInv, BusTypes, CdcNext
<1>1. /\ pc[Cdc] = "idle" /\ Goto(Cdc, "store") /\ r \in Range(receivers) /\ receivers' = receivers
      /\ hazard' = [hazard EXCEPT ![r] = hazard[r] \cup {"destroyed"}] /\ queue' = queue
  BY DEF Disconnect, Step, bus, table, slots
<1>2. pc'[Cdc] = "store"
  BY <1>0, <1>1 DEF Goto
<1>3. Connected = Range(receivers) /\ Connected' = Range(receivers)
  BY <1>1, <1>2 DEF Connected
<1>4. \A x \in Range(receivers) : "destroyed" \notin hazard[x]
  BY <1>1 DEF LeavingInv, Closing
<1>5. \A x \in Range(receivers) : "destroyed" \in hazard'[x] <=> x = r
  BY <1>0, <1>1, <1>4
<1>6. leaving = {} /\ leaving' = {r}
  BY <1>1, <1>3, <1>4, <1>5 DEF leaving
<1>7. box' = box
  BY <1>0, <1>1, CdcLeaves DEF box
<1>8. next_id' = next_id /\ reaching' = reaching
  BY <1>0, CdcLeaves
<1>9. QED
  BY <1>1, <1>3, <1>6, <1>7, <1>8, Mapping DEF Service!DisconnectBegins

\* Nobody uses the receiver, and nobody sends to it: it goes with what is in its queue.
LEMMA QuiesceForgets ==
  ASSUME View, View', LeavingInv, NumbersKept, CdcQuiesce
  PROVE  \E r \in Receivers : Service!DisconnectEnds(r)
<1>0. /\ Cdc \in Threads /\ CdcNext /\ HazardInv /\ CdcInv /\ pc \in [Threads -> Labels]
      /\ queue \in [Receivers -> Seq(Chains)]
      /\ Range(receivers) \subseteq Receivers
  BY ThreadFacts, MembersOf DEF View, BusInv, ExclusionInv, HazardInv, BusTypes, CdcNext, CdcStep
<1>1. PICK x : x = disp[Cdc].rcv
  OBVIOUS
<1>2. /\ pc[Cdc] = "quiesce" /\ hazard[x] = {"destroyed"} /\ UNCHANGED <<hazard, receivers>>
      /\ queue' = [queue EXCEPT ![x] = <<>>] /\ \E l \in {"idle", "release"} : Goto(Cdc, l)
  BY <1>1 DEF CdcQuiesce, Quiesced, bus, table, slots
<1>3. x \in Receivers /\ x \notin Range(receivers) /\ pc'[Cdc] \in {"idle", "release"}
  BY <1>0, <1>1, <1>2, ClosingReceiver DEF Goto, CdcInv
<1>4. Connected = Range(receivers) \cup {x} /\ Connected' = Range(receivers)
  BY <1>1, <1>2, <1>3 DEF Connected
<1>5. \A y \in Range(receivers) : "destroyed" \notin hazard[y]
  BY <1>2 DEF LeavingInv, Closing
<1>6. leaving = {x} /\ leaving' = {}
  BY <1>2, <1>4, <1>5 DEF leaving
<1>7. ASSUME NEW s \in Senders, NEW p \in reaching[s] PROVE p[2] # x
  <2>1. PICK r \in Range(send[s].pending) : p[2] = r
    BY <1>7 DEF reaching, Reaching
  <2>2. Range(send[s].pending) \subseteq Range(receivers)
    BY <1>0 DEF HazardInv, SenderInv
  <2>3. QED
    BY <1>3, <2>1, <2>2
<1>8. Box(x)' = <<>>
  <2>1. InHand(x)' = <<>>
    BY <1>0, <1>2, <1>3, NothingInHand, CdcLeaves
  <2>2. queue'[x] = <<>> /\ <<>> \o <<>> = <<>>
    BY <1>0, <1>2, <1>3
  <2>3. Boxed(x)' = <<>>
    BY <2>1, <2>2 DEF Boxed
  <2>4. Len(Boxed(x)') = 0
    BY <2>3
  <2>5. Box(x)' \in Seq(Nat) /\ Len(Box(x)') = 0
    BY <1>3, <2>4 DEF View, BoxIds
  <2>6. QED
    BY <2>5, EmptySeq
<1>9. \A r \in Receivers : r # x => Box(r)' = Box(r)
  BY <1>0, <1>2, CdcLeaves
<1>10. box' = [box EXCEPT ![x] = <<>>]
  BY <1>8, <1>9 DEF box
<1>11. next_id' = next_id /\ reaching' = reaching
  BY <1>0, CdcLeaves
<1>12. x \in leaving /\ leaving' = leaving \ {x} /\ Connected' = Connected \ {x}
  BY <1>3, <1>4, <1>6
<1>13. QED
  BY <1>3, <1>7, <1>10, <1>11, <1>12, Mapping DEF Service!DisconnectEnds

\* A step of the bus is a step of the service.
LEMMA BusSteps ==
  ASSUME View, View', LeavingInv, [Next]_vars
  PROVE  [Service!Next]_Service!vars
<1>0. NumbersKept /\ HazardInv /\ Senders \subseteq Readers
  BY StepsKeepNumbers, ThreadFacts DEF View, BusInv
<1>1. ASSUME NEW t \in Readers, DispatchBegin(t) \/ DispatchStep(t)
      PROVE  [Service!Next]_Service!vars
  <2>1. CASE DispatchDeliver(t)
    BY <1>0, <2>1, DeliverDelivers DEF Service!Next, Service!ReceiverStep
  <2>2. CASE ~DispatchDeliver(t)
    BY <1>0, <1>1, <2>2, DispatchStutters
  <2>3. QED
    BY <2>1, <2>2
<1>2. ASSUME NEW t \in Threads, ReleaseStep(t) PROVE [Service!Next]_Service!vars
  BY <1>0, <1>2, ReleaseStutters
<1>3. ASSUME NEW t \in Senders, MsgBegin(t) \/ SendStep(t) PROVE [Service!Next]_Service!vars
  <2>1. CASE SendCollect(t)
    BY <1>0, <2>1, CollectSends DEF Service!Next, Service!SenderStep
  <2>2. CASE SendTry(t) \/ SendClear(t)
    <3>1. UNCHANGED Service!vars \/ \E p \in reaching[t] : Service!Miss(t, p)
      BY <1>0, <2>2, TryMisses
    <3>2. QED
      BY <3>1, Mapping DEF Service!Next, Service!SenderStep
  <2>3. CASE SendEnqueue(t)
    <3>1. \E p \in reaching[t] : Service!Reach(t, p)
      BY <1>0, <2>3, EnqueueReaches
    <3>2. QED
      BY <3>1, Mapping DEF Service!Next, Service!SenderStep
  <2>4. CASE \/ MsgBegin(t) \/ SendEnter(t) \/ SendTest(t) \/ SendUndo(t) \/ SendToNobody(t)
             \/ SendGetChain(t) \/ SendNoChain(t) \/ SendExit(t) \/ SendRelease(t) \/ SendDrop(t)
    BY <1>0, <2>4, SendStutters
  <2>5. QED
    BY <1>3, <2>1, <2>2, <2>3, <2>4 DEF SendStep
<1>4. CASE CdcNext
  <2>1. ASSUME NEW r \in Receivers, Connect(r) PROVE [Service!Next]_Service!vars
    BY <1>0, <1>4, <2>1, CdcStutters
  <2>2. ASSUME NEW r \in Receivers, Disconnect(r) PROVE [Service!Next]_Service!vars
    BY <1>0, <2>2, DisconnectLeaves DEF Service!Next, Service!ReceiverStep
  <2>3. CASE CdcStore \/ CdcWait \/ CdcExitConnect \/ CdcExitDisconnect
    BY <1>0, <1>4, <2>3, CdcStutters
  <2>4. CASE CdcModify
    <3>1. CASE disp[Cdc].rcv \in Range(receivers)
      BY <1>0, <1>4, <2>4, <3>1, CdcStutters
    <3>2. CASE disp[Cdc].rcv \notin Range(receivers)
      BY <1>0, <2>4, <3>2, ModifyConnects DEF Service!Next, Service!ReceiverStep
    <3>3. QED
      BY <3>1, <3>2
  <2>5. CASE CdcQuiesce
    BY <1>0, <2>5, QuiesceForgets DEF Service!Next, Service!ReceiverStep
  <2>6. QED
    BY <1>4, <2>1, <2>2, <2>3, <2>4, <2>5 DEF CdcNext, CdcStep
<1>5. CASE UNCHANGED vars
  <2>1. /\ UNCHANGED <<next_id, receivers, hazard, queue, chain_msg, msg_data, pc, disp, send>>
    BY <1>5 DEF vars, bus, table, slots, rcvs, memory, sent
  <2>2. Connected' = Connected /\ leaving' = leaving
    BY <2>1 DEF Connected, leaving
  <2>3. \A t \in Senders : Reaching(t)' = Reaching(t)
    BY <2>1 DEF Reaching
  <2>4. ASSUME NEW r \in Receivers PROVE Box(r)' = Box(r)
    <3>1. ASSUME NEW t \in Readers PROVE /\ Hands(t, r)' <=> Hands(t, r)
                                         /\ Undelivered(t)' = Undelivered(t)
      BY <2>1 DEF Hands, Undelivered
    <3>2. InHand(r)' = InHand(r)
      BY <3>1, InHandKept
    <3>3. Boxed(r)' = Boxed(r)
      BY <2>1, <3>2 DEF Boxed
    <3>4. QED
      BY <1>0, <3>3, BoxKept
  <2>5. QED
    BY <2>1, <2>2, <2>3, <2>4, Stutters
<1>6. QED
  BY <1>1, <1>2, <1>3, <1>4, <1>5 DEF Next, ReaderNext

\* Before anything is connected or sent.
LEMMA ServiceInit == Init => Service!Init
<1> SUFFICES ASSUME Init PROVE Service!Init
  OBVIOUS
<1>1. /\ next_id = 1 /\ receivers = <<>> /\ Range(receivers) = {} /\ pc[Cdc] = "idle"
      /\ queue = [r \in Receivers |-> <<>>]
      /\ \A t \in Senders : send[t].pending = <<>>
      /\ \A t \in Readers : disp[t].msgs = <<>>
  BY EmptyList, ThreadFacts DEF Init, IdleSend, IdleDispatch
<1>2. Connected = {} /\ leaving = {}
  BY <1>1 DEF Connected, leaving
<1>3. reaching = [s \in Senders |-> {}]
  BY <1>1, EmptyList DEF reaching, Reaching
<1>4. ASSUME NEW r \in Receivers PROVE Box(r) = <<>>
  <2>1. {t \in Readers : disp[t].rcv = r /\ disp[t].msgs # <<>>} = {}
    BY <1>1
  <2>2. InHand(r) = <<>>
    BY <2>1 DEF InHand
  <2>3. InHand(r) \o queue[r] = <<>>
    BY <1>1, <2>2
  <2>4. QED
    BY <2>3 DEF Box
<1>5. box = [r \in Receivers |-> <<>>]
  BY <1>4 DEF box
<1>6. QED
  BY <1>1, <1>2, <1>3, <1>5, Mapping DEF Service!Init

(***************************************************************************)
(* The bus implements BusService: with any number of senders, dispatchers  *)
(* and receivers, whatever the order of the atomic operations, a message   *)
(* reaches each of its receivers once or misses one that is being          *)
(* disconnected, the queue of a receiver is delivered in the order in      *)
(* which it was filled, and only the end of a disconnect drops it.         *)
(***************************************************************************)
THEOREM BusImplemented == Spec => ImplementsBusService
<1>1. LeavingInv /\ BusInv /\ BusInv' /\ [Next]_vars => LeavingInv'
  <2> SUFFICES ASSUME LeavingInv, BusInv, BusInv', [Next]_vars PROVE LeavingInv'
    OBVIOUS
  <2>1. HazardInv /\ HazardInv' /\ ExclusionInv /\ ChainInv
    BY DEF BusInv
  <2>2. CASE ReaderNext
    BY <2>1, <2>2, ReadersKeepLeaving DEF ReaderNext
  <2>3. CASE CdcNext
    BY <2>1, <2>3, CdcKeepsLeaving
  <2>4. CASE UNCHANGED vars
    <3>1. UNCHANGED <<receivers, hazard, queue, pc, disp, send>>
      BY <2>4 DEF vars, bus, table, slots, rcvs
    <3>2. QED
      BY <3>1 DEF LeavingInv, Closing
  <2>5. QED
    BY <2>2, <2>3, <2>4 DEF Next
<1>2. BusInv => View
  BY BoxesAre, BoxIdsAre DEF View
<1>3. View /\ View' /\ LeavingInv /\ [Next]_vars => [Service!Next]_Service!vars
  BY BusSteps
<1>4. QED
  BY <1>1, <1>2, <1>3, LeavingInit, ServiceInit, BusInvariant, PTL
    DEF Spec, ImplementsBusService, Service!Spec

=============================================================================
