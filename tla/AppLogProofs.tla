---------------------------- MODULE AppLogProofs ----------------------------
(***************************************************************************)
(* Proofs about AppLog: long messages share one buffer and do not mix, and *)
(* the bus gets its buffers back, for any threads, calls and events.       *)
(***************************************************************************)
EXTENDS AppLog, ListLemmas

Spots == {"out", "report", "format", "claim", "slow", "bus", "begin", "write", "release", "send", "trapped"}

Texts == (Loggers \cup {Nobody}) \X Nat

\* Where a thread has a text, and where a buffer of the bus.
HasText(t) == pc[t] \in {"bus", "begin", "write", "release"}
HasBuffer(t) == pc[t] \in {"write", "release", "send"}

\* The thread whose text is, or will be, in the slow buffer.
LongHolder(t) == pc[t] = "slow" \/ (HasText(t) /\ IsLong(t))

\* Messages whose text is that of their call.
Whole == {m \in Entry : m.text = m.call}

ThreadTypes ==
  /\ {busSet, reporterSet, hazard} \subseteq BOOLEAN /\ slow \in Texts /\ route \subseteq Route
  /\ pc \in [Loggers -> Spots] /\ calls \in [Loggers -> 0 .. MaxCalls]
  /\ text \in [Loggers -> Texts] /\ message \in [Loggers -> Texts]

OthersTypes ==
  /\ events \in 0 .. MaxEvents /\ eventBatch \in 0 .. events /\ run \in BOOLEAN
  /\ dpc \in {"top", "deliver", "event", "exited"}
  /\ mpc \in {"up", "joined", "zeroed", "reset", "late", "stopping", "down"}

\* The workers are gone before the log is reinitialised, and only they and the
\* main thread log what needs the slow buffer.
PhaseInv ==
  /\ \A t \in Workers : pc[t] # "out" => mpc = "up"
  /\ \A t \in Loggers : (pc[t] = "claim" \/ LongHolder(t)) => t \in Workers \cup {Main}

\* One thread has the slow buffer, and whoever has a text has that of its call.
TextInv ==
  /\ \A t, u \in Loggers : LongHolder(t) /\ LongHolder(u) => t = u
  /\ \A t \in Loggers : LongHolder(t) => hazard
  /\ \A t \in Loggers : HasText(t) => TextOf(t) = Call(t)
  /\ \A t \in Loggers : pc[t] \in {"release", "send"} => message[t] = Call(t)

ListsInv ==
  /\ queue \in Seq(Whole) /\ batch \in Seq(Whole)
  /\ printed \in Seq(Whole) /\ sent \in Seq(Whole)
  /\ dpc # "deliver" => batch = <<>>

Holding == {t \in Loggers : HasBuffer(t)}

CountInv ==
  free \in Nat /\ free + (Cardinality(Holding) + (Len(queue) + Len(batch))) = Buffers

LogInv == ThreadTypes /\ OthersTypes /\ PhaseInv /\ TextInv /\ ListsInv /\ CountInv


-----------------------------------------------------------------------------
(* Threads. *)

\* Who the threads are.
LEMMA ThreadsAre ==
  /\ Workers \subseteq Loggers /\ LateThreads \subseteq Loggers
  /\ Main \in Loggers /\ Dispatcher \in Loggers /\ Main # Dispatcher /\ Nobody \notin Loggers
  /\ Main \notin Workers \cup LateThreads /\ Dispatcher \notin Workers \cup LateThreads
  /\ Workers \cap LateThreads = {} /\ IsFiniteSet(Loggers)
<1>1. Main # Dispatcher /\ Main # Nobody /\ Dispatcher # Nobody
  <2>1. ASSUME NEW x, NEW y PROVE Cardinality({x, y}) # 3
    <3>1. IsFiniteSet({y}) /\ Cardinality({y}) = 1
      BY FS_Singleton
    <3>2. IsFiniteSet({y} \cup {x}) /\ Cardinality({y} \cup {x}) \in {1, 2}
      BY <3>1, FS_AddElement
    <3>3. {x, y} = {y} \cup {x}
      OBVIOUS
    <3>4. QED
      BY <3>2, <3>3
  <2>2. /\ Main = Dispatcher => {Main, Dispatcher, Nobody} = {Main, Nobody}
        /\ Main = Nobody => {Main, Dispatcher, Nobody} = {Main, Dispatcher}
        /\ Dispatcher = Nobody => {Main, Dispatcher, Nobody} = {Main, Nobody}
    OBVIOUS
  <2>3. QED
    BY <2>1, <2>2, ThreadsAssumption
<1>2. IsFiniteSet(Loggers)
  <2>1. IsFiniteSet(Workers \cup LateThreads)
    BY ThreadsAssumption, FS_Union
  <2>2. IsFiniteSet((Workers \cup LateThreads) \cup {Main, Dispatcher})
    <3>1. IsFiniteSet((Workers \cup LateThreads) \cup {Main})
      BY <2>1, FS_AddElement
    <3>2. IsFiniteSet(((Workers \cup LateThreads) \cup {Main}) \cup {Dispatcher})
      BY <3>1, FS_AddElement
    <3>3. ((Workers \cup LateThreads) \cup {Main}) \cup {Dispatcher}
            = (Workers \cup LateThreads) \cup {Main, Dispatcher}
      OBVIOUS
    <3>4. QED
      BY <3>2, <3>3
  <2>3. QED
    BY <2>2 DEF Loggers
<1>3. QED
  BY <1>1, <1>2, ThreadsAssumption DEF Loggers

\* The text of a call is a text, and not none.
LEMMA CallsAre == ThreadTypes => \A t \in Loggers : Call(t) \in Texts /\ Call(t) # NoText /\ NoText \in Texts
<1> SUFFICES ASSUME ThreadTypes, NEW t \in Loggers
             PROVE  Call(t) \in Texts /\ Call(t) # NoText /\ NoText \in Texts
  OBVIOUS
<1>1. calls[t] \in Nat /\ t # Nobody
  BY ThreadsAre, BoundsAssumption DEF ThreadTypes
<1>2. QED
  BY <1>1 DEF Call, NoText, Texts

\* One thread goes on, the places of the others stay.
LEMMA OneMoves ==
  ASSUME LogInv, ThreadTypes', NEW t \in Loggers, mpc' = mpc,
         \A u \in Loggers \ {t} : /\ pc'[u] = pc[u] /\ text'[u] = text[u]
                                  /\ message'[u] = message[u] /\ calls'[u] = calls[u],
         t \in Workers /\ pc'[t] # "out" => mpc = "up",
         (pc'[t] = "claim" \/ LongHolder(t)') => t \in Workers \cup {Main},
         LongHolder(t)' => hazard' /\ (LongHolder(t) \/ ~hazard),
         hazard' \/ hazard' = hazard \/ LongHolder(t),
         slow' = slow \/ LongHolder(t),
         HasText(t)' => TextOf(t)' = Call(t)',
         pc'[t] \in {"release", "send"} => message'[t] = Call(t)'
  PROVE  PhaseInv' /\ TextInv'
<1>1. \A u \in Loggers \ {t} : /\ LongHolder(u)' <=> LongHolder(u)
                               /\ HasText(u)' <=> HasText(u)
                               /\ IsLong(u)' <=> IsLong(u)
                               /\ Call(u)' = Call(u)
  BY DEF LongHolder, HasText, IsLong, Call
<1>2. PhaseInv'
  <2>1. ASSUME NEW u \in Workers, pc'[u] # "out" PROVE mpc' = "up"
    BY <2>1, ThreadsAre DEF LogInv, PhaseInv
  <2>2. ASSUME NEW u \in Loggers, pc'[u] = "claim" \/ LongHolder(u)' PROVE u \in Workers \cup {Main}
    BY <1>1, <2>2 DEF LogInv, PhaseInv
  <2>3. QED
    BY <2>1, <2>2 DEF PhaseInv
<1>3. \A u, v \in Loggers : LongHolder(u)' /\ LongHolder(v)' => u = v
  BY <1>1 DEF LogInv, TextInv
<1>4. \A u \in Loggers : LongHolder(u)' => hazard'
  BY <1>1 DEF LogInv, TextInv
<1>5. ASSUME NEW u \in Loggers, HasText(u)' PROVE TextOf(u)' = Call(u)'
  <2>1. CASE u = t
    BY <1>5, <2>1
  <2>2. CASE u # t
    <3>1. HasText(u) /\ TextOf(u) = Call(u) /\ Call(u)' = Call(u) /\ text'[u] = text[u]
      BY <1>1, <1>5, <2>2 DEF LogInv, TextInv
    <3>2. IsLong(u) => slow' = slow
      BY <2>2, <3>1 DEF LogInv, TextInv, LongHolder
    <3>3. QED
      BY <3>1, <3>2 DEF TextOf, IsLong
  <2>3. QED
    BY <2>1, <2>2
<1>6. \A u \in Loggers : pc'[u] \in {"release", "send"} => message'[u] = Call(u)'
  BY <1>1 DEF LogInv, TextInv
<1>7. QED
  BY <1>2, <1>3, <1>4, <1>5, <1>6 DEF TextInv

\* A thread that moves takes a buffer of the bus, gives it away, or neither.
LEMMA HoldingMoves ==
  ASSUME ThreadTypes, ThreadTypes', NEW t \in Loggers, \A u \in Loggers \ {t} : pc'[u] = pc[u]
  PROVE  /\ Cardinality(Holding) \in Nat /\ Cardinality(Holding') \in Nat
         /\ HasBuffer(t)' /\ ~HasBuffer(t) => Cardinality(Holding') = Cardinality(Holding) + 1
         /\ ~HasBuffer(t)' /\ HasBuffer(t) => Cardinality(Holding) = Cardinality(Holding') + 1
         /\ (HasBuffer(t)' <=> HasBuffer(t)) => Holding' = Holding
<1>1. IsFiniteSet(Holding) /\ IsFiniteSet(Holding')
  <2>1. Holding \subseteq Loggers /\ Holding' \subseteq Loggers
    BY DEF Holding
  <2>2. QED
    BY <2>1, ThreadsAre, FS_Subset
<1>2. \A u \in Loggers \ {t} : HasBuffer(u)' <=> HasBuffer(u)
  BY DEF HasBuffer
<1>3. HasBuffer(t)' /\ ~HasBuffer(t) => Holding' = Holding \cup {t} /\ t \notin Holding
  BY <1>2 DEF Holding
<1>4. ~HasBuffer(t)' /\ HasBuffer(t) => Holding = Holding' \cup {t} /\ t \notin Holding'
  BY <1>2 DEF Holding
<1>5. (HasBuffer(t)' <=> HasBuffer(t)) => Holding' = Holding
  BY <1>2 DEF Holding
<1>6. Cardinality(Holding) \in Nat /\ Cardinality(Holding') \in Nat
  BY <1>1, FS_CardinalityType
<1> DEFINE H == Holding
           K == Holding'
<1>7. IsFiniteSet(H) /\ IsFiniteSet(K)
  BY <1>1
<1> HIDE DEF H, K
<1>8. t \notin H => Cardinality(H \cup {t}) = Cardinality(H) + 1
  BY <1>7, FS_AddElement
<1>9. t \notin K => Cardinality(K \cup {t}) = Cardinality(K) + 1
  BY <1>7, FS_AddElement
<1>10. QED
  BY <1>3, <1>4, <1>5, <1>6, <1>8, <1>9 DEF H, K


\* What a thread does without the lists, the pool and the slow buffer.
LEMMA QuietMove ==
  ASSUME LogInv, NEW t \in Loggers, NEW p \in Spots, pc' = [pc EXCEPT ![t] = p],
         ThreadTypes', UNCHANGED <<mpc, bus, dispatcher, history>>,
         ~HasBuffer(t) <=> p \notin {"write", "release", "send"},
         PhaseInv', TextInv'
  PROVE  LogInv'
<1>1. pc'[t] = p /\ \A u \in Loggers \ {t} : pc'[u] = pc[u]
  BY DEF LogInv, ThreadTypes
<1>2. Holding' = Holding
  BY <1>1, HoldingMoves DEF LogInv, HasBuffer
<1>3. CountInv'
  BY <1>2 DEF LogInv, CountInv, bus, dispatcher
<1>4. ListsInv' /\ OthersTypes'
  BY DEF LogInv, ListsInv, OthersTypes, bus, dispatcher, history
<1>5. QED
  BY <1>3, <1>4 DEF LogInv

\* Beginning a call.
LEMMA LogKeeps == ASSUME LogInv, NEW t \in Loggers, Log(t) PROVE LogInv'
<1> DEFINE p == IF reporterSet THEN "report" ELSE "format"
<1>1. /\ pc[t] = "out" /\ pc' = [pc EXCEPT ![t] = p] /\ p \in {"report", "format"}
      /\ calls' = [calls EXCEPT ![t] = @ + 1] /\ calls[t] < MaxCalls
      /\ UNCHANGED <<statics, text, message, bus, dispatcher, mpc, history>>
  BY DEF Log, Goto
<1> HIDE DEF p
<1>2. ThreadTypes'
  BY <1>1, BoundsAssumption DEF LogInv, ThreadTypes, statics, Spots
<1>3. pc'[t] = p /\ \A u \in Loggers \ {t} : pc'[u] = pc[u] /\ calls'[u] = calls[u]
  BY <1>1 DEF LogInv, ThreadTypes
<1>4. t \in Workers => mpc = "up"
  BY ThreadsAre DEF Log, MayLog
<1>5. ~LongHolder(t)' /\ ~HasText(t)' /\ pc'[t] \notin {"claim", "release", "send"}
  BY <1>1, <1>3 DEF LongHolder, HasText
<1>6. PhaseInv' /\ TextInv'
  BY <1>1, <1>2, <1>3, <1>4, <1>5, OneMoves DEF statics
<1>7. ~HasBuffer(t) <=> p \notin {"write", "release", "send"}
  BY <1>1 DEF HasBuffer
<1>8. QED
  BY <1>1, <1>2, <1>6, <1>7, QuietMove DEF Spots

\* Formatting, and claiming and filling the slow buffer.
LEMMA FormatKeeps ==
  ASSUME LogInv, NEW t \in Loggers, Report(t) \/ Format(t) \/ Claim(t) \/ FormatSlow(t) PROVE LogInv'
<1>0. /\ ThreadTypes /\ PhaseInv /\ TextInv /\ Call(t) \in Texts /\ Call(t) # NoText /\ NoText \in Texts
  BY CallsAre DEF LogInv
<1>1. /\ UNCHANGED <<busSet, reporterSet, calls, message, mpc, bus, dispatcher, history>>
      /\ \E p \in {"format", "trapped", "claim", "bus", "slow"} : pc' = [pc EXCEPT ![t] = p]
      /\ pc[t] \in {"report", "format", "claim", "slow"}
  BY DEF Report, Format, Claim, FormatSlow, Goto, statics
<1>2. PICK p \in {"format", "trapped", "claim", "bus", "slow"} : pc' = [pc EXCEPT ![t] = p]
  BY <1>1
<1>3. p \in Spots /\ pc'[t] = p /\ \A u \in Loggers \ {t} : pc'[u] = pc[u]
  BY <1>0, <1>2 DEF ThreadTypes, Spots
<1>4. t \in Workers => mpc = "up"
  BY <1>0, <1>1 DEF PhaseInv
<1>5. Call(t)' = Call(t)
  BY <1>1 DEF Call
<1>6. ASSUME ThreadTypes', \A u \in Loggers \ {t} : text'[u] = text[u],
             (p = "claim" \/ LongHolder(t)') => t \in Workers \cup {Main},
             LongHolder(t)' => hazard' /\ (LongHolder(t) \/ ~hazard),
             hazard' \/ hazard' = hazard,
             slow' = slow \/ LongHolder(t),
             HasText(t)' => TextOf(t)' = Call(t)
      PROVE  LogInv'
  <2>1. PhaseInv' /\ TextInv'
    BY <1>1, <1>3, <1>4, <1>5, <1>6, OneMoves
  <2>2. ~HasBuffer(t) <=> p \notin {"write", "release", "send"}
    BY <1>1 DEF HasBuffer
  <2>3. QED
    BY <1>1, <1>2, <1>3, <1>6, <2>1, <2>2, QuietMove
<1>7. CASE Report(t)
  <2>1. p \in {"format", "trapped"} /\ UNCHANGED <<statics, text>>
    BY <1>7, <1>3, <1>0 DEF Report, Goto, ThreadTypes
  <2>2. ThreadTypes'
    BY <1>0, <1>1, <1>2, <1>3, <2>1 DEF ThreadTypes, statics
  <2>3. ~LongHolder(t)' /\ ~HasText(t)'
    BY <1>3, <2>1 DEF LongHolder, HasText
  <2>4. QED
    BY <1>6, <2>1, <2>2, <2>3 DEF statics
<1>8. CASE Format(t)
  <2>1. /\ p \in {"claim", "bus"} /\ (p = "claim" => t \in Workers \cup {Main})
        /\ text' = [text EXCEPT ![t] = Call(t)] /\ UNCHANGED statics
    BY <1>8, <1>3, <1>0 DEF Format, Goto, ThreadTypes
  <2>2. ThreadTypes' /\ text'[t] = Call(t) /\ \A u \in Loggers \ {t} : text'[u] = text[u]
    BY <1>0, <1>1, <1>2, <1>3, <2>1 DEF ThreadTypes, statics
  <2>3. ~LongHolder(t)' /\ TextOf(t)' = Call(t)
    BY <1>0, <1>3, <2>1, <2>2 DEF LongHolder, HasText, IsLong, TextOf
  <2>4. QED
    BY <1>6, <2>1, <2>2, <2>3 DEF statics
<1>9. CASE Claim(t)
  <2>1. /\ p = "slow" /\ ~hazard /\ hazard' /\ hazard' = TRUE /\ UNCHANGED <<slow, route, text>>
        /\ pc[t] = "claim"
    BY <1>9, <1>3, <1>0 DEF Claim, Goto, MayClaim, ThreadTypes
  <2>2. ThreadTypes'
    BY <1>0, <1>1, <1>2, <1>3, <2>1 DEF ThreadTypes
  <2>3. ~HasText(t)' /\ t \in Workers \cup {Main}
    BY <1>0, <1>3, <2>1 DEF HasText, PhaseInv
  <2>4. QED
    BY <1>6, <2>1, <2>2, <2>3
<1>10. CASE FormatSlow(t)
  <2>1. /\ p = "bus" /\ hazard' = hazard /\ slow' = Call(t) /\ text' = [text EXCEPT ![t] = NoText]
        /\ pc[t] = "slow" /\ UNCHANGED route
    BY <1>10, <1>3, <1>0 DEF FormatSlow, Goto, ThreadTypes
  <2>2. ThreadTypes' /\ text'[t] = NoText /\ \A u \in Loggers \ {t} : text'[u] = text[u]
    BY <1>0, <1>1, <1>2, <1>3, <2>1 DEF ThreadTypes
  <2>3. LongHolder(t) /\ hazard /\ t \in Workers \cup {Main} /\ TextOf(t)' = Call(t)
    BY <1>0, <2>1, <2>2 DEF LongHolder, PhaseInv, TextInv, TextOf, IsLong
  <2>4. QED
    BY <1>6, <2>1, <2>2, <2>3
<1>11. QED
  BY <1>7, <1>8, <1>9, <1>10

\* A text goes to the bus.
LEMMA MessageKeeps ==
  ASSUME LogInv, NEW t \in Loggers, HasBus(t) \/ Write(t) \/ Release(t) PROVE LogInv'
<1>0. ThreadTypes /\ PhaseInv /\ TextInv
  BY DEF LogInv
<1>1. /\ UNCHANGED <<busSet, reporterSet, slow, route, calls, text, mpc, bus, dispatcher, history>>
      /\ \/ HasBus(t) /\ pc[t] = "bus" /\ pc' = [pc EXCEPT ![t] = "begin"] /\ UNCHANGED <<hazard, message>>
         \/ /\ Write(t) /\ pc[t] = "write" /\ pc' = [pc EXCEPT ![t] = "release"] /\ UNCHANGED hazard
            /\ message' = [message EXCEPT ![t] = TextOf(t)]
         \/ /\ Release(t) /\ pc[t] = "release" /\ pc' = [pc EXCEPT ![t] = "send"] /\ UNCHANGED message
            /\ hazard' = (hazard /\ ~IsLong(t))
  BY DEF HasBus, Write, Release, Goto, AfterUse, statics
<1>2. PICK p \in {"begin", "release", "send"} : pc' = [pc EXCEPT ![t] = p]
  BY <1>1
<1>3. p \in Spots /\ pc'[t] = p /\ \A u \in Loggers \ {t} : pc'[u] = pc[u]
  BY <1>0, <1>2 DEF ThreadTypes, Spots
<1>4. /\ HasText(t) /\ TextOf(t) = Call(t) /\ Call(t) \in Texts /\ Call(t)' = Call(t)
      /\ TextOf(t)' = TextOf(t) /\ (IsLong(t)' <=> IsLong(t))
  BY <1>0, <1>1, CallsAre DEF HasText, TextInv, Call, TextOf, IsLong
<1>5. hazard' \in BOOLEAN /\ (hazard' = hazard \/ LongHolder(t))
  BY <1>0, <1>1, <1>4, Zenon DEF ThreadTypes, LongHolder
<1>6. ThreadTypes'
  BY <1>0, <1>1, <1>2, <1>3, <1>4, <1>5 DEF ThreadTypes
<1>7. \A u \in Loggers \ {t} : message'[u] = message[u]
  BY <1>0, <1>1 DEF ThreadTypes
<1>8. p \in {"release", "send"} => message'[t] = Call(t)
  <2>1. CASE Write(t)
    BY <1>0, <1>4, <2>1 DEF ThreadTypes, Write
  <2>2. CASE ~Write(t)
    BY <1>0, <1>1, <1>3, <2>2 DEF ThreadTypes, TextInv
  <2>3. QED
    BY <2>1, <2>2
<1>9. LongHolder(t)' => hazard' /\ LongHolder(t)
  <2>1. LongHolder(t)' => p # "send" /\ IsLong(t)
    BY <1>3, <1>4 DEF LongHolder, HasText
  <2>2. p # "send" => hazard' = hazard
    BY <1>0, <1>1, <1>3 DEF ThreadTypes
  <2>3. QED
    BY <1>0, <1>4, <2>1, <2>2 DEF LongHolder, TextInv
<1>10. t \in Workers => mpc = "up"
  BY <1>0, <1>4 DEF PhaseInv, HasText
<1>11. LongHolder(t)' => t \in Workers \cup {Main}
  BY <1>0, <1>9 DEF PhaseInv
<1>12. PhaseInv' /\ TextInv'
  BY <1>1, <1>3, <1>4, <1>5, <1>6, <1>7, <1>8, <1>9, <1>10, <1>11, OneMoves
<1>13. ~HasBuffer(t) <=> p \notin {"write", "release", "send"}
  BY <1>0, <1>1, <1>3 DEF HasBuffer, ThreadTypes
<1>14. QED
  BY <1>1, <1>2, <1>3, <1>6, <1>12, <1>13, QuietMove

\* What a thread gives to a list is whole.
LEMMA MessageIsWhole ==
  ASSUME ThreadTypes, NEW t \in Loggers, NEW x, x = Call(t) PROVE [call |-> Call(t), text |-> x] \in Whole
<1>1. Call(t) \in Loggers \X Nat
  BY BoundsAssumption DEF ThreadTypes, Call
<1>2. QED
  BY <1>1 DEF Whole, Entry

\* A call that ends without the bus, or cannot have a buffer, or gets one.
LEMMA BeginKeeps == ASSUME LogInv, NEW t \in Loggers, NoBus(t) \/ Begin(t) PROVE LogInv'
<1>0. ThreadTypes /\ PhaseInv /\ TextInv /\ ListsInv /\ CountInv
  BY DEF LogInv
<1>1. /\ UNCHANGED <<busSet, reporterSet, slow, route, calls, text, message, mpc, queue, events, dispatcher, sent>>
      /\ \/ /\ pc[t] = "bus" /\ pc' = [pc EXCEPT ![t] = "out"] /\ hazard' = (hazard /\ ~IsLong(t))
            /\ printed' = Append(printed, [call |-> Call(t), text |-> TextOf(t)]) /\ free' = free
         \/ /\ pc[t] = "begin" /\ UNCHANGED <<hazard, printed>>
            /\ \/ pc' = [pc EXCEPT ![t] = "write"] /\ free' = free - 1 /\ free > 0
               \/ pc' = [pc EXCEPT ![t] = "trapped"] /\ free' = free
  BY DEF NoBus, Begin, Goto, AfterUse, statics, bus, history
<1>2. PICK p \in {"out", "write", "trapped"} : pc' = [pc EXCEPT ![t] = p]
  BY <1>1
<1>3. p \in Spots /\ pc'[t] = p /\ \A u \in Loggers \ {t} : pc'[u] = pc[u]
  BY <1>0, <1>2 DEF ThreadTypes, Spots
<1>4. /\ HasText(t) /\ TextOf(t) = Call(t) /\ Call(t)' = Call(t)
      /\ TextOf(t)' = TextOf(t) /\ (IsLong(t)' <=> IsLong(t))
  BY <1>0, <1>1 DEF HasText, TextInv, Call, TextOf, IsLong
<1>5. hazard' \in BOOLEAN /\ (hazard' = hazard \/ LongHolder(t))
  BY <1>0, <1>1, <1>4, Zenon DEF ThreadTypes, LongHolder
<1>6. ThreadTypes'
  BY <1>0, <1>1, <1>2, <1>3, <1>5 DEF ThreadTypes
<1>7. LongHolder(t)' => hazard' /\ LongHolder(t)
  <2>1. LongHolder(t)' => p = "write" /\ IsLong(t)
    BY <1>3, <1>4 DEF LongHolder, HasText
  <2>2. p = "write" => hazard' = hazard
    BY <1>0, <1>1, <1>3 DEF ThreadTypes
  <2>3. QED
    BY <1>0, <1>4, <2>1, <2>2 DEF LongHolder, TextInv
<1>8. PhaseInv' /\ TextInv'
  <2>1. /\ t \in Workers => mpc = "up"
        /\ LongHolder(t)' => t \in Workers \cup {Main}
    BY <1>0, <1>4, <1>7 DEF PhaseInv, HasText
  <2>2. QED
    BY <1>1, <1>3, <1>4, <1>5, <1>6, <1>7, <2>1, OneMoves
<1>9. ListsInv'
  <2>1. [call |-> Call(t), text |-> TextOf(t)] \in Whole
    BY <1>0, <1>4, MessageIsWhole
  <2>2. printed' \in Seq(Whole)
    <3>1. \A q \in Seq(Whole) : \A m \in Whole : Append(q, m) \in Seq(Whole)
      BY AppendOf
    <3>2. printed \in Seq(Whole)
      BY <1>0 DEF ListsInv
    <3>3. CASE printed' = printed
      BY <3>2, <3>3
    <3>4. CASE printed' = Append(printed, [call |-> Call(t), text |-> TextOf(t)])
      BY <2>1, <3>1, <3>2, <3>4, Zenon
    <3>5. QED
      BY <1>1, <3>3, <3>4, Zenon
  <2>3. QED
    BY <1>0, <1>1, <2>2 DEF ListsInv, dispatcher
<1>10. CountInv'
  <2>0. /\ ~HasBuffer(t) /\ (HasBuffer(t)' <=> p = "write")
        /\ p = "write" => free' = free - 1 /\ free > 0
        /\ p # "write" => free' = free
    BY <1>0, <1>1, <1>3 DEF HasBuffer, ThreadTypes
  <2> DEFINE h == Cardinality(Holding)
             k == Cardinality(Holding')
             n == Len(queue) + Len(batch)
  <2>1. h \in Nat /\ k \in Nat /\ (p = "write" => k = h + 1) /\ (p # "write" => k = h)
    BY <1>0, <1>3, <1>6, <2>0, HoldingMoves
  <2>2. free \in Nat /\ free + (h + n) = Buffers /\ n \in Nat
    BY <1>0 DEF CountInv, ListsInv
  <2>3. (Len(queue) + Len(batch))' = n
    BY <1>1 DEF dispatcher
  <2> HIDE DEF h, k, n
  <2>4. free' \in Nat /\ free' + (k + n) = Buffers
    BY <2>0, <2>1, <2>2
  <2>5. QED
    BY <2>3, <2>4 DEF CountInv, k
<1>11. OthersTypes'
  BY <1>1 DEF LogInv, OthersTypes, dispatcher
<1>12. QED
  BY <1>6, <1>8, <1>9, <1>10, <1>11 DEF LogInv

LEMMA SendKeeps == ASSUME LogInv, NEW t \in Loggers, Send(t) PROVE LogInv'
<1> DEFINE m == [call |-> Call(t), text |-> message[t]]
<1>0. ThreadTypes /\ PhaseInv /\ TextInv /\ ListsInv /\ CountInv
  BY DEF LogInv
<1>1. /\ UNCHANGED <<statics, calls, text, message, mpc, events, dispatcher, printed>>
      /\ pc[t] = "send" /\ pc' = [pc EXCEPT ![t] = "out"]
      /\ \/ queue' = Append(queue, m) /\ sent' = Append(sent, m) /\ free' = free
         \/ UNCHANGED <<queue, sent>> /\ free' = free + 1
  BY DEF Send, Goto
<1>2. "out" \in Spots /\ pc'[t] = "out" /\ \A u \in Loggers \ {t} : pc'[u] = pc[u]
  BY <1>0, <1>1 DEF ThreadTypes, Spots
<1>3. m \in Whole
  BY <1>0, <1>1, MessageIsWhole DEF TextInv
<1> HIDE DEF m
<1>4. ThreadTypes'
  BY <1>0, <1>1, <1>2 DEF ThreadTypes, statics
<1>5. ~LongHolder(t)' /\ ~HasText(t)'
  BY <1>2 DEF LongHolder, HasText
<1>6. PhaseInv' /\ TextInv'
  BY <1>1, <1>2, <1>4, <1>5, OneMoves DEF statics
<1>7. /\ ListsInv' /\ Len(queue') \in Nat
      /\ \/ Len(queue') = Len(queue) + 1 /\ free' = free
         \/ Len(queue') = Len(queue) /\ free' = free + 1
  <2>1. CASE queue' = Append(queue, m) /\ sent' = Append(sent, m) /\ free' = free
    BY <1>0, <1>1, <1>3, <2>1, AppendOf DEF ListsInv, dispatcher
  <2>2. CASE UNCHANGED <<queue, sent>> /\ free' = free + 1
    BY <1>0, <1>1, <2>2 DEF ListsInv, dispatcher
  <2>3. QED
    BY <1>1, <2>1, <2>2
<1>8. CountInv'
  <2> DEFINE h == Cardinality(Holding)
             k == Cardinality(Holding')
             q == Len(queue)
             b == Len(batch)
  <2>1. h \in Nat /\ k \in Nat /\ h = k + 1
    <3>1. HasBuffer(t) /\ ~HasBuffer(t)'
      BY <1>1, <1>2 DEF HasBuffer
    <3>2. QED
      BY <1>0, <1>2, <1>4, <3>1, HoldingMoves
  <2>2. free \in Nat /\ free + (h + (q + b)) = Buffers /\ q \in Nat /\ b \in Nat
    BY <1>0 DEF CountInv, ListsInv
  <2>3. \/ Len(queue') = q + 1 /\ free' = free
        \/ Len(queue') = q /\ free' = free + 1
    BY <1>7
  <2>4. Len(batch') = b
    BY <1>1 DEF dispatcher
  <2> HIDE DEF h, k, q, b
  <2>5. free' \in Nat /\ free' + (k + (Len(queue') + Len(batch'))) = Buffers
    BY <2>1, <2>2, <2>3, <2>4
  <2>6. QED
    BY <2>5 DEF CountInv, k
<1>9. OthersTypes'
  BY <1>1 DEF LogInv, OthersTypes, dispatcher
<1>10. QED
  BY <1>4, <1>6, <1>7, <1>8, <1>9 DEF LogInv


-----------------------------------------------------------------------------
(* The dispatcher, the main thread, and all together. *)

\* No thread moves, and the statics and the phase stay.
LEMMA ThreadsStay ==
  ASSUME LogInv, UNCHANGED <<statics, threads, mpc>>
  PROVE  ThreadTypes' /\ PhaseInv' /\ TextInv' /\ Holding' = Holding
BY DEF LogInv, statics, threads, ThreadTypes, PhaseInv, TextInv, Holding, HasBuffer, HasText,
       LongHolder, IsLong, TextOf, Call

LEMMA DispatcherKeeps == LogInv /\ (DispatcherStep \/ Event) => LogInv'
<1> SUFFICES ASSUME LogInv, DispatcherStep \/ Event PROVE LogInv'
  OBVIOUS
<1>0. /\ UNCHANGED <<statics, threads, mpc, sent, run>>
      /\ ListsInv /\ CountInv /\ OthersTypes
  BY DEF LogInv, DispatcherStep, Event, Sweep, Deliver, DeliverEvent, EventLogged, Swept, DispatcherExit,
         history, dispatcher
<1>1. ThreadTypes' /\ PhaseInv' /\ TextInv' /\ Holding' = Holding
  BY <1>0, ThreadsStay
<1>2. OthersTypes'
  BY <1>0, BoundsAssumption
     DEF DispatcherStep, Event, Sweep, Deliver, DeliverEvent, EventLogged, Swept, DispatcherExit,
         OthersTypes, bus
<1> DEFINE h == Cardinality(Holding)
<1>3. h \in Nat
  BY ThreadsAre, FS_Subset, FS_CardinalityType DEF Holding
<1>4. CASE Sweep
  <2>1. batch = <<>> /\ batch' = queue /\ queue' = <<>> /\ UNCHANGED <<free, printed>> /\ dpc' = "deliver"
    BY <1>0, <1>4 DEF Sweep, ListsInv, history
  <2>2. <<>> \in Seq(Whole) /\ Len(<<>>) = 0
    BY EmptySeq
  <2>3. ListsInv'
    BY <1>0, <2>1, <2>2 DEF ListsInv
  <2>4. CountInv'
    <3> DEFINE q == Len(queue)
    <3>1. free \in Nat /\ free + (h + (q + 0)) = Buffers /\ q \in Nat
      BY <1>0, <2>1, <2>2 DEF CountInv, ListsInv
    <3>2. Len(queue') = 0 /\ Len(batch') = q /\ free' = free
      BY <2>1, <2>2
    <3> HIDE DEF h, q
    <3>3. free + (h + (0 + q)) = Buffers
      BY <1>3, <3>1
    <3>4. QED
      BY <1>1, <3>1, <3>2, <3>3 DEF CountInv, h
  <2>5. QED
    BY <1>1, <1>2, <2>3, <2>4 DEF LogInv
<1>5. CASE Deliver
  <2>1. /\ Head(batch) \in Whole /\ Tail(batch) \in Seq(Whole) /\ Len(batch) \in Nat \ {0}
        /\ Len(Tail(batch)) = Len(batch) - 1
    BY <1>0, <1>5, ShiftOf DEF ListsInv, Deliver
  <2>2. /\ printed' = Append(printed, Head(batch)) /\ batch' = Tail(batch) /\ free' = free + 1
        /\ queue' = queue /\ dpc' = dpc /\ dpc = "deliver"
    BY <1>5 DEF Deliver, AfterDelivery
  <2>3. printed' \in Seq(Whole)
    <3>1. \A q \in Seq(Whole) : \A m \in Whole : Append(q, m) \in Seq(Whole)
      BY AppendOf
    <3>2. QED
      BY <1>0, <2>1, <2>2, <3>1, Zenon DEF ListsInv
  <2>4. ListsInv'
    BY <1>0, <2>1, <2>2, <2>3 DEF ListsInv
  <2>5. CountInv'
    <3> DEFINE q == Len(queue)
               b == Len(batch)
    <3>1. free \in Nat /\ free + (h + (q + b)) = Buffers /\ q \in Nat /\ b \in Nat
      BY <1>0 DEF CountInv, ListsInv
    <3>2. Len(queue') = q /\ Len(batch') = b - 1 /\ free' = free + 1
      BY <2>1, <2>2
    <3> HIDE DEF h, q, b
    <3>3. free + 1 \in Nat /\ (free + 1) + (h + (q + (b - 1))) = Buffers
      BY <1>3, <3>1
    <3>4. QED
      BY <1>1, <3>2, <3>3 DEF CountInv, h
  <2>6. QED
    BY <1>1, <1>2, <2>4, <2>5 DEF LogInv
<1>6. CASE Event \/ DeliverEvent \/ EventLogged \/ Swept \/ DispatcherExit
  <2>1. UNCHANGED <<free, queue, batch, printed, sent>>
    BY <1>6 DEF Event, DeliverEvent, EventLogged, Swept, DispatcherExit, bus, history
  <2>2. dpc' # "deliver" => batch = <<>>
    BY <1>0, <1>6 DEF ListsInv, Event, DeliverEvent, EventLogged, Swept, DispatcherExit
  <2>3. ListsInv' /\ CountInv'
    BY <1>0, <1>1, <2>1, <2>2 DEF ListsInv, CountInv
  <2>4. QED
    BY <1>1, <1>2, <2>3 DEF LogInv
<1>7. QED
  BY <1>4, <1>5, <1>6 DEF DispatcherStep

\* A step of the shutdown; where it resets the statics nobody has the slow buffer.
LEMMA MainKeeps == LogInv /\ MainStep => LogInv'
<1> SUFFICES ASSUME LogInv, MainStep PROVE LogInv'
  OBVIOUS
<1>0. /\ ThreadTypes /\ OthersTypes /\ PhaseInv /\ TextInv /\ ListsInv /\ CountInv
      /\ UNCHANGED <<threads, events, batch, eventBatch, dpc, printed, sent>>
      /\ pc[Main] = "out"
  BY DEF LogInv, MainStep, JoinWorkers, LogZero, LogSet, LogInit, JoinLate, StopDispatcher, Destroy, Shutdown,
         bus, dispatcher, history
<1>1. \A t \in Workers : pc[t] = "out"
  BY <1>0 DEF PhaseInv, MainStep, JoinWorkers, LogZero, LogSet, LogInit, JoinLate, StopDispatcher, Destroy, Shutdown
<1>2. \A t \in Loggers : pc[t] # "claim" /\ ~LongHolder(t)
  <2>1. \A t \in Workers \cup {Main} : pc[t] # "claim" /\ ~LongHolder(t)
    BY <1>0, <1>1 DEF LongHolder, HasText
  <2>2. QED
    BY <1>0, <2>1 DEF PhaseInv
<1>3. \A t \in Loggers : /\ HasText(t)' <=> HasText(t)
                         /\ IsLong(t)' <=> IsLong(t)
                         /\ Call(t)' = Call(t) /\ (HasText(t) => ~IsLong(t))
                         /\ LongHolder(t)' <=> LongHolder(t)
  BY <1>0, <1>2 DEF threads, HasText, IsLong, Call, LongHolder
<1>4. PhaseInv' /\ TextInv'
  <2>1. \A t \in Loggers : HasText(t)' => TextOf(t)' = Call(t)'
    BY <1>0, <1>3 DEF TextInv, TextOf, threads
  <2>2. PhaseInv'
    BY <1>0, <1>1, <1>2, <1>3, ThreadsAre DEF PhaseInv, threads
  <2>3. QED
    BY <1>0, <1>2, <1>3, <2>1, <2>2 DEF TextInv, threads
<1>5. ThreadTypes'
  <2>1. NoText \in Texts
    BY DEF NoText, Texts
  <2>2. /\ busSet' \in BOOLEAN /\ reporterSet' \in BOOLEAN /\ hazard' \in BOOLEAN /\ slow' \in Texts
    BY <1>0, <2>1, Zenon DEF ThreadTypes, MainStep, JoinWorkers, LogZero, LogSet, LogInit, JoinLate,
       StopDispatcher, Destroy, statics
  <2>3. route' \subseteq Route
    <3>1. route' \in {route, {}, {"address"}, Route}
      BY <1>0, Zenon DEF MainStep, JoinWorkers, LogZero, LogSet, LogInit, JoinLate, StopDispatcher,
         Destroy, statics
    <3>2. QED
      BY <1>0, <3>1 DEF ThreadTypes, Route
  <2>4. QED
    BY <1>0, <2>2, <2>3 DEF ThreadTypes, threads
<1>6. OthersTypes'
  <2>1. run' \in BOOLEAN
    BY <1>0, Zenon DEF OthersTypes, MainStep, JoinWorkers, LogZero, LogSet, LogInit, JoinLate, StopDispatcher,
       Destroy, dispatcher
  <2>2. mpc' \in {"up", "joined", "zeroed", "reset", "late", "stopping", "down"}
    BY DEF MainStep, JoinWorkers, LogZero, LogSet, LogInit, JoinLate, StopDispatcher, Destroy, Shutdown
  <2>3. QED
    BY <1>0, <2>1, <2>2 DEF OthersTypes
<1>7. ListsInv' /\ CountInv'
  <2> DEFINE h == Cardinality(Holding)
             q == Len(queue)
             b == Len(batch)
  <2>1. h \in Nat /\ Holding' = Holding
    <3>1. Holding' = Holding
      BY <1>0 DEF Holding, HasBuffer, threads
    <3>2. QED
      BY <3>1, ThreadsAre, FS_Subset, FS_CardinalityType DEF Holding
  <2>2. free \in Nat /\ free + (h + (q + b)) = Buffers /\ q \in Nat /\ b \in Nat
    BY <1>0 DEF CountInv, ListsInv
  <2>3. CASE UNCHANGED <<free, queue>>
    BY <1>0, <2>1, <2>3 DEF ListsInv, CountInv
  <2>4. CASE Destroy
    <3>1. queue' = <<>> /\ free' = free + q /\ <<>> \in Seq(Whole) /\ Len(<<>>) = 0
      BY <2>4, EmptySeq DEF Destroy
    <3>2. ListsInv'
      BY <1>0, <3>1 DEF ListsInv
    <3>3. Len(queue') = 0 /\ Len(batch') = b
      BY <1>0, <3>1
    <3> HIDE DEF h, q, b
    <3>4. free + q \in Nat /\ (free + q) + (h + (0 + b)) = Buffers
      BY <2>1, <2>2
    <3>5. QED
      BY <2>1, <3>1, <3>2, <3>3, <3>4 DEF CountInv, h
  <2>5. QED
    BY <2>3, <2>4 DEF MainStep, JoinWorkers, LogZero, LogSet, LogInit, JoinLate, StopDispatcher, bus
<1>8. QED
  BY <1>4, <1>5, <1>6, <1>7 DEF LogInv

\* At first nothing is logged and all buffers are free.
LEMMA LogInvStarts == Init => LogInv
<1> SUFFICES ASSUME Init PROVE LogInv
  OBVIOUS
<1>1. ThreadTypes
  <2>1. NoText \in Texts /\ 0 \in 0 .. MaxCalls /\ "out" \in Spots
    BY BoundsAssumption DEF NoText, Texts, Spots
  <2>2. /\ text = [t \in Loggers |-> NoText] /\ message = text /\ slow = NoText
        /\ pc = [t \in Loggers |-> "out"] /\ calls = [t \in Loggers |-> 0]
        /\ {busSet, reporterSet, hazard} \subseteq BOOLEAN /\ route \subseteq Route
    BY Zenon DEF Init
  <2> HIDE DEF NoText
  <2>3. QED
    BY <2>1, <2>2 DEF ThreadTypes
<1>2. OthersTypes
  BY BoundsAssumption DEF Init, OthersTypes
<1>3. \A t \in Loggers : pc[t] = "out"
  BY DEF Init
<1>4. PhaseInv /\ TextInv
  BY <1>3, ThreadsAre DEF PhaseInv, TextInv, LongHolder, HasText
<1>5. ListsInv
  BY EmptySeq DEF Init, ListsInv
<1>6. CountInv
  <2>1. Holding = {}
    BY <1>3 DEF Holding, HasBuffer
  <2>2. Cardinality(Holding) = 0
    BY <2>1, FS_EmptySet
  <2>3. Len(queue) = 0 /\ Len(batch) = 0 /\ free = Buffers
    BY EmptySeq DEF Init
  <2>4. QED
    BY <2>2, <2>3, BoundsAssumption DEF CountInv
<1>7. QED
  BY <1>1, <1>2, <1>4, <1>5, <1>6 DEF LogInv

\* Every step keeps it.
LEMMA NextKeepsLogInv == LogInv /\ [Next]_vars => LogInv'
<1> SUFFICES ASSUME LogInv, [Next]_vars PROVE LogInv'
  OBVIOUS
<1>1. ASSUME UNCHANGED vars PROVE LogInv'
  <2>1. UNCHANGED <<statics, threads, mpc, free, queue, events, batch, eventBatch, dpc, run, printed, sent>>
    BY <1>1 DEF vars, bus, dispatcher, history
  <2>2. ThreadTypes' /\ PhaseInv' /\ TextInv' /\ Holding' = Holding
    BY <2>1, ThreadsStay
  <2>3. OthersTypes' /\ ListsInv' /\ CountInv'
    BY <2>1, <2>2 DEF LogInv, OthersTypes, ListsInv, CountInv
  <2>4. QED
    BY <2>2, <2>3 DEF LogInv
<1>2. ASSUME NEW t \in Loggers, Log(t) \/ LogStep(t) PROVE LogInv'
  BY <1>2, LogKeeps, FormatKeeps, BeginKeeps, MessageKeeps, SendKeeps DEF LogStep
<1>3. QED
  BY <1>1, <1>2, DispatcherKeeps, MainKeeps DEF Next, Down

\* Long messages of several threads do not mix in the one slow buffer, although
\* log_init resets it while threads still log (log.c:73-97).
THEOREM TextsAreWhole == Spec => []TextsDoNotMix
<1>1. LogInv => TextsDoNotMix
  BY MembersOf DEF LogInv, ListsInv, TextsDoNotMix, Whole
<1>2. QED
  BY <1>1, LogInvStarts, NextKeepsLogInv, PTL DEF Spec

\* The bus has every message buffer: free, being written, queued or delivered.
THEOREM BuffersReturn == Spec => []BuffersConserved
<1>1. ASSUME LogInv PROVE BuffersConserved
  <2>1. /\ ThreadTypes /\ OthersTypes /\ ListsInv /\ CountInv /\ Holders = Cardinality(Holding)
    BY <1>1 DEF LogInv, Holders, Holding, HasBuffer
  <2> DEFINE h == Holders
             q == Len(queue)
             b == Len(batch)
  <2>2. free \in Nat /\ free + (h + (q + b)) = Buffers /\ q \in Nat /\ b \in Nat /\ Buffers \in Nat
    BY <2>1, BoundsAssumption DEF CountInv, ListsInv
  <2>3. h \in Nat
    BY <2>1, ThreadsAre, FS_Subset, FS_CardinalityType DEF Holding
  <2> HIDE DEF h, q, b
  <2>4. free + h + q + b = Buffers /\ free \in 0 .. Buffers
    BY <2>2, <2>3
  <2>5. \A s \in Seq(Whole) : s \in Seq(Entry)
    <3>1. Whole \subseteq Entry
      BY DEF Whole
    <3>2. QED
      BY <3>1
  <2>6. TypeOK
    <3>1. queue \in Seq(Entry) /\ batch \in Seq(Entry) /\ printed \in Seq(Entry)
      BY <2>1, <2>5, Zenon DEF ListsInv
    <3>2. {busSet, reporterSet, hazard, run} \subseteq BOOLEAN /\ route \subseteq Route
      BY <2>1, Zenon DEF ThreadTypes, OthersTypes
    <3>3. eventBatch \in 0 .. MaxEvents
      BY <2>1, BoundsAssumption DEF OthersTypes
    <3>4. QED
      BY <2>1, <2>4, <3>1, <3>2, <3>3 DEF TypeOK, ThreadTypes, OthersTypes, Spots
  <2>7. QED
    BY <2>4, <2>6 DEF BuffersConserved, h, q, b
<1>2. QED
  BY <1>1, LogInvStarts, NextKeepsLogInv, PTL DEF Spec
=============================================================================
