--------------------------- MODULE MonitorsProofs ---------------------------
(***************************************************************************)
(* Proofs about Watchdog, that a trap means silence, and that it is        *)
(* announced where the delays leave a turn for it; and about               *)
(* ReportingQueue, that no event is lost, sent twice or used after.        *)
(***************************************************************************)
EXTENDS MCMonitors, ListLemmas

\* The time that counts against main, with what the next turn will add, is at
\* most one threshold more than main was quiet, unless a tick waits to be seen.
CountedIsQuiet ==
  /\ ~flag /\ wpc \notin {"start", "store", "trapped"} => since + Counted(lag) <= quiet + Threshold
  /\ wpc = "check" => since <= seen + Threshold

\* A time that was not announced is short of the delay the next turn tests, if
\* a turn cannot count the time from the warning to the trap.
UnannouncedIsShort ==
  /\ ~warned /\ wpc = "top" => since < Warning
  /\ WarnsFirst /\ ~warned /\ wpc \in {"load", "check"} => since < Fatal

IInv == TypeOK /\ CountedIsQuiet /\ UnannouncedIsShort /\ NoFalseTrap

\* The delays are numbers, ordered as the code asserts.
LEMMA DelaysType ==
  /\ Threshold \in Nat /\ Warning \in Nat /\ Fatal \in Nat
  /\ Warning > 0 /\ Warning < Fatal /\ (WarnsFirst <=> Threshold + Warning <= Fatal)
BY DelaysAssumption DEF WarnsFirst

\* The strengthened invariant holds at the start.
LEMMA InitIInv == Init => IInv
<1> SUFFICES ASSUME Init PROVE IInv
  OBVIOUS
<1>1. flag /\ {running, flag, warned} \subseteq BOOLEAN
  BY Zenon DEF Init
<1>2. TypeOK
  BY <1>1, DelaysType, SMT DEF Init, TypeOK
<1>3. CountedIsQuiet /\ UnannouncedIsShort /\ NoFalseTrap
  BY <1>1 DEF Init, CountedIsQuiet, UnannouncedIsShort, NoFalseTrap
<1>4. QED
  BY <1>2, <1>3 DEF IInv

\* Every step keeps it.
LEMMA NextIInv == IInv /\ [Next]_vars => IInv'
<1> SUFFICES ASSUME IInv, [Next]_vars PROVE IInv'
  OBVIOUS
<1> USE DelaysType DEF IInv, TypeOK, CountedIsQuiet, UnannouncedIsShort, NoFalseTrap,
      Counted, Upto
<1>1. CASE Start BY <1>1 DEF Start
<1>2. CASE Tick BY <1>2 DEF Tick
<1>3. CASE Stop BY <1>3 DEF Stop
<1>4. CASE StopTick BY <1>4 DEF StopTick
<1>5. CASE Join BY <1>5 DEF Join
<1>6. CASE ReadClock
  <2>1. warned' \in BOOLEAN /\ ~warned'
    BY <1>6, Zenon DEF ReadClock
  <2>2. QED
    BY <1>6, <2>1 DEF ReadClock
<1>7. CASE Exit BY <1>7 DEF Exit, Runs
<1>8. CASE Count BY <1>8 DEF Count, Runs
<1>9. CASE Load BY <1>9 DEF Load
<1>10. CASE Store
  <2>1. warned' \in BOOLEAN /\ flag' \in BOOLEAN /\ ~flag' /\ ~warned'
    BY <1>10, Zenon DEF Store
  <2>2. QED
    BY <1>10, <2>1 DEF Store
<1>11. CASE Check
  <2>1. warned' \in BOOLEAN /\ (warned' <=> warned \/ (since >= Warning /\ ~(since >= Fatal)))
    BY <1>11, Zenon DEF Check, TooLong
  <2>2. QED
    BY <1>11, <2>1 DEF Check, TooLong
<1>12. CASE Elapse BY <1>12 DEF Elapse
<1>13. CASE Suspend BY <1>13 DEF Suspend
<1>14. CASE UNCHANGED vars BY <1>14 DEF vars
<1>15. CASE Trapped BY <1>14, <1>15 DEF Trapped
<1>16. QED
  BY <1>1, <1>2, <1>3, <1>4, <1>5, <1>6, <1>7, <1>8, <1>9, <1>10, <1>11, <1>12, <1>13,
     <1>14, <1>15 DEF Next, Watch

\* Types are kept, for every choice of the three delays (watchdog.c:18-54).
THEOREM TypeCorrect == Spec => []TypeOK
<1>1. IInv => TypeOK BY DEF IInv
<1>2. QED BY <1>1, InitIInv, NextIInv, PTL DEF Spec

\* A trap means a main loop that was quiet for the fatal delay less a threshold,
\* whatever the delays that watchdog_start accepts; it was announced by the
\* warning if the threshold is at most what the two delays differ by.
THEOREM TrapIsTrue == Spec => []NoFalseTrap
<1>1. IInv => NoFalseTrap BY DEF IInv
<1>2. QED BY <1>1, InitIInv, NextIInv, PTL DEF Spec

-----------------------------------------------------------------------------
(* The queue of reports.                                                   *)

\* The links spell out q from e on, and end.
LinkedFrom(e, q) ==
  /\ IF q = <<>> THEN e = Null ELSE e = q[1] /\ next[q[Len(q)]] = Null
  /\ \A i \in 1 .. Len(q) - 1 : next[q[i]] = q[i + 1]

\* The operators on lists are the same on both sides of the instance.
LEMMA SameLists ==
  \A q : /\ Reports!Range(q) = Range(q) /\ Reports!Last(q) = Last(q)
         /\ Reports!IsInjective(q) <=> IsInjective(q)
BY DEF Reports!Range, Range, Reports!Last, Last, Reports!IsInjective, IsInjective

\* What walking along the links finds.
LEMMA WalkIs ==
  ASSUME NEW q \in Seq(Events), NEW e, LinkedFrom(e, q)
  PROVE  Reports!Walk(e, Len(q)) = q
<1> DEFINE n == Len(q)
           S(f) == {i \in Nat : i + 1 \in 1 .. n => f[i + 1] = q[i + 1]}
<1>0. n \in Nat /\ DOMAIN q = 1 .. n /\ q = [i \in 1 .. n |-> q[i]]
  OBVIOUS
<1>1. \A i \in 1 .. n : q[i] = IF i = 1 THEN e ELSE next[q[i - 1]]
  <2> TAKE i \in 1 .. n
  <2>1. CASE i = 1
    BY <2>1 DEF LinkedFrom
  <2>2. CASE i # 1
    <3>1. i - 1 \in 1 .. n - 1 /\ (i - 1) + 1 = i
      BY <1>0, <2>2
    <3>2. QED
      BY <2>2, <3>1 DEF LinkedFrom
  <2>3. QED
    BY <2>1, <2>2
<1> DEFINE Is(f) == f = [i \in 1 .. n |-> IF i = 1 THEN e ELSE next[f[i - 1]]]
<1>2. Is(q)
  BY <1>0, <1>1
<1>3. ASSUME NEW f, Is(f) PROVE [i \in 1 .. n |-> f[i]] = q
  <2>1. \A i \in 1 .. n : f[i] = IF i = 1 THEN e ELSE next[f[i - 1]]
    BY <1>3
  <2> HIDE DEF n, Is
  <2>2. 0 \in S(f)
    BY <1>0, <1>1, <2>1
  <2>3. \A i \in Nat : i \in S(f) => i + 1 \in S(f)
    <3> SUFFICES ASSUME NEW i \in Nat, i \in S(f), (i + 1) + 1 \in 1 .. n
                 PROVE  f[(i + 1) + 1] = q[(i + 1) + 1]
      OBVIOUS
    <3>1. i + 1 \in 1 .. n /\ ((i + 1) + 1) - 1 = i + 1 /\ (i + 1) + 1 # 1
      BY <1>0
    <3>2. f[i + 1] = q[i + 1]
      BY <3>1
    <3>3. f[(i + 1) + 1] = next[f[i + 1]] /\ q[(i + 1) + 1] = next[q[i + 1]]
      BY <1>1, <2>1, <3>1
    <3>4. QED
      BY <3>2, <3>3
  <2> HIDE DEF S
  <2>4. Nat \subseteq S(f)
    BY <2>2, <2>3, CountingUp, Zenon
  <2>5. \A i \in 1 .. n : f[i] = q[i]
    <3> TAKE i \in 1 .. n
    <3>1. i - 1 \in Nat /\ (i - 1) + 1 = i
      BY <1>0
    <3>2. QED
      BY <2>4, <3>1 DEF S
  <2>6. QED
    BY <1>0, <2>5
<1> HIDE DEF n
<1>4. LET f == CHOOSE f : Is(f) IN Is(f)
  BY <1>2
<1>5. Reports!Walk(e, n) = LET f == CHOOSE f : Is(f) IN [i \in 1 .. n |-> f[i]]
  BY DEF Reports!Walk
<1> HIDE DEF Is
<1>6. QED
  BY <1>3, <1>4, <1>5 DEF n


\* Events are in one place.
Apart ==
  /\ \A e \in Range(order) : e \notin Range(flushed) \cup posted \cup {reply} \cup done
  /\ \A e \in Range(flushed) : e \notin posted \cup {reply} \cup done
  /\ posted \cap ({reply} \cup done) = {} /\ reply \notin done

\* The queue with its tail, what the tick flushed, and where events are.
QueueInv ==
  /\ IsInjective(order) /\ LinkedFrom(head, order) /\ length = Len(order)
  /\ tail = IF order = <<>> THEN Null ELSE order[Len(order)]

TickInv ==
  /\ IsInjective(flushed) /\ LinkedFrom(list, flushed)
  /\ pc # "post" => flushed = <<>>
  /\ pc = "requeue" <=> reply # Null

ReportsInv == Reports!TypeOK /\ QueueInv /\ TickInv /\ Apart

\* The queue once there is room for one more.
Kept == IF Reports!Full THEN Tail(order) ELSE order

\* What is kept is linked, and the dropped event is not in it.
LEMMA KeptIs ==
  ASSUME ReportsInv
  PROVE  /\ Kept \in Seq(Events) /\ IsInjective(Kept) /\ Len(Kept) < max_events
         /\ Reports!Room.length = Len(Kept) /\ LinkedFrom(Reports!Room.head, Kept)
         /\ Reports!Room.tail = IF Kept = <<>> THEN Null ELSE Kept[Len(Kept)]
         /\ Range(order) = Range(Kept) \cup Reports!Dropped
         /\ Range(Kept) \cap Reports!Dropped = {}
<1>1. /\ order \in Seq(Events) /\ IsInjective(order) /\ LinkedFrom(head, order)
      /\ length = Len(order) /\ tail = IF order = <<>> THEN Null ELSE order[Len(order)]
      /\ max_events \in Nat \ {0} /\ length <= max_events /\ Null \notin Events
  BY SizeAssumption, EventsAssumption DEF ReportsInv, QueueInv, Reports!TypeOK
<1>2. CASE ~Reports!Full
  BY <1>1, <1>2 DEF Kept, Reports!Room, Reports!Dropped, Reports!Full
<1>3. CASE Reports!Full
  <2>1. /\ order # <<>> /\ Len(order) \in Nat \ {0} /\ head = order[1] /\ head = Head(order)
        /\ Len(Tail(order)) = Len(order) - 1
        /\ \A i \in 1 .. Len(order) - 1 : Tail(order)[i] = order[i + 1]
    BY <1>1, <1>3, ShiftOf DEF Reports!Full, LinkedFrom
  <2>2. /\ Kept = Tail(order) /\ Reports!Dropped = {head}
        /\ Reports!Room = [head |-> next[head], tail |-> IF tail = head THEN next[head] ELSE tail,
                           length |-> length - 1]
    BY <1>3 DEF Kept, Reports!Dropped, Reports!Room, Reports!TailAfterDrop
  <2>3. /\ Kept \in Seq(Events) /\ IsInjective(Kept)
        /\ Range(order) = Range(Kept) \cup {head} /\ head \notin Range(Kept)
    BY <1>1, <2>1, <2>2, TailOf
  <2>4. LinkedFrom(next[head], Kept) /\ (tail = head <=> Kept = <<>>)
    <3>1. CASE Len(order) = 1
      BY <1>1, <2>1, <2>2, <2>3, <3>1 DEF LinkedFrom
    <3>2. CASE Len(order) # 1
      <4>1. /\ Len(Kept) \in Nat \ {0} /\ Kept # <<>> /\ Len(Kept) = Len(order) - 1
            /\ 1 \in 1 .. Len(order) - 1 /\ Len(Kept) \in 1 .. Len(order) - 1
        <5>1. Len(Kept) = Len(order) - 1 /\ Len(Kept) \in Nat
          BY <2>1, <2>2, <2>3
        <5>2. Len(Kept) # 0
          BY <2>1, <3>2, <5>1
        <5>3. QED
          BY <2>1, <5>1, <5>2
      <4>2. Kept[1] = order[2] /\ Kept[Len(Kept)] = order[Len(order)] /\ next[order[1]] = order[2]
        BY <1>1, <2>1, <2>2, <4>1 DEF LinkedFrom
      <4>3. \A i \in 1 .. Len(Kept) - 1 : next[Kept[i]] = Kept[i + 1]
        <5> TAKE i \in 1 .. Len(Kept) - 1
        <5>1. /\ i \in 1 .. Len(order) - 1 /\ i + 1 \in 1 .. Len(order) - 1
          BY <4>1
        <5>2. Kept[i] = order[i + 1] /\ Kept[i + 1] = order[(i + 1) + 1]
          BY <2>1, <2>2, <5>1
        <5>3. QED
          BY <1>1, <5>1, <5>2 DEF LinkedFrom
      <4>4. tail # head
        BY <1>1, <2>1, <3>2 DEF IsInjective
      <4>5. QED
        BY <1>1, <2>1, <4>1, <4>2, <4>3, <4>4 DEF LinkedFrom
    <3>3. QED
      BY <3>1, <3>2
  <2>5. QED
    BY <1>1, <1>3, <2>1, <2>2, <2>3, <2>4 DEF LinkedFrom, Reports!Full
<1>4. QED
  BY <1>2, <1>3

\* What the links of a list are when those of other events change.
LEMMA LinksKept ==
  ASSUME NEW q \in Seq(Events), NEW e, LinkedFrom(e, q), \A x \in Range(q) : next'[x] = next[x]
  PROVE  (LinkedFrom(e, q))'
<1>1. Len(q) \in Nat /\ \A i \in 1 .. Len(q) : q[i] \in Range(q)
  BY MembersOf
<1>2. QED
  BY <1>1 DEF LinkedFrom

\* One event more at the end of the queue.
LEMMA EnqueueKeeps ==
  ASSUME ReportsInv, NEW e \in Events, e \notin Range(order) \cup Range(flushed), Reports!Enqueue(e),
         UNCHANGED <<max_events, list, flushed>>
  PROVE  /\ QueueInv' /\ (LinkedFrom(list, flushed))'
         /\ next' \in [Events -> Events \cup {Null}] /\ {head', tail'} \subseteq Events \cup {Null}
         /\ length' \in 0 .. max_events' /\ order' \in Seq(Events)
         /\ Range(order') = (Range(order) \ Reports!Dropped) \cup {e}
         /\ Reports!Dropped \subseteq Range(order)
<1> DEFINE q == Kept
           r == Reports!Room
           n == Len(q)
<1>1. /\ q \in Seq(Events) /\ IsInjective(q) /\ n < max_events /\ n \in Nat
      /\ r.length = n /\ LinkedFrom(r.head, q)
      /\ r.tail = IF q = <<>> THEN Null ELSE q[n]
      /\ Range(order) = Range(q) \cup Reports!Dropped /\ Range(q) \cap Reports!Dropped = {}
  BY KeptIs
<1>2. /\ max_events \in Nat /\ Null \notin Events /\ next \in [Events -> Events \cup {Null}]
      /\ order \in Seq(Events) /\ flushed \in Seq(Events)
      /\ \A x \in Range(order) : x \notin Range(flushed)
  BY SizeAssumption, EventsAssumption DEF ReportsInv, Apart, Reports!TypeOK
<1>3. /\ head' = IF n = 0 THEN e ELSE r.head
      /\ next' = [x \in Events |-> IF x = e THEN Null ELSE IF n > 0 /\ x = r.tail THEN e ELSE next[x]]
      /\ tail' = e /\ length' = n + 1 /\ order' = Append(q, e)
  BY <1>1 DEF Reports!Enqueue, Kept
<1> HIDE DEF q, r
<1>4. /\ order' \in Seq(Events) /\ Len(order') = n + 1 /\ order'[n + 1] = e
      /\ \A i \in 1 .. n : order'[i] = q[i] /\ q[i] \in Events
  BY <1>1, <1>3
<1>5. e \notin Range(q) /\ e \notin Range(flushed)
  BY <1>1
<1>6. IsInjective(order') /\ Range(order') = Range(q) \cup {e}
  BY <1>1, <1>3, <1>5, AppendOf
<1>7. next' \in [Events -> Events \cup {Null}] /\ next'[e] = Null
  BY <1>2, <1>3
<1>8. \A i \in 1 .. n : q[i] \in Range(q) /\ (i # n => q[i] # r.tail)
  BY <1>1 DEF Range, IsInjective
<1>9. ASSUME NEW i \in 1 .. n PROVE next'[order'[i]] = order'[i + 1]
  <2>1. order'[i] = q[i] /\ q[i] # e /\ q[i] \in Events /\ i \in DOMAIN q /\ i \in Nat
    BY <1>1, <1>4, <1>5, <1>8
  <2>2. CASE i = n
    <3>1. q # <<>> /\ n > 0 /\ q[i] = r.tail
      BY <1>1, <2>2
    <3>2. next'[q[i]] = e
      BY <1>3, <2>1, <3>1
    <3>3. QED
      BY <1>4, <2>1, <2>2, <3>2
  <2>3. CASE i # n
    <3>1. i \in 1 .. n - 1 /\ i + 1 \in 1 .. n
      BY <1>1, <2>3
    <3>2. next'[q[i]] = next[q[i]]
      BY <1>3, <1>8, <2>1, <2>3
    <3>3. next[q[i]] = q[i + 1]
      BY <1>1, <3>1 DEF LinkedFrom
    <3>4. QED
      BY <1>4, <2>1, <3>1, <3>2, <3>3
  <2>4. QED
    BY <2>2, <2>3
<1>10. head' = order'[1]
  <2>1. CASE n = 0
    BY <1>3, <1>4, <2>1
  <2>2. CASE n # 0
    BY <1>1, <1>3, <1>4, <2>2 DEF LinkedFrom
  <2>3. QED
    BY <2>1, <2>2
<1>11. order' # <<>> /\ Len(order') - 1 = n
  BY <1>1, <1>4
<1>12. QueueInv'
  BY <1>3, <1>4, <1>6, <1>7, <1>9, <1>10, <1>11 DEF QueueInv, LinkedFrom
<1>13. (LinkedFrom(list, flushed))'
  <2>1. \A x \in Range(flushed) : x \in Events /\ x # e /\ ~(n > 0 /\ x = r.tail)
    <3>1. Range(flushed) \subseteq Events
      BY <1>2, MembersOf
    <3>2. n > 0 => r.tail \in Range(order)
      <4>1. n > 0 => n \in 1 .. n /\ q # <<>>
        BY <1>1
      <4>2. QED
        BY <1>1, <1>8, <4>1
    <3>3. QED
      BY <1>2, <1>5, <3>1, <3>2
  <2>2. \A x \in Range(flushed) : next'[x] = next[x]
    BY <1>3, <2>1
  <2>3. LinkedFrom(list, flushed)
    BY DEF ReportsInv, TickInv
  <2>4. QED
    BY <1>2, <2>2, <2>3, LinksKept DEF LinkedFrom
<1>14. {head', tail'} \subseteq Events \cup {Null} /\ length' \in 0 .. max_events'
  <2>1. 1 \in 1 .. Len(order')
    BY <1>1, <1>4
  <2>2. QED
    BY <1>1, <1>2, <1>3, <1>4, <1>10, <2>1
<1>15. Range(order') = (Range(order) \ Reports!Dropped) \cup {e}
  BY <1>1, <1>6
<1>16. QED
  BY <1>1, <1>4, <1>7, <1>12, <1>13, <1>14, <1>15


\* At first there are no events.
LEMMA ReportsStart == Reports!Init => ReportsInv
<1> SUFFICES ASSUME Reports!Init PROVE ReportsInv
  OBVIOUS
<1>1. Reports!TypeOK
  BY SizeAssumption, TimeAssumption DEF Reports!Init, Reports!TypeOK
<1>2. QueueInv /\ TickInv /\ Apart
  BY EmptyList, EventsAssumption DEF Reports!Init, QueueInv, TickInv, Apart, LinkedFrom
<1>3. QED
  BY <1>1, <1>2 DEF ReportsInv

\* The numbers and the history of the pause.
Numbers ==
  /\ pauseUntil \in 0 .. 2 * Half - 1 /\ now \in FirstTime .. MaxTime /\ quietUntil \in Nat

LEMMA NumbersKept == ReportsInv /\ [Reports!Next]_(Reports!vars) => Numbers'
<1> SUFFICES ASSUME ReportsInv, [Reports!Next]_(Reports!vars) PROVE Numbers'
  OBVIOUS
<1>1. Numbers /\ {FirstTime, MaxTime, Half} \subseteq Nat /\ Half > 0 /\ Delays \subseteq Nat
  BY TimeAssumption DEF ReportsInv, Reports!TypeOK, Numbers
<1>2. CASE \E e \in Events, d \in Delays : Reports!RetryPause(e, d)
  <2>1. PICK d \in Delays : /\ pauseUntil' = Reports!Paused(pauseUntil, now + d)
                            /\ quietUntil' = Reports!MaxInt(quietUntil, now + d) /\ now' = now
    BY <1>2 DEF Reports!RetryPause
  <2>2. \A x \in Nat : Reports!AsInt(x) \in Int
    BY <1>1 DEF Reports!AsInt
  <2>3. \A x, y \in Nat : Reports!MaxInt(Reports!AsInt(x), Reports!AsInt(y)) \in Int
    BY <2>2 DEF Reports!MaxInt
  <2>4. \A x \in Int, m \in Nat \ {0} : x % m \in 0 .. m - 1
    OBVIOUS
  <2>5. 2 * Half \in Nat \ {0} /\ pauseUntil \in Nat /\ now + d \in Nat
    BY <1>1 DEF Numbers
  <2>6. pauseUntil' \in 0 .. 2 * Half - 1
    BY <2>1, <2>3, <2>4, <2>5 DEF Reports!Paused
  <2>7. QED
    BY <1>1, <2>1, <2>5, <2>6 DEF Numbers, Reports!MaxInt
<1>3. CASE Reports!Elapse
  BY <1>1, <1>3 DEF Reports!Elapse, Numbers
<1>4. CASE UNCHANGED <<pauseUntil, now, quietUntil>>
  BY <1>1, <1>4 DEF Numbers
<1>5. QED
  BY <1>2, <1>3, <1>4 DEF Reports!Next, Reports!Tick, Reports!Report, Reports!Answered, Reports!Flush,
     Reports!Post, Reports!AllPosted, Reports!RetryEnqueue, Reports!TickReturns, Reports!InstanceFree,
     Reports!Freed, Reports!vars

\* Nothing that happens to one event, or to the lists, breaks them.
LEMMA ReportKeeps == ASSUME ReportsInv, NEW e \in Events, Reports!Report(e), Numbers' PROVE ReportsInv'
<1>1. e \notin Range(order) \cup Range(flushed) \cup posted \cup done \cup {reply}
  <2>1. Reports!Walk(head, length) = order /\ Reports!Walk(list, Len(flushed)) = flushed
    BY WalkIs DEF ReportsInv, QueueInv, TickInv, Reports!TypeOK
  <2>2. QED
    BY <2>1, SameLists DEF Reports!Report, Reports!Queued
<1>2. Reports!Enqueue(e) /\ UNCHANGED <<max_events, list, flushed>>
  BY DEF Reports!Report
<1>3. /\ QueueInv' /\ (LinkedFrom(list, flushed))'
      /\ next' \in [Events -> Events \cup {Null}] /\ {head', tail'} \subseteq Events \cup {Null}
      /\ length' \in 0 .. max_events' /\ order' \in Seq(Events)
      /\ Range(order') = (Range(order) \ Reports!Dropped) \cup {e}
      /\ Reports!Dropped \subseteq Range(order)
  BY <1>1, <1>2, EnqueueKeeps, Zenon
<1>4. /\ done' = done \cup Reports!Dropped
      /\ UNCHANGED <<max_events, pc, list, reply, posted, flushed>>
  BY DEF Reports!Report
<1>5. Range(order) \subseteq Events
  BY MembersOf DEF ReportsInv, Reports!TypeOK
<1>6. Reports!TypeOK'
  BY <1>3, <1>4, <1>5 DEF ReportsInv, Reports!TypeOK, Numbers
<1>7. Apart'
  BY <1>1, <1>3, <1>4 DEF ReportsInv, Apart
<1>8. TickInv'
  BY <1>3, <1>4 DEF ReportsInv, TickInv
<1>9. QED
  BY <1>3, <1>6, <1>7, <1>8 DEF ReportsInv

LEMMA RetryKeeps == ReportsInv /\ Reports!RetryEnqueue /\ Numbers' => ReportsInv'
<1> SUFFICES ASSUME ReportsInv, Reports!RetryEnqueue, Numbers' PROVE ReportsInv'
  OBVIOUS
<1> DEFINE e == reply
<1>1. e \in Events /\ e \notin Range(order) \cup Range(flushed) \cup posted \cup done
  BY DEF ReportsInv, TickInv, Apart, Reports!TypeOK, Reports!RetryEnqueue
<1>2. Reports!Enqueue(e) /\ UNCHANGED <<max_events, list, flushed>>
  BY DEF Reports!RetryEnqueue
<1> HIDE DEF e
<1>3. /\ QueueInv' /\ (LinkedFrom(list, flushed))'
      /\ next' \in [Events -> Events \cup {Null}] /\ {head', tail'} \subseteq Events \cup {Null}
      /\ length' \in 0 .. max_events' /\ order' \in Seq(Events)
      /\ Range(order') = (Range(order) \ Reports!Dropped) \cup {e}
      /\ Reports!Dropped \subseteq Range(order)
  BY <1>1, <1>2, EnqueueKeeps
<1>4. /\ done' = done \cup Reports!Dropped /\ reply' = Null /\ pc = "requeue" /\ pc' = "http"
      /\ UNCHANGED <<max_events, list, posted, flushed>>
  BY DEF Reports!RetryEnqueue, Reports!Deleted
<1>5. Range(order) \subseteq Events /\ Range(flushed) \subseteq Events /\ Null \notin Events
  BY MembersOf, EventsAssumption DEF ReportsInv, Reports!TypeOK
<1>6. Reports!TypeOK'
  BY <1>3, <1>4, <1>5 DEF ReportsInv, Reports!TypeOK, Numbers
<1>7. Apart'
  <2>1. Null \notin posted \cup done \cup Range(order) \cup Range(flushed) \cup Range(order')
    BY <1>1, <1>3, <1>5 DEF ReportsInv, Reports!TypeOK
  <2>2. QED
    BY <1>1, <1>3, <1>4, <1>5, <2>1 DEF ReportsInv, Apart, e
<1>8. TickInv'
  BY <1>3, <1>4 DEF ReportsInv, TickInv
<1>9. QED
  BY <1>3, <1>6, <1>7, <1>8 DEF ReportsInv

LEMMA PostKeeps == ReportsInv /\ Reports!Post /\ Numbers' => ReportsInv'
<1> SUFFICES ASSUME ReportsInv, Reports!Post, Numbers' PROVE ReportsInv'
  OBVIOUS
<1> DEFINE n == Len(flushed)
<1>1. /\ flushed \in Seq(Events) /\ IsInjective(flushed) /\ LinkedFrom(list, flushed) /\ list # Null
      /\ flushed # <<>> /\ next \in [Events -> Events \cup {Null}]
  BY DEF ReportsInv, TickInv, Reports!TypeOK, Reports!Post, LinkedFrom
<1>2. /\ n \in Nat \ {0} /\ list = flushed[1] /\ list = Head(flushed) /\ list \in Events
      /\ Tail(flushed) \in Seq(Events) /\ Len(Tail(flushed)) = n - 1
      /\ \A i \in 1 .. n - 1 : Tail(flushed)[i] = flushed[i + 1]
  BY <1>1, ShiftOf DEF LinkedFrom
<1>3. /\ IsInjective(Tail(flushed)) /\ Range(flushed) = {list} \cup Range(Tail(flushed))
      /\ list \notin Range(Tail(flushed))
  BY <1>1, <1>2, TailOf
<1>4. LinkedFrom(next[list], Tail(flushed))
  <2>1. CASE n = 1
    <3>1. next[list] = Null
      BY <1>1, <1>2, <2>1 DEF LinkedFrom
    <3>2. Len(Tail(flushed)) = 0
      BY <1>2, <2>1
    <3>3. Tail(flushed) = <<>>
      BY <1>2, <3>2, EmptySeq
    <3>4. QED
      BY <3>1, <3>2, <3>3 DEF LinkedFrom
  <2>2. CASE n # 1
    <3>1. n - 1 \in Nat \ {0} /\ Tail(flushed) # <<>> /\ 1 \in 1 .. n - 1 /\ n - 1 \in 1 .. n - 1
      BY <1>2, <2>2
    <3>2. Tail(flushed)[1] = flushed[2] /\ Tail(flushed)[n - 1] = flushed[n] /\ next[list] = flushed[2]
      BY <1>1, <1>2, <3>1 DEF LinkedFrom
    <3>3. \A i \in 1 .. (n - 1) - 1 : next[Tail(flushed)[i]] = Tail(flushed)[i + 1]
      <4> TAKE i \in 1 .. (n - 1) - 1
      <4>1. i \in 1 .. n - 1 /\ i + 1 \in 1 .. n - 1
        BY <3>1
      <4>2. Tail(flushed)[i] = flushed[i + 1] /\ Tail(flushed)[i + 1] = flushed[(i + 1) + 1]
        BY <1>2, <4>1
      <4>3. QED
        BY <1>1, <4>1, <4>2 DEF LinkedFrom
    <3>4. QED
      BY <1>1, <1>2, <3>1, <3>2, <3>3 DEF LinkedFrom
  <2>3. QED
    BY <2>1, <2>2
<1>5. /\ list' = next[list] /\ flushed' = Tail(flushed) /\ pc = "post" /\ pc' = pc
      /\ \/ posted' = posted \cup {list} /\ done' = done
         \/ done' = done \cup {list} /\ posted' = posted
      /\ UNCHANGED <<max_events, next, head, tail, length, reply, order>>
  BY DEF Reports!Post, Reports!queue
<1>6. Reports!TypeOK'
  BY <1>1, <1>2, <1>5 DEF ReportsInv, Reports!TypeOK, Numbers
<1>7. QueueInv'
  BY <1>5 DEF ReportsInv, QueueInv, LinkedFrom
<1>8. TickInv'
  <2>1. (LinkedFrom(list, flushed))'
    BY <1>4, <1>5 DEF LinkedFrom
  <2>2. QED
    BY <1>3, <1>5, <2>1 DEF ReportsInv, TickInv
<1>9. Apart'
  <2>1. list \notin posted \cup {reply} \cup done /\ list \notin Range(order)
    BY <1>3 DEF ReportsInv, Apart
  <2>2. Range(flushed') = Range(flushed) \ {list} /\ Range(order') = Range(order)
    BY <1>3, <1>5
  <2>3. QED
    BY <1>5, <2>1, <2>2 DEF ReportsInv, Apart
<1>10. QED
  BY <1>6, <1>7, <1>8, <1>9 DEF ReportsInv

\* The queue is emptied, at the end into done.
LEMMA FlushKeeps == ReportsInv /\ (Reports!Flush \/ Reports!InstanceFree) /\ Numbers' => ReportsInv'
<1> SUFFICES ASSUME ReportsInv, Reports!Flush \/ Reports!InstanceFree, Numbers' PROVE ReportsInv'
  OBVIOUS
<1>1. /\ flushed = <<>> /\ pc = "idle" /\ list = Null /\ reply = Null /\ Null \notin Events
      /\ order \in Seq(Events) /\ Range(order) \subseteq Events
      /\ Range(<<>>) = {} /\ IsInjective(<<>>)
  BY MembersOf, EmptyList, EventsAssumption
     DEF ReportsInv, TickInv, LinkedFrom, Reports!TypeOK, Reports!Flush, Reports!InstanceFree
<1>2. CASE Reports!Flush
  <2>1. /\ UNCHANGED <<next, max_events, reply, posted, done>> /\ pc' = "post"
        /\ \/ /\ list' = head /\ flushed' = order /\ order' = <<>>
              /\ head' = Null /\ tail' = Null /\ length' = 0
           \/ UNCHANGED <<list, flushed, order, head, tail, length>>
    BY <1>2 DEF Reports!Flush, Reports!LengthAfterFlush
  <2>2. Reports!TypeOK'
    <3>1. {head, tail, list} \subseteq Events \cup {Null} /\ <<>> \in Seq(Events)
          /\ max_events \in Nat \ {0} /\ 0 \in 0 .. max_events
      BY SizeAssumption DEF ReportsInv, Reports!TypeOK
    <3>2. QED
      BY <1>1, <2>1, <3>1 DEF ReportsInv, Reports!TypeOK, Numbers
  <2>3. QueueInv' /\ TickInv' /\ Apart'
    BY <1>1, <2>1 DEF ReportsInv, QueueInv, TickInv, Apart, LinkedFrom
  <2>4. QED
    BY <2>2, <2>3 DEF ReportsInv
<1>3. CASE Reports!InstanceFree
  <2>0. Reports!Queued = Range(order)
    BY WalkIs, SameLists DEF ReportsInv, QueueInv, Reports!TypeOK, Reports!Queued
  <2>1. /\ UNCHANGED <<next, max_events, list, reply, posted, flushed>> /\ pc' = "freed"
        /\ done' = done \cup Range(order)
        /\ head' = Null /\ tail' = Null /\ length' = 0 /\ order' = <<>>
    BY <1>3, <2>0 DEF Reports!InstanceFree
  <2>2. Reports!TypeOK'
    BY <1>1, <2>1, SizeAssumption DEF ReportsInv, Reports!TypeOK, Numbers
  <2>3. QueueInv' /\ TickInv' /\ Apart'
    BY <1>1, <2>1 DEF ReportsInv, QueueInv, TickInv, Apart, LinkedFrom
  <2>4. QED
    BY <2>2, <2>3 DEF ReportsInv
<1>4. QED
  BY <1>2, <1>3

\* The http client answers, and the clock and the tick go on.
LEMMA AnswerKeeps ==
  ASSUME ReportsInv, Numbers', UNCHANGED <<max_events, next, head, tail, length, list, order, flushed>>,
         \/ /\ pc' \in {"idle", "post", "http", "freed"} /\ (pc' = pc \/ flushed = <<>>)
            /\ pc # "requeue" /\ UNCHANGED <<reply, posted, done>>
         \/ pc' = pc /\ UNCHANGED <<reply, posted, done>>
         \/ pc = "http" /\ pc' = pc /\ reply' = reply
            /\ \E e \in posted : posted' = posted \ {e} /\ done' = done \cup {e}
         \/ pc = "http" /\ pc' = "requeue" /\ done' = done
            /\ \E e \in posted : posted' = posted \ {e} /\ reply' = e
  PROVE  ReportsInv'
<1>1. posted \subseteq Events /\ Null \notin Events /\ (pc \in {"http", "requeue"} => flushed = <<>>)
  BY EventsAssumption DEF ReportsInv, TickInv, Reports!TypeOK
<1>2. Reports!TypeOK'
  BY <1>1 DEF ReportsInv, Reports!TypeOK, Numbers
<1>3. QueueInv' /\ (LinkedFrom(list, flushed))'
  BY DEF ReportsInv, QueueInv, TickInv, LinkedFrom
<1>4. TickInv'
  BY <1>1, <1>3 DEF ReportsInv, TickInv
<1>5. Apart'
  BY <1>1 DEF ReportsInv, TickInv, Apart
<1>6. QED
  BY <1>2, <1>3, <1>4, <1>5 DEF ReportsInv

\* Every step keeps the invariant.
LEMMA ReportsStep == ReportsInv /\ [Reports!Next]_(Reports!vars) => ReportsInv'
<1> SUFFICES ASSUME ReportsInv, [Reports!Next]_(Reports!vars) PROVE ReportsInv'
  OBVIOUS
<1>0. Numbers'
  BY NumbersKept
<1>1. ASSUME NEW e \in Events, Reports!Report(e) PROVE ReportsInv'
  BY <1>0, <1>1, ReportKeeps
<1>2. ASSUME NEW e \in Events, Reports!Answered(e) PROVE ReportsInv'
  BY <1>0, <1>2, AnswerKeeps DEF Reports!Answered, Reports!queue
<1>3. ASSUME NEW e \in Events, NEW d \in Delays, Reports!RetryPause(e, d) PROVE ReportsInv'
  BY <1>0, <1>3, AnswerKeeps DEF Reports!RetryPause, Reports!queue
<1>4. CASE Reports!AllPosted
  <2>1. flushed = <<>>
    <3>1. flushed # <<>> => list = flushed[1] /\ flushed[1] \in Events
      BY MembersOf DEF ReportsInv, TickInv, LinkedFrom, Reports!TypeOK
    <3>2. QED
      BY <1>4, <3>1, EventsAssumption DEF Reports!AllPosted
  <2>2. QED
    BY <1>0, <1>4, <2>1, AnswerKeeps DEF Reports!AllPosted, Reports!queue
<1>5. CASE Reports!TickReturns
  <2>1. flushed = <<>>
    BY <1>5 DEF ReportsInv, TickInv, Reports!TickReturns
  <2>2. QED
    BY <1>0, <1>5, <2>1, AnswerKeeps DEF Reports!TickReturns, Reports!queue
<1>6. CASE Reports!Elapse \/ Reports!Freed \/ UNCHANGED Reports!vars
  BY <1>0, <1>6, AnswerKeeps DEF Reports!Elapse, Reports!Freed, Reports!vars, Reports!queue
<1>7. QED
  BY <1>0, <1>1, <1>2, <1>3, <1>4, <1>5, <1>6, PostKeeps, FlushKeeps, RetryKeeps
     DEF Reports!Next, Reports!Tick

\* The invariant says that the lists are in order and events in one place.
LEMMA InvariantConserves == ReportsInv => EventsConserved
<1> SUFFICES ASSUME ReportsInv PROVE EventsConserved
  OBVIOUS
<1>1. /\ order \in Seq(Events) /\ flushed \in Seq(Events) /\ Null \notin Events
      /\ max_events \in Nat \ {0}
  BY SizeAssumption, EventsAssumption DEF ReportsInv, Reports!TypeOK
<1>2. Reports!Walk(head, length) = order /\ Reports!Walk(list, Len(flushed)) = flushed
  BY <1>1, WalkIs DEF ReportsInv, QueueInv, TickInv
<1>3. /\ length = 0 => head = Null /\ tail = Null
      /\ length > 0 => tail = Last(order) /\ next[tail] = Null
      /\ flushed = <<>> => list = Null
  BY <1>1 DEF ReportsInv, QueueInv, TickInv, LinkedFrom, Last
<1>4. IF Reports!Room.length = 0 THEN Reports!Room.head = Null /\ Reports!Room.tail = Null
                                 ELSE Reports!Room.tail # Null
  <2>1. /\ Kept \in Seq(Events) /\ Reports!Room.length = Len(Kept)
        /\ LinkedFrom(Reports!Room.head, Kept)
        /\ Reports!Room.tail = IF Kept = <<>> THEN Null ELSE Kept[Len(Kept)]
    BY KeptIs
  <2>2. QED
    BY <1>1, <2>1 DEF LinkedFrom
<1>5. Reports!ListsInOrder
  BY <1>2, <1>3, <1>4, SameLists DEF Reports!ListsInOrder
<1> DEFINE places == <<Range(order), Range(flushed), posted, {reply} \ {Null}, done>>
<1>6. \A i, j \in 1 .. 5 : i # j => places[i] \cap places[j] = {}
  BY DEF ReportsInv, Apart
<1>7. DOMAIN places = 1 .. 5
  OBVIOUS
<1> HIDE DEF places
<1>8. \A i, j \in DOMAIN places : i # j => places[i] \cap places[j] = {}
  BY <1>6, <1>7
<1>9. Reports!EventsConserved
  BY <1>5, <1>8, SameLists DEF ReportsInv, QueueInv, TickInv, Reports!EventsConserved, places
<1>10. QED
  BY <1>9 DEF EventsConserved

\* No event is sent twice, lost or used after it was deleted, whatever reporters,
\* ticks and answers do in between, for queues of any size (send_queue.c:44-84).
THEOREM EventsAreConserved == PartsSpec => []EventsConserved
<1>1. PartsInit => ReportsInv
  BY ReportsStart DEF PartsInit
<1>2. ReportsInv /\ [PartsNext]_<<part, vars, reportVars>> => ReportsInv'
  <2>1. [PartsNext]_<<part, vars, reportVars>> => [Reports!Next]_(Reports!vars)
    BY DEF PartsNext, reportVars, Reports!vars, Reports!queue
  <2>2. QED
    BY <2>1, ReportsStep
<1>3. QED
  BY <1>1, <1>2, InvariantConserves, PTL DEF PartsSpec


\* As long as seconds fit an int the pause is the time the servers asked for.
PauseInv == pauseUntil = quietUntil /\ quietUntil < Half

LEMMA PauseStep ==
  MaxTime <= Half /\ ReportsInv /\ PauseInv /\ [Reports!Next]_(Reports!vars) => PauseInv'
<1> SUFFICES ASSUME MaxTime <= Half, ReportsInv, PauseInv, [Reports!Next]_(Reports!vars)
             PROVE  PauseInv'
  OBVIOUS
<1>1. /\ pauseUntil \in Nat /\ now \in Nat /\ quietUntil \in Nat /\ Half \in Nat /\ MaxTime \in Nat
      /\ Half > 0 /\ Delays \subseteq Nat
  BY TimeAssumption DEF ReportsInv, Reports!TypeOK
<1>2. CASE \E e \in Events, d \in Delays : Reports!RetryPause(e, d)
  <2>1. PICK d \in Delays : /\ now + d < MaxTime
                            /\ pauseUntil' = Reports!Paused(pauseUntil, now + d)
                            /\ quietUntil' = Reports!MaxInt(quietUntil, now + d)
    BY <1>2 DEF Reports!RetryPause
  <2>2. now + d < Half /\ now + d \in Nat /\ pauseUntil < Half
    BY <1>1, <2>1 DEF PauseInv
  <2>3. Reports!AsInt(pauseUntil) = pauseUntil /\ Reports!AsInt(now + d) = now + d
    BY <2>2 DEF Reports!AsInt
  <2>4. /\ Reports!MaxInt(pauseUntil, now + d) \in Nat
        /\ Reports!MaxInt(pauseUntil, now + d) < Half
    BY <1>1, <2>2 DEF Reports!MaxInt
  <2>5. \A x, m \in Nat : x < m => x % m = x
    OBVIOUS
  <2>6. 2 * Half \in Nat /\ Reports!MaxInt(pauseUntil, now + d) < 2 * Half
    BY <1>1, <2>4
  <2>7. pauseUntil' = Reports!MaxInt(pauseUntil, now + d)
    BY <2>1, <2>3, <2>4, <2>5, <2>6 DEF Reports!Paused
  <2>8. QED
    BY <2>1, <2>4, <2>7 DEF PauseInv
<1>3. CASE UNCHANGED <<pauseUntil, quietUntil>>
  BY <1>3 DEF PauseInv
<1>4. QED
  BY <1>2, <1>3 DEF Reports!Next, Reports!Tick, Reports!Report, Reports!Answered, Reports!Flush,
     Reports!Post, Reports!AllPosted, Reports!RetryEnqueue, Reports!TickReturns, Reports!InstanceFree,
     Reports!Freed, Reports!Elapse, Reports!vars

\* A step that takes events from the queue finds the pause over.
LEMMA FlushWaits ==
  ASSUME ReportsInv, PauseInv, Reports!Next, flushed = <<>>, flushed' # <<>>
  PROVE  now > quietUntil
<1>1. ~Reports!Post
  BY EventsAssumption DEF ReportsInv, TickInv, LinkedFrom, Reports!Post
<1>2. CASE Reports!Flush
  BY <1>2 DEF Reports!Flush, Reports!MayFlush, PauseInv
<1>3. CASE UNCHANGED flushed
  BY <1>3
<1>4. QED
  BY <1>1, <1>2, <1>3 DEF Reports!Next, Reports!Tick, Reports!Report, Reports!Answered,
     Reports!RetryPause, Reports!AllPosted, Reports!RetryEnqueue, Reports!TickReturns,
     Reports!InstanceFree, Reports!Freed, Reports!Elapse, Reports!vars

\* Until 2038, when seconds no longer fit the int they pass through, nothing is
\* sent before the latest time a server asked to wait for (send_queue.c:112-117).
THEOREM PauseHolds == MaxTime <= Half => (PartsSpec => PauseIsKept)
<1> SUFFICES ASSUME MaxTime <= Half PROVE PartsSpec => PauseIsKept
  OBVIOUS
<1> DEFINE Inv == ReportsInv /\ PauseInv
<1>1. PartsInit => Inv
  BY ReportsStart, TimeAssumption DEF PartsInit, Reports!Init, PauseInv
<1>2. [PartsNext]_<<part, vars, reportVars>> => [Reports!Next]_(Reports!vars)
  BY DEF PartsNext, reportVars, Reports!vars, Reports!queue
<1>3. Inv /\ [PartsNext]_<<part, vars, reportVars>> => Inv'
  BY <1>2, ReportsStep, PauseStep
<1>4. Inv /\ [PartsNext]_<<part, vars, reportVars>>
        => [flushed' # <<>> /\ flushed = <<>> => now > quietUntil]_(Reports!vars)
  BY <1>2, FlushWaits
<1>5. QED
  BY <1>1, <1>3, <1>4, PTL DEF PartsSpec, PauseIsKept, Reports!PauseIsKept
=============================================================================
