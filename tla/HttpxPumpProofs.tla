-------------------------- MODULE HttpxPumpProofs --------------------------
(***************************************************************************)
(* The pump only works on requests whose handles the client still has, the *)
(* fragments of the pool are never given back twice or kept, and what they *)
(* carry comes to the callbacks in order and whole.                        *)
(***************************************************************************)
EXTENDS HttpxPump, ListLemmas

\* Requests whose transfer is over and not yet looked at.
Reported == {msgs[i].req : i \in DOMAIN msgs}

\* Requests the pump thread has or will get.
Working == Range(incoming) \cup multi \cup Reported \cup ({preq} \ {None})

PumpSpots == {"top", "perform", "header", "body", "info", "publish", "exited"}
TickSpots == {"idle", "detach", "fragments", "end", "complete", "join", "gone"}

\* Types, as far as the lists of requests need them.
ListsTyped ==
  /\ script \in [Requests -> Scripts] /\ fed \in [Requests -> Nat]
  /\ handles \in Seq(Requests) /\ IsInjective(handles)
  /\ incoming \in Seq(Requests) /\ IsInjective(incoming)
  /\ multi \subseteq Requests
  /\ msgs \in Seq([req : Requests, code : {"ok", "error"}])
  /\ ended \in [Requests -> BOOLEAN] /\ aborted \in [Requests -> BOOLEAN]
  /\ response \in [Requests -> {"none", "owned", "freed"}]
  /\ preq \in Requests \cup {None} /\ hnd \in Requests \cup {None} /\ nxt \in Requests \cup {None}
  /\ ppc \in PumpSpots /\ mpc \in TickSpots

\* A request is on its way to curl, at curl, reported by it or at the end of
\* its stream: in one of these places, and once.
OnePlace ==
  /\ Range(incoming) \cap multi = {}
  /\ Reported \cap (Range(incoming) \cup multi) = {}
  /\ \A i, j \in DOMAIN msgs : msgs[i].req = msgs[j].req => i = j
  /\ ppc \in {"header", "body"} => preq \in multi
  /\ ppc = "publish" => preq \in Requests \ (Range(incoming) \cup multi \cup Reported)
  /\ ppc \notin {"header", "body", "publish"} => preq = None

\* What the flag and the absence of a response say of the pump.
EndedInv ==
  \A r \in Requests :
    /\ ended[r] => r \notin Working
    /\ response[r] = "none" => r \notin Range(handles) /\ r \notin Working /\ ~ended[r]

\* Main walks the list of handles, and frees the one whose end it has seen.
WalkInv ==
  /\ mpc \in {"detach", "fragments", "end", "complete"} => hnd \in Range(handles)
  /\ mpc \in {"fragments", "end"} /\ sawEnd => ended[hnd]
  /\ mpc = "complete" => ended[hnd]
  /\ mpc \in {"idle", "detach", "join", "gone"} => nxt = None
  /\ nxt # None => nxt \in Range(handles) /\ nxt # hnd

HandlesInv ==
  /\ ListsTyped /\ OnePlace /\ EndedInv /\ WalkInv
  /\ mpc # "gone" => Working \subseteq Range(handles)


HandlesVars == <<script, fed, handles, incoming, multi, msgs, ended, aborted, response,
                 preq, hnd, nxt, ppc, mpc, sawEnd>>

-----------------------------------------------------------------------------
(* The places of requests. *)

\* At the beginning nothing was sent.
LEMMA InitHandlesInv == Init => HandlesInv
<1> SUFFICES ASSUME Init PROVE HandlesInv
  OBVIOUS
<1>1. Range(incoming) = {} /\ Range(handles) = {} /\ IsInjective(handles) /\ IsInjective(incoming)
  BY EmptyList DEF Init
<1>2. Reported = {} /\ Working = {}
  BY <1>1 DEF Init, Reported, Working
<1>3. ListsTyped
  BY <1>1 DEF Init, ListsTyped, PumpSpots, TickSpots
<1>4. QED
  BY <1>1, <1>2, <1>3 DEF Init, HandlesInv, OnePlace, EndedInv, WalkInv

\* Steps that touch no handle, request or flag.
LEMMA QuietSteps == HandlesInv /\ UNCHANGED HandlesVars => HandlesInv'
BY DEF HandlesVars, HandlesInv, ListsTyped, OnePlace, EndedInv, WalkInv, Working, Reported

\* Steps of the pump that end no stream and find their request where it works.
LEMMA PumpSteps ==
  ASSUME HandlesInv, ListsTyped', OnePlace', Working' \subseteq Working,
         UNCHANGED <<handles, ended, response, mpc, hnd, nxt, sawEnd>>
  PROVE  HandlesInv'
<1>1. EndedInv' /\ WalkInv' /\ (mpc # "gone" => Working \subseteq Range(handles))'
  BY DEF HandlesInv, EndedInv, WalkInv
<1>2. QED
  BY <1>1 DEF HandlesInv

\* Steps of main that leave the pump's requests alone.
LEMMA MainSteps ==
  ASSUME HandlesInv, UNCHANGED <<script, fed, incoming, multi, msgs, ppc, preq>>
  PROVE  OnePlace' /\ Working' = Working
BY DEF HandlesInv, OnePlace, Working, Reported

\* The types of what a step of main leaves alone.
LEMMA MainTypes ==
  ASSUME HandlesInv, UNCHANGED <<script, fed, incoming, multi, msgs, ended, ppc, preq>>,
         handles' \in Seq(Requests), IsInjective(handles'),
         aborted' \in [Requests -> BOOLEAN],
         response' \in [Requests -> {"none", "owned", "freed"}],
         hnd' \in Requests \cup {None}, nxt' \in Requests \cup {None}, mpc' \in TickSpots
  PROVE  ListsTyped'
BY DEF HandlesInv, ListsTyped

\* What the transfers ended by curl and the rest of a report's list are.
LEMMA ReportedWith ==
  ASSUME HandlesInv, NEW m \in [req : Requests, code : {"ok", "error"}],
         msgs' = Append(msgs, m)
  PROVE  /\ msgs' \in Seq([req : Requests, code : {"ok", "error"}])
         /\ Reported' = Reported \cup {m.req}
         /\ m.req \notin Reported => \A i, j \in DOMAIN msgs' : msgs'[i].req = msgs'[j].req => i = j
<1>1. /\ Len(msgs) \in Nat /\ DOMAIN msgs = 1 .. Len(msgs)
      /\ msgs' \in Seq([req : Requests, code : {"ok", "error"}])
      /\ Len(msgs') = Len(msgs) + 1 /\ DOMAIN msgs' = 1 .. Len(msgs) + 1
      /\ \A i \in 1 .. Len(msgs) : msgs'[i] = msgs[i]
      /\ msgs'[Len(msgs) + 1] = m
  BY DEF HandlesInv, ListsTyped
<1>2. \A i \in DOMAIN msgs' : i \in DOMAIN msgs \/ i = Len(msgs) + 1
  BY <1>1
<1>3. DOMAIN msgs \subseteq DOMAIN msgs' /\ Len(msgs) + 1 \in DOMAIN msgs'
  BY <1>1
<1>4. Reported' = Reported \cup {m.req}
  BY <1>1, <1>2, <1>3 DEF Reported
<1>5. ASSUME m.req \notin Reported
      PROVE  \A i, j \in DOMAIN msgs' : msgs'[i].req = msgs'[j].req => i = j
  <2>1. \A i \in DOMAIN msgs : msgs[i].req # m.req
    BY <1>5 DEF Reported
  <2>2. QED
    BY <1>1, <1>2, <2>1 DEF HandlesInv, OnePlace
<1>6. QED
  BY <1>1, <1>4, <1>5

\* The first report taken off the list.
LEMMA ReportedTail ==
  ASSUME HandlesInv, msgs # <<>>, msgs' = Tail(msgs)
  PROVE  /\ Head(msgs) \in [req : Requests, code : {"ok", "error"}]
         /\ msgs' \in Seq([req : Requests, code : {"ok", "error"}])
         /\ Reported = Reported' \cup {Head(msgs).req} /\ Head(msgs).req \notin Reported'
         /\ \A i, j \in DOMAIN msgs' : msgs'[i].req = msgs'[j].req => i = j
<1>1. /\ Len(msgs) \in Nat \ {0} /\ DOMAIN msgs = 1 .. Len(msgs)
      /\ Head(msgs) = msgs[1] /\ Head(msgs) \in [req : Requests, code : {"ok", "error"}]
      /\ msgs' \in Seq([req : Requests, code : {"ok", "error"}])
      /\ Len(msgs') = Len(msgs) - 1 /\ DOMAIN msgs' = 1 .. Len(msgs) - 1
      /\ \A i \in 1 .. Len(msgs) - 1 : msgs'[i] = msgs[i + 1]
  <2> DEFINE M == [req : Requests, code : {"ok", "error"}]
  <2>1. msgs \in Seq(M)
    BY DEF HandlesInv, ListsTyped
  <2> HIDE DEF M
  <2>2. QED
    BY <2>1, ShiftOf, Zenon DEF M
<1>2. \A i \in DOMAIN msgs' : i + 1 \in DOMAIN msgs /\ i + 1 # 1 /\ msgs'[i] = msgs[i + 1]
  BY <1>1
<1>3. 1 \in DOMAIN msgs /\ \A i \in DOMAIN msgs : i = 1 \/ (i - 1 \in DOMAIN msgs' /\ msgs'[i - 1] = msgs[i])
  BY <1>1
<1>4. \A i, j \in DOMAIN msgs : msgs[i].req = msgs[j].req => i = j
  BY DEF HandlesInv, OnePlace
<1>5. Head(msgs).req \notin Reported' /\ Reported' \subseteq Reported
  BY <1>1, <1>2, <1>3, <1>4 DEF Reported
<1>6. Reported \subseteq Reported' \cup {Head(msgs).req}
  <2>1. \A i \in DOMAIN msgs' : msgs'[i].req \in Reported'
    BY DEF Reported
  <2>2. \A i \in DOMAIN msgs : msgs[i].req \in Reported' \cup {Head(msgs).req}
    BY <1>1, <1>3, <2>1
  <2>3. QED
    BY <2>2 DEF Reported
<1>7. Head(msgs).req \in Reported
  BY <1>1, <1>3 DEF Reported
<1>8. \A i, j \in DOMAIN msgs' : msgs'[i].req = msgs'[j].req => i = j
  <2>1. \A i, j \in DOMAIN msgs' : msgs'[i].req = msgs'[j].req => i + 1 = j + 1
    BY <1>2, <1>4
  <2>2. QED
    BY <1>1, <2>1
<1>9. QED
  BY <1>1, <1>5, <1>6, <1>7, <1>8

-----------------------------------------------------------------------------
(* The pump thread. *)

\* Where a transfer given up by a callback, or ended by curl, goes.
LEMMA TransferEnds ==
  ASSUME HandlesInv, NEW r \in multi, NEW c \in {"ok", "error"},
         multi' = multi \ {r}, msgs' = Append(msgs, [req |-> r, code |-> c]),
         incoming' = incoming, preq' = None
  PROVE  /\ msgs' \in Seq([req : Requests, code : {"ok", "error"}])
         /\ Range(incoming') \cap multi' = {}
         /\ Reported' \cap (Range(incoming') \cup multi') = {}
         /\ \A i, j \in DOMAIN msgs' : msgs'[i].req = msgs'[j].req => i = j
         /\ Working' \subseteq Working
<1>1. r \in Requests /\ r \notin Reported /\ r \notin Range(incoming)
  BY DEF HandlesInv, ListsTyped, OnePlace
<1> DEFINE m == [req |-> r, code |-> c]
<1>2. m \in [req : Requests, code : {"ok", "error"}] /\ m.req = r /\ msgs' = Append(msgs, m)
  BY <1>1
<1> HIDE DEF m
<1>3. /\ msgs' \in Seq([req : Requests, code : {"ok", "error"}])
      /\ Reported' = Reported \cup {r}
      /\ \A i, j \in DOMAIN msgs' : msgs'[i].req = msgs'[j].req => i = j
  BY <1>1, <1>2, ReportedWith
<1>4. QED
  BY <1>1, <1>3 DEF HandlesInv, OnePlace, Working

\* The pump takes what the application has sent to curl.
LEMMA PumpCycleKeeps == HandlesInv /\ PumpCycle => HandlesInv'
<1> SUFFICES ASSUME HandlesInv, PumpCycle PROVE HandlesInv'
  OBVIOUS
<1>1. Range(incoming') = {} /\ IsInjective(incoming') /\ incoming' \in Seq(Requests) /\ Reported' = Reported
  BY EmptyList DEF PumpCycle, Reported
<1>2. Range(incoming) \subseteq Requests /\ preq = None /\ preq' = None
  BY DEF PumpCycle, HandlesInv, ListsTyped, OnePlace, Range
<1>3. ListsTyped'
  BY <1>1, <1>2 DEF PumpCycle, client, streams, pumpVars, mainVars, HandlesInv, ListsTyped, PumpSpots
<1>4. OnePlace'
  BY <1>1, <1>2 DEF PumpCycle, HandlesInv, OnePlace
<1>5. Working' \subseteq Working
  BY <1>1, <1>2 DEF PumpCycle, Working
<1>6. QED
  BY <1>3, <1>4, <1>5, PumpSteps DEF PumpCycle, client, streams, pumpVars, mainVars

\* Curl calls back for a request it transfers.
LEMMA ReceiveKeeps == ASSUME HandlesInv, NEW r \in Requests, Receive(r) PROVE HandlesInv'
<1>1. script[r][fed[r] + 1].kind \in {"header", "body"}
  <2>1. script[r] \in Scripts /\ fed[r] \in Nat /\ fed[r] < Len(script[r])
    BY DEF Receive, HandlesInv, ListsTyped
  <2>2. script[r] \in Seq([kind : {"header", "body"}, size : Nat])
    BY <2>1, ScriptsAssumption
  <2>3. fed[r] + 1 \in 1 .. Len(script[r])
    BY <2>1, <2>2
  <2>4. script[r][fed[r] + 1] \in [kind : {"header", "body"}, size : Nat]
    <3> DEFINE K == [kind : {"header", "body"}, size : Nat]
    <3>1. script[r] \in Seq(K)
      BY <2>2
    <3> HIDE DEF K
    <3>2. script[r][fed[r] + 1] \in K
      BY <2>3, <3>1
    <3>3. QED
      BY <3>2 DEF K
  <2>5. QED
    BY <2>4
<1>2. preq = None /\ preq' = r /\ r \in multi /\ ppc' \in {"header", "body"} /\ Reported' = Reported
  BY <1>1 DEF Receive, HandlesInv, OnePlace, Reported
<1>3. UNCHANGED <<script, msgs, incoming, multi, handles, ended, aborted, response,
                  mpc, hnd, nxt, sawEnd>>
  BY DEF Receive, client, mainVars
<1>4. fed' \in [Requests -> Nat]
  BY DEF Receive, HandlesInv, ListsTyped
<1>5. ListsTyped'
  BY <1>2, <1>3, <1>4 DEF HandlesInv, ListsTyped, PumpSpots
<1>6. OnePlace' /\ Working' \subseteq Working
  BY <1>2, <1>3 DEF HandlesInv, OnePlace, Working
<1>7. QED
  BY <1>3, <1>5, <1>6, PumpSteps

\* A callback returns: its request stays at curl, or is given up.
LEMMA ReturnedKeeps ==
  ASSUME HandlesInv, ppc \in {"header", "body"}, Returned,
         UNCHANGED <<script, fed, handles, incoming, ended, aborted, response, mpc, hnd, nxt, sawEnd>>
  PROVE  HandlesInv'
<1>1. preq \in multi /\ preq \in Requests /\ preq' = None /\ ppc' = "perform"
  BY DEF HandlesInv, ListsTyped, OnePlace, Returned
<1>2. CASE aborted[preq]
  <2>1. multi' = multi \ {preq} /\ msgs' = Append(msgs, [req |-> preq, code |-> "error"])
    BY <1>2 DEF Returned
  <2>2. /\ msgs' \in Seq([req : Requests, code : {"ok", "error"}])
        /\ Range(incoming') \cap multi' = {}
        /\ Reported' \cap (Range(incoming') \cup multi') = {}
        /\ \A i, j \in DOMAIN msgs' : msgs'[i].req = msgs'[j].req => i = j
        /\ Working' \subseteq Working
    BY <1>1, <2>1, TransferEnds
  <2>3. ListsTyped' /\ OnePlace'
    BY <1>1, <2>1, <2>2 DEF HandlesInv, ListsTyped, OnePlace, PumpSpots
  <2>4. QED
    BY <2>2, <2>3, PumpSteps
<1>3. CASE ~aborted[preq]
  <2>1. multi' = multi /\ msgs' = msgs /\ Reported' = Reported
    BY <1>3 DEF Returned, Reported
  <2>2. ListsTyped' /\ OnePlace' /\ Working' \subseteq Working
    BY <1>1, <2>1 DEF HandlesInv, ListsTyped, OnePlace, PumpSpots, Working
  <2>3. QED
    BY <2>2, PumpSteps
<1>4. QED
  BY <1>2, <1>3

\* The header callback returns.
LEMMA HeaderCopyKeeps == HandlesInv /\ HeaderCopy => HandlesInv'
BY ReturnedKeeps DEF HeaderCopy, client, mainVars

\* The body callback copies a piece, and returns after the last.
LEMMA BodyCopyKeeps == HandlesInv /\ BodyCopy => HandlesInv'
<1> SUFFICES ASSUME HandlesInv, BodyCopy PROVE HandlesInv'
  OBVIOUS
<1>1. UNCHANGED <<script, fed, handles, incoming, ended, aborted, response, mpc, hnd, nxt, sawEnd>>
  BY DEF BodyCopy, client, mainVars
<1>2. CASE Piece = Len(pleft)
  BY <1>1, <1>2, ReturnedKeeps DEF BodyCopy
<1>3. CASE Piece # Len(pleft)
  BY <1>1, <1>3, QuietSteps DEF BodyCopy, HandlesVars
<1>4. QED
  BY <1>2, <1>3

\* Curl ends a transfer and reports it.
LEMMA FinishKeeps == ASSUME HandlesInv, NEW r \in Requests, Finish(r) PROVE HandlesInv'
<1>1. PICK c \in {"ok", "error"} : msgs' = Append(msgs, [req |-> r, code |-> c])
  BY DEF Finish
<1>2. /\ r \in multi /\ multi' = multi \ {r} /\ preq = None /\ preq' = None /\ ppc = "perform" /\ ppc' = ppc
      /\ UNCHANGED <<script, fed, handles, incoming, ended, aborted, response, mpc, hnd, nxt, sawEnd>>
  BY DEF Finish, streams, client, pumpVars, mainVars, HandlesInv, OnePlace
<1>3. /\ msgs' \in Seq([req : Requests, code : {"ok", "error"}])
      /\ Range(incoming') \cap multi' = {}
      /\ Reported' \cap (Range(incoming') \cup multi') = {}
      /\ \A i, j \in DOMAIN msgs' : msgs'[i].req = msgs'[j].req => i = j
      /\ Working' \subseteq Working
  BY <1>1, <1>2, TransferEnds
<1>4. ListsTyped' /\ OnePlace'
  BY <1>2, <1>3 DEF HandlesInv, ListsTyped, OnePlace
<1>5. QED
  BY <1>2, <1>3, <1>4, PumpSteps

\* The pump goes from one place of its loop to the next.
LEMMA LoopKeeps == HandlesInv /\ (PumpExit \/ PerformReturns \/ NoInfo) => HandlesInv'
<1> SUFFICES ASSUME HandlesInv, PumpExit \/ PerformReturns \/ NoInfo PROVE HandlesInv'
  OBVIOUS
<1>1. /\ UNCHANGED <<script, fed, handles, incoming, multi, msgs, ended, aborted, response,
                     preq, hnd, nxt, mpc, sawEnd>>
      /\ ppc \in {"top", "perform", "info"} /\ ppc' \in {"exited", "info", "top"}
  BY DEF PumpExit, PerformReturns, NoInfo, transfer, streams, client, mainVars
<1>2. ListsTyped' /\ OnePlace' /\ Working' \subseteq Working
  BY <1>1 DEF HandlesInv, ListsTyped, OnePlace, PumpSpots, Working, Reported
<1>3. QED
  BY <1>1, <1>2, PumpSteps

\* The pump takes a report and keeps its request until the stream is ended.
LEMMA SetResultKeeps == HandlesInv /\ SetResult => HandlesInv'
<1> SUFFICES ASSUME HandlesInv, SetResult PROVE HandlesInv'
  OBVIOUS
<1>1. /\ UNCHANGED <<script, fed, handles, incoming, multi, ended, aborted, response,
                     hnd, nxt, mpc, sawEnd>>
      /\ ppc = "info" /\ ppc' = "publish" /\ preq = None /\ preq' = Head(msgs).req
      /\ msgs # <<>> /\ msgs' = Tail(msgs)
  BY DEF SetResult, streams, mainVars, HandlesInv, OnePlace
<1>2. /\ Head(msgs) \in [req : Requests, code : {"ok", "error"}]
      /\ msgs' \in Seq([req : Requests, code : {"ok", "error"}])
      /\ Reported = Reported' \cup {Head(msgs).req} /\ Head(msgs).req \notin Reported'
      /\ \A i, j \in DOMAIN msgs' : msgs'[i].req = msgs'[j].req => i = j
  BY <1>1, ReportedTail
<1>3. preq' \in Requests /\ preq' \in Reported /\ Reported' \subseteq Reported /\ preq' \notin Reported'
  BY <1>1, <1>2
<1>4. ListsTyped'
  BY <1>1, <1>2, <1>3 DEF HandlesInv, ListsTyped, PumpSpots
<1>5. OnePlace'
  BY <1>1, <1>2, <1>3 DEF HandlesInv, OnePlace
<1>6. Working' \subseteq Working
  BY <1>1, <1>3 DEF Working
<1>7. QED
  BY <1>1, <1>4, <1>5, <1>6, PumpSteps

\* The end of the stream: the pump lets go of the request it reports.
LEMMA PublishKeeps == HandlesInv /\ Publish => HandlesInv'
<1> SUFFICES ASSUME HandlesInv, Publish PROVE HandlesInv'
  OBVIOUS
<1>1. /\ UNCHANGED <<script, fed, handles, incoming, multi, msgs, aborted, response,
                     hnd, nxt, mpc, sawEnd>>
      /\ ppc = "publish" /\ ppc' = "info" /\ preq' = None /\ ended' = [ended EXCEPT ![preq] = TRUE]
  BY DEF Publish, transfer, client, mainVars
<1>2. preq \in Requests \ (Range(incoming) \cup multi \cup Reported) /\ preq # None
  BY <1>1, RequestsAssumption DEF HandlesInv, OnePlace
<1>3. Reported' = Reported /\ Range(incoming') = Range(incoming)
  BY <1>1 DEF Reported
<1>4. Working' \subseteq Working /\ preq \notin Working' /\ preq \in Working
  BY <1>1, <1>2, <1>3 DEF Working
<1>5. ListsTyped'
  BY <1>1 DEF HandlesInv, ListsTyped, PumpSpots
<1>6. OnePlace'
  BY <1>1, <1>3 DEF HandlesInv, OnePlace
<1>7. \A r \in Requests : ended'[r] = (ended[r] \/ r = preq)
  BY <1>1, <1>2 DEF HandlesInv, ListsTyped
<1>8. EndedInv'
  BY <1>1, <1>2, <1>4, <1>7 DEF HandlesInv, EndedInv
<1>9. Range(handles) \subseteq Requests
  BY DEF HandlesInv, ListsTyped, Range
<1>10. WalkInv'
  BY <1>1, <1>7, <1>9 DEF HandlesInv, WalkInv
<1>11. QED
  BY <1>1, <1>4, <1>5, <1>6, <1>8, <1>10 DEF HandlesInv


-----------------------------------------------------------------------------
(* The application and the owner's thread. *)

\* A new request is no one's yet: it is appended to the client's list and to
\* the pump's.
LEMMA SendKeeps == ASSUME HandlesInv, NEW r \in Requests, Send(r) PROVE HandlesInv'
<1>1. /\ UNCHANGED <<script, fed, multi, msgs, ended, aborted, preq, ppc, hnd, nxt, mpc, sawEnd>>
      /\ response[r] = "none" /\ response' = [response EXCEPT ![r] = "owned"]
      /\ handles' = Append(handles, r) /\ incoming' = Append(incoming, r)
      /\ mpc \in {"idle", "complete"}
  BY DEF Send, Outside, transfer, streams, pumpVars, mainVars
<1>2. r \notin Range(handles) /\ r \notin Working /\ ~ended[r] /\ r # None
  BY <1>1, RequestsAssumption DEF HandlesInv, EndedInv
<1>3. r \notin Range(incoming) /\ r \notin multi /\ r \notin Reported /\ r # preq
  BY <1>2 DEF Working
<1>4. /\ handles' \in Seq(Requests) /\ IsInjective(handles') /\ Range(handles') = Range(handles) \cup {r}
      /\ incoming' \in Seq(Requests) /\ IsInjective(incoming') /\ Range(incoming') = Range(incoming) \cup {r}
  BY <1>1, <1>2, <1>3, AppendOf DEF HandlesInv, ListsTyped
<1>5. Reported' = Reported
  BY <1>1 DEF Reported
<1>6. Working' = Working \cup {r}
  BY <1>1, <1>4, <1>5 DEF Working
<1>7. ListsTyped'
  BY <1>1, <1>4 DEF HandlesInv, ListsTyped
<1>8. OnePlace'
  BY <1>1, <1>3, <1>4, <1>5 DEF HandlesInv, OnePlace
<1>9. \A q \in Requests : response'[q] = IF q = r THEN "owned" ELSE response[q]
  BY <1>1 DEF HandlesInv, ListsTyped
<1>10. EndedInv'
  BY <1>1, <1>2, <1>4, <1>6, <1>9 DEF HandlesInv, EndedInv
<1>11. WalkInv'
  BY <1>1, <1>4 DEF HandlesInv, WalkInv
<1>12. QED
  BY <1>1, <1>4, <1>6, <1>7, <1>8, <1>10, <1>11 DEF HandlesInv

\* The application frees a response; the handle stays.
LEMMA ResponseFreeKeeps == ASSUME HandlesInv, NEW r \in Requests, ResponseFree(r) PROVE HandlesInv'
<1>1. /\ UNCHANGED <<script, fed, handles, incoming, multi, msgs, ended, aborted, preq, ppc,
                     hnd, nxt, mpc, sawEnd>>
      /\ response[r] = "owned" /\ response' = [response EXCEPT ![r] = "freed"]
  BY DEF ResponseFree, transfer, streams, pumpVars, mainVars
<1>2. \A q \in Requests : response'[q] = "none" => response[q] = "none"
  BY <1>1 DEF HandlesInv, ListsTyped
<1>3. OnePlace' /\ Working' = Working
  BY <1>1, MainSteps
<1>4. ListsTyped'
  BY <1>1 DEF HandlesInv, ListsTyped
<1>5. EndedInv' /\ WalkInv'
  BY <1>1, <1>2, <1>3 DEF HandlesInv, EndedInv, WalkInv
<1>6. QED
  BY <1>1, <1>3, <1>4, <1>5 DEF HandlesInv

\* Main goes on in its walk: what is left to show is where it is.
LEMMA WalkSteps ==
  ASSUME HandlesInv, WalkInv', mpc \notin {"gone"} \/ mpc' = "gone",
         UNCHANGED <<script, fed, handles, incoming, multi, msgs, ended, response, ppc, preq>>,
         aborted' \in [Requests -> BOOLEAN],
         hnd' \in Requests \cup {None}, nxt' \in Requests \cup {None}, mpc' \in TickSpots
  PROVE  HandlesInv'
<1>1. OnePlace' /\ Working' = Working
  BY MainSteps
<1>2. ListsTyped'
  BY DEF HandlesInv, ListsTyped
<1>3. EndedInv'
  BY <1>1 DEF HandlesInv, EndedInv
<1>4. QED
  BY <1>1, <1>2, <1>3 DEF HandlesInv

\* A tick starts at the first handle.
LEMMA TickBeginKeeps == HandlesInv /\ TickBegin => HandlesInv'
<1> SUFFICES ASSUME HandlesInv, TickBegin PROVE HandlesInv'
  OBVIOUS
<1>1. UNCHANGED <<script, fed, handles, incoming, multi, msgs, ended, response, aborted, ppc, preq, nxt>>
  BY DEF TickBegin, transfer, streams, client, pumpVars
<1>2. hnd' = Head(handles) /\ mpc = "idle" /\ mpc' = "detach" /\ handles # <<>>
  BY DEF TickBegin
<1>3. Head(handles) \in Requests /\ Head(handles) \in Range(handles)
  BY <1>2, TailOf DEF HandlesInv, ListsTyped
<1>4. WalkInv'
  BY <1>1, <1>2, <1>3 DEF HandlesInv, WalkInv
<1>5. QED
  BY <1>1, <1>2, <1>3, <1>4, WalkSteps DEF HandlesInv, ListsTyped, TickSpots

\* A handle of the list has a position, and its successor is another one.
LEMMA PositionOf ==
  ASSUME HandlesInv, NEW h \in Range(handles)
  PROVE  /\ Position(h) \in 1 .. Len(handles) /\ handles[Position(h)] = h
         /\ Successor(h) # None => Successor(h) \in Range(handles) /\ Successor(h) # h
<1>1. /\ handles \in Seq(Requests) /\ IsInjective(handles) /\ Len(handles) \in Nat
      /\ DOMAIN handles = 1 .. Len(handles)
  BY DEF HandlesInv, ListsTyped
<1>2. \E k \in DOMAIN handles : handles[k] = h
  BY DEF Range
<1>3. Position(h) \in DOMAIN handles /\ handles[Position(h)] = h
  BY <1>2 DEF Position
<1>4. ASSUME Successor(h) # None
      PROVE  Successor(h) \in Range(handles) /\ Successor(h) # h
  <2> DEFINE p == Position(h)
  <2>1. p \in 1 .. Len(handles) /\ p # Len(handles) /\ Successor(h) = handles[p + 1] /\ handles[p] = h
    BY <1>1, <1>3, <1>4 DEF Successor
  <2> HIDE DEF p
  <2>2. p + 1 \in DOMAIN handles /\ p \in DOMAIN handles /\ p # p + 1
    <3>1. \A n \in Nat : \A k \in 1 .. n : k # n => k + 1 \in 1 .. n /\ k # k + 1
      OBVIOUS
    <3>2. QED
      BY <1>1, <2>1, <3>1, Zenon
  <2>3. QED
    BY <1>1, <2>1, <2>2 DEF Range, IsInjective
<1>5. QED
  BY <1>1, <1>3, <1>4

\* A tick reads its successor and the flag of the handle it is at.
LEMMA DetachKeeps == HandlesInv /\ Detach => HandlesInv'
<1> SUFFICES ASSUME HandlesInv, Detach PROVE HandlesInv'
  OBVIOUS
<1>1. /\ UNCHANGED <<script, fed, handles, incoming, multi, msgs, ended, response, aborted, ppc, preq, hnd>>
      /\ mpc = "detach" /\ mpc' \in {"end", "fragments"}
      /\ nxt' = Successor(hnd) /\ sawEnd' = ended[hnd]
  BY DEF Detach, DetachReads, transfer, streams, client, pumpVars
<1>2. hnd \in Range(handles) /\ Range(handles) \subseteq Requests
  BY <1>1 DEF HandlesInv, WalkInv, ListsTyped, Range
<1>3. nxt' # None => nxt' \in Range(handles) /\ nxt' # hnd
  BY <1>1, <1>2, PositionOf
<1>4. WalkInv'
  BY <1>1, <1>2, <1>3 DEF WalkInv
<1>5. QED
  BY <1>1, <1>2, <1>3, <1>4, WalkSteps DEF HandlesInv, ListsTyped, TickSpots

\* A callback, the return of the fragments and on_complete.
LEMMA OneHandleKeeps ==
  HandlesInv /\ (Callback \/ FragmentsFree \/ OnComplete) => HandlesInv'
<1> SUFFICES ASSUME HandlesInv, Callback \/ FragmentsFree \/ OnComplete PROVE HandlesInv'
  OBVIOUS
<1>1. /\ UNCHANGED <<script, fed, handles, incoming, multi, msgs, ended, response, ppc, preq, hnd, nxt, sawEnd>>
      /\ \/ mpc = "fragments" /\ mpc' \in {"fragments", "end"}
         \/ mpc = "end" /\ mpc' = "complete" /\ sawEnd
  BY DEF Callback, FragmentsFree, OnComplete, transfer, streams, client, pumpVars
<1>2. aborted' \in [Requests -> BOOLEAN]
  BY DEF Callback, FragmentsFree, OnComplete, client, HandlesInv, ListsTyped
<1>3. WalkInv'
  BY <1>1 DEF HandlesInv, WalkInv
<1>4. QED
  BY <1>1, <1>2, <1>3, WalkSteps DEF HandlesInv, ListsTyped, TickSpots

\* A tick goes on to the next handle.
LEMMA TickOngoingKeeps == HandlesInv /\ TickOngoing => HandlesInv'
<1> SUFFICES ASSUME HandlesInv, TickOngoing PROVE HandlesInv'
  OBVIOUS
<1>1. /\ UNCHANGED <<script, fed, handles, incoming, multi, msgs, ended, response, aborted, ppc, preq, sawEnd>>
      /\ mpc = "end" /\ hnd' = nxt /\ nxt' = None /\ mpc' = IF nxt = None THEN "idle" ELSE "detach"
  BY DEF TickOngoing, NextHandle, transfer, streams, client, pumpVars
<1>2. WalkInv'
  BY <1>1 DEF HandlesInv, WalkInv
<1>3. QED
  BY <1>1, <1>2, WalkSteps DEF HandlesInv, ListsTyped, TickSpots

\* A handle is freed: its stream has ended, so the pump has no use for it.
LEMMA FreeHandleKeeps == HandlesInv /\ FreeHandle => HandlesInv'
<1> SUFFICES ASSUME HandlesInv, FreeHandle PROVE HandlesInv'
  OBVIOUS
<1>1. /\ UNCHANGED <<script, fed, incoming, multi, msgs, ended, response, aborted, ppc, preq>>
      /\ mpc = "complete" /\ hnd' = nxt /\ nxt' = None /\ mpc' = IF nxt = None THEN "idle" ELSE "detach"
      /\ handles' = RemoveAt(handles, Position(hnd))
  BY DEF FreeHandle, NextHandle, transfer, pumpVars
<1>2. hnd \in Range(handles) /\ ended[hnd] /\ hnd \in Requests
  BY <1>1 DEF HandlesInv, WalkInv, ListsTyped, Range
<1>3. Position(hnd) \in 1 .. Len(handles) /\ handles[Position(hnd)] = hnd
  BY <1>2, PositionOf
<1>4. /\ handles' \in Seq(Requests) /\ IsInjective(handles')
      /\ Range(handles') = Range(handles) \ {hnd}
  <2>1. handles \in Seq(Requests) /\ IsInjective(handles)
    BY DEF HandlesInv, ListsTyped
  <2>2. QED
    BY <1>1, <1>3, <2>1, RemovedOf
<1>5. OnePlace' /\ Working' = Working
  BY <1>1, MainSteps
<1>6. ListsTyped'
  BY <1>1, <1>4 DEF HandlesInv, ListsTyped, TickSpots
<1>7. hnd \notin Working /\ response[hnd] # "none"
  BY <1>2 DEF HandlesInv, EndedInv
<1>8. EndedInv'
  BY <1>1, <1>4, <1>5 DEF HandlesInv, EndedInv
<1>9. WalkInv'
  BY <1>1, <1>4 DEF HandlesInv, WalkInv
<1>10. Working \subseteq Range(handles')
  BY <1>1, <1>4, <1>7 DEF HandlesInv
<1>11. QED
  BY <1>5, <1>6, <1>8, <1>9, <1>10 DEF HandlesInv

\* The client is being freed; its handles are still there.
LEMMA ClientFreeKeeps == HandlesInv /\ ClientFree => HandlesInv'
<1> SUFFICES ASSUME HandlesInv, ClientFree PROVE HandlesInv'
  OBVIOUS
<1>1. /\ UNCHANGED <<script, fed, handles, incoming, multi, msgs, ended, response, aborted, ppc, preq,
                     hnd, nxt, sawEnd>>
      /\ mpc = "idle" /\ mpc' = "join"
  BY DEF ClientFree, transfer, streams, pumpVars
<1>2. WalkInv'
  BY <1>1 DEF HandlesInv, WalkInv
<1>3. QED
  BY <1>1, <1>2, WalkSteps DEF HandlesInv, ListsTyped, TickSpots

\* The pump is joined: what it had was left to it, and it does no more.
LEMMA JoinedKeeps == HandlesInv /\ Joined => HandlesInv'
<1> SUFFICES ASSUME HandlesInv, Joined PROVE HandlesInv'
  OBVIOUS
<1>1. /\ UNCHANGED <<script, fed, incoming, multi, msgs, ended, response, aborted, ppc, preq,
                     hnd, nxt, sawEnd>>
      /\ mpc = "join" /\ mpc' = "gone" /\ handles' = <<>>
  BY DEF Joined, transfer, streams, pumpVars
<1>2. Range(handles') = {} /\ IsInjective(handles') /\ handles' \in Seq(Requests)
  BY <1>1, EmptyList
<1>3. OnePlace' /\ Working' = Working
  BY <1>1, MainSteps
<1>4. ListsTyped'
  BY <1>1, <1>2 DEF HandlesInv, ListsTyped, TickSpots
<1>5. EndedInv' /\ WalkInv'
  BY <1>1, <1>2, <1>3 DEF HandlesInv, EndedInv, WalkInv
<1>6. QED
  BY <1>1, <1>3, <1>4, <1>5 DEF HandlesInv

-----------------------------------------------------------------------------

\* Every step keeps the places of requests.
LEMMA NextKeepsHandlesInv == HandlesInv /\ [Next]_vars => HandlesInv'
<1> SUFFICES ASSUME HandlesInv, [Next]_vars PROVE HandlesInv'
  OBVIOUS
<1>1. ASSUME NEW r \in Requests, Send(r) \/ ResponseFree(r) \/ Curl(r) PROVE HandlesInv'
  BY <1>1, SendKeeps, ResponseFreeKeeps, ReceiveKeeps, FinishKeeps DEF Curl
<1>2. CASE PumpCycle
  BY <1>2, PumpCycleKeeps
<1>3. CASE HeaderFragment \/ BodyFlush \/ BodyFragment
  BY <1>3, QuietSteps DEF HeaderFragment, BodyFlush, BodyFragment, HandlesVars,
       transfer, client, pumpVars, mainVars
<1>4. CASE HeaderCopy \/ BodyCopy
  BY <1>4, HeaderCopyKeeps, BodyCopyKeeps
<1>5. CASE PumpExit \/ PerformReturns \/ NoInfo
  BY <1>5, LoopKeeps
<1>6. CASE SetResult \/ Publish
  BY <1>6, SetResultKeeps, PublishKeeps
<1>7. CASE Tick
  BY <1>7, TickBeginKeeps, DetachKeeps, OneHandleKeeps, TickOngoingKeeps, FreeHandleKeeps DEF Tick
<1>8. CASE ClientFree \/ Joined
  BY <1>8, ClientFreeKeeps, JoinedKeeps
<1>9. CASE Gone \/ UNCHANGED vars
  BY <1>9, QuietSteps DEF Gone, vars, HandlesVars, transfer, streams, client, pumpVars, mainVars
<1>10. QED
  BY <1>1, <1>2, <1>3, <1>4, <1>5, <1>6, <1>7, <1>8, <1>9 DEF Next, Pump

\* The pump works on a request only while its handle is in the client's list
\* (adk_httpx_network_pump.c:266-312 against free_handle): for any number of
\* requests, however ticks, sends from callbacks and transfers interleave.
THEOREM HandlesOutliveTransfers == Spec => []PumpTouchesLiveHandles
<1>1. HandlesInv => PumpTouchesLiveHandles
  BY DEF HandlesInv, PumpTouchesLiveHandles, Working, Reported
<1>2. QED
  BY InitHandlesInv, NextKeepsHandlesInv, <1>1, PTL DEF Spec


-----------------------------------------------------------------------------
(* The fragments. *)

Unit == Nat \X Nat
Data == {f \in Seq(Unit) : Len(f) <= Capacity}

\* Types of what the fragments are in.  A batch is detached only while it is
\* shown, and a request has at most one fragment for its body.
StreamsTyped ==
  /\ chain \in [Requests -> Seq(Data)] /\ out \in [Requests -> Seq(Data)]
  /\ active \in [Requests -> Seq(Data)] /\ \A r \in Requests : Len(active[r]) <= 1
  /\ batch \in Seq(Data) /\ (mpc # "fragments" => batch = <<>>)
  /\ pleft \in Seq(Unit)
  /\ free \in Nat /\ lost \in Nat

FlagsTyped ==
  /\ \A r \in Requests : fed[r] <= Len(script[r])
  /\ result \in [Requests -> {"ok", "error"}] /\ completed \in [Requests -> BOOLEAN]
  /\ running \in BOOLEAN /\ sawEnd \in BOOLEAN

FragInv ==
  StreamsTyped /\ free + Len(batch) + lost + Cardinality(FragmentsInUse) = Fragments

\* Lists of fragments have a length.
LEMMA LengthIsNat == \A q \in Seq(Data) : Len(q) \in Nat
OBVIOUS

\* Sums of lengths.
LEMMA ThreeLengths == \A a, b, c \in Seq(Data) : Len(a) + Len(b) + Len(c) \in Nat
OBVIOUS

\* What a request has is a number, and the set of all of it is finite.
LEMMA UseOf ==
  ASSUME StreamsTyped
  PROVE  /\ [r \in Requests |-> InUse(r)] \in [Requests -> Nat]
         /\ FragmentsInUse = Piles(Requests, [r \in Requests |-> InUse(r)])
         /\ Cardinality(FragmentsInUse) \in Nat
<1>1. ASSUME NEW r \in Requests PROVE InUse(r) \in Nat
  <2>1. chain[r] \in Seq(Data) /\ active[r] \in Seq(Data) /\ out[r] \in Seq(Data)
    BY DEF StreamsTyped
  <2>2. QED
    BY <2>1, ThreeLengths, Zenon DEF InUse
<1>2. FragmentsInUse = Piles(Requests, [r \in Requests |-> InUse(r)])
  BY DEF FragmentsInUse, Piles
<1>3. [r \in Requests |-> InUse(r)] \in [Requests -> Nat]
  BY <1>1
<1>4. Cardinality(Piles(Requests, [r \in Requests |-> InUse(r)])) \in Nat
  BY <1>3, RequestsAssumption, PilesFinite
<1>5. QED
  BY <1>2, <1>3, <1>4

\* One request has more or less than before.
LEMMA UseChanges ==
  ASSUME StreamsTyped, StreamsTyped', NEW x \in Requests,
         \A y \in Requests \ {x} : chain'[y] = chain[y] /\ active'[y] = active[y] /\ out'[y] = out[y]
  PROVE  Cardinality(FragmentsInUse') + (Len(chain[x]) + Len(active[x]) + Len(out[x]))
           = Cardinality(FragmentsInUse) + (Len(chain'[x]) + Len(active'[x]) + Len(out'[x]))
<1> DEFINE n == [r \in Requests |-> Len(chain[r]) + Len(active[r]) + Len(out[r])]
           m == [r \in Requests |-> Len(chain'[r]) + Len(active'[r]) + Len(out'[r])]
<1>1. n \in [Requests -> Nat] /\ FragmentsInUse = Piles(Requests, n) /\ Cardinality(FragmentsInUse) \in Nat
  BY UseOf DEF InUse
<1>2. m \in [Requests -> Nat] /\ FragmentsInUse' = Piles(Requests, m) /\ Cardinality(FragmentsInUse') \in Nat
  <2>1. (StreamsTyped => [r \in Requests |-> InUse(r)] \in [Requests -> Nat]
           /\ FragmentsInUse = Piles(Requests, [r \in Requests |-> InUse(r)])
           /\ Cardinality(FragmentsInUse) \in Nat)'
    BY UseOf, PTL
  <2>2. QED
    BY <2>1 DEF InUse
<1>3. \A y \in Requests \ {x} : m[y] = n[y]
  OBVIOUS
<1>4. n[x] = Len(chain[x]) + Len(active[x]) + Len(out[x])
  OBVIOUS
<1>5. m[x] = Len(chain'[x]) + Len(active'[x]) + Len(out'[x])
  OBVIOUS
<1> HIDE DEF n, m
<1>6. Cardinality(Piles(Requests, m)) = Cardinality(Piles(Requests, n)) - n[x] + m[x]
  BY <1>1, <1>2, <1>3, RequestsAssumption, PileChanges
<1>7. n[x] \in Nat /\ m[x] \in Nat
  BY <1>1, <1>2
<1> DEFINE c == Cardinality(FragmentsInUse)
           d == Cardinality(FragmentsInUse')
<1>8. c \in Nat /\ d \in Nat /\ d = c - n[x] + m[x]
  BY <1>1, <1>2, <1>6
<1> HIDE DEF c, d
<1>9. d + n[x] = c + m[x]
  BY <1>7, <1>8
<1>10. QED
  BY <1>4, <1>5, <1>9, Zenon DEF c, d

\* Nothing was made use of at first.
LEMMA InitFragInv == Init => FragInv
<1> SUFFICES ASSUME Init PROVE FragInv
  OBVIOUS
<1>1. <<>> \in Seq(Data) /\ <<>> \in Seq(Unit) /\ Len(<<>>) = 0
  OBVIOUS
<1>2. StreamsTyped
  BY <1>1, SizesAssumption DEF Init, StreamsTyped
<1>3. \A r \in Requests : InUse(r) = 0
  BY DEF Init, InUse
<1>4. Cardinality(FragmentsInUse) = 0
  <2>1. \A r \in Requests : [q \in Requests |-> InUse(q)][r] = 0
    BY <1>3
  <2>2. QED
    BY <1>2, <2>1, UseOf, PilesEmpty
<1>5. QED
  BY <1>2, <1>4, SizesAssumption DEF Init, FragInv

\* Steps that move no fragment keep the count.
LEMMA FragmentsStay ==
  ASSUME FragInv, StreamsTyped', UNCHANGED <<chain, active, out, free, lost>>, Len(batch') = Len(batch)
  PROVE  FragInv'
<1>1. FragmentsInUse' = FragmentsInUse
  BY DEF FragmentsInUse, InUse
<1>2. QED
  BY <1>1 DEF FragInv

\* Steps that move the fragments of one request.
LEMMA FragmentsMove ==
  ASSUME FragInv, StreamsTyped', NEW x \in Requests,
         \A y \in Requests \ {x} : chain'[y] = chain[y] /\ active'[y] = active[y] /\ out'[y] = out[y],
         free' + Len(batch') + lost' + (Len(chain'[x]) + Len(active'[x]) + Len(out'[x]))
           = free + Len(batch) + lost + (Len(chain[x]) + Len(active[x]) + Len(out[x]))
  PROVE  FragInv'
<1> DEFINE u == Len(chain[x]) + Len(active[x]) + Len(out[x])
           v == Len(chain'[x]) + Len(active'[x]) + Len(out'[x])
<1>1. Cardinality(FragmentsInUse') + u = Cardinality(FragmentsInUse) + v
  BY UseChanges, Zenon DEF FragInv
<1>2. free \in Nat /\ lost \in Nat /\ Len(batch) \in Nat
  BY LengthIsNat DEF FragInv, StreamsTyped
<1>3. free' \in Nat /\ lost' \in Nat /\ Len(batch') \in Nat
  BY LengthIsNat DEF StreamsTyped
<1>4. u \in Nat /\ v \in Nat
  BY ThreeLengths DEF FragInv, StreamsTyped
<1>5. Cardinality(FragmentsInUse) \in Nat /\ Cardinality(FragmentsInUse') \in Nat
  <2>1. (StreamsTyped => Cardinality(FragmentsInUse) \in Nat)'
    BY UseOf, PTL
  <2>2. QED
    BY <2>1, UseOf DEF FragInv
<1>6. free + Len(batch) + lost + Cardinality(FragmentsInUse) = Fragments
  BY DEF FragInv
<1>7. free' + Len(batch') + lost' + v = free + Len(batch) + lost + u
  OBVIOUS
<1> HIDE DEF u, v
<1>8. free + Len(batch) + lost \in Nat /\ free' + Len(batch') + lost' \in Nat
  <2>1. \A i, j, k \in Nat : i + j + k \in Nat
    OBVIOUS
  <2>2. QED
    BY <1>2, <1>3, <2>1, Zenon
<1> DEFINE s == free + Len(batch) + lost
           t == free' + Len(batch') + lost'
           m == Cardinality(FragmentsInUse)
           n == Cardinality(FragmentsInUse')
<1>9. s \in Nat /\ t \in Nat /\ m \in Nat /\ n \in Nat /\ n + u = m + v /\ s + m = Fragments /\ t + v = s + u
  BY <1>1, <1>5, <1>6, <1>7, <1>8, Zenon
<1> HIDE DEF s, t, m, n
<1>10. t + n = Fragments
  <2>1. t + n = s + m
    BY <1>4, <1>9
  <2>2. QED
    BY <1>9, <2>1, Zenon
<1>11. QED
  BY <1>10, Zenon DEF FragInv, t, n

\* Steps that touch no fragment at all.
LEMMA FragmentsKept ==
  ASSUME FragInv, UNCHANGED <<chain, active, out, batch, free, lost>>, pleft' \in Seq(Unit),
         mpc' = "fragments" => mpc = "fragments", mpc = "fragments" => mpc' = "fragments"
  PROVE  FragInv'
<1>1. StreamsTyped'
  BY DEF FragInv, StreamsTyped
<1>2. QED
  BY <1>1, FragmentsStay

\* The request the pump has, and the handle main is at.
LEMMA PumpHas == HandlesInv /\ ppc \in {"header", "body", "publish"} => preq \in Requests
BY DEF HandlesInv, OnePlace, ListsTyped

\* The handle that main is at is a request.
LEMMA MainHas == HandlesInv /\ mpc \in {"detach", "fragments", "end", "complete"} => hnd \in Requests
BY DEF HandlesInv, WalkInv, ListsTyped, Range

\* Lists of fragments: put together, extended, with a new last one.
LEMMA FragmentLists ==
  /\ \A a, b \in Seq(Data) : a \o b \in Seq(Data) /\ Len(a \o b) = Len(a) + Len(b)
  /\ \A a \in Seq(Data) : \A f \in Data : Append(a, f) \in Seq(Data) /\ Len(Append(a, f)) = Len(a) + 1
  /\ \A f \in Data : <<f>> \in Seq(Data) /\ Len(<<f>>) = 1
  /\ <<>> \in Seq(Data) /\ Len(<<>>) = 0
  /\ \A a \in Seq(Data) : a # <<>> =>
       /\ Last(a) \in Data /\ Head(a) \in Data /\ Front(a) \in Seq(Data)
       /\ Len(a) \in Nat \ {0} /\ Len(Front(a)) = Len(a) - 1 /\ a[1] \in Data
<1>1. ASSUME NEW a \in Seq(Data), a # <<>>
      PROVE  /\ Last(a) \in Data /\ Head(a) \in Data /\ Front(a) \in Seq(Data)
             /\ Len(a) \in Nat \ {0} /\ Len(Front(a)) = Len(a) - 1 /\ a[1] \in Data
  <2>1. Len(a) \in Nat \ {0} /\ \A i \in 1 .. Len(a) : a[i] \in Data
    BY <1>1
  <2>2. Last(a) \in Data /\ Head(a) \in Data /\ a[1] \in Data
    BY <2>1 DEF Last
  <2>3. Front(a) \in Seq(Data) /\ Len(Front(a)) = Len(a) - 1
    <3>1. \A n \in 0 .. Len(a) : SubSeq(a, 1, n) \in Seq(Data) /\ Len(SubSeq(a, 1, n)) = n
      BY <2>1
    <3>2. Len(a) - 1 \in 0 .. Len(a)
      BY <2>1
    <3>3. QED
      BY <3>1, <3>2, Zenon DEF Front
  <2>4. QED
    BY <2>1, <2>2, <2>3
<1>2. QED
  BY <1>1

\* The empty fragment is one.
LEMMA EmptyFragment == <<>> \in Data /\ <<>> \in Seq(Unit)
BY SizesAssumption DEF Data

\* The body callback first links the header chain to the list.
LEMMA ReceiveFragments ==
  ASSUME HandlesInv, FragInv, NEW r \in Requests, Receive(r) PROVE FragInv'
<1>1. Units(r, fed[r] + 1) \in Seq(Unit)
  <2>1. script[r] \in Scripts /\ fed[r] \in Nat /\ fed[r] < Len(script[r])
    BY DEF Receive, HandlesInv, ListsTyped
  <2> DEFINE K == [kind : {"header", "body"}, size : Nat]
  <2>2. script[r] \in Seq(K)
    BY <2>1, ScriptsAssumption
  <2>3. fed[r] + 1 \in 1 .. Len(script[r]) /\ fed[r] + 1 \in Nat
    BY <2>1, <2>2
  <2> HIDE DEF K
  <2>4. script[r][fed[r] + 1] \in K
    BY <2>2, <2>3
  <2>5. script[r][fed[r] + 1].size \in Nat
    BY <2>4 DEF K
  <2>6. Units(r, fed[r] + 1) \in [1 .. script[r][fed[r] + 1].size -> Unit]
    BY <2>3 DEF Units, Unit
  <2>7. QED
    BY <2>5, <2>6
<1>2. /\ pleft' \in Seq(Unit) /\ UNCHANGED <<active, batch, free, lost, mpc>>
      /\ chain[r] \in Seq(Data) /\ out[r] \in Seq(Data)
  BY <1>1 DEF Receive, mainVars, FragInv, StreamsTyped
<1>3. CASE ppc' = "body" /\ chain[r] # <<>>
  <2>1. /\ out' = [out EXCEPT ![r] = out[r] \o chain[r]]
        /\ chain' = [chain EXCEPT ![r] = <<>>]
    BY <1>3 DEF Receive
  <2>2. out[r] \o chain[r] \in Seq(Data) /\ Len(out[r] \o chain[r]) = Len(out[r]) + Len(chain[r])
        /\ <<>> \in Seq(Data) /\ Len(<<>>) = 0
    BY <1>2, FragmentLists
  <2>3. StreamsTyped'
    BY <1>2, <2>1, <2>2 DEF FragInv, StreamsTyped
  <2>4. /\ chain'[r] = <<>> /\ out'[r] = out[r] \o chain[r] /\ active'[r] = active[r]
        /\ \A y \in Requests \ {r} : chain'[y] = chain[y] /\ active'[y] = active[y] /\ out'[y] = out[y]
    BY <1>2, <2>1 DEF FragInv, StreamsTyped
  <2>5. Len(chain'[r]) = 0 /\ Len(active'[r]) = Len(active[r]) /\ Len(out'[r]) = Len(out[r]) + Len(chain[r])
    BY <2>2, <2>4
  <2>6. Len(chain'[r]) + Len(active'[r]) + Len(out'[r]) = Len(chain[r]) + Len(active[r]) + Len(out[r])
    BY <2>3, <2>5 DEF FragInv, StreamsTyped
  <2>7. QED
    BY <1>2, <2>3, <2>4, <2>6, FragmentsMove, Zenon
<1>4. CASE ~(ppc' = "body" /\ chain[r] # <<>>)
  <2>1. UNCHANGED <<chain, out>>
    BY <1>4 DEF Receive
  <2>2. QED
    BY <1>2, <2>1, FragmentsKept
<1>5. QED
  BY <1>3, <1>4


\* A fragment off the free list, at the end of the header chain.
LEMMA HeaderFragmentFragments == HandlesInv /\ FragInv /\ HeaderFragment => FragInv'
<1> SUFFICES ASSUME HandlesInv, FragInv, HeaderFragment PROVE FragInv'
  OBVIOUS
<1>1. PICK r \in Requests : r = preq
  BY PumpHas DEF HeaderFragment
<1>2. /\ UNCHANGED <<active, out, batch, lost, pleft, mpc>> /\ free' = free - 1 /\ free > 0
      /\ chain' = [chain EXCEPT ![r] = Append(chain[r], <<>>)]
  BY <1>1 DEF HeaderFragment, mainVars, pumpVars
<1>3. chain[r] \in Seq(Data) /\ free \in Nat /\ lost \in Nat /\ batch \in Seq(Data)
  BY DEF FragInv, StreamsTyped
<1>4. Append(chain[r], <<>>) \in Seq(Data) /\ Len(Append(chain[r], <<>>)) = Len(chain[r]) + 1
  BY <1>3, EmptyFragment, FragmentLists
<1>5. StreamsTyped' /\ free' \in Nat
  BY <1>2, <1>3, <1>4 DEF FragInv, StreamsTyped
<1>6. /\ chain'[r] = Append(chain[r], <<>>) /\ active'[r] = active[r] /\ out'[r] = out[r]
      /\ \A y \in Requests \ {r} : chain'[y] = chain[y] /\ active'[y] = active[y] /\ out'[y] = out[y]
  BY <1>2 DEF FragInv, StreamsTyped
<1>7. Len(chain'[r]) = Len(chain[r]) + 1 /\ Len(active'[r]) = Len(active[r]) /\ Len(out'[r]) = Len(out[r])
  BY <1>4, <1>6
<1>8. free' + Len(batch') + lost' + (Len(chain'[r]) + Len(active'[r]) + Len(out'[r]))
        = free + Len(batch) + lost + (Len(chain[r]) + Len(active[r]) + Len(out[r]))
  BY <1>2, <1>3, <1>5, <1>7, LengthIsNat DEF FragInv, StreamsTyped
<1>9. QED
  BY <1>5, <1>6, <1>8, FragmentsMove, Zenon

\* A header line goes to the last fragment of the chain.
LEMMA HeaderCopyFragments == HandlesInv /\ FragInv /\ HeaderCopy => FragInv'
<1> SUFFICES ASSUME HandlesInv, FragInv, HeaderCopy PROVE FragInv'
  OBVIOUS
<1>1. PICK r \in Requests : r = preq
  BY PumpHas DEF HeaderCopy
<1> DEFINE last == Last(chain[r]) \o pleft
<1>2. /\ UNCHANGED <<active, out, batch, free, lost, mpc>> /\ pleft' = <<>>
      /\ chain[r] # <<>> /\ Space(Last(chain[r])) >= Len(pleft)
      /\ chain' = [chain EXCEPT ![r] = Front(chain[r]) \o <<last>>]
  BY <1>1 DEF HeaderCopy, HeaderFits, mainVars, Returned
<1>3. /\ chain[r] \in Seq(Data) /\ pleft \in Seq(Unit)
      /\ Last(chain[r]) \in Data /\ Front(chain[r]) \in Seq(Data) /\ Len(Front(chain[r])) = Len(chain[r]) - 1
      /\ Len(chain[r]) \in Nat \ {0}
  BY <1>2, FragmentLists DEF FragInv, StreamsTyped
<1>4. last \in Data
  <2>1. \A f \in Data : Space(f) >= Len(pleft) => f \o pleft \in Data
    BY <1>3, SizesAssumption DEF Data, Space
  <2>2. QED
    BY <1>2, <1>3, <2>1
<1> HIDE DEF last
<1>5. Front(chain[r]) \o <<last>> \in Seq(Data) /\ Len(Front(chain[r]) \o <<last>>) = Len(chain[r])
  <2>1. <<last>> \in Seq(Data) /\ Len(<<last>>) = 1
    BY <1>4, FragmentLists
  <2>2. Len(Front(chain[r]) \o <<last>>) = Len(Front(chain[r])) + Len(<<last>>)
        /\ Front(chain[r]) \o <<last>> \in Seq(Data)
    BY <1>3, <2>1, FragmentLists, Zenon
  <2>3. QED
    BY <1>3, <2>1, <2>2
<1>6. StreamsTyped'
  <2>1. pleft' \in Seq(Unit)
    BY <1>2, EmptyFragment
  <2>2. QED
    BY <1>2, <1>5, <2>1 DEF FragInv, StreamsTyped
<1>7. /\ chain'[r] = Front(chain[r]) \o <<last>> /\ active'[r] = active[r] /\ out'[r] = out[r]
      /\ \A y \in Requests \ {r} : chain'[y] = chain[y] /\ active'[y] = active[y] /\ out'[y] = out[y]
  BY <1>2 DEF FragInv, StreamsTyped
<1>8. Len(chain'[r]) = Len(chain[r])
  BY <1>5, <1>7
<1>9. free' + Len(batch') + lost' + (Len(chain'[r]) + Len(active'[r]) + Len(out'[r]))
        = free + Len(batch) + lost + (Len(chain[r]) + Len(active[r]) + Len(out[r]))
  BY <1>2, <1>7, <1>8, Zenon
<1>10. QED
  BY <1>6, <1>7, <1>9, FragmentsMove, Zenon

\* The full fragment of the body is linked to the list.
LEMMA BodyFlushFragments == HandlesInv /\ FragInv /\ BodyFlush => FragInv'
<1> SUFFICES ASSUME HandlesInv, FragInv, BodyFlush PROVE FragInv'
  OBVIOUS
<1>1. PICK r \in Requests : r = preq
  BY PumpHas DEF BodyFlush
<1>2. /\ UNCHANGED <<chain, batch, free, lost, pleft, mpc>>
      /\ out' = [out EXCEPT ![r] = out[r] \o active[r]] /\ active' = [active EXCEPT ![r] = <<>>]
  BY <1>1 DEF BodyFlush, mainVars, pumpVars
<1>3. active[r] \in Seq(Data) /\ out[r] \in Seq(Data)
  BY DEF FragInv, StreamsTyped
<1>4. out[r] \o active[r] \in Seq(Data) /\ Len(out[r] \o active[r]) = Len(out[r]) + Len(active[r])
      /\ <<>> \in Seq(Data) /\ Len(<<>>) = 0
  BY <1>3, FragmentLists
<1>5. StreamsTyped'
  BY <1>2, <1>4 DEF FragInv, StreamsTyped
<1>6. /\ active'[r] = <<>> /\ out'[r] = out[r] \o active[r] /\ chain'[r] = chain[r]
      /\ \A y \in Requests \ {r} : chain'[y] = chain[y] /\ active'[y] = active[y] /\ out'[y] = out[y]
  BY <1>2 DEF FragInv, StreamsTyped
<1>7. Len(chain'[r]) = Len(chain[r]) /\ Len(active'[r]) = 0 /\ Len(out'[r]) = Len(out[r]) + Len(active[r])
  BY <1>4, <1>6
<1>8. Len(chain'[r]) + Len(active'[r]) + Len(out'[r]) = Len(chain[r]) + Len(active[r]) + Len(out[r])
  BY <1>5, <1>7 DEF FragInv, StreamsTyped
<1>9. QED
  BY <1>2, <1>5, <1>6, <1>8, FragmentsMove, Zenon

\* A fragment off the free list for the body.
LEMMA BodyFragmentFragments == HandlesInv /\ FragInv /\ BodyFragment => FragInv'
<1> SUFFICES ASSUME HandlesInv, FragInv, BodyFragment PROVE FragInv'
  OBVIOUS
<1>1. PICK r \in Requests : r = preq
  BY PumpHas DEF BodyFragment
<1>2. /\ UNCHANGED <<chain, out, batch, lost, pleft, mpc>> /\ free' = free - 1 /\ free > 0
      /\ active[r] = <<>> /\ active' = [active EXCEPT ![r] = <<<<>>>>]
  BY <1>1 DEF BodyFragment, mainVars, pumpVars
<1>3. <<<<>>>> \in Seq(Data) /\ Len(<<<<>>>>) = 1 /\ free \in Nat /\ lost \in Nat
  BY EmptyFragment, FragmentLists DEF FragInv, StreamsTyped
<1>4. StreamsTyped' /\ free' \in Nat
  BY <1>2, <1>3 DEF FragInv, StreamsTyped
<1>5. /\ active'[r] = <<<<>>>> /\ out'[r] = out[r] /\ chain'[r] = chain[r]
      /\ \A y \in Requests \ {r} : chain'[y] = chain[y] /\ active'[y] = active[y] /\ out'[y] = out[y]
  BY <1>2 DEF FragInv, StreamsTyped
<1>6. Len(active'[r]) = Len(active[r]) + 1
  BY <1>2, <1>3, <1>5
<1>7. Len(chain'[r]) = Len(chain[r]) /\ Len(out'[r]) = Len(out[r])
  BY <1>5
<1>8. free' + Len(batch') + lost' + (Len(chain'[r]) + Len(active'[r]) + Len(out'[r]))
        = free + Len(batch) + lost + (Len(chain[r]) + Len(active[r]) + Len(out[r]))
  BY <1>2, <1>3, <1>4, <1>6, <1>7, LengthIsNat DEF FragInv, StreamsTyped
<1>9. QED
  BY <1>4, <1>5, <1>8, FragmentsMove, Zenon

\* A piece of body goes to the fragment, as much of it as fits.
LEMMA BodyCopyFragments == HandlesInv /\ FragInv /\ BodyCopy => FragInv'
<1> SUFFICES ASSUME HandlesInv, FragInv, BodyCopy PROVE FragInv'
  OBVIOUS
<1>1. PICK r \in Requests : r = preq
  BY PumpHas DEF BodyCopy
<1> DEFINE old == active[r][1]
           new == active[r][1] \o SubSeq(pleft, 1, Piece)
<1>2. /\ UNCHANGED <<chain, out, batch, free, lost, mpc>>
      /\ active[r] # <<>> /\ active' = [active EXCEPT ![r] = <<new>>]
      /\ Piece = IF Len(pleft) < Space(old) THEN Len(pleft) ELSE Space(old)
      /\ Space(old) > 0
      /\ pleft' = <<>> \/ pleft' = SubSeq(pleft, Piece + 1, Len(pleft))
  BY <1>1 DEF BodyCopy, mainVars, Returned, Piece, Rest
<1>3. /\ old \in Data /\ pleft \in Seq(Unit) /\ Len(active[r]) \in Nat \ {0} /\ Len(active[r]) <= 1
      /\ Len(pleft) \in Nat
  BY <1>2, FragmentLists DEF FragInv, StreamsTyped
<1>4. Piece \in 0 .. Len(pleft) /\ Len(old) + Piece <= Capacity
  <2>1. Len(old) \in Nat /\ Space(old) = Capacity - Len(old) /\ Len(pleft) \in Nat /\ Space(old) > 0
    BY <1>2, <1>3 DEF Data, Space
  <2>2. Piece = IF Len(pleft) < Space(old) THEN Len(pleft) ELSE Space(old)
    BY <1>2
  <2> DEFINE k == Len(old)
             m == Len(pleft)
             n == Space(old)
             p == Piece
  <2>3. k \in Nat /\ m \in Nat /\ n = Capacity - k /\ n > 0 /\ Capacity \in Nat
        /\ p = IF m < n THEN m ELSE n
    BY <2>1, <2>2, SizesAssumption
  <2> HIDE DEF k, m, n, p
  <2>4. p \in 0 .. m /\ k + p <= Capacity
    BY <2>3
  <2>5. QED
    BY <2>4 DEF k, m, p
<1>5. /\ SubSeq(pleft, 1, Piece) \in Seq(Unit) /\ Len(SubSeq(pleft, 1, Piece)) = Piece
      /\ SubSeq(pleft, Piece + 1, Len(pleft)) \in Seq(Unit)
  BY <1>3, <1>4
<1>6. new \in Data
  <2>1. old \in Seq(Unit) /\ Len(old) \in Nat
    BY <1>3 DEF Data
  <2>2. new \in Seq(Unit) /\ Len(new) = Len(old) + Piece
    BY <1>5, <2>1
  <2>3. QED
    BY <1>4, <2>2 DEF Data
<1> HIDE DEF old, new
<1>7. <<new>> \in Seq(Data) /\ Len(<<new>>) = 1 /\ Len(active[r]) = 1
  <2>1. \A n \in Nat \ {0} : n <= 1 => n = 1
    OBVIOUS
  <2>2. Len(active[r]) = 1
    BY <1>3, <2>1, Zenon
  <2>3. QED
    BY <1>6, <2>2, FragmentLists, Zenon
<1>8. StreamsTyped'
  <2>1. pleft' \in Seq(Unit)
    BY <1>2, <1>5, EmptyFragment
  <2>2. QED
    BY <1>2, <1>7, <2>1 DEF FragInv, StreamsTyped
<1>9. /\ active'[r] = <<new>> /\ out'[r] = out[r] /\ chain'[r] = chain[r]
      /\ \A y \in Requests \ {r} : chain'[y] = chain[y] /\ active'[y] = active[y] /\ out'[y] = out[y]
  BY <1>2 DEF FragInv, StreamsTyped
<1>10. Len(active'[r]) = Len(active[r])
  BY <1>7, <1>9
<1>11. free' + Len(batch') + lost' + (Len(chain'[r]) + Len(active'[r]) + Len(out'[r]))
        = free + Len(batch) + lost + (Len(chain[r]) + Len(active[r]) + Len(out[r]))
  BY <1>2, <1>9, <1>10, Zenon
<1>12. QED
  BY <1>8, <1>9, <1>11, FragmentsMove, Zenon

\* The streams' last fragments go to the list; of a header chain only the
\* last one does, and the others are lost.
LEMMA PublishFragments == HandlesInv /\ FragInv /\ Publish => FragInv'
<1> SUFFICES ASSUME HandlesInv, FragInv, Publish PROVE FragInv'
  OBVIOUS
<1>1. PICK r \in Requests : r = preq
  BY PumpHas DEF Publish
<1> DEFINE last == LastHeaders(r)
           new == out[r] \o (last \o active[r])
<1>2. /\ UNCHANGED <<free, batch, pleft, mpc>>
      /\ out' = [out EXCEPT ![r] = new]
      /\ chain' = [chain EXCEPT ![r] = <<>>] /\ active' = [active EXCEPT ![r] = <<>>]
      /\ lost' = lost + Len(chain[r]) - Len(last)
  BY <1>1 DEF Publish, mainVars, LastFragments
<1>3. chain[r] \in Seq(Data) /\ active[r] \in Seq(Data) /\ out[r] \in Seq(Data) /\ lost \in Nat
  BY DEF FragInv, StreamsTyped
<1>4. last \in Seq(Data) /\ Len(last) <= Len(chain[r])
  <2>1. CASE chain[r] = <<>>
    BY <2>1, FragmentLists DEF LastHeaders
  <2>2. CASE chain[r] # <<>>
    <3>1. last = <<Last(chain[r])>> /\ Last(chain[r]) \in Data /\ Len(chain[r]) \in Nat \ {0}
      BY <1>3, <2>2, FragmentLists DEF LastHeaders
    <3> HIDE DEF last, new
    <3>2. last \in Seq(Data) /\ Len(last) = 1
      BY <3>1, FragmentLists, Zenon
    <3>3. QED
      BY <3>1, <3>2
  <2>3. QED
    BY <2>1, <2>2
<1> HIDE DEF last
<1>5. /\ new \in Seq(Data) /\ Len(new) = Len(out[r]) + (Len(last) + Len(active[r]))
      /\ <<>> \in Seq(Data) /\ Len(<<>>) = 0
  BY <1>3, <1>4, FragmentLists
<1> HIDE DEF new
<1>6. /\ Len(last) \in Nat /\ Len(chain[r]) \in Nat /\ Len(active[r]) \in Nat /\ Len(out[r]) \in Nat
      /\ lost' \in Nat
  <2>1. Len(last) \in Nat /\ Len(chain[r]) \in Nat /\ Len(active[r]) \in Nat /\ Len(out[r]) \in Nat
    BY <1>3, <1>4, LengthIsNat, Zenon
  <2>2. \A h, n, k \in Nat : k <= n => h + n - k \in Nat
    OBVIOUS
  <2>3. QED
    BY <1>2, <1>3, <1>4, <2>1, <2>2, Zenon
<1>7. StreamsTyped'
  BY <1>2, <1>5, <1>6 DEF FragInv, StreamsTyped
<1>8. /\ chain'[r] = <<>> /\ active'[r] = <<>> /\ out'[r] = new
      /\ \A y \in Requests \ {r} : chain'[y] = chain[y] /\ active'[y] = active[y] /\ out'[y] = out[y]
  BY <1>2 DEF FragInv, StreamsTyped
<1>9. Len(chain'[r]) = 0 /\ Len(active'[r]) = 0 /\ Len(out'[r]) = Len(out[r]) + (Len(last) + Len(active[r]))
  BY <1>5, <1>8, Zenon
<1>10. free' + Len(batch') + lost' + (Len(chain'[r]) + Len(active'[r]) + Len(out'[r]))
        = free + Len(batch) + lost + (Len(chain[r]) + Len(active[r]) + Len(out[r]))
  <2>1. free \in Nat /\ Len(batch) \in Nat
    BY LengthIsNat DEF FragInv, StreamsTyped
  <2>2. free' = free /\ batch' = batch /\ lost' = lost + Len(chain[r]) - Len(last)
    BY <1>2
  <2>3. free + Len(batch) + (lost + Len(chain[r]) - Len(last)) + (0 + 0 + (Len(out[r]) + (Len(last) + Len(active[r]))))
          = free + Len(batch) + lost + (Len(chain[r]) + Len(active[r]) + Len(out[r]))
    <3> DEFINE b == Len(batch)
               c == Len(chain[r])
               a == Len(active[r])
               o == Len(out[r])
               l == Len(last)
    <3>1. free \in Nat /\ lost \in Nat /\ b \in Nat /\ c \in Nat /\ a \in Nat /\ o \in Nat /\ l \in Nat
      BY <1>3, <1>6, <2>1
    <3> HIDE DEF a, b, c, l, o
    <3>2. free + b + (lost + c - l) + (0 + 0 + (o + (l + a))) = free + b + lost + (c + a + o)
      BY <3>1
    <3>3. QED
      BY <3>2 DEF a, b, c, l, o
  <2>4. free' + Len(batch') + lost' = free + Len(batch) + (lost + Len(chain[r]) - Len(last))
    BY <2>2, Zenon
  <2>5. Len(chain'[r]) + Len(active'[r]) + Len(out'[r]) = 0 + 0 + (Len(out[r]) + (Len(last) + Len(active[r])))
    BY <1>9, Zenon
  <2>6. QED
    BY <2>3, <2>4, <2>5, Zenon
<1>11. QED
  BY <1>7, <1>8, <1>10, FragmentsMove, Zenon

\* Main takes what the list of a request has, and has taken nothing else.
LEMMA DetachFragments == HandlesInv /\ FragInv /\ Detach => FragInv'
<1> SUFFICES ASSUME HandlesInv, FragInv, Detach PROVE FragInv'
  OBVIOUS
<1>1. PICK r \in Requests : r = hnd
  BY MainHas DEF Detach
<1>2. /\ UNCHANGED <<free, lost, chain, active, pleft>> /\ batch = <<>>
      /\ batch' = out[r] /\ out' = [out EXCEPT ![r] = <<>>]
      /\ mpc' = IF out[r] = <<>> THEN "end" ELSE "fragments"
  BY <1>1 DEF Detach, pumpVars, FragInv, StreamsTyped
<1>3. out[r] \in Seq(Data) /\ <<>> \in Seq(Data) /\ Len(<<>>) = 0
  BY FragmentLists DEF FragInv, StreamsTyped
<1>4. StreamsTyped'
  BY <1>2, <1>3 DEF FragInv, StreamsTyped
<1>5. /\ chain'[r] = chain[r] /\ active'[r] = active[r] /\ out'[r] = <<>>
      /\ \A y \in Requests \ {r} : chain'[y] = chain[y] /\ active'[y] = active[y] /\ out'[y] = out[y]
  BY <1>2 DEF FragInv, StreamsTyped
<1>6. free' + Len(batch') + lost' + (Len(chain'[r]) + Len(active'[r]) + Len(out'[r]))
        = free + Len(batch) + lost + (Len(chain[r]) + Len(active[r]) + Len(out[r]))
  <2>1. /\ free \in Nat /\ lost \in Nat /\ Len(chain[r]) \in Nat /\ Len(active[r]) \in Nat
        /\ Len(out[r]) \in Nat /\ Len(batch) = 0
    BY <1>2, <1>3, LengthIsNat DEF FragInv, StreamsTyped
  <2>2. /\ free' = free /\ Len(batch') = Len(out[r]) /\ lost' = lost /\ Len(out'[r]) = 0
        /\ Len(chain'[r]) = Len(chain[r]) /\ Len(active'[r]) = Len(active[r])
    BY <1>2, <1>3, <1>5
  <2>3. free + Len(out[r]) + lost + (Len(chain[r]) + Len(active[r]) + 0)
          = free + 0 + lost + (Len(chain[r]) + Len(active[r]) + Len(out[r]))
    <3> DEFINE c == Len(chain[r])
               a == Len(active[r])
               o == Len(out[r])
    <3>1. free \in Nat /\ lost \in Nat /\ c \in Nat /\ a \in Nat /\ o \in Nat
      BY <2>1
    <3> HIDE DEF a, c, o
    <3>2. free + o + lost + (c + a + 0) = free + 0 + lost + (c + a + o)
      BY <3>1
    <3>3. QED
      BY <3>2 DEF a, c, o
  <2>4. free' + Len(batch') + lost' = free + Len(out[r]) + lost
    BY <2>2, Zenon
  <2>5. Len(chain'[r]) + Len(active'[r]) + Len(out'[r]) = Len(chain[r]) + Len(active[r]) + 0
    BY <2>2, Zenon
  <2>6. QED
    BY <2>1, <2>3, <2>4, <2>5, Zenon
<1>7. QED
  BY <1>4, <1>5, <1>6, FragmentsMove, Zenon

\* A callback reads a fragment; the batch keeps its length.
LEMMA CallbackFragments == HandlesInv /\ FragInv /\ Callback => FragInv'
<1> SUFFICES ASSUME HandlesInv, FragInv, Callback PROVE FragInv'
  OBVIOUS
<1>1. UNCHANGED <<chain, active, out, free, lost, pleft, mpc>> /\ mpc = "fragments"
  BY DEF Callback, streams, pumpVars
<1>2. PICK k : batch' = [i \in DOMAIN batch |-> IF i = k THEN <<>> ELSE batch[i]]
  BY DEF Callback
<1>3. batch \in Seq(Data) /\ <<>> \in Data
  BY EmptyFragment DEF FragInv, StreamsTyped
<1>4. batch' \in Seq(Data) /\ Len(batch') = Len(batch)
  <2>1. Len(batch) \in Nat /\ DOMAIN batch = 1 .. Len(batch) /\ \A i \in 1 .. Len(batch) : batch[i] \in Data
    BY <1>3
  <2>2. DOMAIN batch' = 1 .. Len(batch) /\ \A i \in 1 .. Len(batch) : batch'[i] \in Data
    BY <1>2, <1>3, <2>1
  <2>3. batch' = [i \in 1 .. Len(batch) |-> IF i = k THEN <<>> ELSE batch[i]]
    BY <1>2, <2>1
  <2>4. QED
    BY <2>1, <2>2, <2>3
<1>5. StreamsTyped'
  BY <1>1, <1>4 DEF FragInv, StreamsTyped
<1>6. QED
  BY <1>1, <1>4, <1>5, FragmentsStay

\* What was detached goes back to the free list.
LEMMA FragmentsFreeFragments == HandlesInv /\ FragInv /\ FragmentsFree => FragInv'
<1> SUFFICES ASSUME HandlesInv, FragInv, FragmentsFree PROVE FragInv'
  OBVIOUS
<1>1. PICK r \in Requests : r = hnd
  BY MainHas DEF FragmentsFree
<1>2. /\ UNCHANGED <<lost, chain, active, out, pleft>> /\ batch' = <<>>
      /\ free' = free + Len(batch) /\ mpc' = "end"
  BY DEF FragmentsFree, pumpVars, ReturnedFragments
<1>3. <<>> \in Seq(Data) /\ Len(<<>>) = 0 /\ free \in Nat /\ Len(batch) \in Nat /\ lost \in Nat
  BY LengthIsNat, FragmentLists DEF FragInv, StreamsTyped
<1>4. free' \in Nat
  BY <1>2, <1>3
<1>5. StreamsTyped'
  BY <1>2, <1>3, <1>4 DEF FragInv, StreamsTyped
<1>6. free' + Len(batch') + lost' = free + Len(batch) + lost
  BY <1>2, <1>3
<1>7. /\ chain'[r] = chain[r] /\ active'[r] = active[r] /\ out'[r] = out[r]
      /\ \A y \in Requests \ {r} : chain'[y] = chain[y] /\ active'[y] = active[y] /\ out'[y] = out[y]
  BY <1>2
<1>8. free' + Len(batch') + lost' + (Len(chain'[r]) + Len(active'[r]) + Len(out'[r]))
        = free + Len(batch) + lost + (Len(chain[r]) + Len(active[r]) + Len(out[r]))
  BY <1>6, <1>7, Zenon
<1>9. QED
  BY <1>5, <1>7, <1>8, FragmentsMove, Zenon

\* A freed handle gives back what its list still has.
LEMMA FreeHandleFragments == HandlesInv /\ FragInv /\ FreeHandle => FragInv'
<1> SUFFICES ASSUME HandlesInv, FragInv, FreeHandle PROVE FragInv'
  OBVIOUS
<1>1. PICK r \in Requests : r = hnd
  BY MainHas DEF FreeHandle
<1>2. /\ UNCHANGED <<lost, chain, active, batch, pleft>> /\ out' = [out EXCEPT ![r] = <<>>]
      /\ free' = free + Len(out[r]) /\ mpc = "complete" /\ mpc' \in {"idle", "detach"}
  BY <1>1 DEF FreeHandle, pumpVars, NextHandle
<1>3. <<>> \in Seq(Data) /\ Len(<<>>) = 0 /\ out[r] \in Seq(Data) /\ free \in Nat
  BY FragmentLists DEF FragInv, StreamsTyped
<1>4. /\ lost \in Nat /\ Len(chain[r]) \in Nat /\ Len(active[r]) \in Nat
      /\ Len(out[r]) \in Nat /\ Len(batch) \in Nat
  BY <1>3, LengthIsNat DEF FragInv, StreamsTyped
<1>5. free' \in Nat
  BY <1>2, <1>3, <1>4
<1>6. StreamsTyped'
  BY <1>2, <1>3, <1>5 DEF FragInv, StreamsTyped
<1>7. /\ chain'[r] = chain[r] /\ active'[r] = active[r] /\ out'[r] = <<>>
      /\ \A y \in Requests \ {r} : chain'[y] = chain[y] /\ active'[y] = active[y] /\ out'[y] = out[y]
  BY <1>2 DEF FragInv, StreamsTyped
<1>8. free' + Len(batch') + lost' + (Len(chain'[r]) + Len(active'[r]) + Len(out'[r]))
        = free + Len(batch) + lost + (Len(chain[r]) + Len(active[r]) + Len(out[r]))
  <2>1. /\ free' = free + Len(out[r]) /\ batch' = batch /\ lost' = lost /\ Len(out'[r]) = 0
        /\ chain'[r] = chain[r] /\ active'[r] = active[r]
    BY <1>2, <1>3, <1>7
  <2>2. free + Len(out[r]) + Len(batch) + lost + (Len(chain[r]) + Len(active[r]) + 0)
          = free + Len(batch) + lost + (Len(chain[r]) + Len(active[r]) + Len(out[r]))
    <3> DEFINE b == Len(batch)
               c == Len(chain[r])
               a == Len(active[r])
               o == Len(out[r])
    <3>1. free \in Nat /\ lost \in Nat /\ b \in Nat /\ c \in Nat /\ a \in Nat /\ o \in Nat
      BY <1>3, <1>4
    <3> HIDE DEF a, b, c, o
    <3>2. free + o + b + lost + (c + a + 0) = free + b + lost + (c + a + o)
      BY <3>1
    <3>3. QED
      BY <3>2 DEF a, b, c, o
  <2>3. free' + Len(batch') + lost' = free + Len(out[r]) + Len(batch) + lost
    BY <2>1, Zenon
  <2>4. Len(chain'[r]) + Len(active'[r]) + Len(out'[r]) = Len(chain[r]) + Len(active[r]) + 0
    BY <2>1, Zenon
  <2>5. QED
    BY <2>2, <2>3, <2>4, Zenon
<1>9. QED
  BY <1>6, <1>7, <1>8, FragmentsMove, Zenon

\* The steps that touch no fragment.
LEMMA OtherStepsFragments ==
  ASSUME FragInv,
         \/ \E r \in Requests : Send(r) \/ ResponseFree(r) \/ Finish(r)
         \/ PumpCycle \/ PumpExit \/ PerformReturns \/ NoInfo \/ SetResult
         \/ TickBegin \/ TickOngoing \/ OnComplete
         \/ ClientFree \/ Joined \/ UNCHANGED vars
  PROVE  FragInv'
<1>1. /\ UNCHANGED <<chain, active, out, batch, free, lost>> /\ pleft' = pleft
      /\ mpc' = "fragments" <=> mpc = "fragments"
  BY DEF Send, ResponseFree, Finish, PumpCycle, PumpExit, PerformReturns, NoInfo, SetResult,
         TickBegin, TickOngoing, OnComplete, ClientFree, Joined, NextHandle,
         vars, streams, pumpVars, mainVars, Outside
<1>2. pleft \in Seq(Unit)
  BY DEF FragInv, StreamsTyped
<1>3. QED
  BY <1>1, <1>2, FragmentsKept

-----------------------------------------------------------------------------
(* The flags, and what the fragments' invariant says of all variables. *)

\* At first nothing was called and nothing has ended.
LEMMA InitFlags == Init => FlagsTyped
<1> SUFFICES ASSUME Init PROVE FlagsTyped
  OBVIOUS
<1>1. \A r \in Requests : fed[r] = 0 /\ script[r] \in Scripts
  BY DEF Init
<1>2. \A s \in Scripts : Len(s) \in Nat
  BY ScriptsAssumption
<1>3. \A r \in Requests : fed[r] <= Len(script[r])
  <2>1. \A n \in Nat : 0 <= n
    OBVIOUS
  <2>2. QED
    BY <1>1, <1>2, <2>1
<1>4. QED
  BY <1>3 DEF Init, FlagsTyped

\* Only SetResult, a callback and the end of a stream write the flags, and
\* curl calls back no more often than the script says.
LEMMA FlagsKept == HandlesInv /\ FlagsTyped /\ [Next]_vars => FlagsTyped'
<1> SUFFICES ASSUME HandlesInv, FlagsTyped, [Next]_vars PROVE FlagsTyped'
  OBVIOUS
<1> USE DEF FlagsTyped
<1>1. ASSUME NEW r \in Requests, Receive(r) PROVE FlagsTyped'
  <2>1. script' = script /\ fed' = [fed EXCEPT ![r] = @ + 1] /\ fed[r] < Len(script[r])
        /\ UNCHANGED <<result, completed, running, sawEnd>>
    BY <1>1 DEF Receive, client, mainVars
  <2>2. fed \in [Requests -> Nat] /\ script \in [Requests -> Scripts]
    BY DEF HandlesInv, ListsTyped
  <2>3. \A s \in Scripts : Len(s) \in Nat
    BY ScriptsAssumption
  <2>4. fed'[r] <= Len(script'[r])
    BY <2>1, <2>2, <2>3
  <2>5. QED
    BY <2>1, <2>2, <2>4
<1>2. CASE SetResult
  <2>1. UNCHANGED <<fed, script, completed, running, sawEnd>> /\ msgs # <<>>
    BY <1>2 DEF SetResult, mainVars
  <2>2. result' = result \/ result' = [result EXCEPT ![Head(msgs).req] = ResultOf(Head(msgs).code, @)]
    BY <1>2 DEF SetResult
  <2>3. result' \in [Requests -> {"ok", "error"}]
    BY <2>2 DEF ResultOf
  <2>4. QED
    BY <2>1, <2>3
<1>3. CASE Callback
  <2>1. UNCHANGED <<fed, script, completed, running, sawEnd>>
    BY <1>3 DEF Callback, transfer
  <2>2. result' = result \/ result' = [result EXCEPT ![hnd] = "error"]
    BY <1>3 DEF Callback
  <2>3. QED
    BY <2>1, <2>2
<1>4. CASE OnComplete
  <2>1. UNCHANGED <<fed, script, result, running, sawEnd>> /\ hnd \in Requests
    BY <1>4, MainHas DEF OnComplete, transfer
  <2>2. completed' = [completed EXCEPT ![hnd] = completed[hnd] \/ response[hnd] = "owned"]
    BY <1>4 DEF OnComplete
  <2>3. completed' \in [Requests -> BOOLEAN]
    BY <2>1, <2>2
  <2>4. QED
    BY <2>1, <2>3
<1>5. CASE Detach
  <2>1. UNCHANGED <<fed, script, result, completed, running>> /\ sawEnd' = ended[hnd] /\ hnd \in Requests
    BY <1>5, MainHas DEF Detach, transfer, client, DetachReads
  <2>2. ended \in [Requests -> BOOLEAN]
    BY DEF HandlesInv, ListsTyped
  <2>3. QED
    BY <2>1, <2>2
<1>6. CASE FreeHandle \/ ClientFree
  BY <1>6 DEF FreeHandle, ClientFree, transfer
<1>7. CASE \E r \in Requests : Send(r) \/ ResponseFree(r) \/ Finish(r)
  BY <1>7 DEF Send, ResponseFree, Finish, transfer, client, mainVars
<1>8. CASE PumpCycle \/ PumpExit \/ HeaderFragment \/ HeaderCopy \/ BodyFlush \/ BodyFragment \/ BodyCopy
  BY <1>8 DEF PumpCycle, PumpExit, HeaderFragment, HeaderCopy, BodyFlush, BodyFragment, BodyCopy,
              transfer, client, mainVars
<1>9. CASE PerformReturns \/ NoInfo \/ Publish \/ TickBegin \/ FragmentsFree \/ TickOngoing \/ Joined
  BY <1>9 DEF PerformReturns, NoInfo, Publish, TickBegin, FragmentsFree, TickOngoing, Joined,
              transfer, client, mainVars
<1>10. CASE UNCHANGED vars
  BY <1>10 DEF vars, transfer, client, mainVars
<1>11. QED
  BY <1>1, <1>2, <1>3, <1>4, <1>5, <1>6, <1>7, <1>8, <1>9, <1>10
     DEF Next, Pump, Tick, Curl, Gone

\* Every step keeps the count.
LEMMA NextKeepsFragInv == HandlesInv /\ FragInv /\ [Next]_vars => FragInv'
<1> SUFFICES ASSUME HandlesInv, FragInv, [Next]_vars PROVE FragInv'
  OBVIOUS
<1>1. ASSUME NEW r \in Requests, Receive(r) PROVE FragInv'
  BY <1>1, ReceiveFragments
<1>2. CASE HeaderFragment \/ HeaderCopy
  BY <1>2, HeaderFragmentFragments, HeaderCopyFragments
<1>3. CASE BodyFlush \/ BodyFragment \/ BodyCopy
  BY <1>3, BodyFlushFragments, BodyFragmentFragments, BodyCopyFragments
<1>4. CASE Publish \/ Detach \/ Callback
  BY <1>4, PublishFragments, DetachFragments, CallbackFragments
<1>5. CASE FragmentsFree \/ FreeHandle
  BY <1>5, FragmentsFreeFragments, FreeHandleFragments
<1>6. CASE \/ \E r \in Requests : Send(r) \/ ResponseFree(r) \/ Finish(r)
           \/ PumpCycle \/ PumpExit \/ PerformReturns \/ NoInfo \/ SetResult
           \/ TickBegin \/ TickOngoing \/ OnComplete
           \/ ClientFree \/ Joined \/ UNCHANGED vars
  BY <1>6, OtherStepsFragments
<1>7. QED
  BY <1>1, <1>2, <1>3, <1>4, <1>5, <1>6 DEF Next, Pump, Tick, Curl, Gone

\* The three invariants say what the property does.
LEMMA InvariantsConserve == HandlesInv /\ FragInv /\ FlagsTyped => FragmentsConserved
<1> SUFFICES ASSUME HandlesInv, FragInv, FlagsTyped PROVE FragmentsConserved
  OBVIOUS
<1>1. free \in 0 .. Fragments /\ lost \in 0 .. Fragments
  <2>1. /\ free \in Nat /\ lost \in Nat /\ Len(batch) \in Nat /\ Cardinality(FragmentsInUse) \in Nat
        /\ free + Len(batch) + lost + Cardinality(FragmentsInUse) = Fragments
    BY LengthIsNat, UseOf DEF FragInv, StreamsTyped
  <2>2. \A f, b, h, n \in Nat : f <= f + b + h + n /\ h <= f + b + h + n
    OBVIOUS
  <2>3. free <= Fragments /\ lost <= Fragments
    BY <2>1, <2>2, Zenon
  <2>4. QED
    BY <2>1, <2>3, SizesAssumption
<1>2. ASSUME NEW r \in Requests
      PROVE  /\ Len(active[r]) <= 1
             /\ \A f \in Range(chain[r]) \cup Range(active[r]) \cup Range(out[r]) : Len(f) <= Capacity
  <2>1. /\ chain[r] \in Seq(Data) /\ active[r] \in Seq(Data) /\ out[r] \in Seq(Data)
        /\ Len(active[r]) <= 1
    BY DEF FragInv, StreamsTyped
  <2>2. \A q \in Seq(Data) : Range(q) \subseteq Data
    BY DEF Range
  <2>3. QED
    BY <2>1, <2>2 DEF Data
<1>3. \A r \in Requests : fed[r] \in 0 .. Len(script[r])
  <2>1. \A s \in Scripts : Len(s) \in Nat
    BY ScriptsAssumption
  <2>2. QED
    BY <2>1 DEF HandlesInv, ListsTyped, FlagsTyped
<1>4. \A list \in {handles, incoming} : IsInjective(list) /\ Range(list) \subseteq Requests
  BY MembersOf DEF HandlesInv, ListsTyped, Range
<1>5. \A i \in DOMAIN msgs : msgs[i].req \in Requests /\ msgs[i].code \in {"ok", "error"}
  <2> DEFINE K == [req : Requests, code : {"ok", "error"}]
  <2>1. msgs \in Seq(K)
    BY DEF HandlesInv, ListsTyped
  <2> HIDE DEF K
  <2>2. \A i \in DOMAIN msgs : msgs[i] \in K
    BY <2>1
  <2>3. QED
    BY <2>2 DEF K
<1>6. /\ script \in [Requests -> Scripts] /\ multi \subseteq Requests
      /\ ended \in [Requests -> BOOLEAN] /\ aborted \in [Requests -> BOOLEAN]
      /\ response \in [Requests -> {"none", "owned", "freed"}]
      /\ ppc \in PumpSpots /\ mpc \in TickSpots
      /\ {preq, hnd, nxt} \subseteq Requests \cup {None}
  BY DEF HandlesInv, ListsTyped
<1>7. /\ completed \in [Requests -> BOOLEAN] /\ running \in BOOLEAN /\ sawEnd \in BOOLEAN
      /\ result \in [Requests -> {"ok", "error"}]
  BY DEF FlagsTyped
<1>8. TypeOK
  <2>1. /\ ppc \in {"top", "perform", "header", "body", "info", "publish", "exited"}
        /\ mpc \in {"idle", "detach", "fragments", "end", "complete", "join", "gone"}
    BY <1>6 DEF PumpSpots, TickSpots
  <2>2. \A r \in Requests :
          /\ Len(active[r]) <= 1
          /\ \A f \in Range(chain[r]) \cup Range(active[r]) \cup Range(out[r]) : Len(f) <= Capacity
    BY <1>2, Zenon
  <2>3. QED
    BY <1>1, <1>3, <1>4, <1>5, <1>6, <1>7, <2>1, <2>2, Zenon DEF TypeOK
<1>9. QED
  BY <1>8 DEF FragmentsConserved, FragInv

\* Between curl's thread and the owner's no fragment of the pool is given back
\* twice or kept: each is free, with one request or detached, or it is one of
\* those the last LL_ADD of a header chain unlinks
\* (adk_httpx_network_pump.c and adk_httpx_curl.c).
THEOREM FragmentsAreConserved == Spec => []FragmentsConserved
<1>1. Init => HandlesInv /\ FragInv /\ FlagsTyped
  BY InitHandlesInv, InitFragInv, InitFlags
<1>2. HandlesInv /\ FragInv /\ FlagsTyped /\ [Next]_vars => (HandlesInv /\ FragInv /\ FlagsTyped)'
  BY NextKeepsHandlesInv, NextKeepsFragInv, FlagsKept
<1>3. HandlesInv /\ FragInv /\ FlagsTyped => FragmentsConserved
  BY InvariantsConserve
<1>4. QED
  BY <1>1, <1>2, <1>3, PTL DEF Spec

-----------------------------------------------------------------------------
(* Units, fragments and lists of fragments in the order they came. *)

Text == Seq(Unit)

\* u is before v, if they are of one kind.
Apart(a, u, v) == a[u[1]].kind = a[v[1]].kind => Before(u, v)
Ahead(a, U, V) == \A u \in U : \A v \in V : Apart(a, u, v)
InOrder(a, q) == \A i, j \in DOMAIN q : i < j => Apart(a, q[i], q[j])

\* The units of a list of fragments, and their order.
Held(s) == UNION {Range(s[k]) : k \in DOMAIN s}
ListInOrder(a, s) ==
  /\ \A k \in DOMAIN s : InOrder(a, s[k])
  /\ \A k, l \in DOMAIN s : k < l => Ahead(a, Range(s[k]), Range(s[l]))

\* What is in a part is in the whole.
LEMMA PartOf ==
  ASSUME NEW S, NEW p \in Seq(S), NEW q \in Seq(S)
  PROVE  /\ p \o q \in Seq(S) /\ Len(p \o q) = Len(p) + Len(q) /\ Len(p) \in Nat /\ Len(q) \in Nat
         /\ DOMAIN p = 1 .. Len(p) /\ DOMAIN q = 1 .. Len(q) /\ DOMAIN (p \o q) = 1 .. Len(p) + Len(q)
         /\ \A i \in 1 .. Len(p) : i \in DOMAIN (p \o q) /\ (p \o q)[i] = p[i]
         /\ \A i \in 1 .. Len(q) : i + Len(p) \in DOMAIN (p \o q) /\ (p \o q)[i + Len(p)] = q[i]
         /\ \A i \in DOMAIN (p \o q) :
              \/ i \in 1 .. Len(p) /\ (p \o q)[i] = p[i]
              \/ i - Len(p) \in 1 .. Len(q) /\ i > Len(p) /\ (p \o q)[i] = q[i - Len(p)]
<1>1. /\ p \o q \in Seq(S) /\ Len(p \o q) = Len(p) + Len(q) /\ Len(p) \in Nat /\ Len(q) \in Nat
      /\ \A i \in 1 .. Len(p) + Len(q) :
           (p \o q)[i] = IF i <= Len(p) THEN p[i] ELSE q[i - Len(p)]
  BY ConcatProperties
<1>2. DOMAIN p = 1 .. Len(p) /\ DOMAIN q = 1 .. Len(q) /\ DOMAIN (p \o q) = 1 .. Len(p) + Len(q)
  BY <1>1
<1>3. QED
  BY <1>1, <1>2

\* The order of two texts, one after the other.
LEMMA TextsInOrder ==
  ASSUME NEW a, NEW p \in Text, NEW q \in Text
  PROVE  /\ p \o q \in Text /\ Range(p \o q) = Range(p) \cup Range(q)
         /\ InOrder(a, p \o q) <=> InOrder(a, p) /\ InOrder(a, q) /\ Ahead(a, Range(p), Range(q))
<1> DEFINE r == p \o q
           m == Len(p)
<1>1. /\ r \in Text /\ m \in Nat /\ Len(q) \in Nat
      /\ DOMAIN p = 1 .. m /\ DOMAIN q = 1 .. Len(q) /\ DOMAIN r = 1 .. m + Len(q)
      /\ \A i \in 1 .. m : i \in DOMAIN r /\ r[i] = p[i]
      /\ \A i \in 1 .. Len(q) : i + m \in DOMAIN r /\ r[i + m] = q[i]
      /\ \A i \in DOMAIN r : \/ i \in 1 .. m /\ r[i] = p[i]
                             \/ i - m \in 1 .. Len(q) /\ i > m /\ r[i] = q[i - m]
  BY PartOf DEF Text
<1>2. Range(r) = Range(p) \cup Range(q)
  BY RangeConcatenation DEF Text
<1> HIDE DEF r, m
<1>3. ASSUME InOrder(a, r) PROVE InOrder(a, p) /\ InOrder(a, q) /\ Ahead(a, Range(p), Range(q))
  <2>1. InOrder(a, p)
    BY <1>1, <1>3 DEF InOrder
  <2>2. ASSUME NEW i \in DOMAIN q, NEW j \in DOMAIN q, i < j PROVE Apart(a, q[i], q[j])
    <3>1. i + m \in DOMAIN r /\ j + m \in DOMAIN r /\ i + m < j + m /\ r[i + m] = q[i] /\ r[j + m] = q[j]
      BY <1>1, <2>2
    <3>2. QED
      BY <1>3, <3>1 DEF InOrder
  <2>3. ASSUME NEW u \in Range(p), NEW v \in Range(q) PROVE Apart(a, u, v)
    <3>1. PICK i \in DOMAIN p, j \in DOMAIN q : u = p[i] /\ v = q[j]
      BY DEF Range
    <3>2. i \in DOMAIN r /\ j + m \in DOMAIN r /\ i < j + m /\ r[i] = p[i] /\ r[j + m] = q[j]
      BY <1>1, <3>1
    <3>3. QED
      BY <1>3, <3>1, <3>2 DEF InOrder
  <2>4. QED
    BY <2>1, <2>2, <2>3 DEF InOrder, Ahead
<1>4. ASSUME InOrder(a, p), InOrder(a, q), Ahead(a, Range(p), Range(q)),
             NEW i \in DOMAIN r, NEW j \in DOMAIN r, i < j
      PROVE  Apart(a, r[i], r[j])
  <2>1. CASE j \in 1 .. m /\ r[j] = p[j]
    <3>1. i \in 1 .. m /\ r[i] = p[i]
      BY <1>1, <1>4, <2>1
    <3>2. QED
      BY <1>1, <1>4, <2>1, <3>1 DEF InOrder
  <2>2. CASE j - m \in 1 .. Len(q) /\ j > m /\ r[j] = q[j - m]
    <3>1. CASE i \in 1 .. m /\ r[i] = p[i]
      <4>1. p[i] \in Range(p) /\ q[j - m] \in Range(q)
        BY <1>1, <2>2, <3>1 DEF Range
      <4>2. QED
        BY <1>4, <2>2, <3>1, <4>1 DEF Ahead
    <3>2. CASE i - m \in 1 .. Len(q) /\ i > m /\ r[i] = q[i - m]
      <4>1. i - m < j - m
        BY <1>1, <1>4, <2>2, <3>2
      <4>2. QED
        BY <1>1, <1>4, <2>2, <3>2, <4>1 DEF InOrder
    <3>3. QED
      BY <1>1, <3>1, <3>2
  <2>3. QED
    BY <1>1, <2>1, <2>2
<1>5. InOrder(a, p) /\ InOrder(a, q) /\ Ahead(a, Range(p), Range(q)) => InOrder(a, r)
  BY <1>4 DEF InOrder
<1>6. QED
  BY <1>1, <1>2, <1>3, <1>5 DEF r

\* The same of two lists of fragments.
LEMMA ListsInOrder ==
  ASSUME NEW a, NEW p \in Seq(Text), NEW q \in Seq(Text)
  PROVE  /\ p \o q \in Seq(Text) /\ Held(p \o q) = Held(p) \cup Held(q)
         /\ ListInOrder(a, p \o q) <=>
              ListInOrder(a, p) /\ ListInOrder(a, q) /\ Ahead(a, Held(p), Held(q))
<1> DEFINE r == p \o q
           m == Len(p)
<1>1. /\ r \in Seq(Text) /\ m \in Nat /\ Len(q) \in Nat
      /\ DOMAIN p = 1 .. m /\ DOMAIN q = 1 .. Len(q) /\ DOMAIN r = 1 .. m + Len(q)
      /\ \A i \in 1 .. m : i \in DOMAIN r /\ r[i] = p[i]
      /\ \A i \in 1 .. Len(q) : i + m \in DOMAIN r /\ r[i + m] = q[i]
      /\ \A i \in DOMAIN r : \/ i \in 1 .. m /\ r[i] = p[i]
                             \/ i - m \in 1 .. Len(q) /\ i > m /\ r[i] = q[i - m]
  BY PartOf
<1> HIDE DEF r, m
<1>2. Held(r) = Held(p) \cup Held(q)
  <2>1. ASSUME NEW u \in Held(r) PROVE u \in Held(p) \cup Held(q)
    <3>1. PICK i \in DOMAIN r : u \in Range(r[i])
      BY DEF Held
    <3>2. (i \in DOMAIN p /\ r[i] = p[i]) \/ \E j \in DOMAIN q : r[i] = q[j]
      BY <1>1
    <3>3. QED
      BY <3>1, <3>2 DEF Held
  <2>2. ASSUME NEW u \in Held(p) PROVE u \in Held(r)
    BY <1>1 DEF Held
  <2>3. ASSUME NEW u \in Held(q) PROVE u \in Held(r)
    <3>1. PICK i \in DOMAIN q : u \in Range(q[i])
      BY DEF Held
    <3>2. \E j \in DOMAIN r : r[j] = q[i]
      BY <1>1, <3>1
    <3>3. QED
      BY <3>1, <3>2 DEF Held
  <2>4. QED
    BY <2>1, <2>2, <2>3
<1>3. ASSUME ListInOrder(a, r)
      PROVE  ListInOrder(a, p) /\ ListInOrder(a, q) /\ Ahead(a, Held(p), Held(q))
  <2>1. ListInOrder(a, p)
    BY <1>1, <1>3 DEF ListInOrder
  <2>2. ASSUME NEW i \in DOMAIN q, NEW j \in DOMAIN q, i < j PROVE Ahead(a, Range(q[i]), Range(q[j]))
    <3>1. i + m \in DOMAIN r /\ j + m \in DOMAIN r /\ i + m < j + m /\ r[i + m] = q[i] /\ r[j + m] = q[j]
      BY <1>1, <2>2
    <3>2. QED
      BY <1>3, <3>1 DEF ListInOrder
  <2>3. ASSUME NEW u \in Held(p), NEW v \in Held(q) PROVE Apart(a, u, v)
    <3>1. PICK i \in DOMAIN p, j \in DOMAIN q : u \in Range(p[i]) /\ v \in Range(q[j])
      BY DEF Held
    <3>2. i \in DOMAIN r /\ j + m \in DOMAIN r /\ i < j + m /\ r[i] = p[i] /\ r[j + m] = q[j]
      BY <1>1, <3>1
    <3>3. Ahead(a, Range(r[i]), Range(r[j + m]))
      BY <1>3, <3>2 DEF ListInOrder
    <3>4. QED
      BY <3>1, <3>2, <3>3 DEF Ahead
  <2>4. ASSUME NEW i \in DOMAIN q PROVE InOrder(a, q[i])
    <3>1. i + m \in DOMAIN r /\ r[i + m] = q[i]
      BY <1>1
    <3>2. QED
      BY <1>3, <3>1 DEF ListInOrder
  <2>5. QED
    BY <2>1, <2>2, <2>3, <2>4 DEF ListInOrder, Ahead
<1>4. ASSUME ListInOrder(a, p), ListInOrder(a, q), Ahead(a, Held(p), Held(q)),
             NEW i \in DOMAIN r, NEW j \in DOMAIN r, i < j
      PROVE  Ahead(a, Range(r[i]), Range(r[j]))
  <2>1. CASE j \in 1 .. m /\ r[j] = p[j]
    <3>1. i \in 1 .. m /\ r[i] = p[i]
      BY <1>1, <1>4, <2>1
    <3>2. QED
      BY <1>1, <1>4, <2>1, <3>1 DEF ListInOrder
  <2>2. CASE j - m \in 1 .. Len(q) /\ j > m /\ r[j] = q[j - m]
    <3>1. CASE i \in 1 .. m /\ r[i] = p[i]
      <4>1. Range(p[i]) \subseteq Held(p) /\ Range(q[j - m]) \subseteq Held(q)
        BY <1>1, <2>2, <3>1 DEF Held
      <4>2. QED
        BY <1>4, <2>2, <3>1, <4>1 DEF Ahead
    <3>2. CASE i - m \in 1 .. Len(q) /\ i > m /\ r[i] = q[i - m]
      <4>1. i - m < j - m
        BY <1>1, <1>4, <2>2, <3>2
      <4>2. QED
        BY <1>1, <1>4, <2>2, <3>2, <4>1 DEF ListInOrder
    <3>3. QED
      BY <1>1, <3>1, <3>2
  <2>3. QED
    BY <1>1, <2>1, <2>2
<1>5. ASSUME ListInOrder(a, p), ListInOrder(a, q), NEW i \in DOMAIN r PROVE InOrder(a, r[i])
  BY <1>1, <1>5 DEF ListInOrder
<1>6. ListInOrder(a, p) /\ ListInOrder(a, q) /\ Ahead(a, Held(p), Held(q)) => ListInOrder(a, r)
  BY <1>4, <1>5 DEF ListInOrder
<1>7. QED
  BY <1>1, <1>2, <1>3, <1>6 DEF r

\* No fragment, and one.
LEMMA FewInOrder ==
  ASSUME NEW a, NEW f \in Text
  PROVE  /\ Held(<<>>) = {} /\ ListInOrder(a, <<>>) /\ Range(<<>>) = {} /\ InOrder(a, <<>>)
         /\ <<>> \in Seq(Text) /\ <<>> \in Text
         /\ <<f>> \in Seq(Text) /\ Held(<<f>>) = Range(f) /\ (ListInOrder(a, <<f>>) <=> InOrder(a, f))
<1>1. DOMAIN <<f>> = {1} /\ <<f>>[1] = f /\ <<f>> \in Seq(Text) /\ <<>> \in Seq(Text) /\ <<>> \in Text
  BY DEF Text
<1>2. Held(<<f>>) = Range(f) /\ (ListInOrder(a, <<f>>) <=> InOrder(a, f))
  BY <1>1 DEF Held, ListInOrder
<1>3. Held(<<>>) = {} /\ ListInOrder(a, <<>>) /\ Range(<<>>) = {} /\ InOrder(a, <<>>)
  BY DEF Held, ListInOrder, Range, InOrder
<1>4. QED
  BY <1>1, <1>2, <1>3

\* A list and its last fragment.
LEMMA LastInOrder ==
  ASSUME NEW s \in Seq(Text), s # <<>>
  PROVE  /\ Front(s) \in Seq(Text) /\ Last(s) \in Text /\ s = Front(s) \o <<Last(s)>>
<1>1. Len(s) \in Nat \ {0}
  OBVIOUS
<1>2. Front(s) \in Seq(Text) /\ Len(Front(s)) = Len(s) - 1 /\ \A i \in 1 .. Len(s) - 1 : Front(s)[i] = s[i]
  <2>1. \A n \in 0 .. Len(s) : /\ SubSeq(s, 1, n) \in Seq(Text) /\ Len(SubSeq(s, 1, n)) = n
                               /\ \A i \in 1 .. n : SubSeq(s, 1, n)[i] = s[i]
    BY <1>1
  <2>2. Len(s) - 1 \in 0 .. Len(s)
    BY <1>1
  <2>3. QED
    BY <2>1, <2>2, Zenon DEF Front
<1>3. Last(s) = s[Len(s)] /\ Last(s) \in Text /\ <<Last(s)>> \in Seq(Text)
      /\ Len(<<Last(s)>>) = 1 /\ <<Last(s)>>[1] = Last(s)
  BY <1>1 DEF Last
<1> DEFINE p == Front(s)
           q == <<Last(s)>>
<1>4. /\ p \o q \in Seq(Text) /\ Len(p \o q) = Len(s)
      /\ \A i \in 1 .. Len(s) : (p \o q)[i] = s[i]
  <2>1. p \in Seq(Text) /\ q \in Seq(Text) /\ Len(p) = Len(s) - 1 /\ Len(q) = 1 /\ q[1] = s[Len(s)]
        /\ \A i \in 1 .. Len(s) - 1 : p[i] = s[i]
    BY <1>2, <1>3
  <2> HIDE DEF p, q
  <2>2. /\ p \o q \in Seq(Text) /\ Len(p \o q) = Len(p) + Len(q) /\ DOMAIN (p \o q) = 1 .. Len(p) + Len(q)
        /\ \A i \in DOMAIN (p \o q) :
              \/ i \in 1 .. Len(p) /\ (p \o q)[i] = p[i]
              \/ i - Len(p) \in 1 .. Len(q) /\ i > Len(p) /\ (p \o q)[i] = q[i - Len(p)]
    <3>1. \A u, v \in Seq(Text) :
            /\ u \o v \in Seq(Text) /\ Len(u \o v) = Len(u) + Len(v) /\ DOMAIN (u \o v) = 1 .. Len(u) + Len(v)
            /\ \A i \in DOMAIN (u \o v) :
                 \/ i \in 1 .. Len(u) /\ (u \o v)[i] = u[i]
                 \/ i - Len(u) \in 1 .. Len(v) /\ i > Len(u) /\ (u \o v)[i] = v[i - Len(u)]
      BY PartOf
    <3>2. QED
      BY <2>1, <3>1
  <2>3. Len(p) + Len(q) = Len(s)
    BY <1>1, <2>1
  <2>4. ASSUME NEW i \in 1 .. Len(s) PROVE (p \o q)[i] = s[i]
    <3>1. CASE i \in 1 .. Len(p) /\ (p \o q)[i] = p[i]
      BY <2>1, <3>1
    <3>2. CASE i - Len(p) \in 1 .. Len(q) /\ i > Len(p) /\ (p \o q)[i] = q[i - Len(p)]
      <4>1. i = Len(s) /\ i - Len(p) = 1
        BY <1>1, <2>1, <3>2
      <4>2. QED
        BY <2>1, <3>2, <4>1
    <3>3. QED
      BY <2>2, <2>3, <3>1, <3>2
  <2>5. QED
    BY <2>2, <2>3, <2>4
<1>5. p \o q = s
  <2>1. p \o q \in Seq(Text)
    BY <1>4
  <2> HIDE DEF p, q
  <2>2. QED
    BY <1>4, SeqEqual
<1>6. QED
  BY <1>2, <1>3, <1>5

\* A list with one more fragment at its end.
LEMMA EndInOrder ==
  ASSUME NEW a, NEW p \in Seq(Text), NEW f \in Text
  PROVE  /\ p \o <<f>> \in Seq(Text) /\ Held(p \o <<f>>) = Held(p) \cup Range(f)
         /\ ListInOrder(a, p \o <<f>>) <=> ListInOrder(a, p) /\ InOrder(a, f) /\ Ahead(a, Held(p), Range(f))
<1>1. PICK s \in Seq(Text) : s = <<f>>
  BY FewInOrder
<1>2. Held(s) = Range(f) /\ (ListInOrder(a, s) <=> InOrder(a, f))
  BY <1>1, FewInOrder, Zenon
<1>3. p \o s \in Seq(Text) /\ Held(p \o s) = Held(p) \cup Held(s)
      /\ (ListInOrder(a, p \o s) <=> ListInOrder(a, p) /\ ListInOrder(a, s) /\ Ahead(a, Held(p), Held(s)))
  BY ListsInOrder
<1>4. QED
  BY <1>1, <1>2, <1>3, Zenon

\* The first fragment not yet seen is taken off a batch.
LEMMA FirstInOrder ==
  ASSUME NEW a, NEW b \in Seq(Text), NEW k \in DOMAIN b,
         \A i \in DOMAIN b : b[i] # <<>> => k <= i
  PROVE  LET c == [b EXCEPT ![k] = <<>>]
         IN  /\ c \in Seq(Text) /\ b[k] \in Text /\ Held(b) = Range(b[k]) \cup Held(c)
             /\ ListInOrder(a, b) => InOrder(a, b[k]) /\ ListInOrder(a, c) /\ Ahead(a, Range(b[k]), Held(c))
<1> DEFINE c == [b EXCEPT ![k] = <<>>]
<1>1. /\ Len(b) \in Nat /\ DOMAIN b = 1 .. Len(b) /\ DOMAIN c = DOMAIN b /\ c[k] = <<>>
      /\ \A i \in DOMAIN b : b[i] \in Text /\ (i # k => c[i] = b[i])
      /\ c \in Seq(Text)
  <2>1. <<>> \in Text
    BY DEF Text
  <2>2. QED
    BY <2>1
<1> HIDE DEF c
<1>2. Range(<<>>) = {} /\ InOrder(a, <<>>)
  BY FewInOrder DEF Range, InOrder
<1>3. Held(b) = Range(b[k]) \cup Held(c)
  BY <1>1, <1>2 DEF Held
<1>4. ASSUME ListInOrder(a, b)
      PROVE  InOrder(a, b[k]) /\ ListInOrder(a, c) /\ Ahead(a, Range(b[k]), Held(c))
  <2>1. InOrder(a, b[k])
    BY <1>4 DEF ListInOrder
  <2>2. \A i \in DOMAIN c : InOrder(a, c[i])
    BY <1>1, <1>2, <1>4 DEF ListInOrder
  <2>3. \A i, j \in DOMAIN c : i < j => Ahead(a, Range(c[i]), Range(c[j]))
    <3>1. ASSUME NEW i \in DOMAIN c, NEW j \in DOMAIN c, i < j
          PROVE  Ahead(a, Range(c[i]), Range(c[j]))
      <4>1. CASE i = k \/ j = k
        BY <1>1, <1>2, <4>1 DEF Ahead
      <4>2. CASE i # k /\ j # k
        BY <1>1, <1>4, <3>1, <4>2 DEF ListInOrder
      <4>3. QED
        BY <4>1, <4>2
    <3>2. QED
      BY <3>1
  <2>4. ASSUME NEW u \in Range(b[k]), NEW v \in Held(c) PROVE Apart(a, u, v)
    <3>1. PICK i \in DOMAIN c : v \in Range(c[i])
      BY DEF Held
    <3>2. i # k /\ c[i] # <<>> /\ i \in DOMAIN b /\ c[i] = b[i]
      BY <1>1, <1>2, <3>1
    <3>3. k < i
      BY <1>1, <3>2
    <3>4. Ahead(a, Range(b[k]), Range(b[i]))
      BY <1>4, <3>2, <3>3 DEF ListInOrder
    <3>5. QED
      BY <3>1, <3>2, <3>4 DEF Ahead
  <2>5. QED
    BY <2>1, <2>2, <2>3, <2>4 DEF ListInOrder, Ahead
<1>5. QED
  BY <1>1, <1>3, <1>4 DEF c

-----------------------------------------------------------------------------
(* The way of a request's units, from the call of curl to the callbacks. *)

\* The units of the first n calls of a script, and those of bodies among them.
Sent(a, n) == {u \in Unit : u[1] \in 1 .. n /\ u[2] \in 1 .. a[u[1]].size}
IsBody(a, u) == a[u[1]].kind = "body"

\* g was seen, b is detached, o is in the list, c is the header chain, x the
\* fragment for the body and l is still to be copied.
Way(a, n, g, b, o, c, x, l) ==
  /\ InOrder(a, g) /\ ListInOrder(a, b) /\ ListInOrder(a, o)
  /\ ListInOrder(a, c) /\ ListInOrder(a, x) /\ InOrder(a, l)
  /\ Ahead(a, Range(g), Held(b)) /\ Ahead(a, Range(g) \cup Held(b), Held(o))
  /\ Ahead(a, Range(g) \cup Held(b) \cup Held(o), Held(c) \cup Held(x))
  /\ Ahead(a, Range(g) \cup Held(b) \cup Held(o) \cup Held(c) \cup Held(x), Range(l))
  /\ \A u \in Held(c) : a[u[1]].kind = "header"
  /\ \A u \in Held(x) : IsBody(a, u)
  /\ Range(g) \cup Held(b) \cup Held(o) \cup Held(c) \cup Held(x) \cup Range(l) \subseteq Sent(a, n)

\* No unit of a body is missing.
Whole(a, n, g, b, o, x, l) ==
  \A u \in Sent(a, n) : IsBody(a, u) =>
    u \in Range(g) \cup Held(b) \cup Held(o) \cup Held(x) \cup Range(l)

\* The chain of headers goes to the list.
LEMMA HeadersFlushed ==
  ASSUME NEW a, NEW n, NEW g \in Text, NEW b \in Seq(Text), NEW o \in Seq(Text),
         NEW c \in Seq(Text), NEW x \in Seq(Text), NEW l \in Text, Way(a, n, g, b, o, c, x, l)
  PROVE  /\ Way(a, n, g, b, o \o c, <<>>, x, l)
         /\ Whole(a, n, g, b, o, x, l) => Whole(a, n, g, b, o \o c, x, l)
<1>1. Held(o \o c) = Held(o) \cup Held(c)
      /\ (ListInOrder(a, o \o c) <=> ListInOrder(a, o) /\ ListInOrder(a, c) /\ Ahead(a, Held(o), Held(c)))
  BY ListsInOrder
<1>2. Held(<<>>) = {} /\ ListInOrder(a, <<>>)
  BY FewInOrder
<1>3. \A u \in Held(c) : \A v \in Held(x) : Apart(a, u, v)
  BY DEF Way, Apart, IsBody
<1>4. Way(a, n, g, b, o \o c, <<>>, x, l)
  BY <1>1, <1>2, <1>3 DEF Way, Ahead
<1>5. QED
  BY <1>1, <1>4 DEF Whole

\* curl calls with units that come after all before.
LEMMA UnitsReceived ==
  ASSUME NEW a, NEW n \in Nat, NEW g \in Text, NEW b \in Seq(Text), NEW o \in Seq(Text),
         NEW c \in Seq(Text), NEW x \in Seq(Text), NEW l \in Text,
         Way(a, n, g, b, o, c, x, <<>>), InOrder(a, l),
         \A u \in Unit : u \in Range(l) <=> u[1] = n + 1 /\ u[2] \in 1 .. a[n + 1].size
  PROVE  /\ Way(a, n + 1, g, b, o, c, x, l)
         /\ Whole(a, n, g, b, o, x, <<>>) => Whole(a, n + 1, g, b, o, x, l)
<1>1. Range(<<>>) = {}
  BY FewInOrder
<1>2. Range(l) \subseteq Unit
  BY DEF Text, Range
<1>3. Sent(a, n + 1) = Sent(a, n) \cup Range(l)
  BY <1>2 DEF Sent, Unit
<1>4. \A u \in Sent(a, n) : \A v \in Range(l) : Apart(a, u, v)
  <2>1. ASSUME NEW u \in Sent(a, n), NEW v \in Range(l) PROVE Apart(a, u, v)
    <3>1. u[1] \in 1 .. n /\ v[1] = n + 1
      BY <1>2 DEF Sent
    <3>2. u[1] < v[1]
      BY <3>1
    <3>3. QED
      BY <3>2 DEF Apart, Before
  <2>2. QED
    BY <2>1
<1>5. Way(a, n + 1, g, b, o, c, x, l)
  BY <1>1, <1>3, <1>4 DEF Way, Ahead
<1>6. QED
  BY <1>1, <1>3, <1>5 DEF Whole

\* An empty fragment at the end of the chain, and one for the body.
LEMMA FragmentAdded ==
  ASSUME NEW a, NEW n, NEW g \in Text, NEW b \in Seq(Text), NEW o \in Seq(Text),
         NEW c \in Seq(Text), NEW l \in Text
  PROVE  /\ \A x \in Seq(Text) :
              Way(a, n, g, b, o, c, x, l) => Way(a, n, g, b, o, Append(c, <<>>), x, l)
         /\ Way(a, n, g, b, o, c, <<>>, l) => Way(a, n, g, b, o, c, <<<<>>>>, l)
         /\ Whole(a, n, g, b, o, <<>>, l) => Whole(a, n, g, b, o, <<<<>>>>, l)
<1>1. Range(<<>>) = {} /\ InOrder(a, <<>>) /\ Held(<<>>) = {} /\ ListInOrder(a, <<>>)
      /\ <<>> \in Text /\ <<<<>>>> \in Seq(Text)
      /\ Held(<<<<>>>>) = Range(<<>>) /\ ListInOrder(a, <<<<>>>>)
  <2>1. <<>> \in Text
    BY FewInOrder DEF Text
  <2>2. QED
    BY <2>1, FewInOrder
<1>2. Append(c, <<>>) = c \o <<<<>>>>
  BY <1>1, AppendIsConcat
<1>3. Held(Append(c, <<>>)) = Held(c)
      /\ (ListInOrder(a, Append(c, <<>>)) <=> ListInOrder(a, c))
  <2>1. /\ Held(c \o <<<<>>>>) = Held(c) \cup Held(<<<<>>>>)
        /\ (ListInOrder(a, c \o <<<<>>>>) <=>
              ListInOrder(a, c) /\ ListInOrder(a, <<<<>>>>) /\ Ahead(a, Held(c), Held(<<<<>>>>)))
    BY <1>1, ListsInOrder
  <2>2. QED
    BY <1>1, <1>2, <2>1 DEF Ahead
<1>4. ASSUME NEW x \in Seq(Text), Way(a, n, g, b, o, c, x, l)
      PROVE  Way(a, n, g, b, o, Append(c, <<>>), x, l)
  BY <1>3, <1>4 DEF Way
<1>5. Way(a, n, g, b, o, c, <<>>, l) => Way(a, n, g, b, o, c, <<<<>>>>, l)
  BY <1>1 DEF Way
<1>6. Whole(a, n, g, b, o, <<>>, l) => Whole(a, n, g, b, o, <<<<>>>>, l)
  BY <1>1 DEF Whole
<1>7. QED
  BY <1>4, <1>5, <1>6

\* A header line goes to the end of the chain.
LEMMA HeaderCopied ==
  ASSUME NEW a, NEW n, NEW g \in Text, NEW b \in Seq(Text), NEW o \in Seq(Text),
         NEW c \in Seq(Text), NEW x \in Seq(Text), NEW l \in Text, Way(a, n, g, b, o, c, x, l),
         c # <<>>, \A u \in Range(l) : a[u[1]].kind = "header"
  PROVE  /\ Way(a, n, g, b, o, Front(c) \o <<Last(c) \o l>>, x, <<>>)
         /\ Whole(a, n, g, b, o, x, l) => Whole(a, n, g, b, o, x, <<>>)
<1>1. PICK p \in Seq(Text), f \in Text : p = Front(c) /\ f = Last(c) /\ c = p \o <<f>>
  BY LastInOrder
<1>2. /\ Held(c) = Held(p) \cup Range(f)
      /\ ListInOrder(a, c) => ListInOrder(a, p) /\ InOrder(a, f) /\ Ahead(a, Held(p), Range(f))
  <2>1. PICK e \in Seq(Text) :
          /\ e = p \o <<f>> /\ Held(e) = Held(p) \cup Range(f)
          /\ ListInOrder(a, e) => ListInOrder(a, p) /\ InOrder(a, f) /\ Ahead(a, Held(p), Range(f))
    BY EndInOrder, Zenon
  <2>2. e = c
    BY <1>1, <2>1, Zenon
  <2>3. QED
    BY <2>1, <2>2, Zenon
<1>3. /\ f \o l \in Text /\ Range(f \o l) = Range(f) \cup Range(l)
      /\ InOrder(a, f) /\ InOrder(a, l) /\ Ahead(a, Range(f), Range(l)) => InOrder(a, f \o l)
  BY TextsInOrder
<1>4. PICK h \in Text : h = f \o l
  BY <1>3
<1>5. /\ Held(p \o <<h>>) = Held(p) \cup Range(h)
      /\ ListInOrder(a, p) /\ InOrder(a, h) /\ Ahead(a, Held(p), Range(h)) => ListInOrder(a, p \o <<h>>)
  BY EndInOrder, Zenon
<1>6. PICK d \in Seq(Text) : d = p \o <<h>>
  BY EndInOrder, Zenon
<1>7. Held(d) = Held(c) \cup Range(l) /\ ListInOrder(a, d)
  <2>1. Ahead(a, Held(p), Range(h))
    BY <1>2, <1>3, <1>4 DEF Way, Ahead
  <2>2. InOrder(a, h)
    BY <1>2, <1>3, <1>4 DEF Way, Ahead
  <2>3. QED
    BY <1>2, <1>3, <1>4, <1>5, <1>6, <2>1, <2>2 DEF Way
<1>8. Range(<<>>) = {} /\ InOrder(a, <<>>)
  BY FewInOrder
<1>9. Way(a, n, g, b, o, d, x, <<>>)
  BY <1>7, <1>8 DEF Way, Ahead
<1>10. Whole(a, n, g, b, o, x, l) => Whole(a, n, g, b, o, x, <<>>)
  BY <1>8 DEF Whole, IsBody
<1>11. QED
  BY <1>1, <1>4, <1>6, <1>9, <1>10

\* The fragment for the body goes to the list.
LEMMA BodyFlushed ==
  ASSUME NEW a, NEW n, NEW g \in Text, NEW b \in Seq(Text), NEW o \in Seq(Text),
         NEW c \in Seq(Text), NEW x \in Seq(Text), NEW l \in Text, Way(a, n, g, b, o, c, x, l)
  PROVE  /\ Way(a, n, g, b, o \o x, c, <<>>, l)
         /\ Whole(a, n, g, b, o, x, l) => Whole(a, n, g, b, o \o x, <<>>, l)
<1>1. Held(o \o x) = Held(o) \cup Held(x)
      /\ (ListInOrder(a, o \o x) <=> ListInOrder(a, o) /\ ListInOrder(a, x) /\ Ahead(a, Held(o), Held(x)))
  BY ListsInOrder
<1>2. Held(<<>>) = {} /\ ListInOrder(a, <<>>)
  BY FewInOrder
<1>3. \A u \in Held(x) : \A v \in Held(c) : Apart(a, u, v)
  BY DEF Way, Apart, IsBody
<1>4. Way(a, n, g, b, o \o x, c, <<>>, l)
  BY <1>1, <1>2, <1>3 DEF Way, Ahead
<1>5. QED
  BY <1>1, <1>2, <1>4 DEF Whole

\* A piece of body goes to its fragment.
LEMMA BodyCopied ==
  ASSUME NEW a, NEW n, NEW g \in Text, NEW b \in Seq(Text), NEW o \in Seq(Text),
         NEW c \in Seq(Text), NEW f \in Text, NEW p \in Text, NEW t \in Text,
         Way(a, n, g, b, o, c, <<f>>, p \o t),
         \A u \in Range(p \o t) : a[u[1]].kind = "body"
  PROVE  /\ Way(a, n, g, b, o, c, <<f \o p>>, t)
         /\ Whole(a, n, g, b, o, <<f>>, p \o t) => Whole(a, n, g, b, o, <<f \o p>>, t)
<1>1. PICK h \in Text : h = f \o p
  BY TextsInOrder
<1>2. PICK l \in Text : l = p \o t
  BY TextsInOrder
<1>3. PICK x \in Seq(Text), y \in Seq(Text) : x = <<f>> /\ y = <<h>>
  BY FewInOrder
<1>4. /\ Range(h) = Range(f) \cup Range(p)
      /\ InOrder(a, f) /\ InOrder(a, p) /\ Ahead(a, Range(f), Range(p)) => InOrder(a, h)
  BY <1>1, TextsInOrder, Zenon
<1>5. /\ Range(l) = Range(p) \cup Range(t)
      /\ InOrder(a, l) => InOrder(a, p) /\ InOrder(a, t) /\ Ahead(a, Range(p), Range(t))
  BY <1>2, TextsInOrder, Zenon
<1>6. /\ Held(x) = Range(f) /\ (ListInOrder(a, x) <=> InOrder(a, f))
      /\ Held(y) = Range(h) /\ (ListInOrder(a, y) <=> InOrder(a, h))
  BY <1>3, FewInOrder, Zenon
<1>7. Way(a, n, g, b, o, c, x, l) /\ \A u \in Range(l) : a[u[1]].kind = "body"
  BY <1>2, <1>3, Zenon
<1>8. \A u \in Held(c) : \A v \in Range(p) : Apart(a, u, v) /\ Apart(a, v, u)
  BY <1>5, <1>7 DEF Way, Apart
<1>9. Ahead(a, Range(f), Range(p)) /\ InOrder(a, h) /\ InOrder(a, t)
  BY <1>4, <1>5, <1>6, <1>7 DEF Way, Ahead
<1>10. Way(a, n, g, b, o, c, y, t)
  BY <1>4, <1>5, <1>6, <1>7, <1>8, <1>9 DEF Way, Ahead, IsBody
<1>11. Whole(a, n, g, b, o, x, l) => Whole(a, n, g, b, o, y, t)
  BY <1>4, <1>5, <1>6 DEF Whole
<1>12. QED
  BY <1>1, <1>2, <1>3, <1>10, <1>11, Zenon

\* The end of the stream: the end of the chain and the fragment for the body.
LEMMA StreamPublished ==
  ASSUME NEW a, NEW n, NEW g \in Text, NEW b \in Seq(Text), NEW o \in Seq(Text),
         NEW p \in Seq(Text), NEW d \in Seq(Text), NEW x \in Seq(Text), NEW l \in Text,
         Way(a, n, g, b, o, p \o d, x, l)
  PROVE  /\ Way(a, n, g, b, o \o (d \o x), <<>>, <<>>, l)
         /\ Whole(a, n, g, b, o, x, l) => Whole(a, n, g, b, o \o (d \o x), <<>>, l)
<1>1. PICK c \in Seq(Text), e \in Seq(Text) : c = p \o d /\ e = d \o x
  BY ListsInOrder
<1>2. Way(a, n, g, b, o, c, x, l)
  BY <1>1
<1>3. Held(c) = Held(p) \cup Held(d) /\ (ListInOrder(a, c) => ListInOrder(a, d))
  BY <1>1, ListsInOrder
<1>4. \A u \in Held(d) : \A v \in Held(x) : Apart(a, u, v)
  BY <1>2, <1>3 DEF Way, Apart, IsBody
<1>5. Held(e) = Held(d) \cup Held(x) /\ ListInOrder(a, e)
  <2>1. Held(e) = Held(d) \cup Held(x)
        /\ (ListInOrder(a, d) /\ ListInOrder(a, x) /\ Ahead(a, Held(d), Held(x)) => ListInOrder(a, e))
    BY <1>1, ListsInOrder
  <2>2. QED
    BY <1>2, <1>3, <1>4, <2>1 DEF Way, Ahead
<1>6. PICK q \in Seq(Text) : q = o \o e
  BY ListsInOrder
<1>7. Held(q) = Held(o) \cup Held(d) \cup Held(x) /\ ListInOrder(a, q)
  <2>1. Held(q) = Held(o) \cup Held(e)
        /\ (ListInOrder(a, o) /\ ListInOrder(a, e) /\ Ahead(a, Held(o), Held(e)) => ListInOrder(a, q))
    BY <1>6, ListsInOrder
  <2>2. QED
    BY <1>2, <1>3, <1>5, <2>1 DEF Way, Ahead
<1>8. Held(<<>>) = {} /\ ListInOrder(a, <<>>)
  BY FewInOrder
<1>9. Way(a, n, g, b, q, <<>>, <<>>, l)
  BY <1>2, <1>3, <1>7, <1>8 DEF Way, Ahead
<1>10. Whole(a, n, g, b, o, x, l) => Whole(a, n, g, b, q, <<>>, l)
  BY <1>7, <1>8 DEF Whole
<1>11. QED
  BY <1>1, <1>6, <1>9, <1>10

\* The list is detached, when nothing was.
LEMMA ListDetached ==
  ASSUME NEW a, NEW n, NEW g \in Text, NEW o \in Seq(Text),
         NEW c \in Seq(Text), NEW x \in Seq(Text), NEW l \in Text,
         Way(a, n, g, <<>>, o, c, x, l)
  PROVE  /\ Way(a, n, g, o, <<>>, c, x, l)
         /\ Whole(a, n, g, <<>>, o, x, l) => Whole(a, n, g, o, <<>>, x, l)
<1>1. Held(<<>>) = {} /\ ListInOrder(a, <<>>)
  BY FewInOrder
<1>2. QED
  BY <1>1 DEF Way, Whole, Ahead

\* What was detached goes back.
LEMMA BatchReturned ==
  ASSUME NEW a, NEW n, NEW g \in Text, NEW b \in Seq(Text), NEW o \in Seq(Text),
         NEW c \in Seq(Text), NEW x \in Seq(Text), NEW l \in Text,
         Way(a, n, g, b, o, c, x, l)
  PROVE  /\ Way(a, n, g, <<>>, o, c, x, l)
         /\ Held(b) = {} /\ Whole(a, n, g, b, o, x, l) => Whole(a, n, g, <<>>, o, x, l)
<1>1. Held(<<>>) = {} /\ ListInOrder(a, <<>>)
  BY FewInOrder
<1>2. QED
  BY <1>1 DEF Way, Whole, Ahead

\* One is before the other or not.
LEMMA BeforeIsOrder ==
  ASSUME NEW u \in Unit, NEW v \in Unit, Before(u, v)
  PROVE  ~Before(v, u) /\ u # v /\ u[1] <= v[1]
<1>1. u[1] \in Nat /\ u[2] \in Nat /\ v[1] \in Nat /\ v[2] \in Nat
  BY DEF Unit
<1>2. QED
  BY <1>1 DEF Before

\* The units of all bodies, and a text in which none is missing before another.
BodyOf(a) == {u \in Sent(a, Len(a)) : IsBody(a, u)}
Seen(a, g) ==
  \A j \in DOMAIN g : IsBody(a, g[j]) =>
    \A u \in BodyOf(a) : Before(u, g[j]) => \E i \in 1 .. j - 1 : g[i] = u

\* A place i that m more places do not bring to j or behind it ends up before j.
LEMMA BehindPlace ==
  ASSUME NEW m \in Nat, NEW j \in Int, NEW i \in Nat, i >= 1, i # j - m, ~(j - m < i)
  PROVE  i + m \in 1 .. j - 1
OBVIOUS

\* A callback sees the first fragment of a batch.
LEMMA FragmentShown ==
  ASSUME NEW a, NEW n \in Nat, NEW g \in Text, NEW b \in Seq(Text), NEW o \in Seq(Text),
         NEW c \in Seq(Text), NEW x \in Seq(Text), NEW l \in Text,
         Way(a, n, g, b, o, c, x, l), NEW k \in DOMAIN b,
         \A i \in DOMAIN b : b[i] # <<>> => k <= i
  PROVE  /\ Way(a, n, g \o b[k], [b EXCEPT ![k] = <<>>], o, c, x, l)
         /\ Whole(a, n, g, b, o, x, l) => Whole(a, n, g \o b[k], [b EXCEPT ![k] = <<>>], o, x, l)
         /\ Whole(a, n, g, b, o, x, l) /\ Seen(a, g) => Seen(a, g \o b[k])
<1>1. PICK f \in Text, d \in Seq(Text) :
        /\ f = b[k] /\ d = [b EXCEPT ![k] = <<>>] /\ Held(b) = Range(f) \cup Held(d)
        /\ ListInOrder(a, b) => InOrder(a, f) /\ ListInOrder(a, d) /\ Ahead(a, Range(f), Held(d))
  <2>1. LET e == [b EXCEPT ![k] = <<>>]
        IN  /\ e \in Seq(Text) /\ b[k] \in Text /\ Held(b) = Range(b[k]) \cup Held(e)
            /\ ListInOrder(a, b) => InOrder(a, b[k]) /\ ListInOrder(a, e) /\ Ahead(a, Range(b[k]), Held(e))
    BY FirstInOrder, Zenon
  <2>2. QED
    BY <2>1, Zenon
<1>2. PICK h \in Text :
        /\ h = g \o f /\ Range(h) = Range(g) \cup Range(f)
        /\ InOrder(a, g) /\ InOrder(a, f) /\ Ahead(a, Range(g), Range(f)) => InOrder(a, h)
  BY TextsInOrder
<1>3. Way(a, n, h, d, o, c, x, l)
  BY <1>1, <1>2 DEF Way, Ahead
<1>4. Whole(a, n, g, b, o, x, l) => Whole(a, n, h, d, o, x, l)
  BY <1>1, <1>2 DEF Whole
<1>5. ASSUME Whole(a, n, g, b, o, x, l), Seen(a, g) PROVE Seen(a, h)
  <2> DEFINE m == Len(g)
  <2>1. /\ m \in Nat /\ DOMAIN g = 1 .. m /\ DOMAIN f = 1 .. Len(f) /\ Len(f) \in Nat
        /\ DOMAIN h = 1 .. m + Len(f)
        /\ \A i \in 1 .. m : i \in DOMAIN h /\ h[i] = g[i]
        /\ \A i \in 1 .. Len(f) : i + m \in DOMAIN h /\ h[i + m] = f[i]
        /\ \A i \in DOMAIN h : \/ i \in 1 .. m /\ h[i] = g[i]
                               \/ i - m \in 1 .. Len(f) /\ i > m /\ h[i] = f[i - m]
    <3>1. g \in Seq(Unit) /\ f \in Seq(Unit)
      BY DEF Text
    <3>2. /\ Len(g) \in Nat /\ DOMAIN g = 1 .. Len(g) /\ DOMAIN f = 1 .. Len(f) /\ Len(f) \in Nat
          /\ DOMAIN (g \o f) = 1 .. Len(g) + Len(f)
          /\ \A i \in 1 .. Len(g) : i \in DOMAIN (g \o f) /\ (g \o f)[i] = g[i]
          /\ \A i \in 1 .. Len(f) : i + Len(g) \in DOMAIN (g \o f) /\ (g \o f)[i + Len(g)] = f[i]
          /\ \A i \in DOMAIN (g \o f) :
                \/ i \in 1 .. Len(g) /\ (g \o f)[i] = g[i]
                \/ i - Len(g) \in 1 .. Len(f) /\ i > Len(g) /\ (g \o f)[i] = f[i - Len(g)]
      BY <3>1, PartOf
    <3>3. QED
      BY <1>2, <3>2, Zenon
  <2>2. \A i \in 1 .. Len(f) : f[i] \in Unit
    BY <2>1 DEF Text
  <2> HIDE DEF m
  <2>3. ASSUME NEW j \in DOMAIN h, IsBody(a, h[j]), NEW u \in BodyOf(a), Before(u, h[j])
        PROVE  \E i \in 1 .. j - 1 : h[i] = u
    <3>1. CASE j \in 1 .. m /\ h[j] = g[j]
      <4>1. PICK i \in 1 .. j - 1 : g[i] = u
        BY <1>5, <2>1, <2>3, <3>1 DEF Seen
      <4>2. i \in 1 .. m
        BY <2>1, <3>1
      <4>3. QED
        BY <2>1, <4>1, <4>2
    <3>2. CASE j - m \in 1 .. Len(f) /\ j > m /\ h[j] = f[j - m]
      <4>1. PICK w \in Unit : w = f[j - m] /\ w \in Range(f)
        BY <2>1, <2>2, <3>2 DEF Range
      <4>2. u \in Unit /\ IsBody(a, u) /\ IsBody(a, w) /\ Before(u, w) /\ u \in Sent(a, Len(a))
        BY <2>3, <3>2, <4>1 DEF BodyOf, Sent
      <4>3. ~Before(w, u) /\ u # w /\ u[1] <= w[1]
        BY <4>2, BeforeIsOrder
      <4>4. w \in Sent(a, n)
        BY <1>1, <4>1 DEF Way
      <4>5. u \in Sent(a, n)
        <5>1. u[1] \in Nat /\ u[1] >= 1 /\ w[1] \in 1 .. n
          BY <4>2, <4>4 DEF Sent, Unit
        <5>2. u[1] \in 1 .. n
          BY <4>3, <5>1
        <5>3. QED
          BY <4>2, <5>2 DEF Sent
      <4>6. u \in Range(g) \cup Held(b) \cup Held(o) \cup Held(x) \cup Range(l)
        BY <1>5, <4>2, <4>5 DEF Whole
      <4>7. \A v : v \in Held(d) \cup Held(o) \cup Held(x) \cup Range(l) => Apart(a, w, v)
        BY <1>1, <4>1 DEF Way, Ahead
      <4>8. ~Apart(a, w, u)
        BY <4>2, <4>3 DEF Apart, IsBody
      <4>9. u \in Range(g) \cup Range(f)
        BY <1>1, <4>6, <4>7, <4>8
      <4>10. CASE u \in Range(g)
        <5>1. PICK i \in 1 .. m : g[i] = u
          BY <2>1, <4>10 DEF Range
        <5>2. i \in 1 .. j - 1
          BY <2>1, <3>2, <5>1
        <5>3. QED
          BY <2>1, <5>1, <5>2
      <4>11. CASE u \in Range(f)
        <5>1. PICK i \in 1 .. Len(f) : f[i] = u
          BY <2>1, <4>11 DEF Range
        <5>2. i # j - m
          BY <4>1, <4>3, <5>1
        <5>3. ~(j - m < i)
          BY <1>1, <2>1, <3>2, <4>1, <4>8, <5>1 DEF Way, InOrder
        <5>4. i \in Nat /\ i >= 1 /\ j \in Int
          BY <2>1, <2>3, <5>1
        <5>5. i + m \in 1 .. j - 1
          BY <2>1, <5>2, <5>3, <5>4, BehindPlace
        <5>6. QED
          BY <2>1, <5>1, <5>5
      <4>12. QED
        BY <4>9, <4>10, <4>11
    <3>3. QED
      BY <2>1, <3>1, <3>2
  <2>4. QED
    BY <2>3 DEF Seen
<1>6. QED
  BY <1>1, <1>2, <1>3, <1>4, <1>5

\* Where units are on their way from curl to the callbacks.
BatchOf(r) == IF hnd = r THEN batch ELSE <<>>
LeftOf(r) == IF preq = r THEN pleft ELSE <<>>

\* While its owner wants it, no unit of a body is missing.
Wanted(r) == response[r] # "freed" /\ ~aborted[r]

UnitsOnTheirWay(r) ==
  /\ Way(script[r], fed[r], got[r], BatchOf(r), out[r], chain[r], active[r], LeftOf(r))
  /\ Wanted(r) => Whole(script[r], fed[r], got[r], BatchOf(r), out[r], active[r], LeftOf(r))
  /\ Seen(script[r], got[r])

UnitsInv ==
  /\ got \in [Requests -> Text]
  /\ \A r \in Requests : UnitsOnTheirWay(r)
  /\ \A u \in Range(pleft) : script[preq][u[1]].kind = ppc
  /\ ppc \notin {"header", "body"} => pleft = <<>>

\* The types of what is on its way.
LEMMA WayTyped ==
  ASSUME HandlesInv, FragInv, UnitsInv, NEW r \in Requests
  PROVE  /\ fed[r] \in Nat /\ got[r] \in Text /\ BatchOf(r) \in Seq(Text) /\ out[r] \in Seq(Text)
         /\ chain[r] \in Seq(Text) /\ active[r] \in Seq(Text) /\ LeftOf(r) \in Text
         /\ batch \in Seq(Text) /\ pleft \in Text
<1>1. \A s \in Seq(Data) : s \in Seq(Text)
  <2>1. Data \subseteq Text
    BY DEF Data, Text
  <2> HIDE DEF Data
  <2>2. QED
    BY <2>1
<1>2. chain[r] \in Seq(Data) /\ out[r] \in Seq(Data) /\ active[r] \in Seq(Data) /\ batch \in Seq(Data)
  BY DEF FragInv, StreamsTyped
<1>3. pleft \in Text /\ fed[r] \in Nat /\ got[r] \in Text
  BY DEF FragInv, StreamsTyped, HandlesInv, ListsTyped, UnitsInv, Text
<1>4. <<>> \in Text /\ <<>> \in Seq(Text)
  BY FewInOrder DEF Text
<1>5. BatchOf(r) \in Seq(Text) /\ LeftOf(r) \in Text
  BY <1>1, <1>2, <1>3, <1>4 DEF BatchOf, LeftOf
<1>6. QED
  BY <1>1, <1>2, <1>3, <1>5

\* A request whose units do not move.
LEMMA UnitsStayWith ==
  ASSUME NEW r \in Requests, UnitsOnTheirWay(r), script'[r] = script[r], fed'[r] = fed[r],
         got'[r] = got[r], BatchOf(r)' = BatchOf(r), out'[r] = out[r], chain'[r] = chain[r],
         active'[r] = active[r], LeftOf(r)' = LeftOf(r), Wanted(r)' => Wanted(r)
  PROVE  UnitsOnTheirWay(r)'
BY DEF UnitsOnTheirWay

\* Steps that move none.
LEMMA UnitsStay ==
  ASSUME UnitsInv, UNCHANGED <<script, fed, got, out, chain, active, batch, pleft>>,
         hnd' = hnd \/ batch = <<>>, (preq' = preq /\ ppc' = ppc) \/ pleft = <<>>,
         \A r \in Requests : Wanted(r)' => Wanted(r)
  PROVE  UnitsInv'
<1>1. ASSUME NEW r \in Requests PROVE UnitsOnTheirWay(r)'
  <2>1. BatchOf(r)' = BatchOf(r) /\ LeftOf(r)' = LeftOf(r)
    BY DEF BatchOf, LeftOf
  <2>2. UnitsOnTheirWay(r)
    BY DEF UnitsInv
  <2>3. QED
    BY <2>1, <2>2, UnitsStayWith
<1>2. (\A u \in Range(pleft') : script'[preq'][u[1]].kind = ppc')
      /\ (ppc' \notin {"header", "body"} => pleft' = <<>>)
  BY EmptyList DEF UnitsInv
<1>3. QED
  BY <1>1, <1>2 DEF UnitsInv

\* At first there are none.
LEMMA InitUnits == Init => UnitsInv
<1> SUFFICES ASSUME Init PROVE UnitsInv
  OBVIOUS
<1>1. <<>> \in Text
  BY DEF Text
<1>2. Held(<<>>) = {} /\ Range(<<>>) = {} /\ DOMAIN <<>> = {}
  BY DEF Held, Range
<1>3. \A a : InOrder(a, <<>>) /\ ListInOrder(a, <<>>)
  BY DEF InOrder, ListInOrder
<1>4. got \in [Requests -> Text] /\ pleft = <<>> /\ preq = None
  BY <1>1 DEF Init
<1>5. ASSUME NEW r \in Requests PROVE UnitsOnTheirWay(r)
  <2>1. /\ fed[r] = 0 /\ got[r] = <<>> /\ BatchOf(r) = <<>> /\ out[r] = <<>> /\ chain[r] = <<>>
        /\ active[r] = <<>> /\ LeftOf(r) = <<>>
    BY DEF Init, BatchOf, LeftOf
  <2>2. Sent(script[r], 0) = {}
    BY DEF Sent
  <2>3. Way(script[r], 0, <<>>, <<>>, <<>>, <<>>, <<>>, <<>>)
    BY <1>2, <1>3 DEF Way, Ahead
  <2>4. Whole(script[r], 0, <<>>, <<>>, <<>>, <<>>, <<>>)
    BY <2>2 DEF Whole
  <2>5. Seen(script[r], <<>>)
    BY <1>2 DEF Seen
  <2>6. QED
    BY <2>1, <2>3, <2>4, <2>5 DEF UnitsOnTheirWay
<1>6. QED
  BY <1>2, <1>4, <1>5 DEF UnitsInv

\* The units of a call.
LEMMA UnitsOf ==
  ASSUME HandlesInv, NEW r \in Requests, fed[r] < Len(script[r])
  PROVE  LET n == fed[r]
             l == Units(r, n + 1)
         IN  /\ l \in Text /\ InOrder(script[r], l)
             /\ \A u \in Unit : u \in Range(l) <=> u[1] = n + 1 /\ u[2] \in 1 .. script[r][n + 1].size
             /\ \A u \in Range(l) : u[1] = n + 1
             /\ script[r][n + 1].kind \in {"header", "body"}
<1>1. PICK n \in Nat, a \in Scripts : n = fed[r] /\ a = script[r]
  BY DEF HandlesInv, ListsTyped
<1> DEFINE K == [kind : {"header", "body"}, size : Nat]
<1>2. a \in Seq(K) /\ n < Len(a)
  BY <1>1, ScriptsAssumption
<1>3. n + 1 \in 1 .. Len(a) /\ n + 1 \in Nat
  BY <1>1, <1>2
<1> HIDE DEF K
<1>4. a[n + 1] \in K
  BY <1>2, <1>3
<1>5. PICK z \in Nat : z = a[n + 1].size
  BY <1>4 DEF K
<1>6. a[n + 1].kind \in {"header", "body"}
  BY <1>4 DEF K
<1>7. PICK l : l = Units(r, n + 1)
  OBVIOUS
<1>8. l = [i \in 1 .. z |-> <<n + 1, i>>]
  BY <1>1, <1>5, <1>7 DEF Units
<1>9. l \in Text
  <2>1. l \in [1 .. z -> Unit]
    BY <1>3, <1>8 DEF Unit
  <2>2. QED
    BY <1>5, <2>1 DEF Text
<1>10. DOMAIN l = 1 .. z /\ \A i \in 1 .. z : l[i] = <<n + 1, i>>
  BY <1>8
<1>11. InOrder(a, l)
  BY <1>10 DEF InOrder, Apart, Before
<1>12. \A u \in Unit : u \in Range(l) <=> u[1] = n + 1 /\ u[2] \in 1 .. z
  <2>1. ASSUME NEW u \in Range(l) PROVE u[1] = n + 1 /\ u[2] \in 1 .. z
    BY <1>10 DEF Range
  <2>2. ASSUME NEW u \in Unit, u[1] = n + 1, u[2] \in 1 .. z PROVE u \in Range(l)
    <3>1. u = <<u[1], u[2]>>
      BY DEF Unit
    <3>2. u = l[u[2]]
      BY <1>10, <2>2, <3>1
    <3>3. QED
      BY <1>10, <2>2, <3>2 DEF Range
  <2>3. QED
    BY <2>1, <2>2
<1>13. \A u \in Range(l) : u[1] = n + 1
  BY <1>10 DEF Range
<1>14. QED
  BY <1>1, <1>5, <1>6, <1>7, <1>9, <1>11, <1>12, <1>13, Zenon

\* Steps that move the units of one request.
LEMMA UnitsMove ==
  ASSUME UnitsInv, NEW r \in Requests, UnitsOnTheirWay(r)', got' \in [Requests -> Text],
         script' = script,
         \A q \in Requests \ {r} :
           /\ fed'[q] = fed[q] /\ got'[q] = got[q] /\ out'[q] = out[q]
           /\ chain'[q] = chain[q] /\ active'[q] = active[q]
           /\ BatchOf(q)' = BatchOf(q) /\ LeftOf(q)' = LeftOf(q) /\ (Wanted(q)' => Wanted(q)),
         \A u \in Range(pleft') : script'[preq'][u[1]].kind = ppc',
         ppc' \notin {"header", "body"} => pleft' = <<>>
  PROVE  UnitsInv'
<1>1. ASSUME NEW q \in Requests \ {r} PROVE UnitsOnTheirWay(q)'
  <2>1. UnitsOnTheirWay(q) /\ q \in Requests /\ script'[q] = script[q]
    BY DEF UnitsInv
  <2>2. QED
    BY <2>1, UnitsStayWith
<1>2. QED
  BY <1>1 DEF UnitsInv

\* curl delivers the units of a call, after the headers before a body went to the list.
LEMMA ReceiveUnits ==
  ASSUME HandlesInv, FragInv, UnitsInv, NEW r \in Requests, Receive(r) PROVE UnitsInv'
<1>1. PICK a \in Scripts, n \in Nat : a = script[r] /\ n = fed[r]
  BY DEF HandlesInv, ListsTyped
<1>2. PICK l \in Text :
        /\ l = Units(r, n + 1) /\ InOrder(a, l)
        /\ \A u \in Unit : u \in Range(l) <=> u[1] = n + 1 /\ u[2] \in 1 .. a[n + 1].size
        /\ (\A u \in Range(l) : u[1] = n + 1) /\ a[n + 1].kind \in {"header", "body"}
  BY <1>1, UnitsOf DEF Receive
<1>3. /\ ppc' = a[n + 1].kind /\ preq' = r /\ pleft' = l /\ fed' = [fed EXCEPT ![r] = n + 1]
      /\ UNCHANGED <<script, got, active, batch, hnd, response, aborted>> /\ ppc = "perform"
  BY <1>1, <1>2 DEF Receive, client, mainVars
<1>4. pleft = <<>> /\ preq = None /\ r # None
  BY <1>3, RequestsAssumption DEF UnitsInv, HandlesInv, OnePlace
<1>5. /\ got[r] \in Text /\ BatchOf(r) \in Seq(Text) /\ out[r] \in Seq(Text)
      /\ chain[r] \in Seq(Text) /\ active[r] \in Seq(Text) /\ <<>> \in Text /\ <<>> \in Seq(Text)
  BY WayTyped, FewInOrder
<1>6. Way(a, n, got[r], BatchOf(r), out[r], chain[r], active[r], <<>>)
      /\ (Wanted(r) => Whole(a, n, got[r], BatchOf(r), out[r], active[r], <<>>))
  BY <1>1, <1>4 DEF UnitsInv, UnitsOnTheirWay, LeftOf
<1>7. PICK o \in Seq(Text), c \in Seq(Text) :
        /\ out' = [out EXCEPT ![r] = o] /\ chain' = [chain EXCEPT ![r] = c]
        /\ Way(a, n, got[r], BatchOf(r), o, c, active[r], <<>>)
        /\ (Wanted(r) => Whole(a, n, got[r], BatchOf(r), o, active[r], <<>>))
  <2>1. CASE ppc' = "body" /\ chain[r] # <<>>
    <3>1. PICK o \in Seq(Text) : o = out[r] \o chain[r]
      BY <1>5, ListsInOrder
    <3>2. out' = [out EXCEPT ![r] = o] /\ chain' = [chain EXCEPT ![r] = <<>>]
      BY <2>1, <3>1 DEF Receive
    <3>3. /\ Way(a, n, got[r], BatchOf(r), o, <<>>, active[r], <<>>)
          /\ (Wanted(r) => Whole(a, n, got[r], BatchOf(r), o, active[r], <<>>))
      BY <1>5, <1>6, <3>1, HeadersFlushed, Zenon
    <3>4. QED
      BY <1>5, <3>2, <3>3, Zenon
  <2>2. CASE ~(ppc' = "body" /\ chain[r] # <<>>)
    <3>1. out' = out /\ chain' = chain
      BY <2>2 DEF Receive
    <3>2. out' = [out EXCEPT ![r] = out[r]] /\ chain' = [chain EXCEPT ![r] = chain[r]]
      BY <3>1 DEF FragInv, StreamsTyped
    <3>3. QED
      BY <1>5, <1>6, <3>2, Zenon
  <2>3. QED
    BY <2>1, <2>2
<1>8. /\ Way(a, n + 1, got[r], BatchOf(r), o, c, active[r], l)
      /\ (Wanted(r) => Whole(a, n + 1, got[r], BatchOf(r), o, active[r], l))
  BY <1>2, <1>5, <1>7, UnitsReceived, Zenon
<1>9. /\ out'[r] = o /\ chain'[r] = c /\ fed'[r] = n + 1 /\ LeftOf(r)' = l
      /\ BatchOf(r)' = BatchOf(r) /\ (Wanted(r)' <=> Wanted(r))
      /\ \A q \in Requests \ {r} :
           /\ fed'[q] = fed[q] /\ out'[q] = out[q] /\ chain'[q] = chain[q]
           /\ BatchOf(q)' = BatchOf(q) /\ LeftOf(q)' = LeftOf(q) /\ (Wanted(q)' <=> Wanted(q))
  BY <1>3, <1>4, <1>7 DEF FragInv, StreamsTyped, HandlesInv, ListsTyped, BatchOf, LeftOf, Wanted
<1>10. UnitsOnTheirWay(r)'
  <2>1. Seen(a, got[r])
    BY <1>1 DEF UnitsInv, UnitsOnTheirWay
  <2>2. QED
    BY <1>1, <1>3, <1>8, <1>9, <2>1 DEF UnitsOnTheirWay
<1>11. \A u \in Range(pleft') : script'[preq'][u[1]].kind = ppc'
  BY <1>1, <1>2, <1>3
<1>12. got' \in [Requests -> Text] /\ ppc' \in {"header", "body"}
  BY <1>2, <1>3 DEF UnitsInv
<1>13. QED
  BY <1>3, <1>9, <1>10, <1>11, <1>12, UnitsMove

\* A header line goes to a new fragment of the chain or to the last one.
LEMMA HeaderUnits ==
  HandlesInv /\ FragInv /\ UnitsInv /\ (HeaderFragment \/ HeaderCopy) => UnitsInv'
<1> SUFFICES ASSUME HandlesInv, FragInv, UnitsInv, HeaderFragment \/ HeaderCopy PROVE UnitsInv'
  OBVIOUS
<1>1. PICK r \in Requests, a \in Scripts : r = preq /\ a = script[r]
  BY PumpHas DEF HeaderFragment, HeaderCopy, HandlesInv, ListsTyped
<1>2. /\ got[r] \in Text /\ BatchOf(r) \in Seq(Text) /\ out[r] \in Seq(Text)
      /\ chain[r] \in Seq(Text) /\ active[r] \in Seq(Text) /\ pleft \in Text /\ <<>> \in Text
  BY WayTyped, FewInOrder
<1>3. /\ Way(a, fed[r], got[r], BatchOf(r), out[r], chain[r], active[r], pleft)
      /\ (Wanted(r) => Whole(a, fed[r], got[r], BatchOf(r), out[r], active[r], pleft))
      /\ Seen(a, got[r]) /\ \A u \in Range(pleft) : a[u[1]].kind = "header"
  BY <1>1 DEF UnitsInv, UnitsOnTheirWay, LeftOf, HeaderFragment, HeaderCopy
<1>4. /\ UNCHANGED <<script, fed, got, out, active, batch, hnd, response, aborted>>
      /\ got' \in [Requests -> Text]
  BY DEF HeaderFragment, HeaderCopy, transfer, client, mainVars, UnitsInv
<1>5. \A q \in Requests : BatchOf(q)' = BatchOf(q) /\ (Wanted(q)' <=> Wanted(q))
  BY <1>4 DEF BatchOf, Wanted
<1>6. CASE HeaderFragment
  <2>1. chain' = [chain EXCEPT ![r] = Append(chain[r], <<>>)] /\ preq' = preq /\ pleft' = pleft /\ ppc' = ppc
    BY <1>1, <1>6 DEF HeaderFragment, pumpVars
  <2>2. Way(a, fed[r], got[r], BatchOf(r), out[r], Append(chain[r], <<>>), active[r], pleft)
    BY <1>2, <1>3, FragmentAdded, Zenon
  <2>3. /\ chain'[r] = Append(chain[r], <<>>) /\ LeftOf(r)' = pleft
        /\ \A q \in Requests \ {r} : chain'[q] = chain[q] /\ LeftOf(q)' = LeftOf(q)
    BY <1>1, <2>1 DEF FragInv, StreamsTyped, LeftOf
  <2>4. UnitsOnTheirWay(r)'
    BY <1>1, <1>3, <1>4, <1>5, <2>2, <2>3 DEF UnitsOnTheirWay
  <2>5. (\A u \in Range(pleft') : script'[preq'][u[1]].kind = ppc')
        /\ (ppc' \notin {"header", "body"} => pleft' = <<>>)
    BY <1>4, <2>1 DEF UnitsInv
  <2>6. QED
    BY <1>4, <1>5, <2>3, <2>4, <2>5, UnitsMove
<1>7. CASE HeaderCopy
  <2>1. PICK d : d = Front(chain[r]) \o <<Last(chain[r]) \o pleft>>
    OBVIOUS
  <2>2. chain' = [chain EXCEPT ![r] = d] /\ pleft' = <<>> /\ chain[r] # <<>>
    BY <1>1, <1>7, <2>1 DEF HeaderCopy, HeaderFits, Returned
  <2>3. /\ Way(a, fed[r], got[r], BatchOf(r), out[r], d, active[r], <<>>)
        /\ (Wanted(r) => Whole(a, fed[r], got[r], BatchOf(r), out[r], active[r], <<>>))
    BY <1>2, <1>3, <2>1, <2>2, HeaderCopied, Zenon
  <2>4. /\ chain'[r] = d /\ LeftOf(r)' = <<>>
        /\ \A q \in Requests \ {r} : chain'[q] = chain[q] /\ LeftOf(q)' = LeftOf(q)
    BY <1>1, <2>2 DEF FragInv, StreamsTyped, LeftOf
  <2>5. UnitsOnTheirWay(r)'
    BY <1>1, <1>3, <1>4, <1>5, <2>3, <2>4 DEF UnitsOnTheirWay
  <2>6. (\A u \in Range(pleft') : script'[preq'][u[1]].kind = ppc')
    BY <2>2, EmptyList
  <2>7. QED
    BY <1>4, <1>5, <2>2, <2>4, <2>5, <2>6, UnitsMove
<1>8. QED
  BY <1>6, <1>7

\* A text cut in two.
LEMMA TextCut ==
  ASSUME NEW l \in Text, NEW k \in 0 .. Len(l)
  PROVE  /\ SubSeq(l, 1, k) \in Text /\ SubSeq(l, k + 1, Len(l)) \in Text
         /\ SubSeq(l, 1, k) \o SubSeq(l, k + 1, Len(l)) = l
         /\ k = Len(l) => SubSeq(l, k + 1, Len(l)) = <<>>
<1>1. Len(l) \in Nat /\ k \in 0 .. Len(l) /\ k \in Nat /\ 1 \in 1 .. Len(l) + 1 /\ Len(l) \in k .. Len(l)
      /\ k \in 1 - 1 .. Len(l)
  BY DEF Text
<1>2. SubSeq(l, 1, k) \o SubSeq(l, k + 1, Len(l)) = SubSeq(l, 1, Len(l)) /\ SubSeq(l, 1, Len(l)) = l
  BY <1>1, ConcatAdjacentSubSeq, SubSeqFull, Zenon DEF Text
<1>3. SubSeq(l, 1, k) \in Text /\ SubSeq(l, k + 1, Len(l)) \in Text
  BY <1>1 DEF Text
<1>4. k = Len(l) => SubSeq(l, k + 1, Len(l)) = <<>>
  BY <1>1 DEF Text
<1>5. QED
  BY <1>2, <1>3, <1>4

\* A list of one fragment.
LEMMA OneFragment ==
  ASSUME NEW s \in Seq(Text), s # <<>>, Len(s) <= 1
  PROVE  s[1] \in Text /\ s = <<s[1]>>
<1>1. Len(s) \in Nat /\ Len(s) # 0
  OBVIOUS
<1>2. Len(s) = 1
  BY <1>1
<1>3. s[1] \in Text
  BY <1>2
<1>4. PICK x \in Text : x = s[1]
  BY <1>3
<1>5. <<x>> \in Seq(Text) /\ Len(<<x>>) = 1 /\ <<x>>[1] = x
  OBVIOUS
<1>6. s = <<x>>
  <2>1. \A i \in 1 .. Len(s) : s[i] = <<x>>[i]
    BY <1>2, <1>4, <1>5
  <2>2. QED
    BY <1>2, <1>5, <2>1, SeqEqual
<1>7. QED
  BY <1>3, <1>4, <1>6

\* A piece of body goes to its fragment, which is flushed when it is full.
LEMMA BodyUnits ==
  HandlesInv /\ FragInv /\ UnitsInv /\ (BodyFlush \/ BodyFragment \/ BodyCopy) => UnitsInv'
<1> SUFFICES ASSUME HandlesInv, FragInv, UnitsInv, BodyFlush \/ BodyFragment \/ BodyCopy PROVE UnitsInv'
  OBVIOUS
<1>1. PICK r \in Requests, a \in Scripts : r = preq /\ a = script[r]
  BY PumpHas DEF BodyFlush, BodyFragment, BodyCopy, HandlesInv, ListsTyped
<1>2. /\ got[r] \in Text /\ BatchOf(r) \in Seq(Text) /\ out[r] \in Seq(Text)
      /\ chain[r] \in Seq(Text) /\ active[r] \in Seq(Text) /\ pleft \in Text /\ <<>> \in Text
  BY WayTyped, FewInOrder
<1>3. /\ Way(a, fed[r], got[r], BatchOf(r), out[r], chain[r], active[r], pleft)
      /\ (Wanted(r) => Whole(a, fed[r], got[r], BatchOf(r), out[r], active[r], pleft))
      /\ Seen(a, got[r]) /\ \A u \in Range(pleft) : a[u[1]].kind = "body"
  BY <1>1 DEF UnitsInv, UnitsOnTheirWay, LeftOf, BodyFlush, BodyFragment, BodyCopy
<1>4. /\ UNCHANGED <<script, fed, got, chain, batch, hnd, response, aborted>>
      /\ got' \in [Requests -> Text]
  BY DEF BodyFlush, BodyFragment, BodyCopy, transfer, client, mainVars, UnitsInv
<1>5. \A q \in Requests : BatchOf(q)' = BatchOf(q) /\ (Wanted(q)' <=> Wanted(q))
  BY <1>4 DEF BatchOf, Wanted
<1>6. CASE BodyFlush
  <2>1. /\ out' = [out EXCEPT ![r] = out[r] \o active[r]] /\ active' = [active EXCEPT ![r] = <<>>]
        /\ preq' = preq /\ pleft' = pleft /\ ppc' = ppc
    BY <1>1, <1>6 DEF BodyFlush, pumpVars
  <2>2. /\ Way(a, fed[r], got[r], BatchOf(r), out[r] \o active[r], chain[r], <<>>, pleft)
        /\ (Wanted(r) => Whole(a, fed[r], got[r], BatchOf(r), out[r] \o active[r], <<>>, pleft))
    BY <1>2, <1>3, BodyFlushed, Zenon
  <2>3. /\ out'[r] = out[r] \o active[r] /\ active'[r] = <<>> /\ LeftOf(r)' = pleft
        /\ \A q \in Requests \ {r} : out'[q] = out[q] /\ active'[q] = active[q] /\ LeftOf(q)' = LeftOf(q)
    BY <1>1, <2>1 DEF FragInv, StreamsTyped, LeftOf
  <2>4. UnitsOnTheirWay(r)'
    BY <1>1, <1>3, <1>4, <1>5, <2>2, <2>3 DEF UnitsOnTheirWay
  <2>5. (\A u \in Range(pleft') : script'[preq'][u[1]].kind = ppc')
        /\ (ppc' \notin {"header", "body"} => pleft' = <<>>)
    BY <1>4, <2>1 DEF UnitsInv
  <2>6. QED
    BY <1>4, <1>5, <2>3, <2>4, <2>5, UnitsMove
<1>7. CASE BodyFragment
  <2>1. /\ out' = out /\ active' = [active EXCEPT ![r] = <<<<>>>>] /\ active[r] = <<>>
        /\ preq' = preq /\ pleft' = pleft /\ ppc' = ppc
    BY <1>1, <1>7 DEF BodyFragment, pumpVars
  <2>2. /\ Way(a, fed[r], got[r], BatchOf(r), out[r], chain[r], <<>>, pleft)
        /\ (Wanted(r) => Whole(a, fed[r], got[r], BatchOf(r), out[r], <<>>, pleft))
    BY <1>3, <2>1
  <2>3. /\ Way(a, fed[r], got[r], BatchOf(r), out[r], chain[r], <<<<>>>>, pleft)
        /\ (Wanted(r) => Whole(a, fed[r], got[r], BatchOf(r), out[r], <<<<>>>>, pleft))
    BY <1>2, <2>2, FragmentAdded, Zenon
  <2>4. /\ active'[r] = <<<<>>>> /\ LeftOf(r)' = pleft
        /\ \A q \in Requests \ {r} : active'[q] = active[q] /\ LeftOf(q)' = LeftOf(q)
    BY <1>1, <2>1 DEF FragInv, StreamsTyped, LeftOf
  <2>5. UnitsOnTheirWay(r)'
    BY <1>1, <1>3, <1>4, <1>5, <2>1, <2>3, <2>4 DEF UnitsOnTheirWay
  <2>6. (\A u \in Range(pleft') : script'[preq'][u[1]].kind = ppc')
        /\ (ppc' \notin {"header", "body"} => pleft' = <<>>)
    BY <1>4, <2>1 DEF UnitsInv
  <2>7. QED
    BY <1>4, <1>5, <2>1, <2>4, <2>5, <2>6, UnitsMove
<1>8. CASE BodyCopy
  <2>1. PICK f \in Text : active[r] = <<f>> /\ f = active[r][1]
    <3>1. Len(active[r]) \in Nat /\ Len(active[r]) <= 1 /\ active[r] # <<>>
      BY <1>1, <1>2, <1>8 DEF BodyCopy, FragInv, StreamsTyped
    <3>2. QED
      BY <1>2, <3>1, OneFragment, Zenon
  <2>2. PICK k \in 0 .. Len(pleft) : k = Piece
    <3>1. Len(f) \in Nat /\ Len(pleft) \in Nat /\ Capacity - Len(f) > 0 /\ Capacity - Len(f) \in Int
      BY <1>1, <1>2, <1>8, <2>1, SizesAssumption DEF BodyCopy, Space, Text
    <3>2. Piece = IF Len(pleft) < Capacity - Len(f) THEN Len(pleft) ELSE Capacity - Len(f)
      BY <1>1, <2>1 DEF Piece, Space
    <3>3. Piece \in 0 .. Len(pleft)
      <4> DEFINE m == Len(pleft)
                 z == Capacity - Len(f)
                 y == Piece
      <4>1. m \in Nat /\ z \in Int /\ z > 0 /\ y = IF m < z THEN m ELSE z
        BY <3>1, <3>2
      <4> HIDE DEF m, z, y
      <4>2. y \in 0 .. m
        BY <4>1
      <4>3. QED
        BY <4>2 DEF m, y
    <3>4. QED
      BY <3>3
  <2>3. PICK p \in Text, t \in Text :
          /\ p = SubSeq(pleft, 1, k) /\ t = SubSeq(pleft, k + 1, Len(pleft))
          /\ p \o t = pleft /\ (k = Len(pleft) => t = <<>>)
    <3>1. pleft \in Text
      BY <1>2
    <3>2. /\ SubSeq(pleft, 1, k) \in Text /\ SubSeq(pleft, k + 1, Len(pleft)) \in Text
          /\ SubSeq(pleft, 1, k) \o SubSeq(pleft, k + 1, Len(pleft)) = pleft
          /\ k = Len(pleft) => SubSeq(pleft, k + 1, Len(pleft)) = <<>>
      BY <3>1, TextCut, Zenon
    <3>3. QED
      BY <3>2, Zenon
  <2>4. /\ out' = out /\ active' = [active EXCEPT ![r] = <<f \o p>>] /\ pleft' = t
        /\ (preq' = preq /\ ppc' = ppc) \/ t = <<>>
    <3>1. active' = [active EXCEPT ![r] = <<f \o p>>] /\ out' = out
      BY <1>1, <1>8, <2>1, <2>2, <2>3 DEF BodyCopy
    <3>2. CASE Piece = Len(pleft)
      BY <1>8, <2>2, <2>3, <3>1, <3>2 DEF BodyCopy, Returned
    <3>3. CASE Piece # Len(pleft)
      BY <1>8, <2>2, <2>3, <3>1, <3>3 DEF BodyCopy, Rest
    <3>4. QED
      BY <3>2, <3>3
  <2>5. PICK h \in Text : h = f \o p
    BY TextsInOrder
  <2>6. /\ Way(a, fed[r], got[r], BatchOf(r), out[r], chain[r], <<h>>, t)
        /\ (Wanted(r) => Whole(a, fed[r], got[r], BatchOf(r), out[r], <<h>>, t))
    <3>1. /\ Way(a, fed[r], got[r], BatchOf(r), out[r], chain[r], <<f>>, p \o t)
          /\ (Wanted(r) => Whole(a, fed[r], got[r], BatchOf(r), out[r], <<f>>, p \o t))
          /\ \A u \in Range(p \o t) : a[u[1]].kind = "body"
      BY <1>3, <2>1, <2>3, Zenon
    <3>2. QED
      BY <1>2, <2>5, <3>1, BodyCopied, Zenon
  <2>7. /\ active'[r] = <<h>> /\ LeftOf(r)' = t
        /\ \A q \in Requests \ {r} : active'[q] = active[q] /\ LeftOf(q)' = LeftOf(q)
    BY <1>1, <2>4, <2>5 DEF FragInv, StreamsTyped, LeftOf
  <2>8. UnitsOnTheirWay(r)'
    BY <1>1, <1>3, <1>4, <1>5, <2>4, <2>6, <2>7 DEF UnitsOnTheirWay
  <2>9. (\A u \in Range(pleft') : script'[preq'][u[1]].kind = ppc')
        /\ (ppc' \notin {"header", "body"} => pleft' = <<>>)
    <3>1. Range(t) \subseteq Range(pleft)
      <4>1. Range(p \o t) = Range(p) \cup Range(t)
        BY TextsInOrder, Zenon
      <4>2. QED
        BY <2>3, <4>1, Zenon
    <3>2. CASE t = <<>>
      BY <2>4, <3>2, EmptyList
    <3>3. CASE preq' = preq /\ ppc' = ppc
      BY <1>4, <1>8, <2>4, <3>1, <3>3 DEF UnitsInv, BodyCopy
    <3>4. QED
      BY <2>4, <3>2, <3>3
  <2>10. QED
    BY <1>4, <1>5, <2>4, <2>7, <2>8, <2>9, UnitsMove
<1>9. QED
  BY <1>6, <1>7, <1>8

\* The end of a stream takes the end of the chain and the fragment for the body.
LEMMA PublishUnits == HandlesInv /\ FragInv /\ UnitsInv /\ Publish => UnitsInv'
<1> SUFFICES ASSUME HandlesInv, FragInv, UnitsInv, Publish PROVE UnitsInv'
  OBVIOUS
<1>1. PICK r \in Requests, a \in Scripts : r = preq /\ a = script[r]
  BY PumpHas DEF Publish, HandlesInv, ListsTyped
<1>2. /\ got[r] \in Text /\ BatchOf(r) \in Seq(Text) /\ out[r] \in Seq(Text)
      /\ chain[r] \in Seq(Text) /\ active[r] \in Seq(Text) /\ <<>> \in Text /\ <<>> \in Seq(Text)
  BY WayTyped, FewInOrder
<1>3. /\ Way(a, fed[r], got[r], BatchOf(r), out[r], chain[r], active[r], <<>>)
      /\ (Wanted(r) => Whole(a, fed[r], got[r], BatchOf(r), out[r], active[r], <<>>))
      /\ Seen(a, got[r]) /\ pleft = <<>>
  BY <1>1 DEF UnitsInv, UnitsOnTheirWay, LeftOf, Publish
<1>4. /\ UNCHANGED <<script, fed, got, batch, hnd, response, aborted, pleft>>
      /\ got' \in [Requests -> Text]
  BY DEF Publish, transfer, client, mainVars, UnitsInv
<1>5. \A q \in Requests : BatchOf(q)' = BatchOf(q) /\ (Wanted(q)' <=> Wanted(q)) /\ LeftOf(q)' = <<>> /\ LeftOf(q) = <<>>
  BY <1>3, <1>4 DEF BatchOf, Wanted, LeftOf
<1>6. PICK p \in Seq(Text), d \in Seq(Text) : d = LastHeaders(r) /\ chain[r] = p \o d
  <2>1. CASE chain[r] = <<>>
    <3>1. <<>> \in Seq(Text) /\ <<>> \o <<>> = <<>>
      BY <1>2, ConcatEmptySeq
    <3>2. QED
      BY <2>1, <3>1, Zenon DEF LastHeaders
  <2>2. CASE chain[r] # <<>>
    <3>1. <<Last(chain[r])>> \in Seq(Text) /\ Front(chain[r]) \in Seq(Text)
          /\ chain[r] = Front(chain[r]) \o <<Last(chain[r])>>
      BY <1>2, <2>2, LastInOrder, FewInOrder, Zenon
    <3>2. QED
      BY <2>2, <3>1, Zenon DEF LastHeaders
  <2>3. QED
    BY <2>1, <2>2
<1>7. PICK o : o = out[r] \o (d \o active[r])
  OBVIOUS
<1>8. /\ out' = [out EXCEPT ![r] = o] /\ chain' = [chain EXCEPT ![r] = <<>>]
      /\ active' = [active EXCEPT ![r] = <<>>]
  BY <1>1, <1>6, <1>7 DEF Publish, LastFragments
<1>9. /\ Way(a, fed[r], got[r], BatchOf(r), o, <<>>, <<>>, <<>>)
      /\ (Wanted(r) => Whole(a, fed[r], got[r], BatchOf(r), o, <<>>, <<>>))
  <2>1. Way(a, fed[r], got[r], BatchOf(r), out[r], p \o d, active[r], <<>>)
    BY <1>3, <1>6
  <2>2. QED
    BY <1>2, <1>3, <1>6, <1>7, <2>1, StreamPublished, Zenon
<1>10. /\ out'[r] = o /\ chain'[r] = <<>> /\ active'[r] = <<>>
       /\ \A q \in Requests \ {r} : out'[q] = out[q] /\ chain'[q] = chain[q] /\ active'[q] = active[q]
  BY <1>8 DEF FragInv, StreamsTyped
<1>11. UnitsOnTheirWay(r)'
  BY <1>1, <1>3, <1>4, <1>5, <1>9, <1>10 DEF UnitsOnTheirWay
<1>12. (\A u \in Range(pleft') : script'[preq'][u[1]].kind = ppc') /\ pleft' = <<>>
  BY <1>3, <1>4, EmptyList
<1>13. QED
  BY <1>4, <1>5, <1>10, <1>11, <1>12, UnitsMove

\* Main takes the list, having taken nothing else.
LEMMA DetachUnits == HandlesInv /\ FragInv /\ UnitsInv /\ Detach => UnitsInv'
<1> SUFFICES ASSUME HandlesInv, FragInv, UnitsInv, Detach PROVE UnitsInv'
  OBVIOUS
<1>1. PICK r \in Requests, a \in Scripts : r = hnd /\ a = script[r]
  BY MainHas DEF Detach, HandlesInv, ListsTyped
<1>2. /\ got[r] \in Text /\ LeftOf(r) \in Text /\ out[r] \in Seq(Text)
      /\ chain[r] \in Seq(Text) /\ active[r] \in Seq(Text)
  BY WayTyped
<1>3. batch = <<>>
  BY DEF Detach, FragInv, StreamsTyped
<1>4. /\ Way(a, fed[r], got[r], <<>>, out[r], chain[r], active[r], LeftOf(r))
      /\ (Wanted(r) => Whole(a, fed[r], got[r], <<>>, out[r], active[r], LeftOf(r)))
      /\ Seen(a, got[r])
  BY <1>1, <1>3 DEF UnitsInv, UnitsOnTheirWay, BatchOf
<1>5. /\ Way(a, fed[r], got[r], out[r], <<>>, chain[r], active[r], LeftOf(r))
      /\ (Wanted(r) => Whole(a, fed[r], got[r], out[r], <<>>, active[r], LeftOf(r)))
  BY <1>2, <1>4, ListDetached, Zenon
<1>6. /\ UNCHANGED <<script, fed, got, chain, active, hnd, response, aborted, pleft, preq, ppc>>
      /\ got' \in [Requests -> Text]
      /\ batch' = out[r] /\ out' = [out EXCEPT ![r] = <<>>]
  BY <1>1 DEF Detach, transfer, client, pumpVars, UnitsInv
<1>7. \A q \in Requests : (Wanted(q)' <=> Wanted(q)) /\ LeftOf(q)' = LeftOf(q)
  BY <1>6 DEF Wanted, LeftOf
<1>8. /\ out'[r] = <<>> /\ BatchOf(r)' = out[r]
      /\ \A q \in Requests \ {r} : out'[q] = out[q] /\ BatchOf(q)' = BatchOf(q)
  BY <1>1, <1>6 DEF FragInv, StreamsTyped, BatchOf
<1>9. UnitsOnTheirWay(r)'
  BY <1>1, <1>4, <1>5, <1>6, <1>7, <1>8 DEF UnitsOnTheirWay
<1>10. (\A u \in Range(pleft') : script'[preq'][u[1]].kind = ppc')
       /\ (ppc' \notin {"header", "body"} => pleft' = <<>>)
  BY <1>6 DEF UnitsInv
<1>11. QED
  BY <1>6, <1>7, <1>8, <1>9, <1>10, UnitsMove

\* A callback sees the first fragment of the batch.
LEMMA CallbackUnits == HandlesInv /\ FragInv /\ UnitsInv /\ Callback => UnitsInv'
<1> SUFFICES ASSUME HandlesInv, FragInv, UnitsInv, Callback PROVE UnitsInv'
  OBVIOUS
<1>1. PICK r \in Requests, a \in Scripts : r = hnd /\ a = script[r]
  BY MainHas DEF Callback, HandlesInv, ListsTyped
<1>2. /\ got[r] \in Text /\ LeftOf(r) \in Text /\ out[r] \in Seq(Text) /\ fed[r] \in Nat
      /\ chain[r] \in Seq(Text) /\ active[r] \in Seq(Text) /\ batch \in Seq(Text)
  BY WayTyped
<1>3. Wanted(r)
  BY <1>1 DEF Callback, Shown, Wanted
<1>4. /\ Way(a, fed[r], got[r], batch, out[r], chain[r], active[r], LeftOf(r))
      /\ Whole(a, fed[r], got[r], batch, out[r], active[r], LeftOf(r))
      /\ Seen(a, got[r])
  BY <1>1, <1>3 DEF UnitsInv, UnitsOnTheirWay, BatchOf
<1>5. PICK k \in Unseen : /\ \A i \in Unseen : k <= i
                          /\ got' = [got EXCEPT ![hnd] = got[hnd] \o batch[k]]
                          /\ batch' = [batch EXCEPT ![k] = <<>>]
  BY DEF Callback
<1>6. PICK g, b : g = got[r] \o batch[k] /\ b = [batch EXCEPT ![k] = <<>>]
  OBVIOUS
<1>7. k \in DOMAIN batch /\ \A i \in DOMAIN batch : batch[i] # <<>> => k <= i
  BY <1>5 DEF Unseen
<1>8. /\ Way(a, fed[r], g, b, out[r], chain[r], active[r], LeftOf(r))
      /\ Whole(a, fed[r], g, b, out[r], active[r], LeftOf(r))
      /\ Seen(a, g)
  BY <1>2, <1>4, <1>6, <1>7, FragmentShown, Zenon
<1>9. g \in Text
  <2>1. batch[k] \in Text
    BY <1>2, <1>7
  <2>2. QED
    BY <1>2, <1>6, <2>1, TextsInOrder, Zenon
<1>10. /\ UNCHANGED <<script, fed, out, chain, active, hnd, response, pleft, preq, ppc>>
       /\ got' = [got EXCEPT ![r] = g] /\ batch' = b
       /\ aborted' = aborted \/ aborted' = [aborted EXCEPT ![r] = TRUE]
  BY <1>1, <1>5, <1>6 DEF Callback, transfer, streams, pumpVars
<1>11. got' \in [Requests -> Text] /\ got'[r] = g /\ \A q \in Requests \ {r} : got'[q] = got[q]
  BY <1>9, <1>10 DEF UnitsInv
<1>12. \A q \in Requests \ {r} : (Wanted(q)' => Wanted(q)) /\ BatchOf(q)' = BatchOf(q)
  BY <1>1, <1>10 DEF Wanted, BatchOf, HandlesInv, ListsTyped
<1>13. BatchOf(r)' = b /\ \A q \in Requests : LeftOf(q)' = LeftOf(q)
  BY <1>1, <1>10 DEF BatchOf, LeftOf
<1>14. UnitsOnTheirWay(r)'
  BY <1>1, <1>8, <1>10, <1>11, <1>13 DEF UnitsOnTheirWay
<1>15. (\A u \in Range(pleft') : script'[preq'][u[1]].kind = ppc')
       /\ (ppc' \notin {"header", "body"} => pleft' = <<>>)
  BY <1>10 DEF UnitsInv
<1>16. QED
  BY <1>10, <1>11, <1>12, <1>13, <1>14, <1>15, UnitsMove

\* What was detached goes back, seen or not wanted.
LEMMA FragmentsFreeUnits == HandlesInv /\ FragInv /\ UnitsInv /\ FragmentsFree => UnitsInv'
<1> SUFFICES ASSUME HandlesInv, FragInv, UnitsInv, FragmentsFree PROVE UnitsInv'
  OBVIOUS
<1>1. PICK r \in Requests, a \in Scripts : r = hnd /\ a = script[r]
  BY MainHas DEF FragmentsFree, HandlesInv, ListsTyped
<1>2. /\ got[r] \in Text /\ LeftOf(r) \in Text /\ out[r] \in Seq(Text)
      /\ chain[r] \in Seq(Text) /\ active[r] \in Seq(Text) /\ batch \in Seq(Text)
  BY WayTyped
<1>3. /\ Way(a, fed[r], got[r], batch, out[r], chain[r], active[r], LeftOf(r))
      /\ (Wanted(r) => Whole(a, fed[r], got[r], batch, out[r], active[r], LeftOf(r)))
      /\ Seen(a, got[r])
  BY <1>1 DEF UnitsInv, UnitsOnTheirWay, BatchOf
<1>4. Wanted(r) => Held(batch) = {}
  <2>1. response[r] # "none"
    BY <1>1 DEF FragmentsFree, HandlesInv, WalkInv, EndedInv
  <2>2. Wanted(r) => response[r] = "owned" /\ ~aborted[r]
    BY <2>1 DEF Wanted, HandlesInv, ListsTyped
  <2>3. Wanted(r) => Unseen = {}
    BY <1>1, <2>2 DEF FragmentsFree, Shown
  <2>4. Unseen = {} => Held(batch) = {}
    BY EmptyList DEF Unseen, Held
  <2>5. QED
    BY <2>3, <2>4
<1>5. /\ Way(a, fed[r], got[r], <<>>, out[r], chain[r], active[r], LeftOf(r))
      /\ (Wanted(r) => Whole(a, fed[r], got[r], <<>>, out[r], active[r], LeftOf(r)))
  BY <1>2, <1>3, <1>4, BatchReturned, Zenon
<1>6. /\ UNCHANGED <<script, fed, got, out, chain, active, hnd, response, aborted, pleft, preq, ppc>>
      /\ got' \in [Requests -> Text] /\ batch' = <<>>
  BY DEF FragmentsFree, transfer, client, pumpVars, UnitsInv
<1>7. \A q \in Requests : (Wanted(q)' <=> Wanted(q)) /\ LeftOf(q)' = LeftOf(q)
  BY <1>6 DEF Wanted, LeftOf
<1>8. BatchOf(r)' = <<>> /\ \A q \in Requests \ {r} : BatchOf(q)' = BatchOf(q)
  BY <1>1, <1>6 DEF BatchOf
<1>9. UnitsOnTheirWay(r)'
  BY <1>1, <1>3, <1>5, <1>6, <1>7, <1>8 DEF UnitsOnTheirWay
<1>10. (\A u \in Range(pleft') : script'[preq'][u[1]].kind = ppc')
       /\ (ppc' \notin {"header", "body"} => pleft' = <<>>)
  BY <1>6 DEF UnitsInv
<1>11. QED
  BY <1>6, <1>7, <1>8, <1>9, <1>10, UnitsMove

\* The steps that move no units.
LEMMA OtherStepsUnits ==
  ASSUME HandlesInv, FragInv, UnitsInv,
         UNCHANGED <<chain, active, batch, got, script, fed, pleft>>,
         out' = out, hnd' = hnd \/ batch = <<>>,
         (preq' = preq /\ ppc' = ppc) \/ ppc \notin {"header", "body"},
         aborted' = aborted,
         \A r \in Requests : response'[r] = response[r] \/ response'[r] = "freed" \/ response[r] = "none"
  PROVE  UnitsInv'
<1>1. \A r \in Requests : Wanted(r)' => Wanted(r)
  BY DEF Wanted
<1>2. (preq' = preq /\ ppc' = ppc) \/ pleft = <<>>
  BY DEF UnitsInv
<1>3. QED
  BY <1>1, <1>2, UnitsStay

-----------------------------------------------------------------------------
(* The end of a stream and the result of a request. *)

\* Once the flag is set the pump keeps nothing, and main finds an empty list
\* after it has read the flag.
StreamEndInv ==
  /\ \A r \in Requests : ended[r] => chain[r] = <<>> /\ active[r] = <<>>
  /\ mpc \in {"fragments", "end"} /\ sawEnd => out[hnd] = <<>>
  /\ mpc = "complete" => out[hnd] = <<>>

\* A request whose stream is not over.
LEMMA PumpMoves ==
  ASSUME HandlesInv, StreamEndInv, NEW r \in Requests, ~ended[r], UNCHANGED <<hnd, mpc, sawEnd>>,
         \A q \in Requests \ {r} :
           out'[q] = out[q] /\ chain'[q] = chain[q] /\ active'[q] = active[q] /\ ended'[q] = ended[q],
         ended'[r] => chain'[r] = <<>> /\ active'[r] = <<>>
  PROVE  StreamEndInv'
<1>1. \A q \in Requests : ended'[q] => chain'[q] = <<>> /\ active'[q] = <<>>
  BY DEF StreamEndInv
<1>2. (mpc \in {"fragments", "end"} /\ sawEnd) \/ mpc = "complete" => hnd \in Requests \ {r}
  BY MainHas DEF HandlesInv, WalkInv
<1>3. QED
  BY <1>1, <1>2 DEF StreamEndInv

\* Every step keeps it.
LEMMA NextKeepsStreamEnd ==
  ASSUME HandlesInv, FragInv, StreamEndInv, [Next]_vars PROVE StreamEndInv'
<1>1. /\ chain \in [Requests -> Seq(Data)] /\ out \in [Requests -> Seq(Data)]
      /\ active \in [Requests -> Seq(Data)] /\ ended \in [Requests -> BOOLEAN]
  BY DEF FragInv, StreamsTyped, HandlesInv, ListsTyped
<1>2. ASSUME NEW r \in Requests, r \in Working PROVE ~ended[r]
  BY <1>2 DEF HandlesInv, EndedInv
<1>3. ASSUME NEW r \in Requests, Receive(r) PROVE StreamEndInv'
  <2>1. ~ended[r]
    BY <1>2, <1>3 DEF Receive, Working
  <2>2. UNCHANGED <<hnd, mpc, sawEnd, ended, active>>
    BY <1>3 DEF Receive, mainVars
  <2>3. \A q \in Requests \ {r} : out'[q] = out[q] /\ chain'[q] = chain[q]
    BY <1>1, <1>3 DEF Receive
  <2>4. QED
    BY <2>1, <2>2, <2>3, PumpMoves
<1>4. CASE HeaderFragment \/ HeaderCopy \/ BodyFlush \/ BodyFragment \/ BodyCopy \/ Publish
  <2>1. PICK r \in Requests : r = preq
    BY <1>4, PumpHas DEF HeaderFragment, HeaderCopy, BodyFlush, BodyFragment, BodyCopy, Publish
  <2>2. ~ended[r]
    BY <1>2, <2>1, RequestsAssumption DEF Working
  <2>3. UNCHANGED <<hnd, mpc, sawEnd>>
    BY <1>4 DEF HeaderFragment, HeaderCopy, BodyFlush, BodyFragment, BodyCopy, Publish, mainVars
  <2>4. CASE HeaderFragment \/ HeaderCopy \/ BodyFlush \/ BodyFragment \/ BodyCopy
    <3>1. ended' = ended
      BY <2>4 DEF HeaderFragment, HeaderCopy, BodyFlush, BodyFragment, BodyCopy
    <3>2. \A q \in Requests \ {r} : out'[q] = out[q] /\ chain'[q] = chain[q] /\ active'[q] = active[q]
      BY <1>1, <2>1, <2>4 DEF HeaderFragment, HeaderCopy, BodyFlush, BodyFragment, BodyCopy
    <3>3. QED
      BY <2>2, <2>3, <3>1, <3>2, PumpMoves
  <2>5. CASE Publish
    <3>1. /\ chain' = [chain EXCEPT ![r] = <<>>] /\ active' = [active EXCEPT ![r] = <<>>]
          /\ out' = [out EXCEPT ![r] = out[r] \o LastFragments(r)] /\ ended' = [ended EXCEPT ![r] = TRUE]
      BY <2>1, <2>5 DEF Publish
    <3>2. /\ chain'[r] = <<>> /\ active'[r] = <<>>
          /\ \A q \in Requests \ {r} :
               out'[q] = out[q] /\ chain'[q] = chain[q] /\ active'[q] = active[q] /\ ended'[q] = ended[q]
      BY <1>1, <3>1
    <3>3. QED
      BY <2>2, <2>3, <3>2, PumpMoves
  <2>6. QED
    BY <1>4, <2>4, <2>5
<1>5. CASE Detach
  <2>1. hnd \in Requests
    BY <1>5, MainHas DEF Detach
  <2>2. UNCHANGED <<chain, active, ended, hnd>> /\ out' = [out EXCEPT ![hnd] = <<>>] /\ mpc' \in {"fragments", "end"}
    BY <1>5 DEF Detach
  <2>3. QED
    BY <1>1, <2>1, <2>2 DEF StreamEndInv
<1>6. CASE Callback \/ FragmentsFree \/ OnComplete
  <2>1. UNCHANGED <<chain, active, out, ended, hnd, sawEnd>>
        /\ \/ mpc' \in {"fragments", "end"} /\ mpc \in {"fragments", "end"}
           \/ mpc' = "complete" /\ mpc = "end" /\ sawEnd
    BY <1>6 DEF Callback, FragmentsFree, OnComplete, streams
  <2>2. QED
    BY <2>1 DEF StreamEndInv
<1>7. CASE TickBegin \/ TickOngoing \/ FreeHandle \/ ClientFree \/ Joined
  <2>1. UNCHANGED <<chain, active, ended>> /\ mpc' \notin {"fragments", "end", "complete"}
    BY <1>7 DEF TickBegin, TickOngoing, FreeHandle, ClientFree, Joined, streams, NextHandle
  <2>2. QED
    BY <2>1 DEF StreamEndInv
<1>8. CASE \/ \E r \in Requests : Send(r) \/ ResponseFree(r) \/ Finish(r)
           \/ PumpCycle \/ PumpExit \/ PerformReturns \/ NoInfo \/ SetResult \/ UNCHANGED vars
  <2>1. UNCHANGED <<chain, active, out, ended, mpc, hnd, sawEnd>>
    BY <1>8 DEF Send, ResponseFree, Finish, PumpCycle, PumpExit, PerformReturns, NoInfo, SetResult,
                vars, streams, mainVars
  <2>2. QED
    BY <2>1 DEF StreamEndInv
<1>9. QED
  BY <1>3, <1>4, <1>5, <1>6, <1>7, <1>8 DEF Next, Pump, Tick, Curl, Gone

\* curl reports a transfer as done only when it has made all its calls.
DoneInv == \A m \in Range(msgs) : m.code = "ok" => fed[m.req] = Len(script[m.req])

\* One more report.
LEMMA OneReport ==
  ASSUME HandlesInv, DoneInv, NEW r \in Requests, NEW c \in {"ok", "error"},
         msgs' = Append(msgs, [req |-> r, code |-> c]), UNCHANGED <<fed, script>>,
         c = "ok" => fed[r] = Len(script[r])
  PROVE  DoneInv'
<1> DEFINE M == [req : Requests, code : {"ok", "error"}]
<1>1. PICK m \in M : m = [req |-> r, code |-> c]
  OBVIOUS
<1>2. m.req = r /\ m.code = c
  BY <1>1
<1>3. msgs \in Seq(M)
  BY DEF HandlesInv, ListsTyped
<1> HIDE DEF M
<1>4. Range(Append(msgs, m)) = Range(msgs) \cup {m}
  BY <1>3, AppendOf
<1>5. Range(msgs') = Range(msgs) \cup {m}
  BY <1>1, <1>4
<1>6. QED
  BY <1>2, <1>5 DEF DoneInv

\* Every step keeps it.
LEMMA NextKeepsDone ==
  ASSUME HandlesInv, DoneInv, [Next]_vars PROVE DoneInv'
<1>1. ASSUME NEW r \in Requests, Receive(r) PROVE DoneInv'
  <2>1. UNCHANGED <<script, msgs>> /\ r \in multi /\ fed' = [fed EXCEPT ![r] = @ + 1]
    BY <1>1 DEF Receive
  <2>2. \A m \in Range(msgs) : m.req # r /\ m.req \in Requests
    <3>1. \A m \in Range(msgs) : m.req \in Reported
      BY DEF Range, Reported
    <3>2. Reported \cap multi = {} /\ Reported \subseteq Requests
      <4>1. Reported \cap multi = {}
        BY DEF HandlesInv, OnePlace
      <4> DEFINE M == [req : Requests, code : {"ok", "error"}]
      <4>2. msgs \in Seq(M)
        BY DEF HandlesInv, ListsTyped
      <4> HIDE DEF M
      <4>3. \A i \in DOMAIN msgs : msgs[i] \in M
        BY <4>2
      <4>4. QED
        BY <4>1, <4>3 DEF Reported, M
    <3>3. QED
      BY <2>1, <3>1, <3>2
  <2>3. \A q \in Requests : q # r => fed'[q] = fed[q]
    BY <2>1 DEF HandlesInv, ListsTyped
  <2>4. QED
    BY <2>1, <2>2, <2>3 DEF DoneInv
<1>2. ASSUME NEW r \in Requests, Finish(r) PROVE DoneInv'
  <2>1. PICK c \in {"ok", "error"} : /\ c = "ok" => fed[r] = Len(script[r])
                                     /\ msgs' = Append(msgs, [req |-> r, code |-> c])
    BY <1>2 DEF Finish
  <2>2. UNCHANGED <<fed, script>>
    BY <1>2 DEF Finish
  <2>3. QED
    BY <2>1, <2>2, OneReport
<1>3. CASE HeaderCopy \/ BodyCopy
  <2>1. UNCHANGED <<fed, script>>
    BY <1>3 DEF HeaderCopy, BodyCopy
  <2>2. msgs' = msgs \/ msgs' = Append(msgs, [req |-> preq, code |-> "error"])
    BY <1>3 DEF HeaderCopy, BodyCopy, Returned
  <2>3. preq \in Requests
    BY <1>3, PumpHas DEF HeaderCopy, BodyCopy
  <2>4. CASE msgs' = msgs
    BY <2>1, <2>4 DEF DoneInv
  <2>5. CASE msgs' = Append(msgs, [req |-> preq, code |-> "error"])
    <3>1. PICK c \in {"ok", "error"} : c = "error"
      OBVIOUS
    <3>2. c = "ok" => fed[preq] = Len(script[preq])
      BY <3>1
    <3>3. QED
      BY <2>1, <2>3, <2>5, <3>1, <3>2, OneReport
  <2>6. QED
    BY <2>2, <2>4, <2>5
<1>4. CASE SetResult
  <2>1. UNCHANGED <<fed, script>> /\ msgs' = Tail(msgs) /\ msgs # <<>>
    BY <1>4 DEF SetResult
  <2> DEFINE M == [req : Requests, code : {"ok", "error"}]
  <2>2. msgs \in Seq(M)
    BY DEF HandlesInv, ListsTyped
  <2> HIDE DEF M
  <2>3. Range(Tail(msgs)) \subseteq Range(msgs)
    <3>1. PICK t : t = Tail(msgs)
      OBVIOUS
    <3>2. DOMAIN t = 1 .. Len(msgs) - 1 /\ DOMAIN msgs = 1 .. Len(msgs) /\ Len(msgs) \in Nat
          /\ \A i \in 1 .. Len(msgs) - 1 : t[i] = msgs[i + 1]
      BY <2>1, <2>2, <3>1, ShiftOf
    <3>3. \A i \in DOMAIN t : i + 1 \in DOMAIN msgs /\ t[i] = msgs[i + 1]
      BY <3>2
    <3>4. QED
      BY <3>1, <3>3 DEF Range
  <2>4. QED
    BY <2>1, <2>3 DEF DoneInv
<1>5. CASE UNCHANGED <<fed, script, msgs>>
  BY <1>5 DEF DoneInv
<1>6. ASSUME NEW r \in Requests, Send(r) \/ ResponseFree(r) PROVE UNCHANGED <<fed, script, msgs>>
  BY <1>6 DEF Send, ResponseFree, transfer
<1>7. CASE PumpCycle \/ PumpExit \/ HeaderFragment \/ BodyFlush \/ BodyFragment \/ PerformReturns \/ NoInfo \/ Publish
  BY <1>5, <1>7 DEF PumpCycle, PumpExit, HeaderFragment, BodyFlush, BodyFragment, PerformReturns, NoInfo,
                    Publish, transfer
<1>8. CASE Tick \/ ClientFree \/ Joined \/ UNCHANGED vars
  BY <1>5, <1>8 DEF Tick, TickBegin, Detach, Callback, FragmentsFree, TickOngoing, OnComplete, FreeHandle,
                    ClientFree, Joined, vars, transfer
<1>9. QED
  BY <1>1, <1>2, <1>3, <1>4, <1>5, <1>6, <1>7, <1>8 DEF Next, Pump, Curl, Gone

\* Only SetResult, a callback and the end of a stream write a result, and
\* "ok" is what is left when curl reported it and no callback refused.
ResultInv ==
  \A r \in Requests :
    /\ aborted[r] => result[r] = "error"
    /\ response[r] = "owned" /\ result[r] = "ok" /\ (ended[r] \/ (ppc = "publish" /\ preq = r))
         => fed[r] = Len(script[r])
    /\ completed[r] => response[r] # "none"
    /\ completed[r] /\ response[r] = "owned" /\ result[r] = "ok" => Body(r) \subseteq Range(got[r])

\* Steps that write no result and deliver nothing.
LEMMA ResultStays ==
  ASSUME ResultInv, UNCHANGED <<script, fed, got, response, result, aborted, completed, ended>>,
         ppc' # "publish" \/ UNCHANGED <<ppc, preq>>
  PROVE  ResultInv'
<1>1. \A r \in Requests : Body(r)' = Body(r)
  BY DEF Body, Units
<1>2. QED
  BY <1>1 DEF ResultInv

\* The bodies are what the script says.
LEMMA BodyIs ==
  ASSUME HandlesInv, NEW r \in Requests PROVE Body(r) = BodyOf(script[r])
<1>1. PICK a \in Scripts : a = script[r]
  BY DEF HandlesInv, ListsTyped
<1> DEFINE K == [kind : {"header", "body"}, size : Nat]
<1>2. a \in Seq(K)
  BY ScriptsAssumption
<1> HIDE DEF K
<1>3. Len(a) \in Nat /\ DOMAIN a = 1 .. Len(a)
  BY <1>2
<1>4. \A c \in 1 .. Len(a) : a[c].size \in Nat /\ c \in Nat
  <2>1. \A c \in 1 .. Len(a) : a[c] \in K /\ c \in Nat
    BY <1>2, <1>3
  <2>2. QED
    BY <2>1 DEF K
<1>5. \A c \in 1 .. Len(a) : Range(Units(r, c)) = {<<c, i>> : i \in 1 .. a[c].size}
  BY <1>1 DEF Units, Range
<1>6. ASSUME NEW u \in Body(r) PROVE u \in BodyOf(a)
  <2>1. PICK c \in 1 .. Len(a) : a[c].kind = "body" /\ u \in Range(Units(r, c))
    BY <1>1, <1>3 DEF Body
  <2>2. PICK i \in 1 .. a[c].size : u = <<c, i>>
    BY <1>5, <2>1
  <2>3. i \in Nat /\ c \in Nat
    BY <1>4
  <2>4. u \in Unit /\ u[1] = c /\ u[2] = i
    BY <2>2, <2>3 DEF Unit
  <2>5. QED
    BY <2>1, <2>4 DEF BodyOf, Sent, IsBody
<1>7. ASSUME NEW u \in BodyOf(a) PROVE u \in Body(r)
  <2>1. u \in Unit /\ u[1] \in 1 .. Len(a) /\ u[2] \in 1 .. a[u[1]].size /\ a[u[1]].kind = "body"
    BY DEF BodyOf, Sent, IsBody
  <2>2. u = <<u[1], u[2]>>
    BY <2>1 DEF Unit
  <2>3. u \in Range(Units(r, u[1]))
    BY <1>5, <2>1, <2>2
  <2>4. QED
    BY <1>1, <1>3, <2>1, <2>3 DEF Body
<1>8. QED
  BY <1>1, <1>6, <1>7

\* on_complete finds that the callbacks have seen all of the body.
LEMMA CompleteIsWhole ==
  ASSUME HandlesInv, FragInv, UnitsInv, StreamEndInv, ResultInv, mpc = "end", sawEnd,
         response[hnd] = "owned", result[hnd] = "ok"
  PROVE  Body(hnd) \subseteq Range(got[hnd])
<1>1. PICK r \in Requests, a \in Scripts : r = hnd /\ a = script[r]
  BY MainHas DEF HandlesInv, ListsTyped
<1>2. ended[r] /\ out[r] = <<>> /\ chain[r] = <<>> /\ active[r] = <<>>
  BY <1>1 DEF HandlesInv, WalkInv, StreamEndInv
<1>3. batch = <<>> /\ BatchOf(r) = <<>>
  BY DEF FragInv, StreamsTyped, BatchOf
<1>4. preq # r
  BY <1>2, RequestsAssumption DEF HandlesInv, EndedInv, Working
<1>5. LeftOf(r) = <<>>
  BY <1>4 DEF LeftOf
<1>6. fed[r] = Len(a) /\ ~aborted[r]
  BY <1>1, <1>2 DEF ResultInv
<1>7. Whole(a, Len(a), got[r], <<>>, <<>>, <<>>, <<>>)
  BY <1>1, <1>2, <1>3, <1>5, <1>6 DEF UnitsInv, UnitsOnTheirWay, Wanted
<1>8. Held(<<>>) = {} /\ Range(<<>>) = {}
  BY EmptyList DEF Held
<1>9. BodyOf(a) \subseteq Range(got[r])
  BY <1>7, <1>8 DEF Whole, BodyOf
<1>10. QED
  BY <1>1, <1>9, BodyIs

\* Every step keeps it.
LEMMA NextKeepsResult ==
  ASSUME HandlesInv, FragInv, FlagsTyped, UnitsInv, StreamEndInv, DoneInv, ResultInv, [Next]_vars
  PROVE  ResultInv'
<1>1. /\ result \in [Requests -> {"ok", "error"}] /\ completed \in [Requests -> BOOLEAN]
      /\ ended \in [Requests -> BOOLEAN] /\ aborted \in [Requests -> BOOLEAN]
      /\ response \in [Requests -> {"none", "owned", "freed"}]
      /\ fed \in [Requests -> Nat] /\ got \in [Requests -> Text]
  BY DEF FlagsTyped, HandlesInv, ListsTyped, UnitsInv
<1>2. ASSUME script' = script PROVE \A r \in Requests : Body(r)' = Body(r)
  BY <1>2 DEF Body, Units
<1>3. ASSUME NEW r \in Requests, Send(r) PROVE ResultInv'
  <2>1. /\ UNCHANGED <<script, fed, got, result, aborted, completed, ended, ppc, preq>>
        /\ response[r] = "none" /\ response' = [response EXCEPT ![r] = "owned"]
    BY <1>3 DEF Send, transfer, streams, pumpVars
  <2>2. ~ended[r] /\ preq # r /\ ~completed[r]
    BY <2>1, RequestsAssumption DEF HandlesInv, EndedInv, Working, ResultInv
  <2>3. response'[r] = "owned" /\ \A q \in Requests \ {r} : response'[q] = response[q]
    BY <1>1, <2>1
  <2>4. QED
    BY <1>2, <2>1, <2>2, <2>3 DEF ResultInv
<1>4. ASSUME NEW r \in Requests, ResponseFree(r) PROVE ResultInv'
  <2>1. /\ UNCHANGED <<script, fed, got, result, aborted, completed, ended, ppc, preq>>
        /\ response' = [response EXCEPT ![r] = "freed"]
    BY <1>4 DEF ResponseFree, transfer, streams, pumpVars
  <2>2. response'[r] = "freed" /\ \A q \in Requests \ {r} : response'[q] = response[q]
    BY <1>1, <2>1
  <2>3. QED
    BY <1>2, <2>1, <2>2 DEF ResultInv
<1>5. ASSUME NEW r \in Requests, Receive(r) PROVE ResultInv'
  <2>1. /\ UNCHANGED <<script, got, response, result, aborted, completed, ended>>
        /\ r \in multi /\ fed' = [fed EXCEPT ![r] = @ + 1] /\ ppc' = script[r][fed[r] + 1].kind
    BY <1>5 DEF Receive, client
  <2>2. ppc' # "publish"
    BY <1>5, <2>1, UnitsOf DEF Receive
  <2>3. ~ended[r] /\ \A q \in Requests \ {r} : fed'[q] = fed[q]
    BY <1>1, <2>1 DEF HandlesInv, EndedInv, Working
  <2>4. QED
    BY <1>2, <2>1, <2>2, <2>3 DEF ResultInv
<1>6. CASE SetResult
  <2>1. PICK m : m = Head(msgs)
    OBVIOUS
  <2>2. m \in Range(msgs) /\ m.req \in Requests
    <3>1. msgs # <<>>
      BY <1>6 DEF SetResult
    <3> DEFINE M == [req : Requests, code : {"ok", "error"}]
    <3>2. msgs \in Seq(M)
      BY DEF HandlesInv, ListsTyped
    <3> HIDE DEF M
    <3>3. 1 \in DOMAIN msgs /\ m = msgs[1] /\ m \in M
      BY <2>1, <3>1, <3>2
    <3>4. QED
      BY <3>3 DEF Range, M
  <2>3. PICK r \in Requests : r = m.req
    BY <2>2
  <2>4. /\ UNCHANGED <<script, fed, got, response, aborted, completed, ended>> /\ preq' = r
        /\ result' = IF response[r] = "owned"
                       THEN [result EXCEPT ![r] = ResultOf(m.code, result[r])] ELSE result
    BY <1>6, <2>1, <2>3 DEF SetResult, streams
  <2>5. \A q \in Requests \ {r} : result'[q] = result[q]
    BY <1>1, <2>4
  <2>6. \/ response[r] # "owned" /\ result'[r] = result[r]
        \/ m.code = "ok" /\ result'[r] = result[r]
        \/ result'[r] = "error"
    BY <1>1, <2>4 DEF ResultOf
  <2>7. m.code = "ok" => fed[r] = Len(script[r])
    BY <2>2, <2>3 DEF DoneInv
  <2>8. QED
    BY <1>2, <2>4, <2>5, <2>6, <2>7 DEF ResultInv
<1>7. CASE Publish
  <2>1. PICK r \in Requests : r = preq
    BY <1>7, PumpHas DEF Publish
  <2>2. /\ UNCHANGED <<script, fed, got, response, result, aborted, completed>>
        /\ ended' = [ended EXCEPT ![r] = TRUE] /\ ppc = "publish" /\ ppc' = "info"
    BY <1>7, <2>1 DEF Publish, transfer, client
  <2>3. \A q \in Requests \ {r} : ended'[q] = ended[q]
    BY <1>1, <2>2
  <2>4. QED
    BY <1>2, <2>1, <2>2, <2>3 DEF ResultInv
<1>8. CASE Callback
  <2>1. PICK r \in Requests : r = hnd
    BY <1>8, MainHas DEF Callback
  <2>2. PICK k : k \in Unseen /\ got' = [got EXCEPT ![r] = got[r] \o batch[k]]
    BY <1>8, <2>1 DEF Callback
  <2>3. batch \in Seq(Text) /\ got[r] \in Text
    BY WayTyped
  <2>4. batch[k] \in Text
    BY <2>2, <2>3 DEF Unseen
  <2>5. Range(got[r] \o batch[k]) = Range(got[r]) \cup Range(batch[k])
    BY <2>3, <2>4, TextsInOrder
  <2>6. /\ \A q \in Requests : Range(got[q]) \subseteq Range(got'[q])
        /\ UNCHANGED <<script, fed, response, completed, ended, ppc, preq>>
    BY <1>1, <1>8, <2>2, <2>5 DEF Callback, transfer, streams, pumpVars
  <2>7. \/ aborted' = aborted /\ result' = result
        \/ aborted' = [aborted EXCEPT ![r] = TRUE] /\ result' = [result EXCEPT ![r] = "error"]
    BY <1>8, <2>1 DEF Callback
  <2>8. \A q \in Requests : /\ (aborted'[q] => aborted[q] \/ result'[q] = "error")
                            /\ (result'[q] = "ok" => result[q] = "ok")
                            /\ (result[q] = "error" => result'[q] = "error")
    BY <1>1, <2>7
  <2>9. QED
    BY <1>2, <2>6, <2>8 DEF ResultInv
<1>9. CASE OnComplete
  <2>1. PICK r \in Requests : r = hnd
    BY <1>9, MainHas DEF OnComplete
  <2>2. /\ UNCHANGED <<script, fed, got, response, result, aborted, ended, ppc, preq>>
        /\ mpc = "end" /\ sawEnd
    BY <1>9 DEF OnComplete, transfer, streams, pumpVars
  <2>3. completed' = [completed EXCEPT ![r] = completed[r] \/ response[r] = "owned"]
    BY <1>9, <2>1 DEF OnComplete
  <2>4. \A q \in Requests \ {r} : completed'[q] = completed[q]
    BY <1>1, <2>3
  <2>5. completed'[r] => completed[r] \/ response[r] = "owned"
    BY <1>1, <2>3
  <2>6. response[r] = "owned" /\ result[r] = "ok" => Body(r) \subseteq Range(got[r])
    BY <2>1, <2>2, CompleteIsWhole
  <2>7. QED
    BY <1>2, <2>2, <2>4, <2>5, <2>6 DEF ResultInv
<1>10. ASSUME NEW r \in Requests, Finish(r) PROVE ResultInv'
  BY <1>10, ResultStays DEF Finish, streams, client, pumpVars
<1>11. CASE HeaderFragment \/ HeaderCopy \/ BodyFlush \/ BodyFragment \/ BodyCopy
  <2>1. UNCHANGED <<script, fed, got, response, result, aborted, completed, ended>>
    BY <1>11 DEF HeaderFragment, HeaderCopy, BodyFlush, BodyFragment, BodyCopy, transfer, client
  <2>2. ppc' # "publish"
    BY <1>11 DEF HeaderFragment, HeaderCopy, BodyFlush, BodyFragment, BodyCopy, pumpVars, Returned
  <2>3. QED
    BY <2>1, <2>2, ResultStays
<1>12. CASE PumpCycle \/ PumpExit \/ PerformReturns \/ NoInfo
  <2>1. UNCHANGED <<script, fed, got, response, result, aborted, completed, ended>> /\ ppc' # "publish"
    BY <1>12 DEF PumpCycle, PumpExit, PerformReturns, NoInfo, transfer, client, streams
  <2>2. QED
    BY <2>1, ResultStays
<1>13. CASE TickBegin \/ Detach \/ FragmentsFree \/ TickOngoing \/ FreeHandle \/ ClientFree \/ Joined \/ UNCHANGED vars
  <2>1. UNCHANGED <<script, fed, got, response, result, aborted, completed, ended, ppc, preq>>
    BY <1>13 DEF TickBegin, Detach, FragmentsFree, TickOngoing, FreeHandle, ClientFree, Joined,
                 vars, transfer, client, streams, pumpVars
  <2>2. QED
    BY <2>1, ResultStays
<1>14. QED
  BY <1>3, <1>4, <1>5, <1>6, <1>7, <1>8, <1>9, <1>10, <1>11, <1>12, <1>13
     DEF Next, Pump, Tick, Curl, Gone

-----------------------------------------------------------------------------
(* What the callbacks have seen. *)

\* Every step keeps the units on their way.
LEMMA NextKeepsUnits ==
  ASSUME HandlesInv, FragInv, UnitsInv, StreamEndInv, [Next]_vars PROVE UnitsInv'
<1>1. ASSUME NEW r \in Requests, Receive(r) PROVE UnitsInv'
  BY <1>1, ReceiveUnits
<1>2. CASE HeaderFragment \/ HeaderCopy \/ BodyFlush \/ BodyFragment \/ BodyCopy \/ Publish
  BY <1>2, HeaderUnits, BodyUnits, PublishUnits
<1>3. CASE Detach \/ Callback \/ FragmentsFree
  BY <1>3, DetachUnits, CallbackUnits, FragmentsFreeUnits
<1>4. ASSUME NEW r \in Requests, Send(r) \/ ResponseFree(r) \/ Finish(r) PROVE UnitsInv'
  <2>1. UNCHANGED <<chain, active, batch, got, script, fed, pleft, out, hnd, preq, ppc, aborted>>
    BY <1>4 DEF Send, ResponseFree, Finish, streams, transfer, client, pumpVars, mainVars
  <2>2. \A q \in Requests : response'[q] = response[q] \/ response'[q] = "freed" \/ response[q] = "none"
    BY <1>4 DEF Send, ResponseFree, Finish, client, HandlesInv, ListsTyped
  <2>3. QED
    BY <2>1, <2>2, OtherStepsUnits
<1>5. CASE PumpCycle \/ PumpExit \/ PerformReturns \/ NoInfo \/ SetResult
  <2>1. /\ UNCHANGED <<chain, active, batch, got, script, fed, pleft, out, hnd, aborted, response>>
        /\ ppc \notin {"header", "body"}
    BY <1>5 DEF PumpCycle, PumpExit, PerformReturns, NoInfo, SetResult, streams, transfer, client, mainVars
  <2>2. QED
    BY <2>1, OtherStepsUnits
<1>6. CASE TickBegin \/ TickOngoing \/ OnComplete \/ ClientFree \/ Joined \/ UNCHANGED vars
  <2>1. /\ UNCHANGED <<chain, active, batch, got, script, fed, pleft, out, preq, ppc, aborted, response>>
        /\ hnd' = hnd \/ mpc # "fragments"
    BY <1>6 DEF TickBegin, TickOngoing, OnComplete, ClientFree, Joined, vars, streams, transfer, client,
                pumpVars, mainVars, NextHandle
  <2>2. hnd' = hnd \/ batch = <<>>
    BY <2>1 DEF FragInv, StreamsTyped
  <2>3. QED
    BY <2>1, <2>2, OtherStepsUnits
<1>7. CASE FreeHandle
  <2>1. /\ UNCHANGED <<chain, active, batch, got, script, fed, pleft, preq, ppc, aborted, response>>
        /\ mpc = "complete" /\ out' = [out EXCEPT ![hnd] = <<>>]
    BY <1>7 DEF FreeHandle, transfer, pumpVars
  <2>2. batch = <<>> /\ out[hnd] = <<>> /\ hnd \in Requests /\ out \in [Requests -> Seq(Data)]
    BY <2>1, MainHas DEF FragInv, StreamsTyped, StreamEndInv
  <2>3. out' = out
    BY <2>1, <2>2
  <2>4. QED
    BY <2>1, <2>2, <2>3, OtherStepsUnits
<1>8. QED
  BY <1>1, <1>2, <1>3, <1>4, <1>5, <1>6, <1>7 DEF Next, Pump, Tick, Curl, Gone

\* All of it.
BodyInv == HandlesInv /\ FragInv /\ FlagsTyped /\ UnitsInv /\ StreamEndInv /\ DoneInv /\ ResultInv

\* At first nothing is on its way and nothing has ended.
LEMMA InitBody == Init => BodyInv
<1> SUFFICES ASSUME Init PROVE BodyInv
  OBVIOUS
<1>1. StreamEndInv
  BY DEF Init, StreamEndInv
<1>2. DoneInv
  BY EmptyList DEF Init, DoneInv
<1>3. ResultInv
  BY DEF Init, ResultInv
<1>4. QED
  BY <1>1, <1>2, <1>3, InitHandlesInv, InitFragInv, InitFlags, InitUnits DEF BodyInv

\* Every step keeps all of it.
LEMMA NextKeepsBody == BodyInv /\ [Next]_vars => BodyInv'
BY NextKeepsHandlesInv, NextKeepsFragInv, FlagsKept, NextKeepsUnits, NextKeepsStreamEnd,
   NextKeepsDone, NextKeepsResult DEF BodyInv

\* The invariant says what the property does.
LEMMA BodyInvShows == BodyInv => OkMeansWholeBody
<1> SUFFICES ASSUME BodyInv, NEW r \in Requests
    PROVE  LET seen == got[r]
           IN /\ \A i, j \in DOMAIN seen :
                   i < j /\ script[r][seen[i][1]].kind = script[r][seen[j][1]].kind => Before(seen[i], seen[j])
              /\ \A j \in DOMAIN seen : seen[j] \in Body(r) =>
                   \A u \in Body(r) : Before(u, seen[j]) => \E i \in 1 .. j - 1 : seen[i] = u
              /\ \A j \in DOMAIN seen : script[r][seen[j][1]].kind = "body" => seen[j] \in Body(r)
              /\ completed[r] /\ response[r] = "owned" /\ result[r] = "ok" => Body(r) \subseteq Range(seen)
  BY DEF OkMeansWholeBody
<1>1. PICK a \in Scripts : a = script[r] /\ Body(r) = BodyOf(a)
  BY BodyIs DEF BodyInv, HandlesInv, ListsTyped
<1>2. InOrder(a, got[r]) /\ Seen(a, got[r]) /\ Range(got[r]) \subseteq Sent(a, fed[r])
  BY <1>1 DEF BodyInv, UnitsInv, UnitsOnTheirWay, Way
<1>3. \A i, j \in DOMAIN got[r] :
        i < j /\ a[got[r][i][1]].kind = a[got[r][j][1]].kind => Before(got[r][i], got[r][j])
  BY <1>2 DEF InOrder, Apart
<1>4. \A j \in DOMAIN got[r] : got[r][j] \in BodyOf(a) =>
        \A u \in BodyOf(a) : Before(u, got[r][j]) => \E i \in 1 .. j - 1 : got[r][i] = u
  BY <1>2 DEF Seen, BodyOf
<1>5. \A j \in DOMAIN got[r] : a[got[r][j][1]].kind = "body" => got[r][j] \in BodyOf(a)
  <2>1. Sent(a, fed[r]) \subseteq Sent(a, Len(a))
    <3>1. fed[r] \in Nat /\ fed[r] <= Len(a)
      BY <1>1 DEF BodyInv, HandlesInv, ListsTyped, FlagsTyped
    <3>2. Len(a) \in Nat
      BY ScriptsAssumption
    <3>3. \A u \in Sent(a, fed[r]) : u[1] \in 1 .. Len(a)
      BY <3>1, <3>2 DEF Sent
    <3>4. QED
      BY <3>3 DEF Sent
  <2>2. \A j \in DOMAIN got[r] : got[r][j] \in Range(got[r])
    BY DEF Range
  <2>3. QED
    BY <1>2, <2>1, <2>2 DEF BodyOf, IsBody
<1>6. completed[r] /\ response[r] = "owned" /\ result[r] = "ok" => Body(r) \subseteq Range(got[r])
  BY DEF BodyInv, ResultInv
<1>7. QED
  BY <1>1, <1>3, <1>4, <1>5, <1>6, Zenon

\* Body and headers come to the callbacks in order, and a response that is
\* complete and "ok" has its whole body, whatever the sizes of the pool and of
\* its fragments and wherever the owner or curl gives up
\* (adk_httpx_curl.c and adk_httpx_network_pump.c).
THEOREM BodiesAreWhole == Spec => []OkMeansWholeBody
BY InitBody, NextKeepsBody, BodyInvShows, PTL DEF Spec
=============================================================================
