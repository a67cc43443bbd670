----------------------------- MODULE HttpxPump -----------------------------
(***************************************************************************)
(* The asynchronous http client: adk_httpx_curl.c, run by its owner's      *)
(* thread (here: main), and adk_httpx_network_pump.c, the thread that      *)
(* drives libcurl.                                                         *)
(*                                                                         *)
(* What curl receives is copied into fragments of a fixed pool.  Header    *)
(* lines collect in a private chain of the request, body bytes in one      *)
(* private fragment; both are handed to the main thread through the        *)
(* request's list, which client_tick detaches, shows to the callbacks and  *)
(* gives back to the pool.                                                 *)
(*                                                                         *)
(* A fragment in use is the sequence of the units written to it; of the    *)
(* free list only the length matters.  A critical section is one action.   *)
(* libcurl is external: it calls the two callbacks in the order of the     *)
(* request's script and ends a transfer in any of three ways.              *)
(***************************************************************************)
EXTENDS Integers, Sequences, FiniteSets, Functions, SequencesExt, FiniteSetsExt

CONSTANTS
  Requests,   \* the requests the application may send
  None,       \* a null pointer
  Fragments,  \* fragments made by create_fragment_regions
  Capacity,   \* units that fit in a fragment's region
  Scripts     \* what servers may answer: sequences of header lines and pieces of body

ASSUME RequestsAssumption == IsFiniteSet(Requests) /\ None \notin Requests
ASSUME SizesAssumption == Fragments \in Nat \ {0} /\ Capacity \in Nat \ {0}
\* "Make sure that the received header can fit into a single fragment buffer"
ASSUME ScriptsAssumption ==
  \A s \in Scripts :
    /\ s \in Seq([kind : {"header", "body"}, size : Nat])
    /\ \A c \in DOMAIN s : s[c].kind = "header" => s[c].size <= Capacity

VARIABLES
  script,     \* what the server answers to each request
  handles,    \* handle_head .. handle_tail of the client
  incoming,   \* incoming_requests_head .. incoming_requests_tail
  multi,      \* requests curl transfers
  fed,        \* calls of a script that curl has made
  msgs,       \* what curl_multi_info_read returns, in order
  free,       \* length of the pump's free list
  chain,      \* active_header_fragment and the fragments before it
  active,     \* active_body_fragment, as a sequence of at most one
  out,        \* fragments_head .. fragments_tail
  ended,      \* data_stream_ended
  response,   \* "none", "owned" while handle->response is set, "freed"
  result,     \* response->result
  aborted,    \* aborted_by_callback
  got,        \* units the callbacks and buffers of the main thread have seen
  completed,  \* on_complete was called
  running,    \* is_running
  ppc, preq, pleft,                 \* the pump: place, request, units still to copy
  mpc, hnd, nxt, batch, sawEnd,     \* main: place, handle, next_handle, detached list, flag read
  lost        \* fragments no list leads to any more (history)

transfer == <<script, multi, fed, msgs>>
streams == <<free, chain, active, out, ended, lost>>
client == <<handles, incoming, response, result, aborted, got, completed, running>>
pumpVars == <<ppc, preq, pleft>>
mainVars == <<mpc, hnd, nxt, batch, sawEnd>>
vars == <<transfer, streams, client, pumpVars, mainVars>>

(***************************************************************************)
(* Units are numbered by the call that delivers them.                      *)
(***************************************************************************)
Units(r, c) == [i \in 1 .. script[r][c].size |-> <<c, i>>]
Body(r) == UNION {Range(Units(r, c)) : c \in {c \in DOMAIN script[r] : script[r][c].kind = "body"}}

Init ==
  /\ script \in [Requests -> Scripts]
  /\ handles = <<>> /\ incoming = <<>> /\ msgs = <<>>
  /\ multi = {} /\ fed = [r \in Requests |-> 0]
  /\ free = Fragments
  /\ chain = [r \in Requests |-> <<>>]
  /\ active = [r \in Requests |-> <<>>]
  /\ out = [r \in Requests |-> <<>>]
  /\ ended = [r \in Requests |-> FALSE]
  /\ response = [r \in Requests |-> "none"]
  /\ result = [r \in Requests |-> "ok"]
  /\ aborted = [r \in Requests |-> FALSE]
  /\ got = [r \in Requests |-> <<>>]
  /\ completed = [r \in Requests |-> FALSE]
  /\ running = TRUE
  /\ ppc = "top" /\ preq = None /\ pleft = <<>>
  /\ mpc = "idle" /\ hnd = None /\ nxt = None /\ batch = <<>> /\ sawEnd = FALSE
  /\ lost = 0

-----------------------------------------------------------------------------
(* The application, between two ticks or inside on_complete. *)

Outside == mpc \in {"idle", "complete"}

Send(r) ==
  /\ Outside /\ response[r] = "none"
  /\ response' = [response EXCEPT ![r] = "owned"]
  /\ handles' = Append(handles, r)
  /\ incoming' = Append(incoming, r)
  /\ UNCHANGED <<transfer, streams, result, aborted, got, completed, running,
                 pumpVars, mainVars>>

ResponseFree(r) ==
  /\ Outside /\ response[r] = "owned"
  /\ response' = [response EXCEPT ![r] = "freed"]
  /\ UNCHANGED <<transfer, streams, handles, incoming, result, aborted, got,
                 completed, running, pumpVars, mainVars>>

-----------------------------------------------------------------------------
(* The pump thread. *)

PumpCycle ==
  /\ ppc = "top" /\ running
  /\ multi' = multi \cup Range(incoming) /\ incoming' = <<>>
  /\ ppc' = "perform"
  /\ UNCHANGED <<script, fed, msgs, streams, handles, response, result, aborted,
                 got, completed, running, preq, pleft, mainVars>>

PumpExit ==
  /\ ppc = "top" /\ ~running
  /\ ppc' = "exited"
  /\ UNCHANGED <<transfer, streams, client, preq, pleft, mainVars>>

\* curl calls one of the two callbacks; the body's begins with the flush.
Receive(r) ==
  /\ ppc = "perform" /\ r \in multi /\ fed[r] < Len(script[r])
  /\ ppc' = script[r][fed[r] + 1].kind
  /\ preq' = r /\ pleft' = Units(r, fed[r] + 1)
  /\ fed' = [fed EXCEPT ![r] = @ + 1]
  /\ IF ppc' = "body" /\ chain[r] # <<>>
       THEN /\ out' = [out EXCEPT ![r] = @ \o chain[r]]
            /\ chain' = [chain EXCEPT ![r] = <<>>]
       ELSE UNCHANGED <<out, chain>>
  /\ UNCHANGED <<script, multi, msgs, free, active, ended, lost, client, mainVars>>

Space(f) == Capacity - Len(f)

HeaderFits(r) == chain[r] # <<>> /\ Space(Last(chain[r])) >= Len(pleft)

\* blocking_get_free_fragment for the header chain; waits while the list is empty.
HeaderFragment ==
  /\ ppc = "header" /\ ~HeaderFits(preq) /\ free > 0
  /\ free' = free - 1
  /\ chain' = [chain EXCEPT ![preq] = Append(@, <<>>)]
  /\ UNCHANGED <<transfer, active, out, ended, lost, client, pumpVars, mainVars>>

\* The value the callbacks return: zero makes curl give the transfer up.
Returned ==
  /\ ppc' = "perform" /\ preq' = None /\ pleft' = <<>>
  /\ IF aborted[preq]
       THEN /\ multi' = multi \ {preq}
            /\ msgs' = Append(msgs, [req |-> preq, code |-> "error"])
       ELSE UNCHANGED <<multi, msgs>>

HeaderCopy ==
  /\ ppc = "header" /\ HeaderFits(preq)
  /\ chain' = [chain EXCEPT ![preq] = Front(@) \o <<Last(@) \o pleft>>]
  /\ Returned
  /\ UNCHANGED <<script, fed, free, active, out, ended, lost, client, mainVars>>

\* A full fragment is linked to the list before the next one is fetched.
BodyFlush ==
  /\ ppc = "body" /\ active[preq] # <<>> /\ Space(active[preq][1]) = 0
  /\ out' = [out EXCEPT ![preq] = @ \o active[preq]]
  /\ active' = [active EXCEPT ![preq] = <<>>]
  /\ UNCHANGED <<transfer, free, chain, ended, lost, client, pumpVars, mainVars>>

BodyFragment ==
  /\ ppc = "body" /\ active[preq] = <<>> /\ free > 0
  /\ free' = free - 1
  /\ active' = [active EXCEPT ![preq] = <<<<>>>>]
  /\ UNCHANGED <<transfer, chain, out, ended, lost, client, pumpVars, mainVars>>

\* bytes_to_write
Piece == IF Len(pleft) < Space(active[preq][1]) THEN Len(pleft) ELSE Space(active[preq][1])

\* ptr + ptr_offset
Rest == SubSeq(pleft, Piece + 1, Len(pleft))

BodyCopy ==
  /\ ppc = "body" /\ active[preq] # <<>> /\ Space(active[preq][1]) > 0
  /\ active' = [active EXCEPT ![preq] = <<@[1] \o SubSeq(pleft, 1, Piece)>>]
  /\ IF Piece = Len(pleft)
       THEN Returned
       ELSE /\ pleft' = Rest
            /\ UNCHANGED <<multi, msgs, ppc, preq>>
  /\ UNCHANGED <<script, fed, free, chain, out, ended, lost, client, mainVars>>

\* curl ends a transfer: done, timed out, or failed.
Finish(r) ==
  /\ ppc = "perform" /\ r \in multi
  /\ \E code \in {"ok", "error"} :
       /\ code = "ok" => fed[r] = Len(script[r])
       /\ msgs' = Append(msgs, [req |-> r, code |-> code])
  /\ multi' = multi \ {r}
  /\ UNCHANGED <<script, fed, streams, client, pumpVars, mainVars>>

PerformReturns ==
  /\ ppc = "perform"
  /\ ppc' = "info"
  /\ UNCHANGED <<transfer, streams, client, preq, pleft, mainVars>>

NoInfo ==
  /\ ppc = "info" /\ msgs = <<>>
  /\ ppc' = "top"
  /\ UNCHANGED <<transfer, streams, client, preq, pleft, mainVars>>

\* "response->result is already initialized to adk_httpx_ok"; a timeout and
\* any other failure are told apart in the code, and are one here.
ResultOf(code, old) == IF code = "ok" THEN old ELSE "error"

\* The section under response_lock.
SetResult ==
  /\ ppc = "info" /\ msgs # <<>>
  /\ LET m == Head(msgs) IN
       /\ preq' = m.req
       /\ result' = IF response[m.req] = "owned"
                      THEN [result EXCEPT ![m.req] = ResultOf(m.code, @)]
                      ELSE result
  /\ msgs' = Tail(msgs)
  /\ ppc' = "publish"
  /\ UNCHANGED <<script, multi, fed, streams, handles, incoming, response, aborted,
                 got, completed, running, pleft, mainVars>>

\* LL_ADD of the last fragment of the chain; it unlinks those before it.
LastHeaders(r) == IF chain[r] = <<>> THEN <<>> ELSE <<Last(chain[r])>>

\* Mutant: the body is not flushed at the end of the stream.
BugLastFragments(r) == LastHeaders(r)
LastFragments(r) == LastHeaders(r) \o active[r]

\* The section under fragments_lock.
Publish ==
  /\ ppc = "publish"
  /\ out' = [out EXCEPT ![preq] = @ \o LastFragments(preq)]
  /\ lost' = lost + Len(chain[preq]) - Len(LastHeaders(preq))
  /\ chain' = [chain EXCEPT ![preq] = <<>>]
  /\ active' = [active EXCEPT ![preq] = <<>>]
  /\ ended' = [ended EXCEPT ![preq] = TRUE]
  /\ ppc' = "info" /\ preq' = None
  /\ UNCHANGED <<transfer, free, client, pleft, mainVars>>

-----------------------------------------------------------------------------
(* adk_httpx_client_tick, one iteration at a time. *)

\* Where prev and next of a handle link it.
Position(r) == CHOOSE k \in DOMAIN handles : handles[k] = r

Successor(r) ==
  IF Position(r) = Len(handles) THEN None ELSE handles[Position(r) + 1]

TickBegin ==
  /\ mpc = "idle" /\ handles # <<>>
  /\ hnd' = Head(handles) /\ mpc' = "detach"
  /\ UNCHANGED <<transfer, streams, client, pumpVars, nxt, batch, sawEnd>>

\* Mutant: the end is taken from curl's transfer instead of the pump's flag.
BugDetachReads(r) == \E i \in DOMAIN msgs : msgs[i].req = r
\* The flag is read in the section that detaches the list.
DetachReads(r) == ended[r]

Detach ==
  /\ mpc = "detach"
  /\ nxt' = Successor(hnd)
  /\ batch' = out[hnd] /\ out' = [out EXCEPT ![hnd] = <<>>]
  /\ sawEnd' = DetachReads(hnd)
  /\ mpc' = IF out[hnd] = <<>> THEN "end" ELSE "fragments"
  /\ UNCHANGED <<transfer, free, chain, active, ended, lost, client, pumpVars, hnd>>

\* A callback sees a fragment and may refuse to go on.  batch keeps its length
\* for fragments_free; fragments already seen are empty.
Unseen == {i \in DOMAIN batch : batch[i] # <<>>}
Shown == response[hnd] = "owned" /\ ~aborted[hnd]

Callback ==
  /\ mpc = "fragments" /\ Shown
  /\ \E k \in Unseen :
       /\ \A i \in Unseen : k <= i
       /\ got' = [got EXCEPT ![hnd] = @ \o batch[k]]
       /\ batch' = [batch EXCEPT ![k] = <<>>]
  /\ \E refuse \in BOOLEAN :
       IF refuse
         THEN /\ aborted' = [aborted EXCEPT ![hnd] = TRUE]
              /\ result' = [result EXCEPT ![hnd] = "error"]
         ELSE UNCHANGED <<aborted, result>>
  /\ UNCHANGED <<transfer, streams, handles, incoming, response, completed, running,
                 pumpVars, mpc, hnd, nxt, sawEnd>>

\* Mutant: only the fragments that were shown go back.
BugReturned(b) == Len(b) - Cardinality(Unseen)
ReturnedFragments(b) == Len(b)

\* adk_httpx_network_pump_fragments_free
FragmentsFree ==
  /\ mpc = "fragments" /\ (Unseen = {} \/ ~Shown)
  /\ free' = free + ReturnedFragments(batch) /\ batch' = <<>>
  /\ mpc' = "end"
  /\ UNCHANGED <<transfer, chain, active, out, ended, lost, client, pumpVars,
                 hnd, nxt, sawEnd>>

NextHandle == hnd' = nxt /\ nxt' = None /\ mpc' = IF nxt = None THEN "idle" ELSE "detach"

TickOngoing ==
  /\ mpc = "end" /\ ~sawEnd
  /\ NextHandle
  /\ UNCHANGED <<transfer, streams, client, pumpVars, batch, sawEnd>>

\* status becomes ready and on_complete is called, unless the response is gone.
OnComplete ==
  /\ mpc = "end" /\ sawEnd
  /\ completed' = [completed EXCEPT ![hnd] = @ \/ response[hnd] = "owned"]
  /\ mpc' = "complete"
  /\ UNCHANGED <<transfer, streams, handles, incoming, response, result, aborted,
                 got, running, pumpVars, hnd, nxt, batch, sawEnd>>

\* free_handle; the list of fragments is empty by then.
FreeHandle ==
  /\ mpc = "complete"
  /\ handles' = RemoveAt(handles, Position(hnd))
  /\ free' = free + Len(out[hnd]) /\ out' = [out EXCEPT ![hnd] = <<>>]
  /\ sawEnd' = FALSE
  /\ NextHandle
  /\ UNCHANGED <<transfer, chain, active, ended, lost, incoming, response, result,
                 aborted, got, completed, running, pumpVars, batch>>

\* adk_httpx_client_free: stop the pump, join it, free all handles.
ClientFree ==
  /\ mpc = "idle" /\ running
  /\ running' = FALSE /\ mpc' = "join"
  /\ UNCHANGED <<transfer, streams, handles, incoming, response, result, aborted,
                 got, completed, pumpVars, hnd, nxt, batch, sawEnd>>

Joined ==
  /\ mpc = "join" /\ ppc = "exited"
  /\ handles' = <<>> /\ mpc' = "gone"
  /\ UNCHANGED <<transfer, streams, incoming, response, result, aborted, got,
                 completed, running, pumpVars, hnd, nxt, batch, sawEnd>>

Gone == mpc = "gone" /\ UNCHANGED vars

-----------------------------------------------------------------------------
Pump ==
  \/ PumpCycle \/ PumpExit
  \/ HeaderFragment \/ HeaderCopy
  \/ BodyFlush \/ BodyFragment \/ BodyCopy
  \/ PerformReturns \/ NoInfo \/ SetResult \/ Publish

Curl(r) == Receive(r) \/ Finish(r)

Tick ==
  \/ TickBegin \/ Detach \/ Callback \/ FragmentsFree
  \/ TickOngoing \/ OnComplete \/ FreeHandle

Next ==
  \/ \E r \in Requests : Send(r) \/ ResponseFree(r) \/ Curl(r)
  \/ Pump \/ Tick
  \/ ClientFree \/ Joined \/ Gone

Spec == Init /\ [][Next]_vars

(***************************************************************************)
(* The pump runs, the owner ticks the client, the network delivers or      *)
(* times out every transfer; nothing forces a request or the end.          *)
(***************************************************************************)
Fairness ==
  /\ WF_vars(Pump) /\ WF_vars(Tick) /\ WF_vars(Joined)
  /\ \A r \in Requests : SF_vars(Curl(r))

FairSpec == Spec /\ Fairness

-----------------------------------------------------------------------------
(* Properties. *)

\* Every variable keeps the type the code declares, lists hold requests once.
TypeOK ==
  /\ script \in [Requests -> Scripts]
  /\ \A list \in {handles, incoming} : IsInjective(list) /\ Range(list) \subseteq Requests
  /\ multi \subseteq Requests
  /\ \A r \in Requests : fed[r] \in 0 .. Len(script[r])
  /\ \A i \in DOMAIN msgs :
       msgs[i].req \in Requests /\ msgs[i].code \in {"ok", "error"}
  /\ free \in 0 .. Fragments /\ lost \in 0 .. Fragments
  /\ \A r \in Requests :
       /\ Len(active[r]) <= 1
       /\ \A f \in Range(chain[r]) \cup Range(active[r]) \cup Range(out[r]) : Len(f) <= Capacity
  /\ ended \in [Requests -> BOOLEAN] /\ aborted \in [Requests -> BOOLEAN]
  /\ completed \in [Requests -> BOOLEAN] /\ running \in BOOLEAN /\ sawEnd \in BOOLEAN
  /\ response \in [Requests -> {"none", "owned", "freed"}]
  /\ result \in [Requests -> {"ok", "error"}]
  /\ ppc \in {"top", "perform", "header", "body", "info", "publish", "exited"}
  /\ mpc \in {"idle", "detach", "fragments", "end", "complete", "join", "gone"}
  /\ {preq, hnd, nxt} \subseteq Requests \cup {None}

\* The pump works on a request only while its handle is in the client's list:
\* client_tick frees a handle once the pump has let go of it, and not before
\* (adk_httpx_network_pump.c:266-312 against free_handle).
PumpTouchesLiveHandles ==
  mpc # "gone" =>
    Range(incoming) \cup multi \cup {msgs[i].req : i \in DOMAIN msgs} \cup ({preq} \ {None})
      \subseteq Range(handles)

InUse(r) == Len(chain[r]) + Len(active[r]) + Len(out[r])

\* The fragments of all requests, each as the request and its number there.
FragmentsInUse == UNION {{r} \X (1 .. InUse(r)) : r \in Requests}

\* A fragment is in the free list, in the hands of the pump, in the list of a
\* request or detached by the main thread, or it was unlinked by the last
\* LL_ADD of a header chain: between two threads and any refusal none is
\* given back twice or kept.
FragmentsConserved ==
  TypeOK /\ free + Len(batch) + lost + Cardinality(FragmentsInUse) = Fragments

Before(u, v) == u[1] < v[1] \/ (u[1] = v[1] /\ u[2] < v[2])

\* Callbacks see the body as a prefix of what the server sent, nothing twice and
\* nothing left out, and header lines in the order they came, across fragments,
\* flushes and the end of the stream, and a response that on_complete gets with
\* adk_httpx_ok has the whole body.
OkMeansWholeBody ==
  \A r \in Requests :
    LET seen == got[r]
    IN /\ \A i, j \in DOMAIN seen :
            i < j /\ script[r][seen[i][1]].kind = script[r][seen[j][1]].kind => Before(seen[i], seen[j])
       /\ \A j \in DOMAIN seen : seen[j] \in Body(r) =>
            \A u \in Body(r) : Before(u, seen[j]) => \E i \in 1 .. j - 1 : seen[i] = u
       /\ \A j \in DOMAIN seen : script[r][seen[j][1]].kind = "body" => seen[j] \in Body(r)
       /\ completed[r] /\ response[r] = "owned" /\ result[r] = "ok" => Body(r) \subseteq Range(seen)

\* With fragments enough for what two requests can hold back, a request that
\* was sent leaves the client, unless the client is freed first.
EveryRequestEnds ==
  \A r \in Requests : (r \in Range(handles)) ~> (r \notin Range(handles) \/ ~running)
=============================================================================
