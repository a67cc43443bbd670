------------------------------- MODULE Cache --------------------------------
(***************************************************************************)
(* The file cache (cache.c): a resource is fetched through httpx into a    *)
(* partial file that is renamed when it is complete (atomic), or into the  *)
(* final file itself (in place); the next fetch sends the etag it finds    *)
(* there.  The server and the file system are the environment: a resource  *)
(* changes, a connection is lost, a write fails, the process dies and what *)
(* it had not flushed with it.                                             *)
(***************************************************************************)
EXTENDS Integers, Sequences

CONSTANTS
  Keys,
  Modes,       \* cache_update_mode_e: "atomic", "in_place"
  MaxVersion,  \* versions of a resource at its server; one has its own etag
  MaxFaults,   \* how often something goes wrong
  Faults       \* what may: "lost", "crash", "write", "open", "rename",
               \* "redirect", "refused" (404), "no_length"

ASSUME CacheAssumption ==
  /\ Modes \subseteq {"atomic", "in_place"}
  /\ MaxVersion \in Nat \ {0} /\ MaxFaults \in Nat

VARIABLES
  files,    \* [Keys -> [{"p", "f"} -> a file: its header and its body]]
  req,      \* http_request_ctx_t of the fetch under way
  status,   \* what the last call returned: [key, served, result]
  version,  \* of each resource at its server
  faults

vars == <<files, req, status, version, faults>>

NoEtag == 0
Absent == [etag |-> NoEtag, length |-> 0, body |-> <<>>]
Empty == [etag |-> NoEtag, length |-> -1, body |-> <<>>]  \* its header is not there
Size(v) == 1 + (v % 2)  \* pieces in which version v is received

Idle == [phase |-> "idle"]
NoStatus == [key |-> "none", served |-> 0, result |-> "none"]

Init ==
  /\ files = [k \in Keys |-> [p |-> Absent, f |-> Absent]]
  /\ req = Idle /\ status = NoStatus
  /\ version = [k \in Keys |-> 1] /\ faults = 0

Fault(kind) == kind \in Faults /\ faults < MaxFaults /\ faults' = faults + 1

\* cache_get_content: the header is there and the rest is as long as it says.
BugReadable(file) == file \notin {Absent, Empty}
Readable(file) == file \notin {Absent, Empty} /\ Len(file.body) = file.length

\* cache_fetch_resource_from_url, as far as adk_httpx_fetch
Fetch(k, mode) ==
  LET cached == files[k].f
      returned == [key |-> k, served |-> 0, result |-> "invalid_version"]
  IN /\ req = Idle
     /\ IF cached = Empty THEN status' = returned /\ UNCHANGED req
        ELSE /\ status' = NoStatus
             /\ req' = [phase |-> "sent", key |-> k, mode |-> mode, served |-> version[k],
                        if_none_match |-> cached.etag, cached_length |-> cached.length,
                        response_code |-> 0, recv_status |-> "init", open |-> FALSE,
                        content_size |-> 0, recv_count |-> 0, left |-> 0, code |-> 0,
                        fetch_status |-> "success"]
     /\ UNCHANGED <<files, version, faults>>

\* on_http_header_recv: the first status line there is decides what is kept.
SeeStatus(r, code) ==
  IF r.response_code # 0 THEN r
  ELSE [r EXCEPT !.response_code = code,
                 !.recv_status = IF code = 200 THEN @ ELSE "skip"]

\* FOLLOWLOCATION: curl goes on to where the headers say.
Redirected ==
  /\ req.phase = "sent" /\ req.response_code = 0 /\ Fault("redirect")
  /\ req' = SeeStatus(req, 301)
  /\ UNCHANGED <<files, status, version>>

\* The headers of the answer proper; "code" is the one curl reports at the end.
Headers(code, content_size, pieces) ==
  req' = [SeeStatus(req, code) EXCEPT !.served = version[req.key], !.phase = "body",
            !.code = code, !.left = pieces, !.content_size = content_size]

Answered ==
  /\ req.phase = "sent"
  /\ LET v == version[req.key]
     IN \/ v = req.if_none_match /\ Headers(304, 0, 0) /\ UNCHANGED faults
        \/ v # req.if_none_match /\ Headers(200, Size(v), Size(v)) /\ UNCHANGED faults
        \/ v # req.if_none_match /\ Headers(200, 0, Size(v)) /\ Fault("no_length")
        \/ Headers(404, 1, 1) /\ Fault("refused")
  /\ UNCHANGED <<files, status, version>>

\* on_http_complete, and the rest of cache_fetch_resource_from_url
Result(r, code) ==
  LET length == IF code = 304 THEN r.cached_length ELSE r.content_size
  IN IF r.fetch_status # "success" THEN r.fetch_status
     ELSE IF code \notin {200, 304} THEN "http_request_failed"
     ELSE IF length <= 0 THEN "invalid_cache_file" ELSE "success"

Finish(r, code) ==
  /\ req' = Idle
  /\ status' = [key |-> r.key, served |-> r.served, result |-> Result(r, code)]
  /\ UNCHANGED version

\* What httpx reports without an answer, and of an answer that was cut off
BugLostCode == 200
LostCode == -1

Abort(fetch_status) == Finish([req EXCEPT !.fetch_status = fetch_status], LostCode)

BugTarget(mode) == "f"
Target(mode) == IF mode = "atomic" THEN "p" ELSE "f"

\* The file a piece is written to: on_http_recv creates it for the first one.
Opened ==
  IF req.recv_status = "append" THEN files[req.key][Target(req.mode)]
  ELSE [etag |-> req.served, length |-> req.content_size, body |-> <<>>]

\* on_http_recv, one piece; what sb_fwrite returns is not looked at.
Receive ==
  LET k == req.key
      t == Target(req.mode)
      last == req.recv_count + 1 >= req.content_size
      next == [req EXCEPT !.recv_status = "append", !.open = ~last,
                          !.recv_count = @ + 1, !.left = @ - 1]
      Write(written) ==
        LET file == [Opened EXCEPT !.body = @ \o written]
        IN \/ /\ ~last \/ req.mode = "in_place"
              /\ files' = [files EXCEPT ![k][t] = file]
              /\ req' = next /\ UNCHANGED <<status, version>>
           \/ /\ last /\ req.mode = "atomic"
              /\ files' = [files EXCEPT ![k] = [p |-> Absent, f |-> file]]
              /\ req' = next /\ UNCHANGED <<status, version>>
  IN /\ req.phase = "body" /\ req.left > 0
     /\ \/ /\ req.content_size = 0
           /\ Abort("invalid_content_length") /\ UNCHANGED <<files, faults>>
        \/ /\ req.content_size > 0 /\ req.recv_status = "skip"
           /\ req' = [req EXCEPT !.left = @ - 1]
           /\ UNCHANGED <<files, status, version, faults>>
        \/ /\ req.content_size > 0 /\ req.recv_status = "init"
           /\ Abort("file_open_failure") /\ Fault("open") /\ UNCHANGED files
        \/ /\ req.content_size > 0 /\ req.recv_status # "skip"
           /\ \/ Write(<<req.served>>) /\ UNCHANGED faults
              \/ Write(<<>>) /\ Fault("write")
              \/ /\ last /\ req.mode = "atomic" /\ Fault("rename")
                 /\ files' = [files EXCEPT ![k][t] = [Opened EXCEPT !.body = Append(@, req.served)]]
                 /\ Abort("key_move_failure")

Complete ==
  /\ req.phase = "body" /\ req.left = 0
  /\ Finish(req, req.code) /\ UNCHANGED <<files, faults>>

\* The connection fails or the timeout passes: on_http_complete closes the file.
Lose ==
  /\ req # Idle /\ (req.phase = "body" => req.left > 0)
  /\ Finish(req, LostCode) /\ Fault("lost") /\ UNCHANGED files

\* cache_delete_key knows of the final file only, cache_clear of both.
DeleteKey(k) ==
  /\ req = Idle /\ files[k].f # Absent
  /\ files' = [files EXCEPT ![k].f = Absent]
  /\ status' = NoStatus /\ UNCHANGED <<req, version, faults>>

Clear ==
  /\ req = Idle
  /\ files' = [k \in Keys |-> [p |-> Absent, f |-> Absent]]
  /\ status' = NoStatus /\ UNCHANGED <<req, version, faults>>

\* What of an open file was not flushed is lost, its header too.
Cut(file) == {Empty} \cup {[file EXCEPT !.body = SubSeq(@, 1, n)] : n \in 0 .. Len(file.body)}

CutFiles ==
  IF req # Idle /\ req.open
  THEN \E file \in Cut(files[req.key][Target(req.mode)]) :
         files' = [files EXCEPT ![req.key][Target(req.mode)] = file]
  ELSE UNCHANGED files

Crash ==
  /\ Fault("crash") /\ CutFiles
  /\ req' = Idle /\ status' = NoStatus /\ UNCHANGED version

Publish(k) ==
  /\ version[k] < MaxVersion
  /\ version' = [version EXCEPT ![k] = @ + 1]
  /\ UNCHANGED <<files, req, status, faults>>

Transfer == Redirected \/ Answered \/ Receive \/ Complete \/ Lose

Next ==
  \/ \E k \in Keys : DeleteKey(k) \/ Publish(k) \/ \E mode \in Modes : Fetch(k, mode)
  \/ Transfer
  \/ Clear
  \/ Crash

Spec == Init /\ [][Next]_vars

-----------------------------------------------------------------------------
File == [etag : 0 .. MaxVersion, length : -1 .. 2, body : UNION {[1 .. n -> 1 .. MaxVersion] : n \in 0 .. 2}]

\* Files, results and counters are of their types.
TypeOK ==
  /\ files \in [Keys -> [p : File, f : File]]
  /\ status.result \in {"none", "success", "invalid_version", "http_request_failed",
       "invalid_cache_file", "invalid_content_length", "file_open_failure", "key_move_failure"}
  /\ version \in [Keys -> 1 .. MaxVersion] /\ faults \in 0 .. MaxFaults
  /\ req # Idle => req.recv_status \in {"init", "append", "skip"} /\ req.recv_count \in 0 .. 2

\* What cache_get_content hands out is one version of the resource, all of it,
\* under its own etag, whatever fetches were cut off, failed or died before.
ReadableIsWhole ==
  /\ TypeOK
  /\ \A k \in Keys : LET file == files[k].f
       IN Readable(file) => file.body = [i \in 1 .. Size(file.etag) |-> file.etag]

\* cache.h:69-71: after a fetch that reports success the cache can be read
\* and holds the version the server answered for.
SuccessMeansCached ==
  status.result = "success" =>
    /\ Readable(files[status.key].f)
    /\ files[status.key].f.etag = status.served
=============================================================================
