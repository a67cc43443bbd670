------------------------------ MODULE AppLoad -------------------------------
(***************************************************************************)
(* How the player starts an application from a manifest URL (minnie's      *)
(* main.c:244-263, 341-479, 500-625), over the cache: it fetches the       *)
(* manifest, then the bundle the manifest signs, retries both, falls back  *)
(* on what is cached and deletes what it could not use.  Launch after      *)
(* launch, with the faults of Cache and releases in between.               *)
(***************************************************************************)
EXTENDS Cache

CONSTANTS
  ManifestKey, BundleKey,  \* manifest_cache_key, bundle_cache_key
  MaxRetries               \* retry_max_attempts, of either

ASSUME AppLoadAssumption ==
  Keys = {ManifestKey, BundleKey} /\ ManifestKey # BundleKey /\ MaxRetries \in Nat

VARIABLES
  pc,           \* "idle", "manifest", "bundle", "again", "loaded", "failed",
                \* "broken" (by what a file holds)
  attempt,      \* of retry_cache_fetch_resource_from_url
  retry_index,  \* of load_wasm_from_manifest
  signed,       \* the version of the bundle the manifest signs
  had           \* the launch found a whole bundle in the cache

load == <<pc, attempt, retry_index, signed, had>>
lvars == <<vars, load>>

LoadInit ==
  /\ Init
  /\ pc = "idle" /\ attempt = 0 /\ retry_index = 0 /\ signed = 0 /\ had = FALSE

Cached(k) == Readable(files[k].f)

Launch ==
  /\ pc = "idle" /\ Fetch(ManifestKey, "atomic")
  /\ pc' = "manifest" /\ attempt' = 0 /\ retry_index' = 0 /\ signed' = 0
  /\ had' = Cached(BundleKey)

Returned(k) == req = Idle /\ status.result # "none" /\ status.key = k
Succeeded == status.result = "success"

\* retry_cache_fetch_resource_from_url
Retry(k) ==
  /\ Returned(k) /\ ~Succeeded /\ attempt < MaxRetries
  /\ Fetch(k, "atomic")
  /\ attempt' = attempt + 1 /\ UNCHANGED <<pc, retry_index, signed, had>>

FetchReturned(k) == Returned(k) /\ (Succeeded \/ attempt = MaxRetries)

\* The launch ends; clear_manifest_cache and clear_bundle_cache drop "cleared".
End(outcome, cleared) ==
  /\ pc' = outcome
  /\ files' = [k \in Keys |-> IF k \in cleared THEN [files[k] EXCEPT !.f = Absent] ELSE files[k]]
  /\ status' = NoStatus /\ UNCHANGED <<req, version>>
  /\ UNCHANGED <<attempt, retry_index, signed, had>>

\* load_wasm_from_bundle_file opens the bundle and loads its wasm, or clears it.
LoadBundle(cleared) ==
  \/ End("loaded", cleared) /\ UNCHANGED faults
  \/ End("broken", {ManifestKey, BundleKey}) /\ Fault("wasm")

\* load_wasm_from_manifest_url, what it does once the manifest was fetched or not
ManifestFetched ==
  /\ pc = "manifest" /\ FetchReturned(ManifestKey)
  /\ \/ /\ Succeeded /\ Cached(ManifestKey)
        /\ Fetch(BundleKey, "atomic")
        /\ pc' = "bundle" /\ attempt' = 0 /\ signed' = files[ManifestKey].f.etag
        /\ UNCHANGED <<retry_index, had>>
     \* it cannot be parsed, or names an interpreter that is not in this build
     \/ /\ Succeeded /\ Cached(ManifestKey)
        /\ End("broken", {ManifestKey}) /\ Fault("manifest")
     \/ /\ Succeeded /\ ~Cached(ManifestKey)
        /\ End("failed", {}) /\ UNCHANGED faults
     \/ /\ ~Succeeded /\ Cached(BundleKey) /\ LoadBundle({ManifestKey})
     \/ /\ ~Succeeded /\ ~Cached(BundleKey)
        /\ End("failed", {ManifestKey}) /\ UNCHANGED faults

\* verify_signature
BugVerified == TRUE
Verified == files[BundleKey].f.etag = signed

\* load_wasm_from_manifest: the bundle there is now, if the manifest signs it
BundleFetched ==
  /\ pc = "bundle" /\ FetchReturned(BundleKey)
  /\ \/ /\ ~Cached(BundleKey)
        /\ End("failed", {ManifestKey, BundleKey}) /\ UNCHANGED faults
     \/ /\ Cached(BundleKey) /\ Verified /\ LoadBundle({})
     \/ /\ Cached(BundleKey) /\ ~Verified /\ retry_index < MaxRetries
        /\ DeleteKey(BundleKey)
        /\ pc' = "again" /\ attempt' = 0 /\ retry_index' = retry_index + 1
        /\ UNCHANGED <<signed, had>>
     \/ /\ Cached(BundleKey) /\ ~Verified /\ retry_index = MaxRetries
        /\ End("failed", {ManifestKey, BundleKey}) /\ UNCHANGED faults

FetchAgain ==
  /\ pc = "again" /\ Fetch(BundleKey, "atomic")
  /\ pc' = "bundle" /\ UNCHANGED <<attempt, retry_index, signed, had>>

Exit ==
  /\ pc \in {"loaded", "failed", "broken"}
  /\ pc' = "idle" /\ had' = FALSE /\ UNCHANGED <<vars, attempt, retry_index, signed>>

\* The manifest and the bundle are released together.
Release ==
  /\ \A k \in Keys : version[k] < MaxVersion
  /\ version' = [k \in Keys |-> version[k] + 1]
  /\ UNCHANGED <<files, req, status, faults, load>>

Die == Crash /\ pc' = "idle" /\ had' = FALSE /\ UNCHANGED <<attempt, retry_index, signed>>

Player ==
  \/ Launch \/ ManifestFetched \/ BundleFetched \/ FetchAgain \/ Exit
  \/ \E k \in Keys : Retry(k)
  \/ Transfer /\ UNCHANGED load

LoadNext == Player \/ Release \/ Die

\* The player goes on and the user launches it again; nothing has to go wrong.
LoadSpec == LoadInit /\ [][LoadNext]_lvars /\ WF_lvars(Player)

-----------------------------------------------------------------------------
\* main.c:384: whether the fetch of a bundle fails or not, a bundle that was in
\* the cache, whole, when the player was launched is presented to the user, as
\* long as nothing was released: neither lost connections, refusals, retries nor
\* deaths of this or an earlier launch keep the player from it.
PresentsCachedBundle ==
  pc = "failed" /\ (\A k \in Keys : version[k] = 1) => ~had

\* What is loaded is a bundle the manifest that was read signs, and when none
\* could be fetched it is one that was there before, whole and of one version.
LoadsSignedBundle ==
  /\ attempt \in 0 .. MaxRetries /\ retry_index \in 0 .. MaxRetries
  /\ pc = "loaded" => /\ Cached(BundleKey)
                      /\ signed # 0 => files[BundleKey].f.etag = signed
                      /\ signed = 0 => had

\* Whatever fetches were cut off, refused or died, the application is started
\* again and again: no state of the cache keeps the player from it.
KeepsStarting == []<>(pc = "loaded")
=============================================================================
