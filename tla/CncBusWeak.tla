----------------------------- MODULE CncBusWeak -----------------------------
(***************************************************************************)
(* CncBus on a machine that keeps stores in a buffer: the relaxed store in *)
(* bus_wait_enter_cdc_hazard may still be invisible to the other threads   *)
(* while its thread already loads read_hazard_count.  The other stores to  *)
(* the bus leave the buffer after it, the read-modify-writes of the        *)
(* readers empty theirs.                                                   *)
(***************************************************************************)
EXTENDS CncBus

VARIABLE store_pending  \* the store of "cdc" is still in the buffer

WeakInit == Init /\ store_pending = FALSE

BufferStore ==
  /\ Step(Cdc, "store", "wait")
  /\ store_pending' = TRUE
  /\ UNCHANGED <<bus, rcvs, memory, sent, disp, send>>

FlushStore ==
  /\ store_pending
  /\ receivers_hazard' = "cdc" /\ store_pending' = FALSE
  /\ UNCHANGED <<slots, read_hazard_count, rcvs, memory, sent, pc, disp, send>>

WeakNext ==
  \/ BufferStore
  \/ FlushStore
  \/ ReaderNext /\ UNCHANGED store_pending
  \/ /\ pc[Cdc] # "store" /\ ~(store_pending /\ pc[Cdc] = "modify")
     /\ CdcNext /\ UNCHANGED store_pending

WeakSpec == WeakInit /\ [][WeakNext]_<<vars, store_pending>>
=============================================================================
