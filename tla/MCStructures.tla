---------------------------- MODULE MCStructures -----------------------------
(***************************************************************************)
(* What is used by one thread at a time, on small instances: the block     *)
(* heap, the pool, a message of the bus in its fragments, the bus's table  *)
(* of receivers and the files of the cache.  They share no state; a        *)
(* behaviour uses one of them, the one that `part' names, and leaves the   *)
(* others as they began.                                                   *)
(***************************************************************************)
EXTENDS Structures, TLC

CONSTANTS
  Users, RegionSize, Ofs, HeapSizes,                   \* MemoryHeap
  Receivers, Addresses, Masks, Dests                   \* CncBusRouting

ASSUME HeapAssumption ==
  /\ RegionSize \in Nat /\ Ofs \in Nat \ {0} /\ HeapSizes \subseteq Nat \ {0}
  /\ Ofs + 1 <= RegionSize
ASSUME RoutingAssumption ==
  Addresses \subseteq Nat \ {0} /\ Masks \subseteq Nat /\ Dests \subseteq Nat

VARIABLES
  part,
  heap, bytes, live,
  address, receivers, receiver_addresses, sent

heapVars == <<heap, bytes, live>>
msgVars == <<phase, frags, reserved, size, cur, got>>
tableVars == <<address, receivers, receiver_addresses, sent>>

Heap == INSTANCE MemoryHeap WITH Sizes <- HeapSizes
Routing == INSTANCE CncBusRouting

Pools == [size : Sizes, block_size : BlockSizes, alignment : Alignments,
          header_size : HeaderSizes, guarded : BOOLEAN]

PartsInit ==
  /\ part \in {"heap", "pool", "message", "routing", "cache"}
  /\ PoolInit /\ Heap!Init /\ Msg!Init /\ Routing!Init /\ Init
  /\ part = "pool" \/ pool = CHOOSE p \in Pools : TRUE

PartsNext ==
  /\ UNCHANGED part
  /\ \/ part = "heap" /\ Heap!Next /\ UNCHANGED <<poolVars, msgVars, tableVars, vars>>
     \/ part = "pool" /\ PoolNext /\ UNCHANGED <<heapVars, msgVars, tableVars, vars>>
     \/ part = "message" /\ Msg!Next /\ UNCHANGED <<poolVars, heapVars, tableVars, vars>>
     \/ part = "routing" /\ Routing!Next /\ UNCHANGED <<poolVars, heapVars, msgVars, vars>>
     \/ part = "cache" /\ Next /\ UNCHANGED <<poolVars, heapVars, msgVars, tableVars>>

PartsSpec == PartsInit /\ [][PartsNext]_<<part, poolVars, heapVars, msgVars, tableVars, vars>>

-----------------------------------------------------------------------------
(* The properties of the modules. *)

\* The heap is well formed whatever was allocated, resized and freed.
HeapVerifies == Heap!HeapVerifies

\* A caller's bytes stay what it wrote.
BytesKept == Heap!BytesKept

\* The table of receivers is in order and a send reaches its subnet.
SendReachesSubnet == Routing!SendReachesSubnet

UserSymmetry == Permutations(Users)
=============================================================================
