----------------------------- MODULE MemoryHeap -----------------------------
(***************************************************************************)
(* The block heap (memory_heap.c) without guard pages.  Addresses count    *)
(* units of the alignment from 1, 0 is NULL; heap mirrors heap_t.internal, *)
(* with the headers in force as a function of their address.  bytes is     *)
(* what the region holds outside of the headers: who wrote it.             *)
(***************************************************************************)
EXTENDS Integers, Sequences, FiniteSetsExt, Functions, TLC

CONSTANTS
  Users,      \* the callers, each with at most one allocation
  RegionSize, \* size of the region heap_init_with_region gets
  Ofs,        \* ptr_ofs: the header, its extra bytes and padding
  Sizes       \* sizes asked for, in units: ALIGN_INT of what is passed

VARIABLES heap, bytes, live

vars == <<heap, bytes, live>>

Null == 0
Junk == "junk"
Region == 1 .. RegionSize
MinBlock == Ofs + 1

\* heap_emplace_free_block
FreeBlock(size, next, nextOnFree) ==
  [id |-> "free", size |-> size, next |-> next, nextOnFree |-> nextOnFree]

Init ==
  /\ heap = [blk |-> 1 :> FreeBlock(RegionSize, Null, Null),
             free |-> 1, numUsed |-> 0, numFree |-> 1,
             usedSize |-> 0, freeSize |-> RegionSize]
  /\ bytes = [a \in Region |-> Junk]
  /\ live = [u \in Users |-> [ptr |-> Null, written |-> 0]]

\* The free list from heap->free on.
FreeList(h) ==
  LET from[a \in Region \cup {Null}] ==
        IF a = Null THEN <<>> ELSE <<a>> \o from[h.blk[a].nextOnFree]
  IN from[h.free]

\* What led to block a on the free list leads to block `to'.
Relink(h, a, to) ==
  IF h.free = a THEN [h EXCEPT !.free = to]
  ELSE LET w == FreeList(h)
           prev == CHOOSE i \in DOMAIN w : w[i + 1] = a
       IN [h EXCEPT !.blk[w[prev]].nextOnFree = to]

\* heap_merge_free_blocks: take in every block that is next in both orders.
BugJoined(h, a) == FALSE   \* mutant: neighbours stay apart
Joined(h, a) == h.blk[a].next # Null /\ h.blk[a].next = h.blk[a].nextOnFree

Merge(h, b) ==
  LET after[a \in Region] ==
        IF Joined(h, a) THEN {h.blk[a].next} \cup after[h.blk[a].next] ELSE {}
      taken == after[b]
      last == CHOOSE a \in taken \cup {b} : ~Joined(h, a)
      g == [h EXCEPT !.blk[b].size = MapThenSumSet(LAMBDA a : h.blk[a].size, taken \cup {b}),
                     !.blk[b].next = h.blk[last].next,
                     !.blk[b].nextOnFree = h.blk[last].nextOnFree,
                     !.numFree = @ - Cardinality(taken)]
  IN [g EXCEPT !.blk = Restrict(@, DOMAIN @ \ taken)]

\* heap_insert_free_block
InsertFree(h, f) ==
  LET w == FreeList(h)
      k == Min({i \in 1 .. Len(w) : f < w[i]} \cup {Len(w) + 1})
      g == [h EXCEPT !.blk[f].id = "free",
                     !.blk[f].nextOnFree = IF k > Len(w) THEN Null ELSE w[k]]
  IN IF k = 1 THEN Merge([g EXCEPT !.free = f], f)
     ELSE LET prev == w[k - 1]
          IN Merge([g EXCEPT !.blk[prev].nextOnFree = f],
                   IF h.blk[prev].next = f THEN prev ELSE f)

-----------------------------------------------------------------------------
(* The operations on the heap: what they return is the heap after them. *)

FirstFit(h, needed) ==
  LET fits == SelectSeq(FreeList(h), LAMBDA a : h.blk[a].size >= needed)
  IN IF fits = <<>> THEN Null ELSE Head(fits)

Splits(size, needed) == size - needed >= MinBlock

\* heap_unchecked_alloc from the free block b
AllocBlock(h, b, needed) ==
  LET block == h.blk[b]
      end == b + needed
      g == IF Splits(block.size, needed)
           THEN [Relink(h, b, end) EXCEPT
                   !.blk = (end :> FreeBlock(block.size - needed, block.next, block.nextOnFree))
                           @@ [@ EXCEPT ![b].size = needed, ![b].next = end],
                   !.freeSize = @ - needed]
           ELSE [Relink(h, b, block.nextOnFree) EXCEPT
                   !.numFree = @ - 1, !.freeSize = @ - block.size]
  IN [g EXCEPT !.blk[b].id = "used", !.blk[b].nextOnFree = Null,
               !.numUsed = @ + 1, !.usedSize = @ + g.blk[b].size]

\* heap_free
FreeBlockAt(h, b) ==
  InsertFree([h EXCEPT !.numUsed = @ - 1, !.usedSize = @ - h.blk[b].size,
                       !.freeSize = @ + h.blk[b].size, !.numFree = @ + 1], b)

NextFree(h, b) == IF h.blk[b].next # Null /\ h.blk[h.blk[b].next].id = "free"
                  THEN h.blk[b].next ELSE Null

\* The free block behind b starts at `to' from now on, and b ends there.
ShiftFree(h, b, to) ==
  LET f == NextFree(h, b)
      delta == f - to
  IN [Relink(h, f, to) EXCEPT
        !.blk = (to :> [h.blk[f] EXCEPT !.size = @ + delta])
                @@ Restrict([@ EXCEPT ![b].size = to - b, ![b].next = to], DOMAIN @ \ {f}),
        !.usedSize = @ - delta, !.freeSize = @ + delta]

\* A block that shrinks gives what is too small for a block to nobody.
ShrinkBlock(h, b, needed) ==
  LET block == h.blk[b]
      end == b + needed
      rest == block.size - needed
  IN IF NextFree(h, b) # Null THEN ShiftFree(h, b, end)
     ELSE IF ~Splits(block.size, needed) THEN h
     ELSE [InsertFree([h EXCEPT !.blk = (end :> FreeBlock(rest, block.next, Null))
                                        @@ [@ EXCEPT ![b].size = needed, ![b].next = end]], end)
             EXCEPT !.numFree = @ + 1, !.usedSize = @ - rest, !.freeSize = @ + rest]

GrowsInPlace(h, b, needed) ==
  NextFree(h, b) # Null /\ h.blk[NextFree(h, b)].size >= needed - h.blk[b].size

GrowBlock(h, b, needed) ==
  LET f == NextFree(h, b)
      next == h.blk[f]
  IN IF Splits(h.blk[b].size + next.size, needed) THEN ShiftFree(h, b, b + needed)
     ELSE LET g == [Relink(h, f, next.nextOnFree) EXCEPT
                      !.blk[b].next = next.next, !.blk[b].size = @ + next.size,
                      !.numFree = @ - 1, !.freeSize = @ - next.size,
                      !.usedSize = @ + next.size]
          IN [g EXCEPT !.blk = Restrict(@, DOMAIN @ \ {f})]

-----------------------------------------------------------------------------
(* The callers. *)

\* Headers are written over what the region held; what is given back is junk.
Left(h, cells, owned) ==
  [a \in Region |-> IF \/ \E b \in DOMAIN h.blk : a \in b .. b + Ofs - 1
                       \/ ~\E u \in Users : a \in owned[u].ptr .. owned[u].ptr + owned[u].written - 1
                    THEN Junk ELSE cells[a]]

\* An allocation is written by its owner.
Alloc(u, n) ==
  LET b == FirstFit(heap, n + Ofs)
      h == AllocBlock(heap, b, n + Ofs)
      ptr == b + Ofs
  IN /\ live[u].ptr = Null /\ b # Null
     /\ heap' = h
     /\ live' = [live EXCEPT ![u] = [ptr |-> ptr, written |-> n]]
     /\ bytes' = [a \in Region |-> IF a \in ptr .. ptr + n - 1 THEN u ELSE Left(h, bytes, live)[a]]

Free(u) ==
  /\ live[u].ptr # Null
  /\ heap' = FreeBlockAt(heap, live[u].ptr - Ofs)
  /\ live' = [live EXCEPT ![u] = [ptr |-> Null, written |-> 0]]
  /\ bytes' = Left(heap', bytes, live')

\* heap_unchecked_realloc to n units where the block stays.
Resize(u, n) ==
  LET b == live[u].ptr - Ofs
      size == heap.blk[b].size
      needed == n + Ofs
  IN /\ live[u].ptr # Null /\ size # needed
     /\ \/ needed < size /\ heap' = ShrinkBlock(heap, b, needed)
        \/ /\ needed > size /\ GrowsInPlace(heap, b, needed)
           /\ heap' = GrowBlock(heap, b, needed)
     /\ live' = [live EXCEPT ![u].written = Min({@, n})]
     /\ bytes' = Left(heap', bytes, live')

BugCopied(h, b) == h.blk[b].size - Ofs - 1   \* mutant: a unit short
Copied(h, b) == h.blk[b].size - Ofs

\* heap_unchecked_realloc that allocates, copies and frees.
Move(u, n) ==
  LET b == live[u].ptr - Ofs
      needed == n + Ofs
      to == FirstFit(heap, needed)
      h == AllocBlock(heap, to, needed)
      ptr == to + Ofs
  IN /\ live[u].ptr # Null
     /\ needed > heap.blk[b].size /\ ~GrowsInPlace(heap, b, needed) /\ to # Null
     /\ heap' = FreeBlockAt(h, b)
     /\ live' = [live EXCEPT ![u].ptr = ptr]
     /\ bytes' = Left(heap',
          [a \in Region |-> IF a \in ptr .. Min({ptr + Copied(h, b) - 1, RegionSize})
                            THEN Left(h, bytes, live)[a - ptr + live[u].ptr]
                            ELSE Left(h, bytes, live)[a]], live')

Next == \E u \in Users : \/ Free(u)
                         \/ \E n \in Sizes : Alloc(u, n) \/ Resize(u, n) \/ Move(u, n)

Spec == Init /\ [][Next]_vars

-----------------------------------------------------------------------------
(* Properties. *)

Blocks == DOMAIN heap.blk
WithId(id) == {b \in Blocks : heap.blk[b].id = id}
SizeOf(S) == MapThenSumSet(LAMBDA b : heap.blk[b].size, S)

\* Every header in force, pointer and counter is one a heap of this size has.
TypeOK ==
  /\ Blocks \subseteq Region /\ 1 \in Blocks /\ heap.free \in Blocks \cup {Null}
  /\ \A b \in Blocks : /\ heap.blk[b].id \in {"free", "used"}
                       /\ heap.blk[b].size \in MinBlock .. RegionSize
                       /\ {heap.blk[b].next, heap.blk[b].nextOnFree} \subseteq Blocks \cup {Null}
  /\ {heap.numUsed, heap.numFree, heap.usedSize, heap.freeSize} \subseteq 0 .. RegionSize
  /\ bytes \in [Region -> Users \cup {Junk}]
  /\ live \in [Users -> [ptr : Region \cup {Null}, written : Nat]]

\* Followed by next, the blocks tile the region from its first byte to its
\* last: each starts where the one before ends, and no byte is lost.
BlocksTile ==
  /\ \A b \in Blocks : LET end == b + heap.blk[b].size
                       IN \/ heap.blk[b].next = end
                          \/ heap.blk[b].next = Null /\ end = RegionSize + 1
  /\ \A b \in Blocks \ {1} : \E a \in Blocks : heap.blk[a].next = b

\* No two neighbours are free: whatever was allocated, resized and freed,
\* the heap is as little fragmented as the blocks in use allow, and when
\* nothing is in use it is one block again.
Coalesced ==
  /\ \A b \in WithId("free") : heap.blk[b].next \notin WithId("free")
  /\ (\A u \in Users : live[u].ptr = Null) => Blocks = {1}

\* What heap_verify checks in a debug heap, and more: the blocks tile the
\* region, the free list holds exactly the free blocks in the order of their
\* addresses, the four counters are what the blocks say, and free neighbours
\* are merged.
HeapVerifies ==
  LET w == FreeList(heap)
  IN /\ TypeOK /\ BlocksTile /\ Coalesced
     /\ {w[i] : i \in DOMAIN w} = WithId("free")
     /\ \A i \in DOMAIN w \ {1} : w[i - 1] < w[i]
     /\ \A b \in WithId("used") : heap.blk[b].nextOnFree = Null
     /\ heap.numUsed = Cardinality(WithId("used")) /\ heap.usedSize = SizeOf(WithId("used"))
     /\ heap.numFree = Cardinality(WithId("free")) /\ heap.freeSize = SizeOf(WithId("free"))

\* A caller's bytes are its own and stay what it wrote, wherever a resize
\* moved them and whatever headers were written next to them.
BytesKept ==
  \A u \in Users : live[u].ptr # Null =>
    /\ live[u].ptr - Ofs \in WithId("used")
    /\ \A a \in live[u].ptr .. live[u].ptr + live[u].written - 1 : bytes[a] = u
=============================================================================
