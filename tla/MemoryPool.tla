----------------------------- MODULE MemoryPool -----------------------------
(***************************************************************************)
(* A pool of blocks of one size (runtime/memory_pool.c): how the blocks    *)
(* lie in their region, with or without a guard page after each, the list  *)
(* of free blocks through their headers.                                   *)
(* Sizes and addresses are in pointers.  Pools are used by one thread.     *)
(***************************************************************************)
EXTENDS Integers, FiniteSets

CONSTANTS
  Sizes, BlockSizes, Alignments, HeaderSizes,  \* what a pool may be made of
  PageSize,
  NULL

\* Alignments are powers of two, pages are aligned, and a header is not empty.
ASSUME PoolAssumption ==
  /\ Sizes \subseteq Nat /\ BlockSizes \subseteq Nat /\ HeaderSizes \subseteq Nat \ {0}
  /\ Alignments \subseteq Nat \ {0} /\ PageSize \in Nat \ {0}
  /\ \A a \in Alignments : PageSize % a = 0
  /\ NULL \notin Int

VARIABLES
  pool,        \* how it was made: [size, block_size, alignment, header_size, guarded]
  free, next_on_free, prev_on_free, id,
  num_free_blocks, num_used_blocks,
  held         \* the blocks its users have

list == <<free, next_on_free, prev_on_free>>
poolVars == <<pool, list, id, num_free_blocks, num_used_blocks, held>>

\* ALIGN_INT
BugAlign(x, a) == x   \* mutant: left as it is
Align(x, a) == ((x + a - 1) \div a) * a

PtrOfs == Align(pool.header_size, pool.alignment)
BlockSize == Align(pool.block_size + PtrOfs, pool.alignment)
NumBlocks == pool.size \div BlockSize
Blocks == 0 .. NumBlocks - 1

\* Where the header of a block is; the first page is a guard page too.
BlockPages == (BlockSize + PageSize - 1) \div PageSize
GuardPage(b) == PageSize + (b * (1 + BlockPages) + BlockPages) * PageSize
Address(b) == IF pool.guarded THEN GuardPage(b) - BlockSize ELSE b * BlockSize

Next_(b) == IF b + 1 \in Blocks THEN b + 1 ELSE NULL
Prev_(b) == IF pool.guarded /\ b # 0 THEN b - 1 ELSE NULL

PoolInit ==
  /\ pool \in [size : Sizes, block_size : BlockSizes, alignment : Alignments,
               header_size : HeaderSizes, guarded : BOOLEAN]
  /\ id = [b \in Blocks |-> "free"]
  /\ free = IF Blocks = {} THEN NULL ELSE 0
  /\ next_on_free = [b \in Blocks |-> Next_(b)]
  /\ prev_on_free = [b \in Blocks |-> Prev_(b)]
  /\ num_free_blocks = NumBlocks /\ num_used_blocks = 0 /\ held = {}

\* memory_pool_unchecked_alloc
Alloc ==
  /\ free # NULL
  /\ free' = next_on_free[free] /\ UNCHANGED next_on_free
  /\ prev_on_free' = IF pool.guarded /\ next_on_free[free] # NULL
                     THEN [prev_on_free EXCEPT ![next_on_free[free]] = NULL] ELSE prev_on_free
  /\ id' = [id EXCEPT ![free] = "used"]
  /\ num_free_blocks' = num_free_blocks - 1 /\ num_used_blocks' = num_used_blocks + 1
  /\ held' = held \cup {free} /\ UNCHANGED pool

\* Mutant: the block becomes the head and is linked to nothing.
BugFree(b) ==
  /\ b \in held
  /\ free' = b /\ UNCHANGED <<next_on_free, prev_on_free>>
  /\ id' = [id EXCEPT ![b] = "free"]
  /\ num_free_blocks' = num_free_blocks + 1 /\ num_used_blocks' = num_used_blocks - 1
  /\ held' = held \ {b} /\ UNCHANGED pool

\* memory_pool_free
Free(b) ==
  /\ b \in held
  /\ free' = b /\ next_on_free' = [next_on_free EXCEPT ![b] = free]
  /\ prev_on_free' = IF pool.guarded /\ free # NULL
                     THEN [prev_on_free EXCEPT ![free] = b] ELSE prev_on_free
  /\ id' = [id EXCEPT ![b] = "free"]
  /\ num_free_blocks' = num_free_blocks + 1 /\ num_used_blocks' = num_used_blocks - 1
  /\ held' = held \ {b} /\ UNCHANGED pool

PoolNext == Alloc \/ \E b \in Blocks : Free(b)

PoolSpec == PoolInit /\ [][PoolNext]_poolVars

-----------------------------------------------------------------------------
\* The first n + 1 links of the free list, or NULL behind its end
Linked ==
  LET link[n \in 0 .. NumBlocks] ==
        IF n = 0 THEN free
        ELSE IF link[n - 1] = NULL THEN NULL ELSE next_on_free[link[n - 1]]
  IN link

\* The links are of blocks, the counters of their ranges.
PoolTypeOK ==
  /\ pool \in [size : Sizes, block_size : BlockSizes, alignment : Alignments,
               header_size : HeaderSizes, guarded : BOOLEAN]
  /\ id \in [Blocks -> {"free", "used"}]
  /\ free \in Blocks \cup {NULL}
  /\ next_on_free \in [Blocks -> Blocks \cup {NULL}]
  /\ prev_on_free \in [Blocks -> Blocks \cup {NULL}]
  /\ num_free_blocks \in 0 .. NumBlocks /\ num_used_blocks \in 0 .. NumBlocks
  /\ held \subseteq Blocks

\* The block handed out next is nobody's, and there is one as long as any block
\* is nobody's: no order of calls loses a block or hands one out twice.
NoBlockTwice ==
  /\ free # NULL => free \notin held
  /\ free = NULL => held = Blocks

\* The list of a guarded pool can be followed backwards too.
PrevIsBack ==
  pool.guarded =>
    /\ free # NULL => prev_on_free[free] = NULL
    /\ \A b \in Blocks : id[b] = "free" /\ next_on_free[b] # NULL =>
         prev_on_free[next_on_free[b]] = b

\* No order of calls breaks the list.
FreeListSound == NoBlockTwice /\ PrevIsBack

\* Every block has its header, is aligned as asked and as large as asked, lies
\* in the region, and what is written past its end hits a guard page, if the
\* pool has any, or else the header of the next block.
LayoutSound ==
  \A b \in Blocks :
    /\ (Address(b) + PtrOfs) % pool.alignment = 0
    /\ PtrOfs >= pool.header_size /\ BlockSize - PtrOfs >= pool.block_size
    /\ IF pool.guarded
       THEN /\ GuardPage(b) % PageSize = 0
            /\ Address(b) >= IF b = 0 THEN PageSize ELSE GuardPage(b - 1) + PageSize
       ELSE Address(b) + BlockSize <= IF b + 1 \in Blocks THEN Address(b + 1) ELSE pool.size

\* memory_pool_verify, which debug checks call on every operation, in a sound
\* layout: the counters are right and the free list ends.
PoolVerifies ==
  /\ PoolTypeOK /\ LayoutSound
  /\ Cardinality({b \in Blocks : id[b] = "free"}) = num_free_blocks
  /\ num_free_blocks + num_used_blocks = NumBlocks
  /\ Linked[NumBlocks] = NULL
=============================================================================
