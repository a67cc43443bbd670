-------------------------- MODULE StructuresProofs --------------------------
(***************************************************************************)
(* Proofs about what is used by one thread at a time.                      *)
(*   MemoryPool: for pools of every size and layout, and every order of    *)
(*   calls, the free list is a list of exactly the free blocks.            *)
(*   Cache and AppLoad: whatever fails, what the cache hands out is whole  *)
(*   and the bundle that is loaded is one the manifest signs; and as long  *)
(*   as no write fails unseen and no answer is a redirect, success means   *)
(*   cached and a bundle that was cached is presented.                     *)
(*   CncBusMsg: a message in its fragments implements FlatMessage.         *)
(***************************************************************************)
EXTENDS Structures, AppLoad, ListLemmas

-----------------------------------------------------------------------------
(* The pool. *)

\* s lists, from 1 to n, the free blocks in the order of their links.
IsFreeList(s, n) ==
  /\ n \in Nat /\ s \in [1 .. n -> Blocks]
  /\ \A i, j \in 1 .. n : s[i] = s[j] => i = j
  /\ \A b \in Blocks : id[b] = "free" <=> \E i \in 1 .. n : s[i] = b
  /\ free = IF n = 0 THEN NULL ELSE s[1]
  /\ \A i \in 1 .. n : next_on_free[s[i]] = IF i = n THEN NULL ELSE s[i + 1]
  /\ pool.guarded => \A i \in 1 .. n : prev_on_free[s[i]] = IF i = 1 THEN NULL ELSE s[i - 1]
  /\ num_free_blocks = n /\ num_used_blocks = NumBlocks - n

PoolType == pool \in [size : Sizes, block_size : BlockSizes, alignment : Alignments,
                      header_size : HeaderSizes, guarded : BOOLEAN]

LinkType ==
  /\ id \in [Blocks -> {"free", "used"}]
  /\ free \in Blocks \cup {NULL}
  /\ next_on_free \in [Blocks -> Blocks \cup {NULL}]
  /\ prev_on_free \in [Blocks -> Blocks \cup {NULL}]
  /\ held = {b \in Blocks : id[b] = "used"}
  /\ pool.guarded => \A b \in Blocks : id[b] = "used" => prev_on_free[b] = NULL

PoolInv == PoolType /\ LinkType /\ \E n \in Nat : \E s \in [1 .. n -> Blocks] : IsFreeList(s, n)

\* Aligning rounds up, never down.
LEMMA AlignUp ==
  ASSUME NEW x \in Nat, NEW a \in Nat \ {0}
  PROVE  Align(x, a) \in Nat /\ Align(x, a) >= x
<1> DEFINE q == (x + a - 1) \div a
           r == (x + a - 1) % a
<1>1. x + a - 1 \in Nat
  OBVIOUS
<1>2. q \in Int /\ r \in 0 .. a - 1 /\ x + a - 1 = a * q + r
  BY <1>1
<1>3. a * q >= x
  BY <1>2
<1>4. Align(x, a) = a * q
  BY <1>2 DEF Align
<1>5. QED
  BY <1>2, <1>3, <1>4

\* The number of blocks is one, and a block is larger than its header.
LEMMA PoolNumbers ==
  ASSUME PoolType
  PROVE  /\ PtrOfs \in Nat /\ PtrOfs >= pool.header_size
         /\ BlockSize \in Nat \ {0} /\ BlockSize >= pool.block_size + PtrOfs
         /\ NumBlocks \in Nat
<1>1. /\ pool.size \in Nat /\ pool.block_size \in Nat /\ pool.header_size \in Nat \ {0}
      /\ pool.alignment \in Nat \ {0}
  BY PoolAssumption DEF PoolType
<1>2. PtrOfs \in Nat /\ PtrOfs >= pool.header_size
  BY <1>1, AlignUp DEF PtrOfs
<1>3. pool.block_size + PtrOfs \in Nat
  BY <1>1, <1>2
<1>4. BlockSize \in Nat /\ BlockSize >= pool.block_size + PtrOfs
  BY <1>1, <1>3, AlignUp DEF BlockSize
<1>5. BlockSize > 0
  BY <1>1, <1>2, <1>4
<1>6. NumBlocks \in Nat
  BY <1>1, <1>4, <1>5 DEF NumBlocks
<1>7. QED
  BY <1>2, <1>4, <1>5, <1>6

\* NULL is no block.
LEMMA NullIsNoBlock == PoolType => NULL \notin Blocks
BY PoolAssumption, PoolNumbers DEF Blocks

\* A fresh pool lists its blocks in their order.
LEMMA InitPool == PoolInit => PoolInv
<1> SUFFICES ASSUME PoolInit PROVE PoolInv
  OBVIOUS
<1>1. PoolType
  BY DEF PoolInit, PoolType
<1>2. NumBlocks \in Nat
  BY <1>1, PoolNumbers
<1>3. LinkType
  <2>1. \A b \in Blocks : Next_(b) \in Blocks \cup {NULL} /\ Prev_(b) \in Blocks \cup {NULL}
    BY <1>2 DEF Next_, Prev_, Blocks
  <2>2. free \in Blocks \cup {NULL}
    BY <1>2 DEF PoolInit, Blocks
  <2>3. QED
    BY <2>1, <2>2 DEF PoolInit, LinkType
<1> DEFINE s == [i \in 1 .. NumBlocks |-> i - 1]
<1>4. s \in [1 .. NumBlocks -> Blocks] /\ \A i \in 1 .. NumBlocks : s[i] = i - 1
  BY <1>2 DEF Blocks
<1>5. IsFreeList(s, NumBlocks)
  <2>1. \A i, j \in 1 .. NumBlocks : s[i] = s[j] => i = j
    BY <1>2, <1>4
  <2>2. \A b \in Blocks : id[b] = "free" <=> \E i \in 1 .. NumBlocks : s[i] = b
    <3>1. \A b \in Blocks : b + 1 \in 1 .. NumBlocks /\ s[b + 1] = b
      BY <1>2, <1>4 DEF Blocks
    <3>2. QED
      BY <3>1 DEF PoolInit
  <2>3. free = IF NumBlocks = 0 THEN NULL ELSE s[1]
    BY <1>2, <1>4 DEF PoolInit, Blocks
  <2>4. \A i \in 1 .. NumBlocks : next_on_free[s[i]] = IF i = NumBlocks THEN NULL ELSE s[i + 1]
    BY <1>2, <1>4 DEF PoolInit, Blocks, Next_
  <2>5. pool.guarded => \A i \in 1 .. NumBlocks : prev_on_free[s[i]] = IF i = 1 THEN NULL ELSE s[i - 1]
    BY <1>2, <1>4 DEF PoolInit, Blocks, Prev_
  <2>6. num_free_blocks = NumBlocks /\ num_used_blocks = NumBlocks - NumBlocks
    BY <1>2 DEF PoolInit
  <2> HIDE DEF s
  <2>7. QED
    BY <1>2, <1>4, <2>1, <2>2, <2>3, <2>4, <2>5, <2>6 DEF IsFreeList
<1> HIDE DEF s
<1>6. QED
  BY <1>1, <1>2, <1>3, <1>4, <1>5 DEF PoolInv

\* Taking the first block leaves the rest of the list.
LEMMA AllocIInv == PoolInv /\ Alloc => PoolInv'
<1> SUFFICES ASSUME PoolInv, Alloc PROVE PoolInv'
  OBVIOUS
<1>1. PICK n \in Nat : \E s \in [1 .. n -> Blocks] : IsFreeList(s, n)
  BY DEF PoolInv
<1>2. PICK s \in [1 .. n -> Blocks] : IsFreeList(s, n)
  BY <1>1
<1>3. PoolType /\ LinkType /\ NULL \notin Blocks /\ NumBlocks \in Nat
  BY NullIsNoBlock, PoolNumbers DEF PoolInv
<1>4. PoolType' /\ Blocks' = Blocks /\ NumBlocks' = NumBlocks /\ pool' = pool
  BY <1>3 DEF Alloc, PoolType, Blocks, NumBlocks, BlockSize, PtrOfs
<1>5. n >= 1 /\ free = s[1] /\ free \in Blocks /\ id[free] = "free"
  BY <1>2, <1>3 DEF Alloc, IsFreeList
<1> DEFINE m == n - 1
           t == [i \in 1 .. m |-> s[i + 1]]
<1>6. /\ m \in Nat /\ t \in [1 .. m -> Blocks]
      /\ \A i \in 1 .. m : t[i] = s[i + 1] /\ i + 1 \in 1 .. n
  BY <1>5
<1>7. /\ \A i \in 1 .. m : t[i] # free
      /\ \A i, j \in 1 .. m : t[i] = t[j] => i = j
  BY <1>2, <1>5, <1>6 DEF IsFreeList
<1>8. next_on_free[free] = IF m = 0 THEN NULL ELSE t[1]
  BY <1>2, <1>5, <1>6 DEF IsFreeList
<1>9. LinkType'
  <2>1. /\ id' \in [Blocks -> {"free", "used"}]
        /\ free' \in Blocks \cup {NULL}
        /\ next_on_free' \in [Blocks -> Blocks \cup {NULL}]
        /\ held' = {b \in Blocks : id'[b] = "used"}
    BY <1>3, <1>5 DEF Alloc, LinkType
  <2>2. prev_on_free' \in [Blocks -> Blocks \cup {NULL}]
    BY <1>3, <1>5 DEF Alloc, LinkType
  <2>3. pool.guarded => \A b \in Blocks : id'[b] = "used" => prev_on_free'[b] = NULL
    <3> SUFFICES ASSUME pool.guarded, NEW b \in Blocks, id'[b] = "used"
        PROVE prev_on_free'[b] = NULL
      OBVIOUS
    <3>1. prev_on_free[b] = NULL
      <4>1. CASE b = free
        BY <1>2, <1>5, <4>1 DEF IsFreeList
      <4>2. CASE b # free
        BY <1>3, <1>5, <4>2 DEF Alloc, LinkType
      <4>3. QED BY <4>1, <4>2
    <3>2. QED
      BY <1>3, <3>1 DEF Alloc, LinkType
  <2>4. QED
    BY <1>4, <2>1, <2>2, <2>3 DEF LinkType
<1>10. \A b \in Blocks : id'[b] = "free" <=> \E i \in 1 .. m : t[i] = b
  <2>1. \A b \in Blocks : id'[b] = "free" <=> id[b] = "free" /\ b # free
    BY <1>3, <1>5 DEF Alloc, LinkType
  <2>2. \A b \in Blocks : b # free => ((\E i \in 1 .. n : s[i] = b) <=> \E i \in 1 .. m : t[i] = b)
    <3> TAKE b \in Blocks
    <3> HAVE b # free
    <3>1. ASSUME NEW i \in 1 .. n, s[i] = b PROVE \E j \in 1 .. m : t[j] = b
      <4>1. i - 1 \in 1 .. m /\ t[i - 1] = b
        BY <1>5, <1>6, <3>1
      <4>2. QED BY <4>1
    <3>2. ASSUME NEW i \in 1 .. m, t[i] = b PROVE \E j \in 1 .. n : s[j] = b
      BY <1>6, <3>2
    <3>3. QED BY <3>1, <3>2
  <2>3. QED
    BY <1>2, <1>7, <2>1, <2>2 DEF IsFreeList
<1>11. \A i \in 1 .. m : next_on_free'[t[i]] = IF i = m THEN NULL ELSE t[i + 1]
  BY <1>2, <1>5, <1>6 DEF IsFreeList, Alloc
<1>12. pool'.guarded => \A i \in 1 .. m : prev_on_free'[t[i]] = IF i = 1 THEN NULL ELSE t[i - 1]
  <2> SUFFICES ASSUME pool.guarded, NEW i \in 1 .. m
      PROVE prev_on_free'[t[i]] = IF i = 1 THEN NULL ELSE t[i - 1]
    BY <1>4
  <2>1. prev_on_free[t[i]] = s[i] /\ next_on_free[free] = t[1] /\ t[1] \in Blocks /\ t[i] \in Blocks
    BY <1>2, <1>5, <1>6, <1>8 DEF IsFreeList
  <2>2. prev_on_free' = [prev_on_free EXCEPT ![t[1]] = NULL]
    BY <1>3, <2>1 DEF Alloc
  <2>3. CASE i = 1
    BY <1>3, <2>1, <2>2, <2>3 DEF LinkType
  <2>4. CASE i # 1
    <3>1. t[i] # t[1] /\ t[i - 1] = s[i]
      BY <1>6, <1>7, <2>4
    <3>2. QED
      BY <1>3, <2>1, <2>2, <2>4, <3>1 DEF LinkType
  <2>5. QED BY <2>3, <2>4
<1>13. free' = (IF m = 0 THEN NULL ELSE t[1]) /\ num_free_blocks' = m /\ num_used_blocks' = NumBlocks' - m
  BY <1>2, <1>3, <1>4, <1>8 DEF Alloc, IsFreeList
<1> HIDE DEF m, t
<1>14. IsFreeList(t, m)'
  BY <1>4, <1>6, <1>7, <1>10, <1>11, <1>12, <1>13 DEF IsFreeList
<1>15. QED
  BY <1>4, <1>6, <1>9, <1>14 DEF PoolInv

\* A block that is given back becomes the first.
LEMMA FreeIInv == ASSUME PoolInv, NEW b \in Blocks, Free(b) PROVE PoolInv'
<1>1. PICK n \in Nat : \E s \in [1 .. n -> Blocks] : IsFreeList(s, n)
  BY DEF PoolInv
<1>2. PICK s \in [1 .. n -> Blocks] : IsFreeList(s, n)
  BY <1>1
<1>3. PoolType /\ LinkType /\ NULL \notin Blocks /\ NumBlocks \in Nat
  BY NullIsNoBlock, PoolNumbers DEF PoolInv
<1>4. PoolType' /\ Blocks' = Blocks /\ NumBlocks' = NumBlocks /\ pool' = pool
  BY <1>3 DEF Free, PoolType, Blocks, NumBlocks, BlockSize, PtrOfs
<1>5. id[b] = "used" /\ \A i \in 1 .. n : s[i] # b
  BY <1>2, <1>3 DEF Free, LinkType, IsFreeList
<1> DEFINE m == n + 1
           t == [i \in 1 .. m |-> IF i = 1 THEN b ELSE s[i - 1]]
<1>6. /\ m \in Nat /\ t \in [1 .. m -> Blocks] /\ t[1] = b
      /\ \A i \in 2 .. m : t[i] = s[i - 1] /\ i - 1 \in 1 .. n
  OBVIOUS
<1>7. \A i, j \in 1 .. m : t[i] = t[j] => i = j
  <2>1. \A i \in 2 .. m : t[i] # b
    BY <1>5, <1>6
  <2>2. \A i, j \in 2 .. m : t[i] = t[j] => i = j
    BY <1>2, <1>6 DEF IsFreeList
  <2>3. \A i \in 1 .. m : i = 1 \/ i \in 2 .. m
    OBVIOUS
  <2> HIDE DEF t
  <2>4. QED BY <1>6, <2>1, <2>2, <2>3
<1>9. LinkType'
  <2>1. /\ id' \in [Blocks -> {"free", "used"}]
        /\ free' \in Blocks \cup {NULL}
        /\ next_on_free' \in [Blocks -> Blocks \cup {NULL}]
        /\ held' = {c \in Blocks : id'[c] = "used"}
    BY <1>3 DEF Free, LinkType
  <2>2. prev_on_free' \in [Blocks -> Blocks \cup {NULL}]
    BY <1>3 DEF Free, LinkType
  <2>3. pool.guarded => \A c \in Blocks : id'[c] = "used" => prev_on_free'[c] = NULL
    <3> SUFFICES ASSUME pool.guarded, NEW c \in Blocks, id'[c] = "used"
        PROVE prev_on_free'[c] = NULL
      OBVIOUS
    <3>1. id[c] = "used" /\ prev_on_free[c] = NULL
      BY <1>3 DEF Free, LinkType
    <3>2. c # free
      <4>1. free # NULL => id[free] = "free"
        BY <1>2 DEF IsFreeList
      <4>2. QED BY <1>3, <3>1, <4>1
    <3>3. QED
      BY <1>3, <3>1, <3>2 DEF Free, LinkType
  <2>4. QED
    BY <1>4, <2>1, <2>2, <2>3 DEF LinkType
<1>10. \A c \in Blocks : id'[c] = "free" <=> \E i \in 1 .. m : t[i] = c
  <2>1. \A c \in Blocks : id'[c] = "free" <=> id[c] = "free" \/ c = b
    BY <1>3 DEF Free, LinkType
  <2>2. \A i \in 1 .. n : i + 1 \in 1 .. m /\ t[i + 1] = s[i]
    OBVIOUS
  <2>3. \A i \in 1 .. m : i = 1 \/ i \in 2 .. m
    OBVIOUS
  <2> HIDE DEF t, m
  <2>4. 1 \in 1 .. m
    BY DEF m
  <2>5. QED
    BY <1>2, <1>6, <2>1, <2>2, <2>3, <2>4 DEF IsFreeList
<1>11. \A i \in 1 .. m : next_on_free'[t[i]] = IF i = m THEN NULL ELSE t[i + 1]
  <2> TAKE i \in 1 .. m
  <2>1. next_on_free' = [next_on_free EXCEPT ![b] = free] /\ DOMAIN next_on_free = Blocks
    BY <1>3 DEF Free, LinkType
  <2>2. CASE i = 1
    <3>1. next_on_free'[t[i]] = free
      BY <2>1, <2>2
    <3>2. free = IF n = 0 THEN NULL ELSE s[1]
      BY <1>2 DEF IsFreeList
    <3>3. QED BY <2>2, <3>1, <3>2
  <2>3. CASE i # 1
    <3>1. i - 1 \in 1 .. n /\ t[i] = s[i - 1] /\ t[i] # b /\ t[i] \in Blocks
      BY <1>5, <1>6, <2>3
    <3>2. next_on_free'[t[i]] = next_on_free[s[i - 1]]
      BY <2>1, <3>1
    <3>3. next_on_free[s[i - 1]] = IF i - 1 = n THEN NULL ELSE s[i]
      BY <1>2, <3>1 DEF IsFreeList
    <3>4. i # m => t[i + 1] = s[i]
      BY <2>3
    <3>5. QED BY <3>2, <3>3, <3>4
  <2>4. QED BY <2>2, <2>3
<1>12. pool'.guarded => \A i \in 1 .. m : prev_on_free'[t[i]] = IF i = 1 THEN NULL ELSE t[i - 1]
  <2> SUFFICES ASSUME pool.guarded, NEW i \in 1 .. m
      PROVE prev_on_free'[t[i]] = IF i = 1 THEN NULL ELSE t[i - 1]
    BY <1>4
  <2>1. free # NULL => n >= 1 /\ free = s[1]
    BY <1>2 DEF IsFreeList
  <2>2. CASE i = 1
    <3>1. prev_on_free[b] = NULL /\ (free # NULL => free # b)
      BY <1>3, <1>5, <2>1 DEF LinkType
    <3>2. QED
      BY <1>3, <1>6, <2>2, <3>1 DEF Free, LinkType
  <2>3. CASE i # 1
    <3>1. i - 1 \in 1 .. n /\ t[i] = s[i - 1] /\ n >= 1
      BY <1>6, <2>3
    <3>2. free = s[1] /\ free # NULL /\ s[1] \in Blocks
      BY <1>2, <1>3, <3>1 DEF IsFreeList
    <3>3. prev_on_free' = [prev_on_free EXCEPT ![s[1]] = b]
      BY <3>2 DEF Free
    <3>4. CASE i = 2
      BY <1>3, <1>6, <3>1, <3>2, <3>3, <3>4 DEF LinkType
    <3>5. CASE i # 2
      <4>1. i - 1 # 1 /\ 1 \in 1 .. n /\ i - 2 \in 1 .. n /\ (i - 1) - 1 = i - 2
        BY <3>1, <3>5
      <4>2. s[i - 1] # s[1]
        BY <1>2, <3>1, <4>1 DEF IsFreeList
      <4>3. t[i - 1] = s[i - 2]
        BY <2>3, <3>5
      <4>4. prev_on_free[s[i - 1]] = s[i - 2]
        <5>1. \A j \in 1 .. n : prev_on_free[s[j]] = IF j = 1 THEN NULL ELSE s[j - 1]
          BY <1>2 DEF IsFreeList
        <5>2. QED
          BY <3>1, <4>1, <5>1, Zenon
      <4>5. s[i - 1] \in Blocks
        BY <1>2, <3>1 DEF IsFreeList
      <4>6. QED
        BY <1>3, <3>1, <3>3, <4>2, <4>3, <4>4, <4>5 DEF LinkType
    <3>6. QED BY <3>4, <3>5
  <2>4. QED BY <2>2, <2>3
<1>13. free' = t[1] /\ num_free_blocks' = m /\ num_used_blocks' = NumBlocks' - m
  BY <1>2, <1>3, <1>4, <1>6 DEF Free, IsFreeList
<1> HIDE DEF m, t
<1>14. IsFreeList(t, m)'
  BY <1>4, <1>6, <1>7, <1>10, <1>11, <1>12, <1>13 DEF IsFreeList, m
<1>15. QED
  BY <1>4, <1>6, <1>9, <1>14 DEF PoolInv

\* Every step keeps the invariant.
LEMMA NextPool == PoolInv /\ [PoolNext]_poolVars => PoolInv'
<1> SUFFICES ASSUME PoolInv, [PoolNext]_poolVars PROVE PoolInv'
  OBVIOUS
<1>1. CASE Alloc BY <1>1, AllocIInv
<1>2. ASSUME NEW b \in Blocks, Free(b) PROVE PoolInv'
  BY <1>2, FreeIInv
<1>3. CASE UNCHANGED poolVars
  <2>1. PICK n \in Nat : \E s \in [1 .. n -> Blocks] : IsFreeList(s, n)
    BY DEF PoolInv
  <2>2. PICK s \in [1 .. n -> Blocks] : IsFreeList(s, n)
    BY <2>1
  <2>3. Blocks' = Blocks /\ NumBlocks' = NumBlocks
    BY <1>3 DEF Blocks, NumBlocks, BlockSize, PtrOfs, poolVars
  <2>4. IsFreeList(s, n)'
    BY <1>3, <2>2, <2>3 DEF IsFreeList, poolVars, list
  <2>5. PoolType' /\ LinkType'
    BY <1>3, <2>3 DEF PoolInv, PoolType, LinkType, poolVars, list
  <2>6. QED
    BY <2>3, <2>4, <2>5 DEF PoolInv
<1>4. QED BY <1>1, <1>2, <1>3 DEF PoolNext

\* The invariant says what the runs check of the list.
LEMMA IInvImplies == PoolInv => NoBlockTwice /\ PrevIsBack
<1> SUFFICES ASSUME PoolInv PROVE NoBlockTwice /\ PrevIsBack
  OBVIOUS
<1>1. PICK n \in Nat : \E s \in [1 .. n -> Blocks] : IsFreeList(s, n)
  BY DEF PoolInv
<1>2. PICK s \in [1 .. n -> Blocks] : IsFreeList(s, n)
  BY <1>1
<1>3. PoolType /\ LinkType /\ NULL \notin Blocks
  BY NullIsNoBlock DEF PoolInv
<1>4. free # NULL => n >= 1 /\ free = s[1]
  BY <1>2 DEF IsFreeList
<1>5. free = NULL => n = 0
  BY <1>2, <1>3 DEF IsFreeList
<1>6. NoBlockTwice
  <2>1. free # NULL => id[free] = "free"
    BY <1>2, <1>4 DEF IsFreeList
  <2>2. free = NULL => \A b \in Blocks : id[b] = "used"
    BY <1>2, <1>3, <1>5 DEF IsFreeList, LinkType
  <2>3. QED BY <1>3, <2>1, <2>2 DEF NoBlockTwice, LinkType
<1>7. PrevIsBack
  <2>1. pool.guarded /\ free # NULL => prev_on_free[free] = NULL
    BY <1>2, <1>4 DEF IsFreeList
  <2>2. ASSUME pool.guarded, NEW b \in Blocks, id[b] = "free", next_on_free[b] # NULL
        PROVE prev_on_free[next_on_free[b]] = b
    <3>1. PICK i \in 1 .. n : s[i] = b
      BY <1>2, <2>2 DEF IsFreeList
    <3>2. i # n /\ i + 1 \in 1 .. n /\ next_on_free[b] = s[i + 1]
      BY <1>2, <2>2, <3>1 DEF IsFreeList
    <3>3. QED
      BY <1>2, <2>2, <3>1, <3>2 DEF IsFreeList
  <2>3. QED BY <2>1, <2>2 DEF PrevIsBack
<1>8. QED BY <1>6, <1>7

\* It holds in every state.
LEMMA PoolKeepsInv == PoolSpec => []PoolInv
<1>1. QED BY InitPool, NextPool, PTL DEF PoolSpec

\* No block is handed out twice and none is lost, and the list of a guarded pool
\* is linked in both directions, for pools of every size and layout and every
\* order of memory_pool_unchecked_alloc and memory_pool_free.
THEOREM FreeListIsSound == PoolSpec => []FreeListSound
<1>1. PoolInv => FreeListSound BY IInvImplies DEF FreeListSound
<1>2. QED BY <1>1, PoolKeepsInv, PTL

-----------------------------------------------------------------------------
(* What memory_pool_verify looks at.                                       *)

\* A multiple leaves no rest.
LEMMA MultipleOf == \A k \in Int, a \in Nat \ {0} : (k * a) % a = 0
<1> SUFFICES ASSUME NEW k \in Int, NEW a \in Nat \ {0} PROVE (k * a) % a = 0
  OBVIOUS
<1> DEFINE x == k * a
           q == x \div a
           r == x % a
<1>1. x \in Int
  OBVIOUS
<1>2. q \in Int /\ r \in 0 .. a - 1 /\ x = a * q + r
  BY <1>1
<1>3. r = a * (k - q)
  BY <1>2
<1>4. k - q = 0
  <2>1. CASE k - q >= 1
    BY <1>2, <1>3, <2>1
  <2>2. CASE k - q <= -1
    BY <1>2, <1>3, <2>2
  <2>3. QED
    BY <1>2, <2>1, <2>2
<1>5. QED
  BY <1>2, <1>3, <1>4

\* And what leaves none is a multiple.
LEMMA IsMultiple == \A x \in Int, a \in Nat \ {0} : x % a = 0 => x = (x \div a) * a /\ x \div a \in Int
<1> SUFFICES ASSUME NEW x \in Int, NEW a \in Nat \ {0}, x % a = 0
             PROVE x = (x \div a) * a /\ x \div a \in Int
  OBVIOUS
<1>1. x \div a \in Int /\ x = a * (x \div a) + (x % a)
  OBVIOUS
<1>2. QED
  BY <1>1

\* Aligning makes a multiple.
LEMMA AlignIsMultiple ==
  \A x \in Nat, a \in Nat \ {0} : \E k \in Int : Align(x, a) = k * a
<1> SUFFICES ASSUME NEW x \in Nat, NEW a \in Nat \ {0} PROVE \E k \in Int : Align(x, a) = k * a
  OBVIOUS
<1>1. (x + a - 1) \div a \in Int
  OBVIOUS
<1>2. QED
  BY <1>1 DEF Align

\* The blocks are aligned, large enough and apart, for every way a pool is made.
LEMMA LayoutIsSound == PoolType => LayoutSound
<1> SUFFICES ASSUME PoolType, NEW b \in Blocks
             PROVE /\ (Address(b) + PtrOfs) % pool.alignment = 0
                   /\ PtrOfs >= pool.header_size /\ BlockSize - PtrOfs >= pool.block_size
                   /\ IF pool.guarded
                      THEN /\ GuardPage(b) % PageSize = 0
                           /\ Address(b) >= IF b = 0 THEN PageSize ELSE GuardPage(b - 1) + PageSize
                      ELSE Address(b) + BlockSize <= IF b + 1 \in Blocks THEN Address(b + 1) ELSE pool.size
  BY DEF LayoutSound
<1>1. /\ pool.size \in Nat /\ pool.block_size \in Nat /\ pool.header_size \in Nat \ {0}
      /\ pool.alignment \in Nat \ {0} /\ PageSize \in Nat \ {0} /\ PageSize % pool.alignment = 0
  BY PoolAssumption DEF PoolType
<1>2. /\ PtrOfs \in Nat /\ PtrOfs >= pool.header_size
      /\ BlockSize \in Nat \ {0} /\ BlockSize >= pool.block_size + PtrOfs
      /\ NumBlocks \in Nat
  BY PoolNumbers
<1>3. b \in Nat /\ b < NumBlocks
  BY <1>2 DEF Blocks
<1> DEFINE a == pool.alignment
<1>4. PICK p \in Int : PageSize = p * a
  <2>1. PageSize \in Int /\ a \in Nat \ {0} /\ PageSize % a = 0
    BY <1>1
  <2> HIDE DEF a
  <2>2. QED
    BY <2>1, IsMultiple
<1>5. PICK o \in Int : PtrOfs = o * a
  BY <1>1, AlignIsMultiple DEF PtrOfs
<1>6. PICK s \in Int : BlockSize = s * a
  <2>1. pool.block_size + PtrOfs \in Nat
    BY <1>1, <1>2
  <2>2. QED
    BY <1>1, <2>1, AlignIsMultiple DEF BlockSize
<1>7. /\ BlockPages \in Int /\ BlockPages * PageSize >= BlockSize
      /\ \A k \in Nat : k * (1 + BlockPages) + BlockPages \in Int
  <2>1. BlockPages \in Int /\ Align(BlockSize, PageSize) = BlockPages * PageSize
    BY <1>1, <1>2 DEF BlockPages, Align
  <2>2. Align(BlockSize, PageSize) >= BlockSize
    BY <1>1, <1>2, AlignUp
  <2>3. QED
    BY <2>1, <2>2
<1>8. (Address(b) + PtrOfs) % a = 0
  <2>1. \E k \in Int : Address(b) = k * a
    <3>1. CASE pool.guarded
      <4> DEFINE c == b * (1 + BlockPages) + BlockPages
      <4>1. c \in Int
        BY <1>3, <1>7
      <4>2. Address(b) = (PageSize + c * PageSize) - BlockSize
        <5>1. GuardPage(b) = PageSize + c * PageSize
          BY Zenon DEF GuardPage
        <5>2. Address(b) = GuardPage(b) - BlockSize
          BY <3>1, Zenon DEF Address
        <5>3. QED
          BY <5>1, <5>2, Zenon
      <4> HIDE DEF c
      <4>3. a \in Int /\ (PageSize + c * PageSize) - BlockSize = (p + c * p - s) * a
        BY <1>1, <1>4, <1>6, <4>1
      <4>4. QED
        BY <4>1, <4>2, <4>3
    <3>2. CASE ~pool.guarded
      <4>1. Address(b) = b * (s * a) /\ a \in Int
        BY <1>1, <1>6, <3>2 DEF Address
      <4>2. b * (s * a) = (b * s) * a
        BY <1>3, <4>1
      <4>3. b * s \in Int
        BY <1>3
      <4>4. QED
        BY <4>1, <4>2, <4>3
    <3>3. QED
      BY <3>1, <3>2
  <2>2. PICK k \in Int : Address(b) = k * a
    BY <2>1
  <2>3. a \in Nat \ {0}
    BY <1>1
  <2> HIDE DEF a
  <2>4. Address(b) + PtrOfs = (k + o) * a
    BY <1>5, <2>2, <2>3
  <2>5. QED
    BY <2>3, <2>4, MultipleOf
<1>9. BlockSize - PtrOfs >= pool.block_size
  BY <1>1, <1>2
<1>10. CASE pool.guarded
  <2> DEFINE g(n) == n * (1 + BlockPages) + BlockPages
  <2>1. g(b) \in Int /\ GuardPage(b) = (1 + g(b)) * PageSize /\ Address(b) = (1 + g(b)) * PageSize - BlockSize
    BY <1>1, <1>3, <1>7, <1>10 DEF GuardPage, Address
  <2>2. GuardPage(b) % PageSize = 0
    <3> HIDE DEF g
    <3>1. QED
      BY <1>1, <2>1, MultipleOf
  <2>3. CASE b = 0
    <3>1. g(b) = BlockPages
      BY <1>7, <2>3
    <3>2. (1 + BlockPages) * PageSize = PageSize + BlockPages * PageSize
      BY <1>1, <1>7
    <3>3. BlockPages * PageSize \in Int
      BY <1>1, <1>7
    <3>4. (PageSize + BlockPages * PageSize) - BlockSize >= PageSize
      BY <1>1, <1>2, <1>7, <3>3
    <3>5. Address(b) >= PageSize
      <4> HIDE DEF g
      <4>1. (1 + g(b)) * PageSize = PageSize + BlockPages * PageSize
        BY <3>1, <3>2, Zenon
      <4>2. Address(b) = (PageSize + BlockPages * PageSize) - BlockSize
        BY <2>1, <4>1, Zenon
      <4>3. QED
        BY <3>4, <4>2, Zenon
    <3>6. QED
      BY <1>10, <2>2, <2>3, <3>5, <1>2, <1>8, <1>9
  <2>4. CASE b # 0
    <3>1. b - 1 \in Nat /\ g(b) = g(b - 1) + (1 + BlockPages) /\ g(b - 1) \in Int
      BY <1>3, <1>7, <2>4
    <3>2. GuardPage(b - 1) = (1 + g(b - 1)) * PageSize
      BY <1>1, <1>7, <3>1 DEF GuardPage
    <3> HIDE DEF g
    <3>3. (1 + g(b)) * PageSize = (1 + g(b - 1)) * PageSize + PageSize + BlockPages * PageSize
      BY <1>1, <1>7, <3>1
    <3>4. BlockPages * PageSize \in Int /\ (1 + g(b - 1)) * PageSize \in Int
      BY <1>1, <1>7, <3>1
    <3>5. Address(b) >= GuardPage(b - 1) + PageSize
      BY <1>1, <1>2, <1>7, <2>1, <3>2, <3>3, <3>4
    <3>6. QED
      BY <1>10, <2>2, <2>4, <3>5, <1>2, <1>8, <1>9
  <2>5. QED
    BY <2>3, <2>4
<1>11. CASE ~pool.guarded
  <2>1. Address(b) + BlockSize = (b + 1) * BlockSize
    BY <1>2, <1>3, <1>11 DEF Address
  <2>2. CASE b + 1 \in Blocks
    <3>1. Address(b + 1) = (b + 1) * BlockSize /\ (b + 1) * BlockSize \in Int
      BY <1>2, <1>3, <1>11 DEF Address
    <3>2. QED
      BY <1>11, <2>1, <2>2, <3>1, <1>2, <1>8, <1>9
  <2>3. CASE b + 1 \notin Blocks
    <3>1. b + 1 = NumBlocks
      BY <1>2, <1>3, <2>3 DEF Blocks
    <3>2. NumBlocks * BlockSize <= pool.size
      BY <1>1, <1>2 DEF NumBlocks
    <3>3. QED
      BY <1>11, <2>1, <2>3, <3>1, <3>2, <1>2, <1>8, <1>9
  <2>4. QED
    BY <2>2, <2>3
<1>12. QED
  BY <1>10, <1>11

\* As many blocks are free as the list is long, and all are counted.
LEMMA CountersAreRight ==
  PoolInv => /\ Cardinality({b \in Blocks : id[b] = "free"}) = num_free_blocks
          /\ num_free_blocks \in 0 .. NumBlocks /\ num_used_blocks \in 0 .. NumBlocks
          /\ num_free_blocks + num_used_blocks = NumBlocks
<1> SUFFICES ASSUME PoolInv
             PROVE /\ Cardinality({b \in Blocks : id[b] = "free"}) = num_free_blocks
                   /\ num_free_blocks \in 0 .. NumBlocks /\ num_used_blocks \in 0 .. NumBlocks
                   /\ num_free_blocks + num_used_blocks = NumBlocks
  OBVIOUS
<1>1. PICK n \in Nat : \E s \in [1 .. n -> Blocks] : IsFreeList(s, n)
  BY DEF PoolInv
<1>2. PICK s \in [1 .. n -> Blocks] : IsFreeList(s, n)
  BY <1>1
<1> DEFINE FreeOnes == {b \in Blocks : id[b] = "free"}
<1>3. s \in Bijection(1 .. n, FreeOnes)
  <2>1. s \in [1 .. n -> FreeOnes]
    BY <1>2 DEF IsFreeList
  <2>2. \A i, j \in 1 .. n : s[i] = s[j] => i = j
    BY <1>2 DEF IsFreeList
  <2>3. \A b \in FreeOnes : \E i \in 1 .. n : s[i] = b
    BY <1>2 DEF IsFreeList
  <2> HIDE DEF FreeOnes
  <2>4. QED
    BY <2>1, <2>2, <2>3 DEF Bijection, Injection, Surjection, IsInjective
<1>4. IsFiniteSet(1 .. n) /\ Cardinality(1 .. n) = n
  BY FS_Interval
<1>5. Cardinality(FreeOnes) = n
  <2>1. ExistsBijection(1 .. n, FreeOnes)
    <3> HIDE DEF FreeOnes
    <3>1. QED
      BY <1>3 DEF ExistsBijection
  <2> HIDE DEF FreeOnes
  <2>2. QED
    BY <1>4, <2>1, FS_Bijection
<1>6. IsFiniteSet(Blocks) /\ Cardinality(Blocks) = NumBlocks /\ NumBlocks \in Nat
  <2>1. NumBlocks \in Nat
    BY PoolNumbers DEF PoolInv
  <2>2. NumBlocks - 1 \in Int /\ 0 \in Int /\ (0 > NumBlocks - 1 => NumBlocks = 0)
    BY <2>1
  <2>3. /\ IsFiniteSet(0 .. NumBlocks - 1)
        /\ Cardinality(0 .. NumBlocks - 1) = IF 0 > NumBlocks - 1 THEN 0 ELSE (NumBlocks - 1) - 0 + 1
    BY <2>2, FS_Interval, Zenon
  <2>4. Cardinality(0 .. NumBlocks - 1) = NumBlocks
    BY <2>1, <2>3
  <2>5. QED
    BY <2>1, <2>3, <2>4 DEF Blocks
<1>7. n <= NumBlocks
  <2>1. FreeOnes \subseteq Blocks
    OBVIOUS
  <2> HIDE DEF FreeOnes
  <2>2. Cardinality(FreeOnes) <= Cardinality(Blocks)
    BY <1>6, <2>1, FS_Subset
  <2>3. QED
    BY <1>5, <1>6, <2>2
<1>8. num_free_blocks = n /\ num_used_blocks = NumBlocks - n
  BY <1>2 DEF IsFreeList
<1>9. QED
  BY <1>5, <1>6, <1>7, <1>8

\* The links of a list of n blocks end behind the n-th.
LEMMA LinksEnd == PoolInv => Linked[NumBlocks] = NULL
<1> SUFFICES ASSUME PoolInv PROVE Linked[NumBlocks] = NULL
  OBVIOUS
<1>1. PICK n \in Nat : \E s \in [1 .. n -> Blocks] : IsFreeList(s, n)
  BY DEF PoolInv
<1>2. PICK s \in [1 .. n -> Blocks] : IsFreeList(s, n)
  BY <1>1
<1>3. NumBlocks \in Nat /\ n <= NumBlocks /\ NULL \notin Blocks
  <2>1. num_free_blocks = n /\ num_free_blocks \in 0 .. NumBlocks /\ PoolType
    BY <1>2, CountersAreRight DEF PoolInv, IsFreeList
  <2>2. NumBlocks \in Nat /\ NULL \notin Blocks
    BY <2>1, PoolNumbers, NullIsNoBlock
  <2>3. QED
    BY <2>1, <2>2
<1> DEFINE Ranks == 0 .. NumBlocks
           step(f, i) == IF i = 0 THEN free
                         ELSE IF f[i - 1] = NULL THEN NULL ELSE next_on_free[f[i - 1]]
           w == [i \in Ranks |-> IF i < n THEN s[i + 1] ELSE NULL]
<1>4. w = [i \in Ranks |-> step(w, i)]
  <2>1. ASSUME NEW i \in Ranks PROVE w[i] = step(w, i)
    <3>1. w[i] = IF i < n THEN s[i + 1] ELSE NULL
      OBVIOUS
    <3>2. CASE i = 0
      BY <1>2, <1>3, <3>1, <3>2 DEF IsFreeList
    <3>3. CASE i # 0
      <4>1. i - 1 \in Ranks /\ w[i - 1] = IF i - 1 < n THEN s[i] ELSE NULL
        BY <1>3, <3>3
      <4>2. CASE i - 1 < n
        <5>1. i \in 1 .. n /\ s[i] \in Blocks /\ next_on_free[s[i]] = IF i = n THEN NULL ELSE s[i + 1]
          BY <1>2, <1>3, <3>3, <4>2 DEF IsFreeList
        <5>2. w[i - 1] = s[i] /\ w[i - 1] # NULL
          BY <1>3, <4>1, <4>2, <5>1
        <5>3. step(w, i) = next_on_free[s[i]]
          BY <3>3, <5>2, Zenon
        <5>4. w[i] = IF i = n THEN NULL ELSE s[i + 1]
          BY <3>1, <5>1
        <5>5. QED
          BY <5>1, <5>3, <5>4
      <4>3. CASE ~(i - 1 < n)
        BY <1>3, <3>1, <3>3, <4>1, <4>3
      <4>4. QED
        BY <4>2, <4>3
    <3>4. QED
      BY <3>2, <3>3
  <2>2. w = [i \in Ranks |-> w[i]]
    OBVIOUS
  <2> HIDE DEF w, step
  <2>3. [i \in Ranks |-> w[i]] = [i \in Ranks |-> step(w, i)]
    BY <2>1
  <2>4. QED
    BY <2>2, <2>3
<1>5. Linked = CHOOSE f : f = [i \in Ranks |-> step(f, i)]
  BY DEF Linked
<1>6. Linked = [i \in Ranks |-> step(Linked, i)]
  <2> HIDE DEF w, step, Ranks
  <2>1. QED
    BY <1>4, <1>5
<1>7. w[NumBlocks] = NULL
  BY <1>3
<1> DEFINE S == {i \in Nat : i \in Ranks => Linked[i] = w[i]}
<1>8. 0 \in S
  <2>1. 0 \in Ranks
    BY <1>3
  <2>2. Linked[0] = step(Linked, 0) /\ w[0] = step(w, 0)
    <3> HIDE DEF Ranks, w, step
    <3>1. QED
      BY <1>4, <1>6, <2>1
  <2>3. step(Linked, 0) = free /\ step(w, 0) = free
    OBVIOUS
  <2> HIDE DEF Ranks, w, step
  <2>4. QED
    BY <2>2, <2>3
<1>9. \A i \in Nat : i \in S => i + 1 \in S
  <2> SUFFICES ASSUME NEW i \in Nat, i \in Ranks => Linked[i] = w[i], i + 1 \in Ranks
               PROVE Linked[i + 1] = w[i + 1]
    OBVIOUS
  <2>1. i \in Ranks /\ i + 1 # 0 /\ (i + 1) - 1 = i
    BY <1>3
  <2>2. Linked[i + 1] = step(Linked, i + 1) /\ w[i + 1] = step(w, i + 1)
    <3> HIDE DEF Ranks, w, step
    <3>1. QED
      BY <1>4, <1>6
  <2>3. \A f : step(f, i + 1) = IF f[i] = NULL THEN NULL ELSE next_on_free[f[i]]
    BY <2>1, Zenon
  <2> HIDE DEF Ranks, w, step
  <2>4. Linked[i] = w[i]
    BY <2>1
  <2>5. step(Linked, i + 1) = step(w, i + 1)
    BY <2>3, <2>4, Zenon
  <2>6. QED
    BY <2>2, <2>5, Zenon
<1>10. Nat \subseteq S
  <2> HIDE DEF S
  <2>1. QED
    BY <1>8, <1>9, CountingUp, Zenon
<1>11. Linked[NumBlocks] = w[NumBlocks]
  <2>1. NumBlocks \in Ranks /\ NumBlocks \in S
    <3> HIDE DEF S
    <3>1. QED
      BY <1>3, <1>10
  <2>2. QED
    BY <2>1
<1>12. QED
  BY <1>7, <1>11

\* Whatever memory_pool_verify compares is as it expects, for pools of every
\* size and layout and every order of calls (memory_pool.c:398-447).
THEOREM PoolAlwaysVerifies == PoolSpec => []PoolVerifies
<1>1. PoolInv => PoolTypeOK
  <2> SUFFICES ASSUME PoolInv PROVE PoolTypeOK
    OBVIOUS
  <2>1. num_free_blocks \in 0 .. NumBlocks /\ num_used_blocks \in 0 .. NumBlocks
    BY CountersAreRight
  <2>2. QED
    BY <2>1 DEF PoolInv, PoolType, LinkType, PoolTypeOK
<1>2. PoolInv => PoolVerifies
  BY <1>1, LayoutIsSound, CountersAreRight, LinksEnd DEF PoolInv, PoolVerifies
<1>3. QED
  BY <1>2, PoolKeepsInv, PTL

-----------------------------------------------------------------------------
(* The cache. *)

\* What there is of version v when n of its pieces were written
Part(v, n) == [etag |-> v, length |-> Size(v), body |-> [i \in 1 .. n |-> v]]
AnyFile == {Absent, Empty} \cup UNION {{Part(v, n) : n \in 0 .. Size(v)} : v \in 1 .. MaxVersion}

\* Versions have one or two pieces.
LEMMA SizeIsSmall == \A v \in Nat : Size(v) \in {1, 2}
BY DEF Size

\* A file with another body
LEMMA WithBody ==
  ASSUME NEW file \in [etag : Int, length : Int, body : Seq(Int)]
  PROVE  \A x \in Seq(Int) :
           [file EXCEPT !.body = x] = [etag |-> file.etag, length |-> file.length, body |-> x]
OBVIOUS

\* A version that begins has no piece, and each piece adds itself.
LEMMA PartGrows ==
  ASSUME NEW v \in Nat, NEW n \in Nat
  PROVE  /\ [etag |-> v, length |-> Size(v), body |-> <<>>] = Part(v, 0)
         /\ [Part(v, n) EXCEPT !.body = @ \o <<v>>] = Part(v, n + 1)
         /\ [Part(v, n) EXCEPT !.body = Append(@, v)] = Part(v, n + 1)
         /\ [Part(v, n) EXCEPT !.body = @ \o <<>>] = Part(v, n)
         /\ Part(v, n) \in [etag : Int, length : Int, body : Seq(Int)]
<1> DEFINE b == [i \in 1 .. n |-> v]
<1>1. <<>> = [i \in 1 .. 0 |-> v]
  OBVIOUS
<1>2. b \in Seq(Int) /\ Len(b) = n /\ \A i \in 1 .. n : b[i] = v
  OBVIOUS
<1>3. b \o <<v>> = [i \in 1 .. n + 1 |-> v] /\ Append(b, v) = [i \in 1 .. n + 1 |-> v]
  <2> HIDE DEF b
  <2>1. /\ b \o <<v>> \in Seq(Int) /\ Len(b \o <<v>>) = n + 1
        /\ \A i \in 1 .. n + 1 : (b \o <<v>>)[i] = v
    BY <1>2
  <2>2. Append(b, v) \in Seq(Int) /\ Len(Append(b, v)) = n + 1
        /\ \A i \in 1 .. n + 1 : Append(b, v)[i] = v
    BY <1>2
  <2>3. \A s \in Seq(Int) : Len(s) = n + 1 /\ (\A i \in 1 .. n + 1 : s[i] = v) => s = [i \in 1 .. n + 1 |-> v]
    OBVIOUS
  <2>4. QED BY <2>1, <2>2, <2>3
<1>4. b \o <<>> = b
  BY <1>2
<1>5. Part(v, n).etag = v /\ Part(v, n).length = Size(v) /\ Part(v, n).body = b
  BY DEF Part
<1>6. Size(v) \in Int
  BY SizeIsSmall
<1>7. Part(v, n) \in [etag : Int, length : Int, body : Seq(Int)]
  BY <1>2, <1>6 DEF Part
<1>8. \A x \in Seq(Int) : [Part(v, n) EXCEPT !.body = x] = [etag |-> v, length |-> Size(v), body |-> x]
  BY <1>5, <1>7, WithBody
<1>9. b \o <<v>> \in Seq(Int) /\ Append(b, v) \in Seq(Int) /\ b \o <<>> \in Seq(Int)
  BY <1>2, <1>3, <1>4
<1>10. Part(v, n + 1) = [etag |-> v, length |-> Size(v), body |-> [i \in 1 .. n + 1 |-> v]]
       /\ Part(v, 0) = [etag |-> v, length |-> Size(v), body |-> <<>>]
       /\ Part(v, n) = [etag |-> v, length |-> Size(v), body |-> b]
  BY <1>1 DEF Part
<1> HIDE DEF b
<1>11. [Part(v, n) EXCEPT !.body = Part(v, n).body \o <<v>>] = Part(v, n + 1)
  BY <1>3, <1>5, <1>8, <1>9, <1>10, Zenon
<1>12. [Part(v, n) EXCEPT !.body = Append(Part(v, n).body, v)] = Part(v, n + 1)
  BY <1>3, <1>5, <1>8, <1>9, <1>10, Zenon
<1>13. [Part(v, n) EXCEPT !.body = Part(v, n).body \o <<>>] = Part(v, n)
  BY <1>4, <1>5, <1>8, <1>9, <1>10, Zenon
<1>14. QED BY <1>7, <1>10, <1>11, <1>12, <1>13

\* What a crash leaves of the part of a version is a smaller part of it, or nothing.
LEMMA PartIsCut ==
  ASSUME NEW file \in AnyFile, NEW left_ \in Cut(file)
  PROVE  left_ \in AnyFile /\ left_.etag \in {0, file.etag}
<1> SUFFICES ASSUME NEW m \in 0 .. Len(file.body), left_ = [file EXCEPT !.body = SubSeq(@, 1, m)]
             PROVE  left_ \in AnyFile /\ left_.etag \in {0, file.etag}
  BY DEF Cut, AnyFile, Empty, NoEtag
<1>1. CASE file \in {Absent, Empty}
  <2>1. file.body = <<>> /\ m = 0
    BY <1>1 DEF Absent, Empty
  <2>2. SubSeq(file.body, 1, m) = <<>>
    BY <2>1
  <2>3. left_ = file
    BY <2>1, <2>2, <1>1 DEF Absent, Empty
  <2>4. QED BY <2>3
<1>2. CASE file \notin {Absent, Empty}
  <2>1. PICK v \in 1 .. MaxVersion : \E n \in 0 .. Size(v) : file = Part(v, n)
    BY <1>2 DEF AnyFile
  <2>2. PICK n \in 0 .. Size(v) : file = Part(v, n)
    BY <2>1
  <2> DEFINE b == [i \in 1 .. n |-> v]
  <2>3. Size(v) \in Nat
    BY CacheAssumption, SizeIsSmall
  <2>4. b \in Seq(Nat) /\ Len(b) = n /\ \A i \in 1 .. n : b[i] = v
    BY CacheAssumption, <2>3
  <2>5. file.body = b /\ file.etag = v
    BY <2>2 DEF Part
  <2> HIDE DEF b
  <2>6. m \in 0 .. n
    BY <2>4, <2>5
  <2>7. SubSeq(b, 1, m) = [i \in 1 .. m |-> v]
    <3>1. SubSeq(b, 1, m) \in Seq(Nat) /\ Len(SubSeq(b, 1, m)) = m
          /\ \A i \in 1 .. m : SubSeq(b, 1, m)[i] = v
      BY <2>4, <2>6, <2>3
    <3>2. \A s \in Seq(Nat) : Len(s) = m /\ (\A i \in 1 .. m : s[i] = v) => s = [i \in 1 .. m |-> v]
      BY <2>6, <2>3
    <3>3. QED BY <3>1, <3>2
  <2>8. left_ = Part(v, m)
    BY <2>2, <2>5, <2>7 DEF Part
  <2>9. m \in 0 .. Size(v)
    BY <2>3, <2>6
  <2>10. left_.etag = v
    BY <2>8 DEF Part
  <2>11. QED BY <2>5, <2>8, <2>9, <2>10 DEF AnyFile
<1>3. QED BY <1>1, <1>2

\* What a file is made of, whatever it is
LEMMA FilesAreTyped == \A file \in AnyFile : file \in [etag : Int, length : Int, body : Seq(Int)]
<1> SUFFICES ASSUME NEW file \in AnyFile PROVE file \in [etag : Int, length : Int, body : Seq(Int)]
  OBVIOUS
<1>1. CASE file \in {Absent, Empty}
  <2>1. <<>> \in Seq(Int) /\ 0 \in Int /\ -1 \in Int
    OBVIOUS
  <2>2. Absent \in [etag : Int, length : Int, body : Seq(Int)]
    BY <2>1 DEF Absent, NoEtag
  <2>3. Empty \in [etag : Int, length : Int, body : Seq(Int)]
    BY <2>1 DEF Empty, NoEtag
  <2>4. QED BY <1>1, <2>2, <2>3
<1>2. CASE file \notin {Absent, Empty}
  <2>1. PICK v \in 1 .. MaxVersion : \E n \in 0 .. Size(v) : file = Part(v, n)
    BY <1>2 DEF AnyFile
  <2>2. PICK n \in 0 .. Size(v) : file = Part(v, n)
    BY <2>1
  <2>3. v \in Nat /\ n \in Nat
    BY CacheAssumption, SizeIsSmall
  <2>4. QED BY <2>2, <2>3, PartGrows
<1>3. QED BY <1>1, <1>2

\* A part can be read when all of it is there, and nothing else can.
LEMMA ReadableParts ==
  /\ \A v \in 1 .. MaxVersion : \A n \in 0 .. Size(v) :
       /\ Part(v, n) \in AnyFile /\ Part(v, n).etag = v /\ Part(v, n).length = Size(v)
       /\ Readable(Part(v, n)) <=> n = Size(v)
  /\ \A file \in AnyFile : Readable(file) =>
       file.etag \in 1 .. MaxVersion /\ file = Part(file.etag, Size(file.etag))
  /\ ~Readable(Absent) /\ {Absent, Empty} \subseteq AnyFile /\ Absent.etag = 0 /\ Empty.etag = 0
<1>1. \A v \in 1 .. MaxVersion : \A n \in 0 .. Size(v) :
        /\ Part(v, n) \in AnyFile /\ Part(v, n).etag = v /\ Part(v, n).length = Size(v)
        /\ Readable(Part(v, n)) <=> n = Size(v)
  <2> TAKE v \in 1 .. MaxVersion
  <2> TAKE n \in 0 .. Size(v)
  <2>1. Part(v, n) \in AnyFile
    BY DEF AnyFile
  <2>2. Part(v, n).etag = v /\ Part(v, n).length = Size(v) /\ Part(v, n).body = [i \in 1 .. n |-> v]
    BY DEF Part
  <2>3. Part(v, n) \notin {Absent, Empty}
    BY <2>2, CacheAssumption DEF Absent, Empty, NoEtag
  <2>4. Len([i \in 1 .. n |-> v]) = n
    BY CacheAssumption, SizeIsSmall
  <2>5. QED BY <2>1, <2>2, <2>3, <2>4 DEF Readable
<1>2. ~Readable(Absent) /\ {Absent, Empty} \subseteq AnyFile /\ Absent.etag = 0 /\ Empty.etag = 0
  BY DEF Readable, AnyFile, Absent, Empty, NoEtag
<1>3. ASSUME NEW file \in AnyFile, Readable(file)
      PROVE  file.etag \in 1 .. MaxVersion /\ file = Part(file.etag, Size(file.etag))
  <2>1. PICK v \in 1 .. MaxVersion : \E n \in 0 .. Size(v) : file = Part(v, n)
    BY <1>3 DEF AnyFile, Readable
  <2>2. PICK n \in 0 .. Size(v) : file = Part(v, n)
    BY <2>1
  <2>3. QED BY <1>1, <1>3, <2>2
<1>4. QED BY <1>1, <1>2, <1>3

-----------------------------------------------------------------------------
(* The fetch under way, and what it has to do with the files. *)

Results == {"none", "success", "invalid_version", "http_request_failed", "invalid_cache_file",
            "invalid_content_length", "file_open_failure", "key_move_failure"}

Requests == [phase : {"sent", "body"}, key : Keys, mode : {"atomic", "in_place"}, served : Nat,
             if_none_match : Int, cached_length : Int, response_code : Int,
             recv_status : {"init", "append", "skip"}, open : BOOLEAN, content_size : Int,
             recv_count : Int, left : Int, code : Int, fetch_status : {"success"}]

CacheTypes ==
  /\ version \in [Keys -> 1 .. MaxVersion] /\ faults \in 0 .. MaxFaults
  /\ files \in [Keys -> [p : AnyFile, f : AnyFile]]
  /\ status \in [key : Keys \cup {"none"}, served : Nat, result : Results]
  /\ req # Idle => req \in Requests /\ status = NoStatus

\* No file is of a version that is yet to come.
NoFuture == \A k \in Keys : files[k].p.etag <= version[k] /\ files[k].f.etag <= version[k]

\* The file that is being written
Partial == files[req.key][Target(req.mode)]

\* Nothing is written before the headers of the answer were seen.
SentInv ==
  /\ req.recv_status \in {"init", "skip"} /\ req.recv_count = 0
  /\ req.recv_status = "init" <=> req.response_code = 0

\* What was written is a part of the version that is received, of as many pieces as
\* were received or less, when some were not written.
BodyInv ==
  /\ req.served \in 1 .. version[req.key]
  /\ req.left \in 0 .. 2 /\ req.recv_count \in 0 .. 2
  /\ req.recv_status # "skip" => req.content_size \in {0, Size(req.served)} /\ req.code = 200
  /\ req.recv_status # "skip" /\ req.content_size > 0 => req.left = req.content_size - req.recv_count
  /\ req.recv_status = "init" => req.recv_count = 0
  /\ req.recv_status = "append" =>
       /\ req.recv_count > 0 /\ req.content_size > 0
       /\ req.left > 0 => \E n \in 0 .. req.recv_count : Partial = Part(req.served, n)

CacheInv ==
  /\ CacheTypes /\ NoFuture
  /\ req # Idle => IF req.phase = "sent" THEN SentInv ELSE BodyInv

-----------------------------------------------------------------------------
(* Without a failed write, a redirect or an update in place *)

Mild == Faults \cap {"write", "redirect"} = {}

Whole(file) == file = Part(file.etag, Size(file.etag))

MildSent == req.recv_status = "init" /\ req.if_none_match = files[req.key].f.etag

MildBody ==
  /\ req.code \in {200, 304, 404}
  /\ req.code = 200 => req.recv_status # "skip"
  /\ req.code = 304 => req.served = files[req.key].f.etag /\ req.left = 0
  /\ req.recv_status = "append" =>
       IF req.left = 0 THEN files[req.key].f = Part(req.served, Size(req.served))
       ELSE files[req.key].p = Part(req.served, req.recv_count)

MildInv ==
  /\ \A k \in Keys : files[k].f = Absent \/ Whole(files[k].f)
  /\ req # Idle => req.mode = "atomic" /\ IF req.phase = "sent" THEN MildSent ELSE MildBody
  /\ status.result = "success" =>
       /\ status.key \in Keys /\ status.served \in 1 .. MaxVersion
       /\ files[status.key].f = Part(status.served, Size(status.served))

-----------------------------------------------------------------------------
(* The launch *)

Places == {"idle", "manifest", "bundle", "again", "loaded", "failed", "broken"}

\* The resource that is being fetched
Wanted == IF pc = "manifest" THEN ManifestKey ELSE BundleKey

LaunchInv ==
  /\ pc \in Places /\ attempt \in 0 .. MaxRetries /\ retry_index \in 0 .. MaxRetries
  /\ signed \in Nat /\ had \in BOOLEAN
  /\ req # Idle \/ status.result # "none" => pc \in {"manifest", "bundle"}
  /\ req # Idle => req.mode = "atomic" /\ req.key = Wanted
  /\ status.result # "none" => status.key = Wanted
  /\ pc = "manifest" => signed = 0 /\ (had <=> Cached(BundleKey))
  /\ pc = "loaded" => /\ Cached(BundleKey)
                      /\ signed # 0 => files[BundleKey].f.etag = signed
                      /\ signed = 0 => had

FirstRelease == \A k \in Keys : version[k] = 1

PresentInv ==
  FirstRelease =>
    /\ pc # "again"
    /\ pc = "bundle" => signed = 1 /\ (had => Cached(BundleKey))
    /\ pc = "failed" => ~had

-----------------------------------------------------------------------------
(* The steps of the cache. *)

\* Files are dropped between two calls.
Forget ==
  /\ req = Idle /\ status' = NoStatus /\ UNCHANGED <<req, version>> /\ faults' \in 0 .. MaxFaults
  /\ files' \in [Keys -> [p : AnyFile, f : AnyFile]]
  /\ \A k \in Keys : files'[k].p \in {files[k].p, Absent} /\ files'[k].f \in {files[k].f, Absent}

\* Resources change at the server.
Raise ==
  /\ UNCHANGED <<files, req, status, faults>>
  /\ version' \in [Keys -> 1 .. MaxVersion] /\ \A k \in Keys : version[k] <= version'[k]

CacheStep(modes) ==
  \/ \E k \in Keys : \E mode \in modes : Fetch(k, mode)
  \/ Transfer \/ Crash \/ Forget \/ Raise

\* A fetch under way is one.
LEMMA NotIdle == \A r \in Requests : r # Idle /\ r.phase \in {"sent", "body"}
BY DEF Requests, Idle

\* A fault is one more and at most the last.
LEMMA FaultCounts ==
  ASSUME faults \in 0 .. MaxFaults, NEW kind, Fault(kind) \/ UNCHANGED faults
  PROVE  faults' \in 0 .. MaxFaults
BY CacheAssumption DEF Fault

\* What a fetch starts with
LEMMA FetchStarts ==
  ASSUME CacheInv, NEW k \in Keys, NEW mode \in {"atomic", "in_place"}, Fetch(k, mode)
  PROVE  /\ req = Idle /\ UNCHANGED <<files, version, faults>>
         /\ \/ req' = Idle /\ status' = [key |-> k, served |-> 0, result |-> "invalid_version"]
               /\ files[k].f = Empty
            \/ /\ status' = NoStatus /\ req' \in Requests /\ req'.phase = "sent" /\ req'.key = k
               /\ req'.mode = mode /\ req'.recv_status = "init" /\ req'.response_code = 0
               /\ req'.recv_count = 0 /\ req'.if_none_match = files[k].f.etag
<1>1. /\ req = Idle /\ UNCHANGED <<files, version, faults>>
  BY DEF Fetch
<1>2. CASE files[k].f = Empty
  BY <1>1, <1>2 DEF Fetch
<1>3. CASE files[k].f # Empty
  <2>1. /\ status' = NoStatus
        /\ req' = [phase |-> "sent", key |-> k, mode |-> mode, served |-> version[k],
                        if_none_match |-> files[k].f.etag, cached_length |-> files[k].f.length,
                        response_code |-> 0, recv_status |-> "init", open |-> FALSE,
                        content_size |-> 0, recv_count |-> 0, left |-> 0, code |-> 0,
                        fetch_status |-> "success"]
    BY <1>3 DEF Fetch
  <2>2. files[k].f \in AnyFile /\ version[k] \in Nat
    BY CacheAssumption DEF CacheInv, CacheTypes
  <2>3. files[k].f.etag \in Int /\ files[k].f.length \in Int
    BY <2>2, FilesAreTyped
  <2>4. req' \in Requests
    BY <2>1, <2>2, <2>3 DEF Requests
  <2>5. QED BY <1>1, <2>1, <2>4
<1>4. QED BY <1>2, <1>3

\* What a status line changes
LEMMA StatusSeen ==
  ASSUME NEW r \in Requests, NEW c \in Int
  PROVE  \E g \in Requests :
           /\ g = SeeStatus(r, c) /\ g.key = r.key /\ g.mode = r.mode /\ g.phase = r.phase
           /\ g.recv_count = r.recv_count /\ g.if_none_match = r.if_none_match
           /\ g.recv_status = IF r.response_code = 0 /\ c # 200 THEN "skip" ELSE r.recv_status
<1>1. CASE r.response_code # 0
  BY <1>1 DEF SeeStatus
<1>2. CASE r.response_code = 0
  <2> DEFINE y == IF c = 200 THEN r.recv_status ELSE "skip"
  <2>1. SeeStatus(r, c) = [r EXCEPT !.response_code = c, !.recv_status = IF c = 200 THEN @ ELSE "skip"]
    BY <1>2 DEF SeeStatus
  <2>2. PICK g : g = SeeStatus(r, c)
    OBVIOUS
  <2>3. CASE c = 200
    <3>1. g = [r EXCEPT !.response_code = c, !.recv_status = r.recv_status]
      BY <2>1, <2>2, <2>3
    <3>2. r.recv_status \in {"init", "append", "skip"}
      BY DEF Requests
    <3>3. /\ g \in Requests /\ g.recv_status = r.recv_status /\ g.key = r.key /\ g.mode = r.mode
          /\ g.recv_count = r.recv_count /\ g.if_none_match = r.if_none_match /\ g.phase = r.phase
      <4>1. g \in Requests
        BY <3>1, <3>2 DEF Requests
      <4>2. g.recv_status = r.recv_status
        BY <3>1, <3>2 DEF Requests
      <4>3. g.key = r.key /\ g.mode = r.mode /\ g.phase = r.phase
            /\ g.recv_count = r.recv_count /\ g.if_none_match = r.if_none_match
        BY <3>1, <3>2 DEF Requests
      <4>4. QED BY <4>1, <4>2, <4>3
    <3>4. QED BY <2>2, <2>3, <3>3
  <2>4. CASE c # 200
    <3>1. g = [r EXCEPT !.response_code = c, !.recv_status = "skip"]
      BY <2>1, <2>2, <2>4
    <3>2. /\ g \in Requests /\ g.recv_status = "skip" /\ g.key = r.key /\ g.mode = r.mode
          /\ g.recv_count = r.recv_count /\ g.if_none_match = r.if_none_match /\ g.phase = r.phase
      <4>1. g \in Requests
        BY <3>1 DEF Requests
      <4>2. g.recv_status = "skip"
        BY <3>1 DEF Requests
      <4>3. g.key = r.key /\ g.mode = r.mode /\ g.phase = r.phase
            /\ g.recv_count = r.recv_count /\ g.if_none_match = r.if_none_match
        BY <3>1 DEF Requests
      <4>4. QED BY <4>1, <4>2, <4>3
    <3>3. QED BY <1>2, <2>2, <2>4, <3>2
  <2>5. QED BY <2>3, <2>4
<1>3. QED BY <1>1, <1>2

\* A fetch whose headers were seen, one of which a piece came and one of which it is left
AnswerTo(r, v, c, n, m) ==
  [r EXCEPT !.served = v, !.phase = "body", !.code = c, !.left = m, !.content_size = n]
WithPiece(r, o, i, j) == [r EXCEPT !.recv_status = "append", !.open = o, !.recv_count = i, !.left = j]
Flag(o) == o \in {TRUE, FALSE}
WithLeft(r, j) == [r EXCEPT !.left = j]

\* What a request has after its headers came
LEMMA AnswerFields ==
  ASSUME NEW r \in Requests, NEW v \in Nat, NEW c \in Int, NEW n \in Int, NEW m \in Int
  PROVE  LET g == AnswerTo(r, v, c, n, m)
         IN /\ g \in Requests
            /\ g.phase = "body" /\ g.served = v /\ g.code = c /\ g.left = m /\ g.content_size = n
            /\ g.key = r.key /\ g.mode = r.mode /\ g.if_none_match = r.if_none_match
            /\ g.recv_count = r.recv_count /\ g.recv_status = r.recv_status
<1>1. PICK g : g = [r EXCEPT !.served = v, !.phase = "body", !.code = c, !.left = m, !.content_size = n]
  OBVIOUS
<1>2. g \in Requests
  BY <1>1 DEF Requests
<1>3. g.phase = "body" /\ g.served = v /\ g.code = c /\ g.left = m /\ g.content_size = n
  BY <1>1 DEF Requests
<1>4. /\ g.key = r.key /\ g.mode = r.mode /\ g.if_none_match = r.if_none_match
      /\ g.recv_count = r.recv_count /\ g.recv_status = r.recv_status
  BY <1>1 DEF Requests
<1>5. g = AnswerTo(r, v, c, n, m)
  BY <1>1 DEF AnswerTo
<1>6. QED BY <1>2, <1>3, <1>4, <1>5

\* What a request has after a piece came
LEMMA PieceFields ==
  ASSUME NEW r \in Requests, NEW i \in Int, NEW j \in Int, NEW o, Flag(o),
         NEW g, g = WithPiece(r, o, i, j)
  PROVE  /\ g \in Requests
         /\ g.recv_status = "append" /\ g.recv_count = i /\ g.left = j
         /\ g.key = r.key /\ g.phase = r.phase /\ g.mode = r.mode /\ g.served = r.served
         /\ g.content_size = r.content_size /\ g.code = r.code /\ g.if_none_match = r.if_none_match
<1>1. g = [r EXCEPT !.recv_status = "append", !.open = o, !.recv_count = i, !.left = j]
  BY DEF WithPiece
<1>2. g \in Requests
  <2>1. CASE o = TRUE
    BY <1>1, <2>1 DEF Requests
  <2>2. CASE o = FALSE
    BY <1>1, <2>2 DEF Requests
  <2>3. QED BY <2>1, <2>2 DEF Flag
<1>3. g.recv_status = "append" /\ g.recv_count = i /\ g.left = j
  BY <1>1 DEF Requests
<1>4. /\ g.key = r.key /\ g.phase = r.phase /\ g.mode = r.mode /\ g.served = r.served
      /\ g.content_size = r.content_size /\ g.code = r.code /\ g.if_none_match = r.if_none_match
  BY <1>1 DEF Requests
<1>5. QED BY <1>2, <1>3, <1>4

\* What a request has after a piece it skips
LEMMA LeftFields ==
  ASSUME NEW r \in Requests, NEW j \in Int
  PROVE  LET g == WithLeft(r, j)
         IN /\ g \in Requests
            /\ g.left = j /\ g.recv_status = r.recv_status /\ g.recv_count = r.recv_count
            /\ g.key = r.key /\ g.phase = r.phase /\ g.mode = r.mode /\ g.served = r.served
            /\ g.content_size = r.content_size /\ g.code = r.code /\ g.if_none_match = r.if_none_match
<1>1. PICK g : g = [r EXCEPT !.left = j]
  OBVIOUS
<1>2. g \in Requests
  BY <1>1 DEF Requests
<1>3. g.left = j /\ g.recv_status = r.recv_status /\ g.recv_count = r.recv_count
  BY <1>1 DEF Requests
<1>4. g.key = r.key /\ g.phase = r.phase /\ g.mode = r.mode /\ g.served = r.served
      /\ g.content_size = r.content_size /\ g.code = r.code /\ g.if_none_match = r.if_none_match
  BY <1>1 DEF Requests
<1>5. g = WithLeft(r, j)
  BY <1>1 DEF WithLeft
<1>6. QED BY <1>2, <1>3, <1>4, <1>5

\* The fetch that is under way when the headers of its answer were seen
LEMMA HeadersSeen ==
  ASSUME req \in Requests, NEW c \in Int, NEW n \in Int, NEW m \in Int,
         version[req.key] \in Nat, Headers(c, n, m)
  PROVE  /\ req' \in Requests /\ req'.phase = "body" /\ req'.key = req.key /\ req'.mode = req.mode
         /\ req'.served = version[req.key] /\ req'.recv_count = req.recv_count
         /\ req'.code = c /\ req'.left = m /\ req'.content_size = n
         /\ req'.recv_status = IF req.response_code = 0 /\ c # 200 THEN "skip" ELSE req.recv_status
         /\ req'.if_none_match = req.if_none_match
<1>1. PICK r \in Requests :
        /\ r = SeeStatus(req, c) /\ r.key = req.key /\ r.mode = req.mode /\ r.phase = req.phase
        /\ r.recv_count = req.recv_count /\ r.if_none_match = req.if_none_match
        /\ r.recv_status = IF req.response_code = 0 /\ c # 200 THEN "skip" ELSE req.recv_status
  BY StatusSeen
<1>2. PICK v \in Nat : v = version[req.key]
  OBVIOUS
<1>3. req' = AnswerTo(SeeStatus(req, c), version[req.key], c, n, m)
  BY DEF Headers, AnswerTo
<1>4. req' = AnswerTo(r, v, c, n, m)
  BY <1>1, <1>2, <1>3
<1>5. QED BY <1>1, <1>2, <1>4, AnswerFields

\* The kinds of answer there are
LEMMA AnswerComes ==
  ASSUME CacheInv, Answered
  PROVE  /\ req \in Requests /\ req # Idle /\ req.phase = "sent"
         /\ UNCHANGED <<files, status, version>> /\ faults' \in 0 .. MaxFaults
         /\ req' \in Requests /\ req'.phase = "body" /\ req'.key = req.key /\ req'.mode = req.mode
         /\ req'.served = version[req.key] /\ req'.recv_count = 0
         /\ req'.recv_status = IF req.response_code = 0 /\ req'.code # 200 THEN "skip" ELSE req.recv_status
         /\ \/ req'.code = 304 /\ req'.content_size = 0 /\ req'.left = 0
               /\ req.if_none_match = version[req.key]
            \/ req'.code = 200 /\ req'.left = Size(req'.served)
               /\ req'.content_size \in {0, Size(req'.served)}
            \/ req'.code = 404 /\ req'.content_size = 1 /\ req'.left = 1
<1>1. req # Idle /\ req.phase = "sent"
  BY DEF Answered, Idle
<1>2. req \in Requests /\ req.recv_count = 0
  BY <1>1 DEF CacheInv, CacheTypes, SentInv
<1>3. version[req.key] \in Nat /\ Size(version[req.key]) \in Nat
  BY <1>2, CacheAssumption, SizeIsSmall DEF CacheInv, CacheTypes, Requests
<1>4. faults \in 0 .. MaxFaults
  BY DEF CacheInv, CacheTypes
<1>5. /\ UNCHANGED <<files, status, version>> /\ faults' \in 0 .. MaxFaults
  BY <1>4, FaultCounts DEF Answered
<1> DEFINE v == version[req.key]
<1>6. \/ v = req.if_none_match /\ Headers(304, 0, 0)
      \/ Headers(200, Size(v), Size(v)) \/ Headers(200, 0, Size(v))
      \/ Headers(404, 1, 1)
  BY DEF Answered
<1>7. CASE v = req.if_none_match /\ Headers(304, 0, 0)
  BY <1>1, <1>2, <1>3, <1>5, <1>7, HeadersSeen
<1>8. CASE Headers(200, Size(v), Size(v))
  BY <1>1, <1>2, <1>3, <1>5, <1>8, HeadersSeen
<1>9. CASE Headers(200, 0, Size(v))
  BY <1>1, <1>2, <1>3, <1>5, <1>9, HeadersSeen
<1>10. CASE Headers(404, 1, 1)
  BY <1>1, <1>2, <1>3, <1>5, <1>10, HeadersSeen
<1>11. QED BY <1>6, <1>7, <1>8, <1>9, <1>10

\* A fetch that ends tells how.
LEMMA FetchEnds ==
  ASSUME NEW r \in Requests, NEW c, Finish(r, c)
  PROVE  /\ req' = Idle /\ UNCHANGED version
         /\ status' = [key |-> r.key, served |-> r.served, result |-> Result(r, c)]
         /\ Result(r, c) \in Results
         /\ Result(r, c) = "success" =>
              c \in {200, 304} /\ (c = 200 => r.content_size > 0)
<1>1. r.fetch_status = "success" /\ r.content_size \in Int
  BY DEF Requests
<1>2. Result(r, c) \in Results /\ (Result(r, c) = "success" =>
              c \in {200, 304} /\ (c = 200 => ~(r.content_size <= 0)))
  BY <1>1 DEF Result, Results
<1>3. QED BY <1>1, <1>2 DEF Finish

\* One that is given up does not succeed.
LEMMA FetchAborts ==
  ASSUME req \in Requests, Abort("invalid_content_length") \/ Abort("file_open_failure") \/ Abort("key_move_failure")
  PROVE  /\ req' = Idle /\ UNCHANGED version
         /\ status'.key = req.key /\ status'.result # "success"
         /\ status' \in [key : Keys \cup {"none"}, served : Nat, result : Results]
<1>1. PICK why \in {"invalid_content_length", "file_open_failure", "key_move_failure"} : Abort(why)
  OBVIOUS
<1> DEFINE r == [req EXCEPT !.fetch_status = why]
<1>2. r.fetch_status = why /\ r.key = req.key /\ r.served = req.served
  BY DEF Requests
<1>3. req' = Idle /\ UNCHANGED version
      /\ status' = [key |-> r.key, served |-> r.served, result |-> Result(r, LostCode)]
  BY <1>1 DEF Abort, Finish
<1>4. Result(r, LostCode) = why
  <2> HIDE DEF r
  <2>1. QED BY <1>2 DEF Result
<1> HIDE DEF r
<1>5. req.key \in Keys /\ req.served \in Nat
  BY DEF Requests
<1>6. QED BY <1>2, <1>3, <1>4, <1>5 DEF Results

\* One of the two files of a key changes, or both.
LEMMA OneFile ==
  ASSUME NEW fs \in [Keys -> [p : AnyFile, f : AnyFile]], NEW k \in Keys, NEW x \in AnyFile,
         NEW t \in {"p", "f"}, NEW g, g = [fs EXCEPT ![k][t] = x]
  PROVE  /\ g \in [Keys -> [p : AnyFile, f : AnyFile]] /\ \A o \in Keys \ {k} : g[o] = fs[o]
         /\ t = "p" => g[k].p = x /\ g[k].f = fs[k].f
         /\ t = "f" => g[k].f = x /\ g[k].p = fs[k].p
         /\ g[k][t] = x
<1>1. PICK r \in [p : AnyFile, f : AnyFile] : r = fs[k]
  OBVIOUS
<1>2. PICK h : h = [r EXCEPT ![t] = x]
  OBVIOUS
<1>3. g[k] = [fs[k] EXCEPT ![t] = x]
  OBVIOUS
<1>4. g[k] = h
  BY <1>1, <1>2, <1>3
<1>5. CASE t = "p"
  <2>1. h = [r EXCEPT !["p"] = x]
    BY <1>2, <1>5
  <2>2. h = [p |-> x, f |-> r.f]
    BY <2>1
  <2>3. h["p"] = x
    BY <2>1
  <2>4. QED BY <1>1, <1>4, <1>5, <2>2, <2>3
<1>6. CASE t = "f"
  <2>1. h = [r EXCEPT !["f"] = x]
    BY <1>2, <1>6
  <2>2. h = [p |-> r.p, f |-> x]
    BY <2>1
  <2>3. h["f"] = x
    BY <2>1
  <2>4. QED BY <1>1, <1>4, <1>6, <2>2, <2>3
<1>7. QED BY <1>5, <1>6

\* Renaming the partial file changes the two files of its key and no other.
LEMMA BothFiles ==
  ASSUME NEW fs \in [Keys -> [p : AnyFile, f : AnyFile]], NEW k \in Keys, NEW x \in AnyFile,
         NEW y \in AnyFile, NEW g, g = [fs EXCEPT ![k] = [p |-> x, f |-> y]]
  PROVE  /\ g \in [Keys -> [p : AnyFile, f : AnyFile]] /\ \A o \in Keys \ {k} : g[o] = fs[o]
         /\ g[k].p = x /\ g[k].f = y
OBVIOUS

\* What a piece does to the files: one more part of the version is there, in the file that
\* is written or, when it is the last, in the final one.
Lands(n) ==
  /\ files' \in [Keys -> [p : AnyFile, f : AnyFile]]
  /\ \A k \in Keys \ {req.key} : files'[k] = files[k]
  /\ \/ /\ req.left > 1 \/ req.mode = "in_place"
        /\ files'[req.key][Target(req.mode)] = Part(req.served, n)
        /\ req.mode = "atomic" => files'[req.key].p = Part(req.served, n)
                                  /\ files'[req.key].f = files[req.key].f
        /\ req.mode = "in_place" => files'[req.key].f = Part(req.served, n)
                                    /\ files'[req.key].p = files[req.key].p
     \/ /\ req.left = 1 /\ req.mode = "atomic"
        /\ files'[req.key].p = Absent /\ files'[req.key].f = Part(req.served, n)

\* The kinds of piece there are, when n pieces were written
PieceFails == req' = Idle /\ UNCHANGED version /\ status'.key = req.key /\ status'.result # "success"
              /\ status' \in [key : Keys \cup {"none"}, served : Nat, result : Results]

\* A piece that is received is skipped, ends the fetch, or lands: in the partial
\* file, or in the final one when it was the last (on_data_received).
LEMMA PieceComes ==
  ASSUME CacheInv, Receive, NEW n \in 0 .. req.recv_count,
         req.recv_status # "skip" /\ req.content_size > 0 => Opened = Part(req.served, n)
  PROVE  /\ req \in Requests /\ req.phase = "body" /\ BodyInv /\ req.left > 0
         /\ UNCHANGED version /\ faults' \in 0 .. MaxFaults
         /\ \/ PieceFails /\ UNCHANGED files
            \/ req.recv_status = "skip" /\ req' = WithLeft(req, req.left - 1) /\ UNCHANGED <<files, status>>
            \/ /\ req.recv_status # "skip" /\ req.content_size = Size(req.served) /\ UNCHANGED status
               /\ \E o : Flag(o) /\ req' = WithPiece(req, o, req.recv_count + 1, req.left - 1)
               /\ Lands(n + 1) \/ (Lands(n) /\ "write" \in Faults)
            \/ /\ PieceFails /\ req.recv_status # "skip" /\ req.left = 1 /\ req.mode = "atomic"
               /\ files' = [files EXCEPT ![req.key]["p"] = Part(req.served, n + 1)]
               /\ req.content_size = Size(req.served)
<1>1. req # Idle /\ req.phase = "body" /\ req.left > 0
  BY DEF Receive, Idle
<1>2. req \in Requests /\ BodyInv
  BY <1>1 DEF CacheInv, CacheTypes
<1>3. faults' \in 0 .. MaxFaults
  <2>1. faults \in 0 .. MaxFaults
    BY DEF CacheInv, CacheTypes
  <2>2. UNCHANGED faults \/ Fault("open") \/ Fault("write") \/ Fault("rename")
    BY DEF Receive
  <2>3. QED BY <2>1, <2>2, FaultCounts
<1>4. PICK k \in Keys : k = req.key
  BY <1>2 DEF Requests
<1>5. PICK t \in {"p", "f"} : t = Target(req.mode)
  BY DEF Target
<1> DEFINE last == req.recv_count + 1 >= req.content_size
           next == [req EXCEPT !.recv_status = "append", !.open = ~last,
                               !.recv_count = @ + 1, !.left = @ - 1]
           w(written) == [Opened EXCEPT !.body = @ \o written]
           Write(written) ==
             \/ /\ ~last \/ req.mode = "in_place"
                /\ files' = [files EXCEPT ![req.key][Target(req.mode)] = w(written)]
                /\ req' = next /\ UNCHANGED <<status, version>>
             \/ /\ last /\ req.mode = "atomic"
                /\ files' = [files EXCEPT ![req.key] = [p |-> Absent, f |-> w(written)]]
                /\ req' = next /\ UNCHANGED <<status, version>>
<1>6. \/ Abort("invalid_content_length") /\ UNCHANGED files
      \/ /\ req.recv_status = "skip" /\ req' = [req EXCEPT !.left = @ - 1]
         /\ UNCHANGED <<files, status, version>>
      \/ Abort("file_open_failure") /\ UNCHANGED files
      \/ /\ req.content_size > 0 /\ req.recv_status # "skip"
         /\ \/ Write(<<req.served>>)
            \/ Write(<<>>) /\ "write" \in Faults
            \/ /\ last /\ req.mode = "atomic"
               /\ files' = [files EXCEPT ![req.key][Target(req.mode)] = [Opened EXCEPT !.body = Append(@, req.served)]]
               /\ Abort("key_move_failure")
  BY DEF Receive, Fault
<1>7. CASE Abort("invalid_content_length") /\ UNCHANGED files
  BY <1>1, <1>2, <1>3, <1>7, FetchAborts DEF PieceFails
<1>8. CASE Abort("file_open_failure") /\ UNCHANGED files
  BY <1>1, <1>2, <1>3, <1>8, FetchAborts DEF PieceFails
<1>9. CASE /\ req.recv_status = "skip" /\ req' = [req EXCEPT !.left = @ - 1]
           /\ UNCHANGED <<files, status, version>>
  BY <1>1, <1>2, <1>3, <1>9 DEF WithLeft
<1>10. ASSUME req.content_size > 0 /\ req.recv_status # "skip"
       PROVE  /\ Opened = Part(req.served, n) /\ n \in Nat /\ req.served \in 1 .. MaxVersion
              /\ req.content_size = Size(req.served) /\ n + 1 \in 0 .. Size(req.served)
              /\ Part(req.served, n + 1) \in AnyFile /\ Part(req.served, n) \in AnyFile
              /\ last <=> req.left = 1
              /\ w(<<req.served>>) = Part(req.served, n + 1) /\ w(<<>>) = Part(req.served, n)
              /\ [Opened EXCEPT !.body = Append(@, req.served)] = Part(req.served, n + 1)
              /\ \E o : Flag(o) /\ next = WithPiece(req, o, req.recv_count + 1, req.left - 1)
  <2>1. version[req.key] \in 1 .. MaxVersion
    BY <1>2 DEF CacheInv, CacheTypes, Requests
  <2>2. req.served \in 1 .. MaxVersion /\ req.served \in Nat
    BY <1>2, <2>1, CacheAssumption DEF BodyInv
  <2>3. Size(req.served) \in {1, 2}
    BY <2>2, SizeIsSmall
  <2>4. req.content_size = Size(req.served) /\ req.left = req.content_size - req.recv_count
        /\ req.left \in 0 .. 2 /\ req.recv_count \in 0 .. 2
    BY <1>2, <1>10 DEF BodyInv
  <2>5. n \in Nat /\ n + 1 \in 0 .. Size(req.served) /\ (last <=> req.left = 1)
    BY <1>1, <2>3, <2>4
  <2>6. Opened = Part(req.served, n)
    BY <1>10
  <2>7. n \in 0 .. Size(req.served)
    BY <2>3, <2>5
  <2>8. Part(req.served, n + 1) \in AnyFile /\ Part(req.served, n) \in AnyFile
    BY <2>2, <2>5, <2>7, ReadableParts
  <2>10. /\ w(<<req.served>>) = Part(req.served, n + 1) /\ w(<<>>) = Part(req.served, n)
         /\ [Opened EXCEPT !.body = Append(@, req.served)] = Part(req.served, n + 1)
    BY <2>2, <2>5, <2>6, PartGrows
  <2>9. \E o : Flag(o) /\ next = WithPiece(req, o, req.recv_count + 1, req.left - 1)
    <3>1. CASE last
      <4>1. Flag(FALSE) /\ next = WithPiece(req, FALSE, req.recv_count + 1, req.left - 1)
        BY <3>1 DEF WithPiece, Flag
      <4>2. QED BY <4>1, Zenon
    <3>2. CASE ~last
      <4>1. Flag(TRUE) /\ next = WithPiece(req, TRUE, req.recv_count + 1, req.left - 1)
        BY <3>2 DEF WithPiece, Flag
      <4>2. QED BY <4>1, Zenon
    <3>3. QED BY <3>1, <3>2
  <2> HIDE DEF last, next, w
  <2>12. QED BY <2>2, <2>4, <2>5, <2>6, <2>8, <2>9, <2>10
<1> HIDE DEF last, next, w
<1>11. ASSUME req.content_size > 0 /\ req.recv_status # "skip", NEW m \in {n, n + 1}, NEW written,
              w(written) = Part(req.served, m), Write(written)
       PROVE  /\ UNCHANGED <<status, version>> /\ req' = next /\ Lands(m)
  <2>1. /\ Part(req.served, m) \in AnyFile
        /\ files \in [Keys -> [p : AnyFile, f : AnyFile]] /\ Absent \in AnyFile
    BY <1>10, <1>11, ReadableParts DEF CacheInv, CacheTypes
  <2>2. CASE /\ ~last \/ req.mode = "in_place"
             /\ files' = [files EXCEPT ![req.key][Target(req.mode)] = w(written)]
             /\ req' = next /\ UNCHANGED <<status, version>>
    <3>1. files' = [files EXCEPT ![k][t] = Part(req.served, m)]
      BY <1>4, <1>5, <1>11, <2>2
    <3>2. /\ files' \in [Keys -> [p : AnyFile, f : AnyFile]] /\ \A o \in Keys \ {k} : files'[o] = files[o]
          /\ t = "p" => files'[k].p = Part(req.served, m) /\ files'[k].f = files[k].f
          /\ t = "f" => files'[k].f = Part(req.served, m) /\ files'[k].p = files[k].p
          /\ files'[k][t] = Part(req.served, m)
      BY <2>1, <3>1, OneFile
    <3>3. req.mode = "in_place" \/ req.left > 1
      BY <1>1, <1>2, <1>10, <1>11, <2>2 DEF Requests
    <3>4. (req.mode = "atomic" => t = "p") /\ (req.mode = "in_place" => t = "f")
      BY <1>5 DEF Target
    <3>5. QED BY <1>4, <1>5, <2>2, <3>2, <3>3, <3>4 DEF Lands
  <2>3. CASE /\ last /\ req.mode = "atomic"
             /\ files' = [files EXCEPT ![req.key] = [p |-> Absent, f |-> w(written)]]
             /\ req' = next /\ UNCHANGED <<status, version>>
    <3>1. files' = [files EXCEPT ![k] = [p |-> Absent, f |-> Part(req.served, m)]]
      BY <1>4, <1>11, <2>3
    <3>2. /\ files' \in [Keys -> [p : AnyFile, f : AnyFile]] /\ \A o \in Keys \ {k} : files'[o] = files[o]
          /\ files'[k].p = Absent /\ files'[k].f = Part(req.served, m)
      BY <2>1, <3>1, BothFiles
    <3>3. req.left = 1
      BY <1>10, <1>11, <2>3
    <3>4. QED BY <1>4, <2>3, <3>2, <3>3 DEF Lands
  <2>4. QED BY <1>11, <2>2, <2>3
<1>12. CASE req.content_size > 0 /\ req.recv_status # "skip" /\ Write(<<req.served>>)
  <2>1. UNCHANGED <<status, version>> /\ req' = next /\ Lands(n + 1)
    BY <1>10, <1>11, <1>12
  <2>2. QED BY <1>1, <1>2, <1>3, <1>10, <1>12, <2>1
<1>13. CASE req.content_size > 0 /\ req.recv_status # "skip" /\ Write(<<>>) /\ "write" \in Faults
  <2>1. UNCHANGED <<status, version>> /\ req' = next /\ Lands(n)
    BY <1>10, <1>11, <1>13
  <2>2. QED BY <1>1, <1>2, <1>3, <1>10, <1>13, <2>1
<1>14. CASE /\ req.content_size > 0 /\ req.recv_status # "skip"
            /\ last /\ req.mode = "atomic"
            /\ files' = [files EXCEPT ![req.key][Target(req.mode)] = [Opened EXCEPT !.body = Append(@, req.served)]]
            /\ Abort("key_move_failure")
  <2>1. Target(req.mode) = "p"
    BY <1>14 DEF Target
  <2>2. files' = [files EXCEPT ![req.key]["p"] = Part(req.served, n + 1)]
    BY <1>10, <1>14, <2>1
  <2>3. PieceFails
    BY <1>2, <1>14, FetchAborts DEF PieceFails
  <2>4. UNCHANGED version
    BY <2>3 DEF PieceFails
  <2>5. QED BY <1>1, <1>2, <1>3, <1>10, <1>14, <2>2, <2>3, <2>4
<1>15. QED BY <1>6, <1>7, <1>8, <1>9, <1>12, <1>13, <1>14

-----------------------------------------------------------------------------
(* Every step of the cache keeps its invariant. *)

\* The cache begins empty.
LEMMA InitCache == Init => CacheInv
<1> SUFFICES ASSUME Init PROVE CacheInv
  OBVIOUS
<1>1. Absent \in AnyFile /\ Absent.etag = 0
  BY ReadableParts
<1>2. version \in [Keys -> 1 .. MaxVersion] /\ faults \in 0 .. MaxFaults
      /\ files \in [Keys -> [p : AnyFile, f : AnyFile]] /\ req = Idle
  BY <1>1, CacheAssumption DEF Init
<1>3. status \in [key : Keys \cup {"none"}, served : Nat, result : Results]
  BY DEF Init, NoStatus, Results
<1>4. NoFuture
  <2>1. ASSUME NEW k \in Keys PROVE files[k].p.etag <= version[k] /\ files[k].f.etag <= version[k]
    <3>1. files[k].p.etag = 0 /\ files[k].f.etag = 0 /\ version[k] = 1
      BY <1>1 DEF Init
    <3>2. QED BY <3>1
  <2>2. QED BY <2>1 DEF NoFuture
<1>5. QED BY <1>2, <1>3, <1>4 DEF CacheInv, CacheTypes

\* cache_fetch_resource_from_url keeps CacheInv: the partial file is opened later.
LEMMA FetchKeeps ==
  ASSUME CacheInv, NEW k \in Keys, NEW mode \in {"atomic", "in_place"}, Fetch(k, mode)
  PROVE  CacheInv'
<1>1. NoStatus \in [key : Keys \cup {"none"}, served : Nat, result : Results]
  BY DEF NoStatus, Results
<1>2. [key |-> k, served |-> 0, result |-> "invalid_version"] \in [key : Keys \cup {"none"}, served : Nat, result : Results]
  BY DEF Results
<1>3. /\ req = Idle /\ UNCHANGED <<files, version, faults>>
      /\ \/ req' = Idle /\ status' = [key |-> k, served |-> 0, result |-> "invalid_version"]
         \/ /\ status' = NoStatus /\ req' \in Requests /\ req'.phase = "sent"
            /\ req'.recv_status = "init" /\ req'.response_code = 0 /\ req'.recv_count = 0
  BY FetchStarts
<1>4. CacheTypes'
  BY <1>1, <1>2, <1>3 DEF CacheInv, CacheTypes
<1>5. NoFuture'
  BY <1>3 DEF CacheInv, NoFuture
<1>6. (req # Idle => IF req.phase = "sent" THEN SentInv ELSE BodyInv)'
  BY <1>3 DEF SentInv
<1>7. QED BY <1>4, <1>5, <1>6 DEF CacheInv

\* So does an answer that redirects, whose body is skipped.
LEMMA RedirectedKeeps == CacheInv /\ Redirected => CacheInv'
<1> SUFFICES ASSUME CacheInv, Redirected PROVE CacheInv'
  OBVIOUS
<1>1. req # Idle /\ req.phase = "sent" /\ req.response_code = 0 /\ req' = SeeStatus(req, 301)
      /\ UNCHANGED <<files, status, version>>
  BY DEF Redirected, Idle
<1>2. req \in Requests /\ SentInv /\ status = NoStatus
  BY <1>1 DEF CacheInv, CacheTypes
<1>3. /\ req' \in Requests /\ req'.phase = "sent" /\ req'.recv_status = "skip" /\ req'.recv_count = 0
  <2>1. PICK g \in Requests :
           /\ g = SeeStatus(req, 301) /\ g.key = req.key /\ g.mode = req.mode /\ g.phase = req.phase
           /\ g.recv_count = req.recv_count /\ g.if_none_match = req.if_none_match
           /\ g.recv_status = IF req.response_code = 0 /\ 301 # 200 THEN "skip" ELSE req.recv_status
    BY <1>2, StatusSeen
  <2>2. QED BY <1>1, <1>2, <2>1 DEF SentInv
<1>4. req'.response_code = 301
  BY <1>1, <1>2 DEF SeeStatus, Requests
<1>5. faults' \in 0 .. MaxFaults
  BY FaultCounts DEF Redirected, CacheInv, CacheTypes
<1>6. QED BY <1>1, <1>2, <1>3, <1>4, <1>5 DEF CacheInv, CacheTypes, NoFuture, SentInv

\* So do the headers of an answer, which open the file of a new version empty.
LEMMA AnsweredKeeps == CacheInv /\ Answered => CacheInv'
<1> SUFFICES ASSUME CacheInv, Answered PROVE CacheInv'
  OBVIOUS
<1>1. /\ req \in Requests /\ req # Idle /\ req.phase = "sent"
      /\ UNCHANGED <<files, status, version>> /\ faults' \in 0 .. MaxFaults
      /\ req' \in Requests /\ req'.phase = "body" /\ req'.key = req.key /\ req'.mode = req.mode
      /\ req'.served = version[req.key] /\ req'.recv_count = 0
      /\ req'.recv_status = IF req.response_code = 0 /\ req'.code # 200 THEN "skip" ELSE req.recv_status
      /\ \/ req'.code = 304 /\ req'.content_size = 0 /\ req'.left = 0
         \/ req'.code = 200 /\ req'.left = Size(req'.served)
            /\ req'.content_size \in {0, Size(req'.served)}
         \/ req'.code = 404 /\ req'.content_size = 1 /\ req'.left = 1
  BY AnswerComes
<1>2. SentInv /\ status = NoStatus /\ version[req.key] \in 1 .. MaxVersion
  BY <1>1 DEF CacheInv, CacheTypes, Requests
<1>3. req'.recv_status \in {"init", "skip"} /\ (req'.recv_status = "init" => req'.code = 200)
  BY <1>1, <1>2 DEF SentInv
<1>4. Size(req'.served) \in {1, 2} /\ req'.served \in 1 .. version[req.key]
  BY <1>1, <1>2, CacheAssumption, SizeIsSmall
<1>5. BodyInv'
  BY <1>1, <1>2, <1>3, <1>4 DEF BodyInv
<1>6. CacheTypes'
  BY <1>1, <1>2 DEF CacheInv, CacheTypes
<1>7. NoFuture'
  BY <1>1 DEF CacheInv, NoFuture
<1>8. QED BY <1>1, <1>5, <1>6, <1>7 DEF CacheInv

\* So does an end of the fetch: the files stay as they are.
LEMMA EndKeeps ==
  ASSUME CacheInv, NEW c, Finish(req, c), req \in Requests, UNCHANGED files, faults' \in 0 .. MaxFaults
  PROVE  CacheInv'
<1>1. PICK r \in Requests : r = req
  OBVIOUS
<1>2. /\ req' = Idle /\ UNCHANGED version
      /\ status' = [key |-> r.key, served |-> r.served, result |-> Result(r, c)]
      /\ Result(r, c) \in Results
  BY <1>1, FetchEnds
<1>3. status' \in [key : Keys \cup {"none"}, served : Nat, result : Results]
  BY <1>2 DEF Requests
<1>4. QED BY <1>2, <1>3 DEF CacheInv, CacheTypes, NoFuture

\* So does an answer that is complete, or a connection that is lost.
LEMMA CompleteKeeps == CacheInv /\ (Complete \/ Lose) => CacheInv'
<1> SUFFICES ASSUME CacheInv, Complete \/ Lose PROVE CacheInv'
  OBVIOUS
<1>1. req # Idle /\ UNCHANGED files
  BY DEF Complete, Lose, Idle
<1>2. req \in Requests /\ faults \in 0 .. MaxFaults
  BY <1>1 DEF CacheInv, CacheTypes
<1>3. faults' \in 0 .. MaxFaults
  BY <1>2, FaultCounts DEF Complete, Lose
<1>4. Finish(req, req.code) \/ Finish(req, LostCode)
  BY DEF Complete, Lose
<1>5. QED BY <1>1, <1>2, <1>3, <1>4, EndKeeps

\* The file that a piece goes to is a part of the version that is received.
LEMMA OpenedIsPart ==
  ASSUME CacheInv, Receive
  PROVE  \E n \in 0 .. req.recv_count :
           req.recv_status # "skip" /\ req.content_size > 0 => Opened = Part(req.served, n)
<1>1. req # Idle /\ req.phase = "body" /\ req.left > 0
  BY DEF Receive, Idle
<1>2. req \in Requests /\ BodyInv
  BY <1>1 DEF CacheInv, CacheTypes
<1>3. 0 \in 0 .. req.recv_count
  BY <1>2 DEF BodyInv
<1>4. CASE req.recv_status = "append"
  <2>1. \E n \in 0 .. req.recv_count : Partial = Part(req.served, n)
    BY <1>1, <1>2, <1>4 DEF BodyInv
  <2>2. Opened = Partial
    BY <1>4 DEF Opened, Partial
  <2>3. QED BY <2>1, <2>2
<1>5. CASE req.recv_status = "init" /\ req.content_size > 0
  <2>1. req.content_size = Size(req.served)
    BY <1>2, <1>5 DEF BodyInv
  <2>2. Opened = [etag |-> req.served, length |-> Size(req.served), body |-> <<>>]
    BY <1>5, <2>1 DEF Opened
  <2>3. req.served \in Nat
    BY <1>2 DEF Requests
  <2>4. Opened = Part(req.served, 0)
    BY <2>2, <2>3, PartGrows
  <2>5. QED BY <1>3, <2>4
<1>6. QED BY <1>2, <1>3, <1>4, <1>5 DEF Requests

\* So does a piece, written or not, and the rename after the last.
LEMMA ReceiveKeeps == CacheInv /\ Receive => CacheInv'
<1> SUFFICES ASSUME CacheInv, Receive PROVE CacheInv'
  OBVIOUS
<1>1. PICK n \in 0 .. req.recv_count :
         req.recv_status # "skip" /\ req.content_size > 0 => Opened = Part(req.served, n)
  BY OpenedIsPart
<1>2. req # Idle /\ CacheTypes /\ NoFuture /\ status = NoStatus
  BY DEF Receive, Idle, CacheInv, CacheTypes
<1>3. /\ req \in Requests /\ req.phase = "body" /\ BodyInv /\ req.left > 0
      /\ UNCHANGED version /\ faults' \in 0 .. MaxFaults
      /\ \/ PieceFails /\ UNCHANGED files
         \/ req.recv_status = "skip" /\ req' = WithLeft(req, req.left - 1) /\ UNCHANGED <<files, status>>
         \/ /\ req.recv_status # "skip" /\ req.content_size = Size(req.served) /\ UNCHANGED status
            /\ \E o : Flag(o) /\ req' = WithPiece(req, o, req.recv_count + 1, req.left - 1)
            /\ Lands(n + 1) \/ (Lands(n) /\ "write" \in Faults)
         \/ /\ PieceFails /\ req.recv_status # "skip" /\ req.left = 1 /\ req.mode = "atomic"
            /\ files' = [files EXCEPT ![req.key]["p"] = Part(req.served, n + 1)]
            /\ req.content_size = Size(req.served)
  BY <1>1, PieceComes
<1>4. /\ req.served \in 1 .. version[req.key] /\ version[req.key] \in 1 .. MaxVersion
      /\ req.left \in 1 .. 2 /\ req.recv_count \in 0 .. 2 /\ req.key \in Keys
      /\ req.mode \in {"atomic", "in_place"}
  BY <1>2, <1>3 DEF BodyInv, CacheTypes, Requests
<1>5. Size(req.served) \in {1, 2} /\ req.served \in 1 .. MaxVersion
  BY <1>4, CacheAssumption, SizeIsSmall
<1>6. CASE PieceFails /\ UNCHANGED files
  BY <1>2, <1>3, <1>6 DEF CacheInv, CacheTypes, NoFuture, PieceFails
<1>7. CASE req.recv_status = "skip" /\ req' = WithLeft(req, req.left - 1) /\ UNCHANGED <<files, status>>
  <2>1. PICK j \in Int : j = req.left - 1
    BY <1>4
  <2>2. PICK g : g = WithLeft(req, j)
    OBVIOUS
  <2>3. /\ g \in Requests
        /\ g.left = j /\ g.recv_status = req.recv_status /\ g.recv_count = req.recv_count
        /\ g.key = req.key /\ g.phase = req.phase /\ g.served = req.served
    BY <1>3, <2>2, LeftFields
  <2>4. req' = g
    BY <1>7, <2>1, <2>2
  <2>5. BodyInv'
    BY <1>3, <1>4, <1>7, <2>1, <2>3, <2>4 DEF BodyInv
  <2>6. QED BY <1>2, <1>3, <1>7, <2>3, <2>4, <2>5 DEF CacheInv, CacheTypes, NoFuture
<1>8. ASSUME NEW m \in {n, n + 1}, Lands(m), NEW o, Flag(o),
             req' = WithPiece(req, o, req.recv_count + 1, req.left - 1), UNCHANGED status,
             req.recv_status # "skip", req.content_size = Size(req.served)
      PROVE  CacheInv'
  <2>1. PICK i \in Int : i = req.recv_count + 1
    BY <1>4
  <2>2. PICK j \in Int : j = req.left - 1
    BY <1>4
  <2>3. PICK g : g = WithPiece(req, o, i, j)
    OBVIOUS
  <2>4. /\ g \in Requests /\ g.recv_status = "append" /\ g.recv_count = i /\ g.left = j
        /\ g.key = req.key /\ g.phase = req.phase /\ g.mode = req.mode /\ g.served = req.served
        /\ g.content_size = req.content_size /\ g.code = req.code
    <3>1. req \in Requests
      BY <1>3
    <3>2. Flag(o)
      BY <1>8
    <3>3. QED BY <2>3, <3>1, <3>2, PieceFields
  <2>5. req' = g
    BY <1>8, <2>1, <2>2, <2>3
  <2>6. req.left = req.content_size - req.recv_count /\ req.code = 200
    BY <1>3, <1>5, <1>8 DEF BodyInv
  <2>7. m \in 0 .. i /\ m \in 0 .. Size(req.served)
    BY <1>1, <1>4, <1>5, <1>8, <2>1, <2>6
  <2>8. Part(req.served, m).etag = req.served /\ Absent.etag = 0
    BY <1>5, <2>7, ReadableParts
  <2>9. /\ files' \in [Keys -> [p : AnyFile, f : AnyFile]]
        /\ \A k \in Keys \ {req.key} : files'[k] = files[k]
        /\ files'[req.key].p \in {Absent, files[req.key].p, Part(req.served, m)}
        /\ files'[req.key].f \in {files[req.key].f, Part(req.served, m)}
        /\ req.left > 1 => files'[req.key][Target(req.mode)] = Part(req.served, m)
    BY <1>4, <1>8 DEF Lands
  <2>10. NoFuture'
    <3>1. ASSUME NEW k \in Keys PROVE files'[k].p.etag <= version[k] /\ files'[k].f.etag <= version[k]
      <4>1. CASE k # req.key
        BY <1>2, <2>9, <4>1 DEF NoFuture
      <4>2. CASE k = req.key
        BY <1>2, <1>4, <2>8, <2>9, <4>2 DEF NoFuture
      <4>3. QED BY <4>1, <4>2
    <3>2. QED BY <1>3, <3>1 DEF NoFuture
  <2>11. CacheTypes'
    BY <1>2, <1>3, <1>8, <2>4, <2>5, <2>9 DEF CacheTypes
  <2>12. BodyInv'
    <3>1. /\ req'.served \in 1 .. version'[req'.key]
          /\ req'.left \in 0 .. 2 /\ req'.recv_count \in 1 .. 2
      BY <1>3, <1>4, <1>5, <1>8, <2>1, <2>2, <2>4, <2>5, <2>6
    <3>2. /\ req'.content_size = Size(req'.served) /\ req'.content_size > 0 /\ req'.code = 200
          /\ req'.left = req'.content_size - req'.recv_count
      <4>1. req'.content_size = Size(req'.served) /\ req'.code = 200 /\ req'.content_size = req.content_size
        BY <1>8, <2>4, <2>5, <2>6
      <4>2. req.content_size \in {1, 2}
        BY <1>5, <1>8
      <4>3. j = req.content_size - i
        BY <1>4, <2>1, <2>2, <2>6, <4>2
      <4>4. req'.left = j /\ req'.recv_count = i
        BY <2>4, <2>5
      <4>5. QED BY <4>1, <4>2, <4>3, <4>4
    <3>3. req'.left > 0 => Partial' = Part(req'.served, m)
      BY <1>4, <2>2, <2>4, <2>5, <2>9 DEF Partial
    <3>4. req'.recv_status = "append" /\ m \in 0 .. req'.recv_count
      BY <2>4, <2>5, <2>7
    <3>5. req'.left > 0 => \E x \in 0 .. req'.recv_count : Partial' = Part(req'.served, x)
      BY <3>3, <3>4
    <3>6. req'.recv_count > 0 /\ req'.recv_status # "skip" /\ req'.recv_status # "init"
      BY <3>1, <3>4
    <3>7. QED BY <3>1, <3>2, <3>4, <3>5, <3>6 DEF BodyInv
  <2>13. QED BY <1>3, <2>4, <2>5, <2>10, <2>11, <2>12 DEF CacheInv
<1>9. CASE /\ req.recv_status # "skip" /\ req.content_size = Size(req.served) /\ UNCHANGED status
           /\ \E o : Flag(o) /\ req' = WithPiece(req, o, req.recv_count + 1, req.left - 1)
           /\ Lands(n + 1) \/ (Lands(n) /\ "write" \in Faults)
  BY <1>8, <1>9
<1>10. CASE /\ PieceFails /\ req.recv_status # "skip" /\ req.left = 1 /\ req.mode = "atomic"
            /\ files' = [files EXCEPT ![req.key]["p"] = Part(req.served, n + 1)]
            /\ req.content_size = Size(req.served)
  <2>1. req.left = req.content_size - req.recv_count
    BY <1>3, <1>5, <1>10 DEF BodyInv
  <2>2. n + 1 \in 0 .. Size(req.served)
    BY <1>1, <1>4, <1>5, <1>10, <2>1
  <2>3. Part(req.served, n + 1) \in AnyFile /\ Part(req.served, n + 1).etag = req.served
    BY <1>5, <2>2, ReadableParts
  <2>4. /\ files' \in [Keys -> [p : AnyFile, f : AnyFile]] /\ \A o \in Keys \ {req.key} : files'[o] = files[o]
        /\ files'[req.key].p = Part(req.served, n + 1) /\ files'[req.key].f = files[req.key].f
    BY <1>2, <1>4, <1>10, <2>3, OneFile DEF CacheTypes
  <2>5. NoFuture'
    BY <1>2, <1>3, <1>4, <2>3, <2>4 DEF NoFuture
  <2>6. QED BY <1>2, <1>3, <1>10, <2>4, <2>5 DEF CacheInv, CacheTypes, PieceFails
<1>11. QED BY <1>3, <1>6, <1>7, <1>9, <1>10

\* So does a crash, which leaves a part of what was written.
LEMMA CrashKeeps == CacheInv /\ Crash => CacheInv'
<1> SUFFICES ASSUME CacheInv, Crash PROVE CacheInv'
  OBVIOUS
<1>1. faults' \in 0 .. MaxFaults
  BY FaultCounts DEF Crash, CacheInv, CacheTypes
<1>2. NoStatus \in [key : Keys \cup {"none"}, served : Nat, result : Results]
  BY DEF NoStatus, Results
<1>3. CacheTypes /\ NoFuture /\ req' = Idle /\ status' = NoStatus /\ UNCHANGED version
  BY DEF CacheInv, Crash
<1>4. CASE UNCHANGED files
  BY <1>1, <1>2, <1>3, <1>4 DEF CacheInv, CacheTypes, NoFuture
<1>5. CASE ~UNCHANGED files
  <2>1. req # Idle
    BY <1>5 DEF Crash, CutFiles
  <2>2. req \in Requests
    BY <1>3, <2>1 DEF CacheTypes
  <2>3. PICK k \in Keys : k = req.key
    BY <2>2 DEF Requests
  <2>4. PICK t \in {"p", "f"} : t = Target(req.mode)
    BY DEF Target
  <2>5. PICK file \in Cut(files[k][t]) : files' = [files EXCEPT ![k][t] = file]
    BY <1>5, <2>1, <2>3, <2>4 DEF Crash, CutFiles
  <2>6. files[k][t] \in AnyFile /\ files[k][t] = IF t = "p" THEN files[k].p ELSE files[k].f
    BY <1>3 DEF CacheTypes
  <2>7. file \in AnyFile /\ file.etag \in {0, files[k][t].etag}
    BY <2>5, <2>6, PartIsCut
  <2>8. /\ files' \in [Keys -> [p : AnyFile, f : AnyFile]] /\ \A o \in Keys \ {k} : files'[o] = files[o]
        /\ t = "p" => files'[k].p = file /\ files'[k].f = files[k].f
        /\ t = "f" => files'[k].f = file /\ files'[k].p = files[k].p
    BY <1>3, <2>5, <2>7, OneFile DEF CacheTypes
  <2>9. NoFuture'
    <3>1. ASSUME NEW o \in Keys PROVE files'[o].p.etag <= version[o] /\ files'[o].f.etag <= version[o]
      <4>1. version[o] \in 1 .. MaxVersion /\ files[o].p.etag <= version[o] /\ files[o].f.etag <= version[o]
        BY <1>3 DEF CacheTypes, NoFuture
      <4>2. CASE o # k
        BY <2>8, <4>1, <4>2
      <4>3. CASE o = k /\ t = "p"
        BY <2>6, <2>7, <2>8, <4>1, <4>3, CacheAssumption
      <4>4. CASE o = k /\ t = "f"
        BY <2>6, <2>7, <2>8, <4>1, <4>4, CacheAssumption
      <4>5. QED BY <4>2, <4>3, <4>4
    <3>2. QED BY <1>3, <3>1 DEF NoFuture
  <2>10. QED BY <1>1, <1>2, <1>3, <2>8, <2>9 DEF CacheInv, CacheTypes
<1>6. QED BY <1>4, <1>5

\* So does dropping files between two calls.
LEMMA ForgetKeeps == CacheInv /\ Forget => CacheInv'
<1> SUFFICES ASSUME CacheInv, Forget PROVE CacheInv'
  OBVIOUS
<1>1. NoStatus \in [key : Keys \cup {"none"}, served : Nat, result : Results]
  BY DEF NoStatus, Results
<1>2. CacheTypes'
  BY <1>1 DEF CacheInv, CacheTypes, Forget
<1>3. Absent.etag = 0
  BY ReadableParts
<1>4. NoFuture'
  <2>1. ASSUME NEW o \in Keys PROVE files'[o].p.etag <= version[o] /\ files'[o].f.etag <= version[o]
    <3>1. version[o] \in 1 .. MaxVersion /\ files[o].p.etag <= version[o] /\ files[o].f.etag <= version[o]
      BY DEF CacheInv, CacheTypes, NoFuture
    <3>2. files'[o].p \in {files[o].p, Absent} /\ files'[o].f \in {files[o].f, Absent}
      BY DEF Forget
    <3>3. QED BY <1>3, <3>1, <3>2, CacheAssumption
  <2>2. QED BY <2>1 DEF NoFuture, Forget
<1>5. QED BY <1>2, <1>4 DEF CacheInv, Forget

\* So does a new version at the server: a file is never of a later one.
LEMMA RaiseKeeps == CacheInv /\ Raise => CacheInv'
<1> SUFFICES ASSUME CacheInv, Raise PROVE CacheInv'
  OBVIOUS
<1>1. CacheTypes' /\ \A k \in Keys : version[k] <= version'[k] /\ version[k] \in Nat /\ version'[k] \in Nat
  BY CacheAssumption DEF CacheInv, CacheTypes, Raise
<1>2. UNCHANGED <<files, req>>
  BY DEF Raise
<1>3. NoFuture'
  <2>1. ASSUME NEW o \in Keys PROVE files[o].p.etag <= version'[o] /\ files[o].f.etag <= version'[o]
    <3>1. files[o].p.etag \in Int /\ files[o].f.etag \in Int
      <4>1. files[o].p \in AnyFile /\ files[o].f \in AnyFile
        BY DEF CacheInv, CacheTypes
      <4>2. \A file \in AnyFile : file.etag \in Int
        BY FilesAreTyped
      <4>3. QED BY <4>1, <4>2
    <3>2. files[o].p.etag <= version[o] /\ files[o].f.etag <= version[o]
      BY DEF CacheInv, NoFuture
    <3>3. QED BY <1>1, <3>1, <3>2
  <2>2. QED BY <1>2, <2>1 DEF NoFuture
<1>4. ASSUME req # Idle PROVE (IF req.phase = "sent" THEN SentInv ELSE BodyInv)'
  <2>1. req.key \in Keys
    BY <1>4 DEF CacheInv, CacheTypes, Requests
  <2>2. CASE req.phase = "sent"
    BY <1>2, <1>4, <2>2 DEF CacheInv, SentInv
  <2>3. CASE req.phase # "sent"
    <3>1. BodyInv /\ Partial' = Partial
      BY <1>2, <1>4, <2>3 DEF CacheInv, Partial
    <3>2. req.served \in 1 .. version'[req.key]
      BY <1>1, <2>1, <3>1 DEF BodyInv
    <3>3. BodyInv'
      BY <1>2, <3>1, <3>2 DEF BodyInv
    <3>4. QED BY <1>2, <2>3, <3>3
  <2>4. QED BY <2>2, <2>3
<1>5. QED BY <1>1, <1>2, <1>3, <1>4 DEF CacheInv

\* The steps of the cache, whoever makes them
LEMMA CacheStepKeeps ==
  ASSUME CacheInv, NEW modes \in SUBSET {"atomic", "in_place"}, CacheStep(modes)
  PROVE  CacheInv'
BY FetchKeeps, RedirectedKeeps, AnsweredKeeps, ReceiveKeeps, CompleteKeeps, CrashKeeps,
   ForgetKeeps, RaiseKeeps DEF CacheStep, Transfer

\* What the two modules do to the cache
LEMMA CacheSteps ==
  ASSUME CacheInv, Next
  PROVE  CacheStep(Modes)
<1>1. CASE \E k \in Keys : DeleteKey(k)
  <2>1. PICK k \in Keys : DeleteKey(k)
    BY <1>1
  <2>2. /\ files \in [Keys -> [p : AnyFile, f : AnyFile]] /\ faults \in 0 .. MaxFaults /\ Absent \in AnyFile
    BY ReadableParts DEF CacheInv, CacheTypes
  <2>3. files' = [files EXCEPT ![k]["f"] = Absent]
    BY <2>1 DEF DeleteKey
  <2>4. /\ files' \in [Keys -> [p : AnyFile, f : AnyFile]] /\ \A o \in Keys \ {k} : files'[o] = files[o]
        /\ files'[k].f = Absent /\ files'[k].p = files[k].p
    BY <2>2, <2>3, OneFile
  <2>5. \A o \in Keys : files'[o].p \in {files[o].p, Absent} /\ files'[o].f \in {files[o].f, Absent}
    BY <2>4
  <2>6. QED BY <2>1, <2>2, <2>4, <2>5 DEF CacheStep, Forget, DeleteKey
<1>2. CASE \E k \in Keys : Publish(k)
  <2>1. PICK k \in Keys : Publish(k)
    BY <1>2
  <2>2. version \in [Keys -> 1 .. MaxVersion]
    BY DEF CacheInv, CacheTypes
  <2>3. version[k] < MaxVersion /\ version' = [version EXCEPT ![k] = version[k] + 1]
    BY <2>1 DEF Publish
  <2>4. version[k] + 1 \in 1 .. MaxVersion
    BY <2>2, <2>3, CacheAssumption
  <2>5. version' \in [Keys -> 1 .. MaxVersion] /\ version'[k] = version[k] + 1
        /\ \A o \in Keys \ {k} : version'[o] = version[o]
    BY <2>2, <2>3, <2>4
  <2>6. \A o \in Keys : version[o] <= version'[o]
    BY <2>2, <2>5
  <2>7. QED BY <2>1, <2>5, <2>6 DEF CacheStep, Raise, Publish
<1>3. CASE Clear
  <2>1. files' = [k \in Keys |-> [p |-> Absent, f |-> Absent]] /\ Absent \in AnyFile
    BY <1>3, ReadableParts DEF Clear
  <2>2. faults' \in 0 .. MaxFaults
    BY <1>3 DEF Clear, CacheInv, CacheTypes
  <2>3. files' \in [Keys -> [p : AnyFile, f : AnyFile]]
        /\ \A k \in Keys : files'[k].p = Absent /\ files'[k].f = Absent
    BY <2>1
  <2>4. QED BY <1>3, <2>2, <2>3 DEF CacheStep, Forget, Clear
<1>4. QED BY <1>1, <1>2, <1>3 DEF Next, CacheStep

\* The launch drops the files of a resource when its call has returned.
LEMMA EndForgets ==
  ASSUME CacheInv, NEW outcome, NEW cleared, End(outcome, cleared), req = Idle, faults' \in 0 .. MaxFaults
  PROVE  Forget
<1>1. files \in [Keys -> [p : AnyFile, f : AnyFile]] /\ Absent \in AnyFile
  BY ReadableParts DEF CacheInv, CacheTypes
<1>2. \A k \in Keys : /\ files'[k] \in [p : AnyFile, f : AnyFile] /\ files'[k].p = files[k].p
                      /\ files'[k].f = IF k \in cleared THEN Absent ELSE files[k].f
  <2> TAKE k \in Keys
  <2>1. files'[k] = IF k \in cleared THEN [files[k] EXCEPT !.f = Absent] ELSE files[k]
    BY DEF End
  <2>2. QED BY <1>1, <2>1
<1>3. files' = [k \in Keys |-> files'[k]]
  BY DEF End
<1>4. files' \in [Keys -> [p : AnyFile, f : AnyFile]]
  BY <1>2, <1>3
<1>5. QED BY <1>2, <1>4 DEF Forget, End

\* Every step of a launch is a step of the cache, or leaves it alone.
LEMMA LaunchSteps ==
  ASSUME CacheInv, LoadNext
  PROVE  CacheStep({"atomic"}) \/ UNCHANGED vars
<1>0. ManifestKey \in Keys /\ BundleKey \in Keys
  BY AppLoadAssumption
<1>1. ASSUME NEW k \in Keys, Fetch(k, "atomic") PROVE CacheStep({"atomic"})
  BY <1>1 DEF CacheStep
<1>2. ASSUME NEW outcome, NEW cleared, End(outcome, cleared), req = Idle,
             UNCHANGED faults \/ Fault("wasm") \/ Fault("manifest")
      PROVE  CacheStep({"atomic"})
  <2>1. faults' \in 0 .. MaxFaults
    BY <1>2, FaultCounts DEF CacheInv, CacheTypes
  <2>2. QED BY <1>2, <2>1, EndForgets DEF CacheStep
<1>3. ASSUME NEW cleared, LoadBundle(cleared), req = Idle PROVE CacheStep({"atomic"})
  BY <1>2, <1>3 DEF LoadBundle
<1>4. CASE Launch
  BY <1>0, <1>1, <1>4 DEF Launch
<1>5. CASE ManifestFetched
  <2>1. req = Idle
    BY <1>5 DEF ManifestFetched, FetchReturned, Returned
  <2>2. \/ Fetch(BundleKey, "atomic")
        \/ End("broken", {ManifestKey}) /\ Fault("manifest")
        \/ End("failed", {}) /\ UNCHANGED faults
        \/ LoadBundle({ManifestKey})
        \/ End("failed", {ManifestKey}) /\ UNCHANGED faults
    BY <1>5 DEF ManifestFetched
  <2>3. QED BY <1>0, <1>1, <1>2, <1>3, <2>1, <2>2
<1>6. CASE BundleFetched
  <2>1. req = Idle
    BY <1>6 DEF BundleFetched, FetchReturned, Returned
  <2>2. \/ End("failed", {ManifestKey, BundleKey}) /\ UNCHANGED faults
        \/ LoadBundle({}) \/ DeleteKey(BundleKey)
    BY <1>6 DEF BundleFetched
  <2>3. CASE DeleteKey(BundleKey)
    <3>1. /\ files \in [Keys -> [p : AnyFile, f : AnyFile]] /\ faults \in 0 .. MaxFaults /\ Absent \in AnyFile
      BY ReadableParts DEF CacheInv, CacheTypes
    <3>2. files' = [files EXCEPT ![BundleKey]["f"] = Absent]
      BY <2>3 DEF DeleteKey
    <3>3. /\ files' \in [Keys -> [p : AnyFile, f : AnyFile]]
          /\ \A o \in Keys \ {BundleKey} : files'[o] = files[o]
          /\ files'[BundleKey].f = Absent /\ files'[BundleKey].p = files[BundleKey].p
      BY <1>0, <3>1, <3>2, OneFile
    <3>4. \A o \in Keys : files'[o].p \in {files[o].p, Absent} /\ files'[o].f \in {files[o].f, Absent}
      BY <3>3
    <3>5. QED BY <2>3, <3>1, <3>3, <3>4 DEF CacheStep, Forget, DeleteKey
  <2>4. QED BY <1>2, <1>3, <2>1, <2>2, <2>3
<1>7. CASE FetchAgain
  BY <1>0, <1>1, <1>7 DEF FetchAgain
<1>8. CASE Exit
  BY <1>8 DEF Exit
<1>9. CASE \E k \in Keys : Retry(k)
  BY <1>1, <1>9 DEF Retry
<1>10. CASE Release
  <2>1. version \in [Keys -> 1 .. MaxVersion]
    BY DEF CacheInv, CacheTypes
  <2>2. version' = [k \in Keys |-> version[k] + 1] /\ \A k \in Keys : version[k] < MaxVersion
    BY <1>10 DEF Release
  <2>3. \A k \in Keys : version[k] + 1 \in 1 .. MaxVersion /\ version[k] <= version[k] + 1
    BY <2>1, <2>2, CacheAssumption
  <2>4. version' \in [Keys -> 1 .. MaxVersion] /\ \A k \in Keys : version[k] <= version'[k]
    BY <2>2, <2>3
  <2>5. QED BY <1>10, <2>4 DEF CacheStep, Raise, Release
<1>11. CASE Transfer \/ Die
  BY <1>11 DEF CacheStep, Die
<1>12. QED BY <1>4, <1>5, <1>6, <1>7, <1>8, <1>9, <1>10, <1>11 DEF LoadNext, Player

\* Another value of the variables is another state.
LEMMA StutterKeeps ==
  ASSUME CacheInv, UNCHANGED vars
  PROVE  CacheInv'
<1>1. UNCHANGED <<files, req, status, version, faults>>
  BY DEF vars
<1>2. Partial' = Partial
  BY <1>1 DEF Partial
<1>3. SentInv' = SentInv /\ BodyInv' = BodyInv
  BY <1>1, <1>2 DEF SentInv, BodyInv
<1>4. QED BY <1>1, <1>3 DEF CacheInv, CacheTypes, NoFuture

\* The files of the cache, at rest or under a fetch in either mode, are parts of
\* versions that were served, whatever fails (cache.c:300-700).
THEOREM CacheIsSound == Spec => []CacheInv
<1>1. CacheInv /\ [Next]_vars => CacheInv'
  BY CacheSteps, CacheStepKeeps, StutterKeeps, CacheAssumption
<1>2. QED BY InitCache, <1>1, PTL DEF Spec

\* The same of the cache in the launch of an application, which drops files itself.
THEOREM LaunchesKeepCache == LoadSpec => []CacheInv
<1>1. CacheInv /\ [LoadNext]_lvars => CacheInv'
  <2>1. UNCHANGED lvars => UNCHANGED vars
    BY DEF lvars
  <2>2. QED BY <2>1, LaunchSteps, CacheStepKeeps, StutterKeeps
<1>2. LoadInit => CacheInv
  BY InitCache DEF LoadInit
<1>3. QED BY <1>1, <1>2, PTL DEF LoadSpec

\* Parts of versions are files.
LEMMA FilesAreFiles == \A file \in AnyFile : file \in File
<1> SUFFICES ASSUME NEW file \in AnyFile PROVE file \in File
  OBVIOUS
<1> DEFINE Bodies == UNION {[1 .. n -> 1 .. MaxVersion] : n \in 0 .. 2}
<1>1. \A v \in 0 .. MaxVersion : \A l \in -1 .. 2 : \A b \in Bodies :
        [etag |-> v, length |-> l, body |-> b] \in File
  BY DEF File
<1>2. <<>> \in Bodies
  <2>1. <<>> \in [1 .. 0 -> 1 .. MaxVersion]
    OBVIOUS
  <2>2. QED BY <2>1
<1>3. \A n \in 0 .. 2 : \A v \in 1 .. MaxVersion : [i \in 1 .. n |-> v] \in Bodies
  OBVIOUS
<1> HIDE DEF Bodies
<1>4. CASE file \in {Absent, Empty}
  <2>1. 0 \in 0 .. MaxVersion /\ 0 \in -1 .. 2 /\ -1 \in -1 .. 2
    BY CacheAssumption
  <2>2. QED BY <1>1, <1>2, <1>4, <2>1 DEF Absent, Empty, NoEtag
<1>5. CASE file \notin {Absent, Empty}
  <2>1. PICK v \in 1 .. MaxVersion : \E n \in 0 .. Size(v) : file = Part(v, n)
    BY <1>5 DEF AnyFile
  <2>2. PICK n \in 0 .. Size(v) : file = Part(v, n)
    BY <2>1
  <2>3. Size(v) \in {1, 2}
    BY CacheAssumption, SizeIsSmall
  <2>4. n \in 0 .. 2 /\ v \in 0 .. MaxVersion /\ Size(v) \in -1 .. 2
    BY <2>3, CacheAssumption
  <2>5. [i \in 1 .. n |-> v] \in Bodies
    BY <1>3, <2>4
  <2>6. QED BY <1>1, <2>2, <2>4, <2>5 DEF Part
<1>6. QED BY <1>4, <1>5

\* A part that has the length its header says is all of its version.
LEMMA WholeWhenSound == CacheInv => ReadableIsWhole
<1> SUFFICES ASSUME CacheInv PROVE ReadableIsWhole
  OBVIOUS
<1>1. TypeOK
  <2>1. files \in [Keys -> [p : File, f : File]]
    BY FilesAreFiles DEF CacheInv, CacheTypes
  <2>2. status.result \in Results
    BY DEF CacheInv, CacheTypes
  <2>3. req # Idle => req.recv_status \in {"init", "append", "skip"} /\ req.recv_count \in 0 .. 2
    <3> SUFFICES ASSUME req # Idle PROVE req.recv_status \in {"init", "append", "skip"} /\ req.recv_count \in 0 .. 2
      OBVIOUS
    <3>1. req \in Requests /\ (SentInv \/ BodyInv)
      BY DEF CacheInv, CacheTypes
    <3>2. QED BY <3>1 DEF Requests, SentInv, BodyInv
  <2>4. QED BY <2>1, <2>2, <2>3 DEF TypeOK, CacheInv, CacheTypes, Results
<1>2. ASSUME NEW k \in Keys, Readable(files[k].f)
      PROVE  files[k].f.body = [i \in 1 .. Size(files[k].f.etag) |-> files[k].f.etag]
  <2>1. files[k].f \in AnyFile
    BY DEF CacheInv, CacheTypes
  <2>2. files[k].f = Part(files[k].f.etag, Size(files[k].f.etag))
    BY <1>2, <2>1, ReadableParts
  <2>3. PICK e : e = files[k].f.etag
    OBVIOUS
  <2>4. files[k].f = Part(e, Size(e))
    BY <2>2, <2>3
  <2>5. Part(e, Size(e)).body = [i \in 1 .. Size(e) |-> e]
    BY DEF Part
  <2>6. QED BY <2>3, <2>4, <2>5
<1>3. QED BY <1>1, <1>2 DEF ReadableIsWhole

\* A file of the cache that can be read is a whole version as the server sent it,
\* with either way of updating, whatever is lost, crashes or fails to be written:
\* a file with the wrong length is refused (get_file_header, on_data_received).
THEOREM CacheReadsWhole == Spec => []ReadableIsWhole
BY CacheIsSound, WholeWhenSound, PTL

\* The same of the files a launch reads.
THEOREM LaunchReadsWhole == LoadSpec => []ReadableIsWhole
BY LaunchesKeepCache, WholeWhenSound, PTL

-----------------------------------------------------------------------------
(* What success means, when no write fails and nobody is redirected. *)

\* A part that is all there is whole, and only a version is.
LEMMA WholeParts ==
  /\ \A v \in 1 .. MaxVersion : Whole(Part(v, Size(v))) /\ Part(v, Size(v)).etag = v
                                /\ Readable(Part(v, Size(v)))
  /\ \A file \in AnyFile : (file = Absent \/ Whole(file)) /\ file.etag # 0 =>
       file = Part(file.etag, Size(file.etag))
<1>1. ASSUME NEW v \in 1 .. MaxVersion
      PROVE  Whole(Part(v, Size(v))) /\ Part(v, Size(v)).etag = v /\ Readable(Part(v, Size(v)))
  <2>1. Size(v) \in 0 .. Size(v)
    BY CacheAssumption, SizeIsSmall
  <2>2. Part(v, Size(v)).etag = v /\ Readable(Part(v, Size(v)))
    BY <2>1, ReadableParts
  <2>3. QED BY <2>2 DEF Whole
<1>2. Absent.etag = 0
  BY ReadableParts
<1>3. QED BY <1>1, <1>2 DEF Whole

\* A fetch remembers the version of the whole file it found.
LEMMA MildFetch ==
  ASSUME CacheInv, MildInv, NEW k \in Keys, Fetch(k, "atomic")
  PROVE  MildInv'
<1>1. /\ req = Idle /\ UNCHANGED <<files, version, faults>>
      /\ \/ req' = Idle /\ status' = [key |-> k, served |-> 0, result |-> "invalid_version"]
         \/ /\ status' = NoStatus /\ req' \in Requests /\ req'.phase = "sent" /\ req'.key = k
            /\ req'.mode = "atomic" /\ req'.recv_status = "init"
            /\ req'.if_none_match = files[k].f.etag
  BY FetchStarts
<1>2. status'.result # "success"
  BY <1>1 DEF NoStatus
<1>3. (req # Idle => req.mode = "atomic" /\ IF req.phase = "sent" THEN MildSent ELSE MildBody)'
  BY <1>1 DEF MildSent
<1>4. QED BY <1>1, <1>2, <1>3 DEF MildInv

\* An answer is a new version, the one that was remembered, or an error.
LEMMA MildAnswered ==
  ASSUME CacheInv, MildInv, Answered
  PROVE  MildInv'
<1>1. /\ req \in Requests /\ req # Idle /\ req.phase = "sent"
      /\ UNCHANGED <<files, status, version>>
      /\ req' \in Requests /\ req'.phase = "body" /\ req'.key = req.key /\ req'.mode = req.mode
      /\ req'.served = version[req.key]
      /\ req'.recv_status = IF req.response_code = 0 /\ req'.code # 200 THEN "skip" ELSE req.recv_status
      /\ \/ req'.code = 304 /\ req'.left = 0 /\ req.if_none_match = version[req.key]
         \/ req'.code = 200
         \/ req'.code = 404
  BY AnswerComes
<1>2. MildSent /\ SentInv /\ status = NoStatus /\ req.mode = "atomic"
  BY <1>1 DEF MildInv, CacheInv, CacheTypes
<1>3. req'.recv_status = IF req'.code # 200 THEN "skip" ELSE "init"
  BY <1>1, <1>2 DEF MildSent, SentInv
<1>4. MildBody'
  BY <1>1, <1>2, <1>3 DEF MildBody, MildSent
<1>5. QED BY <1>1, <1>2, <1>4 DEF MildInv, NoStatus

\* A piece is added to what was received, and the last one makes the file whole.
LEMMA MildReceive ==
  ASSUME CacheInv, MildInv, Mild, Receive
  PROVE  MildInv'
<1>1. req # Idle /\ req.phase = "body" /\ req.left > 0
  BY DEF Receive, Idle
<1>2. CacheTypes /\ BodyInv /\ MildBody /\ req.mode = "atomic" /\ req \in Requests /\ status = NoStatus
  BY <1>1 DEF MildInv, CacheInv, CacheTypes
<1>3. /\ req.served \in 1 .. MaxVersion /\ req.left \in 1 .. 2 /\ req.recv_count \in 0 .. 2
      /\ req.key \in Keys /\ Size(req.served) \in {1, 2} /\ req.code # 304
  <2>1. version[req.key] \in 1 .. MaxVersion /\ req.key \in Keys
    BY <1>2 DEF CacheTypes, Requests
  <2>2. req.served \in 1 .. MaxVersion
    BY <1>2, <2>1, CacheAssumption DEF BodyInv
  <2>3. QED BY <1>1, <1>2, <2>1, <2>2, CacheAssumption, SizeIsSmall DEF BodyInv, MildBody
<1>4. PICK n \in 0 .. req.recv_count : n = req.recv_count
  BY <1>3
<1>5. req.recv_status # "skip" /\ req.content_size > 0 => Opened = Part(req.served, n)
  <2>1. CASE req.recv_status = "append"
    <3>1. Opened = files[req.key].p
      BY <1>2, <2>1 DEF Opened, Target
    <3>2. files[req.key].p = Part(req.served, req.recv_count)
      BY <1>1, <1>2, <2>1 DEF MildBody
    <3>3. QED BY <1>4, <3>1, <3>2
  <2>2. CASE req.recv_status = "init" /\ req.content_size > 0
    <3>1. req.content_size = Size(req.served) /\ req.recv_count = 0
      BY <1>2, <2>2 DEF BodyInv
    <3>2. Opened = [etag |-> req.served, length |-> Size(req.served), body |-> <<>>]
      BY <2>2, <3>1 DEF Opened
    <3>3. Opened = Part(req.served, 0)
      BY <1>2, <3>2, PartGrows DEF Requests
    <3>4. QED BY <1>4, <3>1, <3>3
  <2>3. QED BY <1>2, <2>1, <2>2 DEF Requests
<1>6. /\ \/ PieceFails /\ UNCHANGED files
         \/ req.recv_status = "skip" /\ req' = WithLeft(req, req.left - 1) /\ UNCHANGED <<files, status>>
         \/ /\ req.recv_status # "skip" /\ req.content_size = Size(req.served) /\ UNCHANGED status
            /\ \E o : Flag(o) /\ req' = WithPiece(req, o, req.recv_count + 1, req.left - 1)
            /\ Lands(n + 1) \/ (Lands(n) /\ "write" \in Faults)
         \/ /\ PieceFails /\ req.left = 1
            /\ files' = [files EXCEPT ![req.key]["p"] = Part(req.served, n + 1)]
            /\ req.recv_status # "skip" /\ req.content_size = Size(req.served)
  BY <1>5, PieceComes
<1>7. CASE PieceFails /\ UNCHANGED files
  BY <1>7 DEF PieceFails, MildInv
<1>8. CASE req.recv_status = "skip" /\ req' = WithLeft(req, req.left - 1) /\ UNCHANGED <<files, status>>
  <2>1. PICK j \in Int : j = req.left - 1
    BY <1>3
  <2>2. PICK g : g = WithLeft(req, j)
    OBVIOUS
  <2>3. /\ g \in Requests
        /\ g.left = j /\ g.recv_status = req.recv_status /\ g.mode = req.mode
        /\ g.key = req.key /\ g.phase = req.phase /\ g.served = req.served /\ g.code = req.code
    BY <1>2, <2>2, LeftFields
  <2>4. req' = g
    BY <1>8, <2>1, <2>2
  <2>5. MildBody'
    BY <1>2, <1>3, <1>8, <2>3, <2>4 DEF MildBody
  <2>6. QED BY <1>1, <1>2, <1>8, <2>3, <2>4, <2>5 DEF MildInv, NoStatus
<1>9. CASE /\ req.recv_status # "skip" /\ req.content_size = Size(req.served) /\ UNCHANGED status
           /\ \E o : Flag(o) /\ req' = WithPiece(req, o, req.recv_count + 1, req.left - 1)
           /\ Lands(n + 1) \/ (Lands(n) /\ "write" \in Faults)
  <2>1. PICK i \in Int : i = req.recv_count + 1
    BY <1>3
  <2>2. PICK j \in Int : j = req.left - 1
    BY <1>3
  <2>3. PICK o : Flag(o) /\ req' = WithPiece(req, o, req.recv_count + 1, req.left - 1)
    BY <1>9
  <2>4. PICK g : g = WithPiece(req, o, i, j)
    OBVIOUS
  <2>5. /\ g \in Requests /\ g.recv_status = "append" /\ g.recv_count = i /\ g.left = j
        /\ g.key = req.key /\ g.phase = req.phase /\ g.mode = req.mode /\ g.served = req.served
        /\ g.code = req.code
    BY <1>2, <2>1, <2>2, <2>3, <2>4, PieceFields
  <2>6. req' = g
    BY <2>1, <2>2, <2>3, <2>4
  <2>7. Lands(n + 1) /\ req.code = 200 /\ req.left = req.content_size - req.recv_count
    BY <1>2, <1>3, <1>9 DEF Mild, BodyInv
  <2>8. n + 1 = i /\ (req.left = 1 => i = Size(req.served)) /\ (req.left > 1 <=> j # 0)
    BY <1>3, <1>4, <1>9, <2>1, <2>2, <2>7
  <2>9. /\ \A k \in Keys \ {req.key} : files'[k] = files[k]
        /\ \/ /\ j # 0
              /\ files'[req.key].p = Part(req.served, i) /\ files'[req.key].f = files[req.key].f
           \/ /\ j = 0 /\ files'[req.key].f = Part(req.served, Size(req.served))
    BY <1>2, <1>3, <2>2, <2>7, <2>8 DEF Lands
  <2>10. MildBody'
    BY <2>5, <2>6, <2>7, <2>9 DEF MildBody
  <2>11. Whole(Part(req.served, Size(req.served)))
    BY <1>3, WholeParts
  <2>12. \A k \in Keys : files'[k].f = Absent \/ Whole(files'[k].f)
    BY <1>3, <2>9, <2>11 DEF MildInv
  <2>13. status'.result # "success"
    BY <1>2, <1>9 DEF NoStatus
  <2>14. QED BY <1>1, <1>2, <2>5, <2>6, <2>10, <2>12, <2>13 DEF MildInv
<1>10. CASE /\ PieceFails /\ req.left = 1
            /\ files' = [files EXCEPT ![req.key]["p"] = Part(req.served, n + 1)]
            /\ req.recv_status # "skip" /\ req.content_size = Size(req.served)
  <2>1. req.left = req.content_size - req.recv_count
    BY <1>2, <1>3, <1>10 DEF BodyInv
  <2>2. n + 1 \in 0 .. Size(req.served)
    BY <1>3, <1>4, <1>10, <2>1
  <2>3. Part(req.served, n + 1) \in AnyFile
    BY <1>3, <2>2, ReadableParts
  <2>4. /\ \A o \in Keys \ {req.key} : files'[o] = files[o]
        /\ files'[req.key].f = files[req.key].f
    BY <1>2, <1>3, <1>10, <2>3, OneFile DEF CacheTypes
  <2>5. \A k \in Keys : files'[k].f = files[k].f
    BY <2>4
  <2>6. QED BY <1>10, <2>5 DEF PieceFails, MildInv
<1>11. QED BY <1>6, <1>7, <1>8, <1>9, <1>10

\* A fetch that succeeds leaves the version it was answered with in the cache.
LEMMA MildEnds ==
  ASSUME CacheInv, MildInv, Complete \/ Lose
  PROVE  MildInv'
<1>1. req # Idle /\ UNCHANGED files
  BY DEF Complete, Lose, Idle
<1>2. CacheTypes /\ req \in Requests
  BY <1>1 DEF CacheInv, CacheTypes
<1>3. PICK c : Finish(req, c) /\ ((Complete /\ c = req.code) \/ c = LostCode)
  BY DEF Complete, Lose
<1>4. PICK r \in Requests : r = req
  BY <1>2
<1>5. /\ req' = Idle /\ status' = [key |-> r.key, served |-> r.served, result |-> Result(r, c)]
      /\ Result(r, c) = "success" => c \in {200, 304} /\ (c = 200 => r.content_size > 0)
  BY <1>3, <1>4, FetchEnds
<1>6. ASSUME status'.result = "success"
      PROVE  /\ req.key \in Keys /\ req.served \in 1 .. MaxVersion
             /\ files[req.key].f = Part(req.served, Size(req.served))
  <2>1. c \in {200, 304} /\ (c = 200 => req.content_size > 0) /\ Complete /\ c = req.code
    BY <1>3, <1>4, <1>5, <1>6 DEF LostCode
  <2>2. BodyInv /\ MildBody /\ req.left = 0
    BY <1>1, <2>1 DEF Complete, CacheInv, MildInv
  <2>3. req.key \in Keys /\ version[req.key] \in 1 .. MaxVersion /\ files[req.key].f \in AnyFile
    BY <1>2 DEF CacheTypes, Requests
  <2>4. req.served \in 1 .. MaxVersion /\ req.served # 0
    BY <2>2, <2>3, CacheAssumption DEF BodyInv
  <2>5. CASE c = 304
    <3>1. req.served = files[req.key].f.etag
      BY <2>1, <2>2, <2>5 DEF MildBody
    <3>2. files[req.key].f = Part(files[req.key].f.etag, Size(files[req.key].f.etag))
      BY <2>3, <2>4, <3>1, WholeParts DEF MildInv
    <3>3. QED BY <2>3, <2>4, <3>1, <3>2
  <2>6. CASE c = 200
    <3>1. req.recv_status # "skip" /\ req.content_size > 0
      BY <2>1, <2>2, <2>6 DEF MildBody
    <3>2. req.left = req.content_size - req.recv_count /\ req.content_size \in Int /\ req.recv_count \in Int
      BY <1>2, <2>2, <3>1 DEF BodyInv, Requests
    <3>3. req.recv_count # 0
      BY <2>2, <3>1, <3>2
    <3>4. req.recv_status = "append"
      BY <1>2, <2>2, <3>1, <3>3 DEF BodyInv, Requests
    <3>5. QED BY <2>2, <2>3, <2>4, <3>4 DEF MildBody
  <2>7. QED BY <2>1, <2>5, <2>6
<1>7. status'.key = req.key /\ status'.served = req.served
  BY <1>4, <1>5
<1>8. QED BY <1>1, <1>5, <1>6, <1>7 DEF MildInv

\* A crash cuts the partial file, never the final one.
LEMMA MildCrash ==
  ASSUME CacheInv, MildInv, Crash
  PROVE  MildInv'
<1>1. req' = Idle /\ status' = NoStatus
  BY DEF Crash
<1>2. CacheTypes
  BY DEF CacheInv
<1>3. \A k \in Keys : files'[k].f = files[k].f
  <2>1. CASE UNCHANGED files
    BY <2>1
  <2>2. CASE ~UNCHANGED files
    <3>1. req # Idle
      BY <2>2 DEF Crash, CutFiles
    <3>2. req \in Requests /\ req.mode = "atomic"
      BY <1>2, <3>1 DEF CacheTypes, MildInv
    <3>3. PICK k \in Keys : k = req.key
      BY <3>2 DEF Requests
    <3>4. Target(req.mode) = "p"
      BY <3>2 DEF Target
    <3>5. PICK file \in Cut(files[k]["p"]) : files' = [files EXCEPT ![k]["p"] = file]
      BY <2>2, <3>1, <3>3, <3>4 DEF Crash, CutFiles
    <3>6. files[k]["p"] \in AnyFile
      BY <1>2 DEF CacheTypes
    <3>7. file \in AnyFile
      BY <3>5, <3>6, PartIsCut
    <3>8. /\ \A o \in Keys \ {k} : files'[o] = files[o]
          /\ files'[k].f = files[k].f
      BY <1>2, <3>5, <3>7, OneFile DEF CacheTypes
    <3>9. QED BY <3>8
  <2>3. QED BY <2>1, <2>2
<1>4. QED BY <1>1, <1>3 DEF MildInv, NoStatus

\* What was dropped is absent, and no success is reported of it.
LEMMA MildForget ==
  ASSUME MildInv, Forget
  PROVE  MildInv'
<1>1. \A k \in Keys : files'[k].f \in {files[k].f, Absent}
  BY DEF Forget
<1>2. \A k \in Keys : files'[k].f = Absent \/ Whole(files'[k].f)
  BY <1>1 DEF MildInv
<1>3. QED BY <1>2 DEF MildInv, Forget, NoStatus

\* MildInv is about the files, the request and the status.
LEMMA MildSame ==
  ASSUME MildInv, UNCHANGED <<files, req, status>>
  PROVE  MildInv'
<1>1. MildSent' = MildSent /\ MildBody' = MildBody
  BY DEF MildSent, MildBody
<1>2. QED BY <1>1 DEF MildInv

\* So every step of the cache keeps MildInv.
LEMMA MildStepKeeps ==
  ASSUME CacheInv, MildInv, Mild, NEW modes \in SUBSET {"atomic"}, CacheStep(modes)
  PROVE  MildInv'
<1>1. CASE \E k \in Keys : \E mode \in modes : Fetch(k, mode)
  BY <1>1, MildFetch
<1>2. ~Redirected
  BY DEF Mild, Redirected, Fault
<1>3. CASE Transfer
  BY <1>2, <1>3, MildAnswered, MildReceive, MildEnds DEF Transfer
<1>4. CASE Crash
  BY <1>4, MildCrash
<1>5. CASE Forget
  BY <1>5, MildForget
<1>6. CASE Raise
  BY <1>6, MildSame DEF Raise
<1>7. QED BY <1>1, <1>3, <1>4, <1>5, <1>6 DEF CacheStep

\* It holds of the empty cache.
LEMMA MildInit == Init => MildInv
BY DEF Init, MildInv, NoStatus

\* It implies the property.
LEMMA CachedWhenMild == MildInv => SuccessMeansCached
BY WholeParts DEF MildInv, SuccessMeansCached

\* As long as no write fails unseen and no answer redirects, a fetch into a partial
\* file that reports success has left in the cache the version it was answered with
\* (cache_fetch_resource_from_url).  Either fault, or a fetch in place, breaks it:
\* see the disagreements in the README.
THEOREM CacheTellsTheTruth ==
  ASSUME Mild, Modes \subseteq {"atomic"}
  PROVE  Spec => []SuccessMeansCached
<1>1. CacheInv /\ MildInv /\ [Next]_vars => CacheInv' /\ MildInv'
  <2>1. UNCHANGED vars => UNCHANGED <<files, req, status>>
    BY DEF vars
  <2>2. QED BY <2>1, CacheSteps, CacheStepKeeps, StutterKeeps, MildStepKeeps, MildSame, CacheAssumption
<1>2. QED BY InitCache, MildInit, CachedWhenMild, <1>1, PTL DEF Spec

\* The same of the fetches of a launch, which use a partial file.
THEOREM LaunchTellsTheTruth ==
  ASSUME Mild
  PROVE  LoadSpec => []SuccessMeansCached
<1>1. CacheInv /\ MildInv /\ [LoadNext]_lvars => CacheInv' /\ MildInv'
  <2>1. UNCHANGED lvars => UNCHANGED vars
    BY DEF lvars
  <2>2. UNCHANGED vars => UNCHANGED <<files, req, status>>
    BY DEF vars
  <2>3. QED BY <2>1, <2>2, LaunchSteps, CacheStepKeeps, StutterKeeps, MildStepKeeps, MildSame
<1>2. LoadInit => CacheInv /\ MildInv
  BY InitCache, MildInit DEF LoadInit
<1>3. QED BY CachedWhenMild, <1>1, <1>2, PTL DEF LoadSpec

-----------------------------------------------------------------------------
(* The launch. *)

\* What a fetch under way may do: it goes on, or it ends; it leaves the other resources
\* alone, and what it makes of its own is a part of a version.
Moves ==
  /\ req # Idle /\ req.key \in Keys /\ UNCHANGED version
  /\ \/ req' = Idle /\ status'.key = req.key
     \/ req' # Idle /\ req'.key = req.key /\ req'.mode = req.mode /\ status' = status
  /\ \A k \in Keys : /\ k # req.key => files'[k] = files[k]
                     /\ files'[k].f = files[k].f \/ files'[k].f.etag \in 1 .. MaxVersion

\* A piece changes the files of the request's resource only, and a whole file only
\* for a whole one.
LEMMA ReceiveMoves ==
  ASSUME CacheInv, Receive
  PROVE  Moves
<1>1. PICK n \in 0 .. req.recv_count :
         req.recv_status # "skip" /\ req.content_size > 0 => Opened = Part(req.served, n)
  BY OpenedIsPart
<1>2. CacheTypes
  BY DEF CacheInv
<1>3. /\ req \in Requests /\ req.phase = "body" /\ BodyInv /\ req.left > 0 /\ UNCHANGED version
      /\ \/ PieceFails /\ UNCHANGED files
         \/ req.recv_status = "skip" /\ req' = WithLeft(req, req.left - 1) /\ UNCHANGED <<files, status>>
         \/ /\ req.recv_status # "skip" /\ req.content_size = Size(req.served) /\ UNCHANGED status
            /\ \E o : Flag(o) /\ req' = WithPiece(req, o, req.recv_count + 1, req.left - 1)
            /\ Lands(n + 1) \/ (Lands(n) /\ "write" \in Faults)
         \/ /\ PieceFails /\ req.recv_status # "skip" /\ req.left = 1
            /\ files' = [files EXCEPT ![req.key]["p"] = Part(req.served, n + 1)]
            /\ req.content_size = Size(req.served)
  BY <1>1, PieceComes
<1>4. req # Idle /\ req.key \in Keys
  BY <1>3, NotIdle DEF Requests
<1>5. /\ req.served \in 1 .. MaxVersion /\ req.left \in Int /\ req.recv_count \in Nat
      /\ Size(req.served) \in {1, 2}
  <2>1. version[req.key] \in 1 .. MaxVersion /\ req.left \in Int
    BY <1>2, <1>3, <1>4 DEF CacheTypes, Requests
  <2>2. req.served \in 1 .. MaxVersion
    BY <1>3, <2>1, CacheAssumption DEF BodyInv
  <2>3. QED BY <1>3, <2>1, <2>2, CacheAssumption, SizeIsSmall DEF BodyInv
<1>6. CASE PieceFails /\ UNCHANGED files
  BY <1>3, <1>4, <1>6 DEF PieceFails, Moves
<1>7. CASE req.recv_status = "skip" /\ req' = WithLeft(req, req.left - 1) /\ UNCHANGED <<files, status>>
  <2>1. PICK j \in Int : j = req.left - 1
    BY <1>5
  <2>2. PICK g : g = WithLeft(req, j)
    OBVIOUS
  <2>3. g \in Requests /\ g.mode = req.mode /\ g.key = req.key
    BY <1>3, <2>2, LeftFields
  <2>4. req' = g /\ g # Idle
    BY <1>7, <2>1, <2>2, <2>3, NotIdle
  <2>5. QED BY <1>3, <1>4, <1>7, <2>3, <2>4 DEF Moves
<1>8. CASE /\ req.recv_status # "skip" /\ req.content_size = Size(req.served) /\ UNCHANGED status
           /\ \E o : Flag(o) /\ req' = WithPiece(req, o, req.recv_count + 1, req.left - 1)
           /\ Lands(n + 1) \/ (Lands(n) /\ "write" \in Faults)
  <2>1. PICK i \in Int : i = req.recv_count + 1
    BY <1>5
  <2>2. PICK j \in Int : j = req.left - 1
    BY <1>5
  <2>3. PICK o : Flag(o) /\ req' = WithPiece(req, o, req.recv_count + 1, req.left - 1)
    BY <1>8
  <2>4. PICK g : g = WithPiece(req, o, i, j)
    OBVIOUS
  <2>5. g \in Requests /\ g.mode = req.mode /\ g.key = req.key
    <3>1. req \in Requests
      BY <1>3
    <3>2. QED BY <2>1, <2>2, <2>3, <2>4, <3>1, PieceFields
  <2>6. req' = g /\ g # Idle
    BY <2>1, <2>2, <2>3, <2>4, <2>5, NotIdle
  <2>7. PICK m \in {n, n + 1} : Lands(m)
    BY <1>8
  <2>8. \A k \in Keys \ {req.key} : files'[k] = files[k]
    BY <2>7 DEF Lands
  <2>9. files'[req.key].f = files[req.key].f \/ files'[req.key].f = Part(req.served, m)
    BY <1>3, <2>7 DEF Lands, Requests
  <2>10. Part(req.served, m).etag = req.served
    BY DEF Part
  <2>11. files'[req.key].f = files[req.key].f \/ files'[req.key].f.etag \in 1 .. MaxVersion
    BY <1>5, <2>9, <2>10
  <2>12. QED BY <1>3, <1>4, <1>8, <2>5, <2>6, <2>8, <2>11 DEF Moves
<1>9. CASE /\ PieceFails /\ req.recv_status # "skip" /\ req.left = 1
           /\ files' = [files EXCEPT ![req.key]["p"] = Part(req.served, n + 1)]
           /\ req.content_size = Size(req.served)
  <2>1. req.left = req.content_size - req.recv_count
    BY <1>3, <1>5, <1>9 DEF BodyInv
  <2>2. n + 1 \in 0 .. Size(req.served)
    BY <1>1, <1>5, <1>9, <2>1
  <2>3. Part(req.served, n + 1) \in AnyFile
    BY <1>5, <2>2, ReadableParts
  <2>4. /\ \A o \in Keys \ {req.key} : files'[o] = files[o]
        /\ files'[req.key].f = files[req.key].f
    BY <1>2, <1>4, <1>9, <2>3, OneFile DEF CacheTypes
  <2>5. QED BY <1>3, <1>4, <1>9, <2>4 DEF Moves, PieceFails
<1>10. QED BY <1>3, <1>6, <1>7, <1>8, <1>9

\* The same of every step of a fetch that was begun.
LEMMA TransferMoves ==
  ASSUME CacheInv, Transfer
  PROVE  Moves
<1>1. CASE Redirected
  <2>1. req # Idle /\ req' = SeeStatus(req, 301) /\ UNCHANGED <<files, status, version>>
    BY <1>1 DEF Redirected, Idle
  <2>2. req \in Requests
    BY <2>1 DEF CacheInv, CacheTypes
  <2>3. PICK g \in Requests :
           /\ g = SeeStatus(req, 301) /\ g.key = req.key /\ g.mode = req.mode /\ g.phase = req.phase
           /\ g.recv_count = req.recv_count /\ g.if_none_match = req.if_none_match
           /\ g.recv_status = IF req.response_code = 0 /\ 301 # 200 THEN "skip" ELSE req.recv_status
    BY <2>2, StatusSeen
  <2>4. req' # Idle /\ req'.key = req.key /\ req'.mode = req.mode /\ req.key \in Keys
    BY <2>1, <2>2, <2>3, NotIdle DEF Requests
  <2>5. QED BY <2>1, <2>4 DEF Moves
<1>2. CASE Answered
  <2>1. /\ req \in Requests /\ req # Idle /\ UNCHANGED <<files, status, version>>
        /\ req' \in Requests /\ req'.key = req.key /\ req'.mode = req.mode
    BY <1>2, AnswerComes
  <2>2. req' # Idle /\ req.key \in Keys
    BY <2>1, NotIdle DEF Requests
  <2>3. QED BY <2>1, <2>2 DEF Moves
<1>3. CASE Complete \/ Lose
  <2>1. req # Idle /\ UNCHANGED files
    BY <1>3 DEF Complete, Lose, Idle
  <2>2. req \in Requests
    BY <2>1 DEF CacheInv, CacheTypes
  <2>3. PICK c : Finish(req, c)
    BY <1>3 DEF Complete, Lose
  <2>4. req' = Idle /\ UNCHANGED version /\ status'.key = req.key /\ req.key \in Keys
    BY <2>2, <2>3 DEF Finish, Requests
  <2>5. QED BY <2>1, <2>4 DEF Moves
<1>4. QED BY <1>1, <1>2, <1>3, ReceiveMoves DEF Transfer

\* The end of a launch leaves what is not cleared.
LEMMA EndLeaves ==
  ASSUME NEW outcome, NEW cleared, End(outcome, cleared)
  PROVE  /\ pc' = outcome /\ status' = NoStatus
         /\ UNCHANGED <<req, version, attempt, retry_index, signed, had>>
         /\ \A k \in Keys \ cleared : files'[k] = files[k]
BY DEF End

\* What a file tells when it can be read
LEMMA CachedParts ==
  ASSUME CacheInv, NEW k \in Keys, Cached(k)
  PROVE  files[k].f.etag \in 1 .. MaxVersion /\ files[k].f.etag <= version[k]
         /\ version[k] \in 1 .. MaxVersion
BY ReadableParts DEF CacheInv, CacheTypes, NoFuture, Cached

\* A fetch starts: nothing is there yet, and nothing changed in the cache.
LEMMA FetchLeaves ==
  ASSUME CacheInv, NEW k \in Keys, Fetch(k, "atomic")
  PROVE  /\ req = Idle /\ UNCHANGED <<files, version>>
         /\ req' # Idle => req'.mode = "atomic" /\ req'.key = k
         /\ status'.result # "none" => status'.key = k
<1>1. /\ req = Idle /\ UNCHANGED <<files, version, faults>>
      /\ \/ req' = Idle /\ status' = [key |-> k, served |-> 0, result |-> "invalid_version"]
         \/ /\ status' = NoStatus /\ req' \in Requests /\ req'.phase = "sent" /\ req'.key = k
            /\ req'.mode = "atomic"
  BY FetchStarts
<1>2. QED BY <1>1 DEF NoStatus

\* Each step of a launch keeps LaunchInv.
LEMMA LaunchKeeps ==
  ASSUME CacheInv, LaunchInv, LoadNext
  PROVE  LaunchInv'
<1>0. ManifestKey \in Keys /\ BundleKey \in Keys /\ MaxRetries \in Nat /\ ManifestKey # BundleKey
      /\ MaxVersion \in Nat
  BY AppLoadAssumption, CacheAssumption
<1>1. ASSUME NEW outcome \in {"loaded", "failed", "broken"}, NEW cleared, End(outcome, cleared), req = Idle,
             outcome = "loaded" => /\ Cached(BundleKey) /\ BundleKey \notin cleared
                                   /\ signed # 0 => files[BundleKey].f.etag = signed
                                   /\ signed = 0 => had
      PROVE  LaunchInv'
  <2>1. /\ pc' = outcome /\ status' = NoStatus /\ req' = Idle
        /\ UNCHANGED <<version, attempt, retry_index, signed, had>>
        /\ \A k \in Keys \ cleared : files'[k] = files[k]
    BY <1>1, EndLeaves
  <2>2. outcome = "loaded" => Cached(BundleKey)' /\ files'[BundleKey] = files[BundleKey]
    BY <1>0, <1>1, <2>1 DEF Cached
  <2>3. QED BY <1>1, <2>1, <2>2 DEF LaunchInv, Places, NoStatus
<1>2. ASSUME NEW cleared, LoadBundle(cleared), req = Idle, Cached(BundleKey), BundleKey \notin cleared,
             signed # 0 => files[BundleKey].f.etag = signed, signed = 0 => had
      PROVE  LaunchInv'
  BY <1>1, <1>2 DEF LoadBundle
<1>3. CASE Launch
  <2>1. /\ req = Idle /\ UNCHANGED <<files, version>>
        /\ req' # Idle => req'.mode = "atomic" /\ req'.key = ManifestKey
        /\ status'.result # "none" => status'.key = ManifestKey
    BY <1>0, <1>3, FetchLeaves DEF Launch
  <2>2. /\ pc' = "manifest" /\ attempt' = 0 /\ retry_index' = 0 /\ signed' = 0 /\ had' = Cached(BundleKey)
    BY <1>3 DEF Launch
  <2>3. Cached(BundleKey)' <=> Cached(BundleKey)
    BY <2>1 DEF Cached
  <2>4. had' \in BOOLEAN /\ (had' <=> Cached(BundleKey)')
    BY <2>2, <2>3 DEF Cached, Readable
  <2>5. QED BY <1>0, <2>1, <2>2, <2>4 DEF LaunchInv, Places, Wanted
<1>4. CASE ManifestFetched
  <2>1. req = Idle /\ pc = "manifest"
    BY <1>4 DEF ManifestFetched, FetchReturned, Returned
  <2>2. signed = 0 /\ (had <=> Cached(BundleKey))
    BY <2>1 DEF LaunchInv
  <2>3. CASE /\ Succeeded /\ Cached(ManifestKey)
             /\ Fetch(BundleKey, "atomic")
             /\ pc' = "bundle" /\ attempt' = 0 /\ signed' = files[ManifestKey].f.etag
             /\ UNCHANGED <<retry_index, had>>
    <3>1. /\ req' # Idle => req'.mode = "atomic" /\ req'.key = BundleKey
          /\ status'.result # "none" => status'.key = BundleKey
      BY <1>0, <2>3, FetchLeaves
    <3>2. signed' \in Nat
      BY <1>0, <2>3, CachedParts
    <3>3. QED BY <1>0, <2>3, <3>1, <3>2 DEF LaunchInv, Places, Wanted
  <2>4. CASE End("failed", {}) \/ End("failed", {ManifestKey}) \/ End("broken", {ManifestKey})
    BY <1>1, <2>1, <2>4
  <2>5. CASE Cached(BundleKey) /\ LoadBundle({ManifestKey})
    BY <1>0, <1>2, <2>1, <2>2, <2>5
  <2>6. QED BY <1>4, <2>3, <2>4, <2>5 DEF ManifestFetched
<1>5. CASE BundleFetched
  <2>1. req = Idle
    BY <1>5 DEF BundleFetched, FetchReturned, Returned
  <2>2. CASE End("failed", {ManifestKey, BundleKey})
    BY <1>1, <2>1, <2>2
  <2>3. CASE Cached(BundleKey) /\ Verified /\ LoadBundle({})
    <3>1. files[BundleKey].f.etag = signed /\ signed # 0
      BY <1>0, <2>3, CachedParts DEF Verified
    <3>2. QED BY <1>2, <2>1, <2>3, <3>1
  <2>4. CASE /\ retry_index < MaxRetries /\ DeleteKey(BundleKey)
             /\ pc' = "again" /\ attempt' = 0 /\ retry_index' = retry_index + 1
             /\ UNCHANGED <<signed, had>>
    <3>1. retry_index' \in 0 .. MaxRetries
      BY <1>0, <2>4 DEF LaunchInv
    <3>2. req' = Idle /\ status'.result = "none"
      BY <2>1, <2>4 DEF DeleteKey, NoStatus
    <3>3. QED BY <1>0, <2>4, <3>1, <3>2 DEF LaunchInv, Places
  <2>5. QED BY <1>5, <2>2, <2>3, <2>4 DEF BundleFetched
<1>6. CASE FetchAgain
  <2>1. /\ req' # Idle => req'.mode = "atomic" /\ req'.key = BundleKey
        /\ status'.result # "none" => status'.key = BundleKey
        /\ pc' = "bundle" /\ UNCHANGED <<attempt, retry_index, signed, had>>
    BY <1>0, <1>6, FetchLeaves DEF FetchAgain
  <2>2. QED BY <2>1 DEF LaunchInv, Places, Wanted
<1>7. CASE Exit
  <2>1. UNCHANGED <<files, req, status>> /\ pc' = "idle" /\ had' = FALSE
        /\ UNCHANGED <<attempt, retry_index, signed>> /\ pc \notin {"manifest", "bundle"}
    BY <1>7 DEF Exit, vars
  <2>2. QED BY <2>1 DEF LaunchInv, Places
<1>8. CASE \E k \in Keys : Retry(k)
  <2>1. PICK k \in Keys : Retry(k)
    BY <1>8
  <2>2. /\ status.result # "none" /\ status.key = k /\ attempt < MaxRetries
        /\ attempt' = attempt + 1 /\ UNCHANGED <<pc, retry_index, signed, had>>
    BY <2>1 DEF Retry, Returned
  <2>3. /\ UNCHANGED files
        /\ req' # Idle => req'.mode = "atomic" /\ req'.key = k
        /\ status'.result # "none" => status'.key = k
    BY <2>1, FetchLeaves DEF Retry
  <2>4. k = Wanted /\ pc \in {"manifest", "bundle"} /\ Wanted' = Wanted
    BY <2>2 DEF LaunchInv, Wanted
  <2>5. Cached(BundleKey)' <=> Cached(BundleKey)
    BY <2>3 DEF Cached
  <2>6. attempt' \in 0 .. MaxRetries
    BY <1>0, <2>2 DEF LaunchInv
  <2>7. QED BY <2>2, <2>3, <2>4, <2>5, <2>6 DEF LaunchInv
<1>9. CASE Transfer /\ UNCHANGED load
  <2>1. Moves /\ UNCHANGED <<pc, attempt, retry_index, signed, had>>
    BY <1>9, TransferMoves DEF load
  <2>2. /\ req # Idle /\ req.key = Wanted /\ pc \in {"manifest", "bundle"} /\ Wanted' = Wanted
        /\ req.mode = "atomic"
    BY <2>1 DEF Moves, LaunchInv, Wanted
  <2>3. /\ req' # Idle => req'.mode = "atomic" /\ req'.key = Wanted
        /\ status'.result # "none" => status'.key = Wanted
    BY <2>1, <2>2 DEF Moves, LaunchInv
  <2>4. pc = "manifest" => files'[BundleKey] = files[BundleKey]
    BY <1>0, <2>1, <2>2 DEF Moves, Wanted
  <2>5. pc = "manifest" => (Cached(BundleKey)' <=> Cached(BundleKey))
    BY <2>4 DEF Cached
  <2>6. QED BY <2>1, <2>2, <2>3, <2>5 DEF LaunchInv
<1>10. CASE Release
  <2>1. UNCHANGED <<files, req, status, pc, attempt, retry_index, signed, had>>
    BY <1>10 DEF Release, load
  <2>2. (Cached(BundleKey)' <=> Cached(BundleKey)) /\ Wanted' = Wanted
    BY <2>1 DEF Cached, Wanted
  <2>3. QED BY <2>1, <2>2 DEF LaunchInv
<1>11. CASE Die
  <2>1. req' = Idle /\ status'.result = "none" /\ pc' = "idle" /\ had' = FALSE
        /\ UNCHANGED <<attempt, retry_index, signed>>
    BY <1>11 DEF Die, Crash, NoStatus
  <2>2. QED BY <2>1 DEF LaunchInv, Places
<1>12. QED BY <1>3, <1>4, <1>5, <1>6, <1>7, <1>8, <1>9, <1>10, <1>11 DEF LoadNext, Player

\* So does a step of something else.
LEMMA LaunchSame ==
  ASSUME LaunchInv, UNCHANGED lvars
  PROVE  LaunchInv'
<1>1. UNCHANGED <<files, req, status, pc, attempt, retry_index, signed, had>>
  BY DEF lvars, vars, load
<1>2. (Cached(BundleKey)' <=> Cached(BundleKey)) /\ Wanted' = Wanted
  BY <1>1 DEF Cached, Wanted
<1>3. QED BY <1>1, <1>2 DEF LaunchInv

\* It holds before the first launch.
LEMMA LaunchInit == LoadInit => LaunchInv
<1> SUFFICES ASSUME LoadInit PROVE LaunchInv
  OBVIOUS
<1>1. /\ pc = "idle" /\ attempt = 0 /\ retry_index = 0 /\ signed = 0
      /\ req = Idle /\ status.result = "none"
  BY DEF LoadInit, Init, NoStatus
<1>2. had \in BOOLEAN
  BY DEF LoadInit
<1>3. attempt \in 0 .. MaxRetries /\ retry_index \in 0 .. MaxRetries /\ signed \in Nat
  BY <1>1, AppLoadAssumption
<1>4. QED BY <1>1, <1>2, <1>3 DEF LaunchInv, Places

\* Whatever fails, a launch is at the resource it fetches, and it is loaded only with
\* the bundle the manifest signs or the cached one (app_load_from_manifest).
THEOREM LaunchesAreSound == LoadSpec => []LaunchInv
<1>1. CacheInv /\ LaunchInv /\ [LoadNext]_lvars => LaunchInv'
  BY LaunchKeeps, LaunchSame
<1>2. QED BY LaunchesKeepCache, LaunchInit, <1>1, PTL DEF LoadSpec

\* Whatever fails, a bundle that is loaded is whole, and of the version the manifest
\* signs or, when there was no manifest, one found in the cache
\* (load_wasm_from_manifest).
THEOREM LaunchLoadsSigned == LoadSpec => []LoadsSignedBundle
<1>1. LaunchInv => LoadsSignedBundle
  BY DEF LaunchInv, LoadsSignedBundle
<1>2. QED BY LaunchesAreSound, <1>1, PTL

\* A bundle that can be read still can when a fetch went on, or has ended.
LEMMA MovesKeepCached ==
  ASSUME CacheInv', MildInv', Moves, NEW k \in Keys, Cached(k)
  PROVE  Cached(k)'
<1>1. files'[k].f \in AnyFile /\ (files'[k].f = Absent \/ Whole(files'[k].f))
  BY DEF CacheInv, CacheTypes, MildInv
<1>2. CASE files'[k].f = files[k].f
  BY <1>2 DEF Cached
<1>3. CASE files'[k].f.etag \in 1 .. MaxVersion
  <2>1. PICK v \in 1 .. MaxVersion : v = files'[k].f.etag
    BY <1>3
  <2>2. v # 0
    BY CacheAssumption
  <2>3. files'[k].f = Part(v, Size(v))
    BY <1>1, <2>1, <2>2, WholeParts
  <2>4. Readable(files'[k].f)
    BY <2>3, WholeParts
  <2>5. QED BY <2>4 DEF Cached
<1>4. QED BY <1>2, <1>3 DEF Moves

\* Nothing was released that was not there before.
LEMMA FirstBefore ==
  ASSUME CacheInv, LoadNext \/ UNCHANGED lvars, FirstRelease'
  PROVE  FirstRelease /\ ~Release
<1>1. version \in [Keys -> 1 .. MaxVersion] /\ ManifestKey \in Keys /\ MaxVersion \in Nat
  BY AppLoadAssumption, CacheAssumption DEF CacheInv, CacheTypes
<1>2. ~Release
  <2> SUFFICES ASSUME Release PROVE FALSE
    OBVIOUS
  <2>1. version' = [k \in Keys |-> version[k] + 1]
    BY DEF Release
  <2>2. version'[ManifestKey] = version[ManifestKey] + 1 /\ version[ManifestKey] \in 1 .. MaxVersion
    BY <1>1, <2>1
  <2>3. version'[ManifestKey] = 1
    BY <1>1 DEF FirstRelease
  <2>4. QED BY <2>2, <2>3
<1>3. \A k \in Keys : version[k] <= version'[k] /\ version[k] \in 1 .. MaxVersion /\ version'[k] = 1
  <2>1. CASE UNCHANGED version
    BY <1>1, <2>1 DEF FirstRelease
  <2>2. CASE CacheStep({"atomic"})
    <3>1. ASSUME NEW k \in Keys, Fetch(k, "atomic") PROVE UNCHANGED version
      BY <3>1 DEF Fetch
    <3>2. Transfer => UNCHANGED version
      BY TransferMoves DEF Moves
    <3>3. CASE Raise
      BY <1>1, <3>3 DEF Raise, FirstRelease
    <3>4. QED BY <2>1, <2>2, <3>1, <3>2, <3>3 DEF CacheStep, Crash, Forget
  <2>3. QED BY <2>1, <2>2, LaunchSteps DEF lvars, vars
<1>4. \A k \in Keys : version[k] = 1
  BY <1>3
<1>5. QED BY <1>2, <1>4 DEF FirstRelease

\* Each step of a launch keeps PresentInv.
LEMMA PresentKeeps ==
  ASSUME CacheInv, CacheInv', MildInv, MildInv', LaunchInv, PresentInv, LoadNext
  PROVE  PresentInv'
<1> SUFFICES ASSUME FirstRelease', FirstRelease, ~Release
             PROVE  /\ pc' # "again"
                    /\ pc' = "bundle" => signed' = 1 /\ (had' => Cached(BundleKey)')
                    /\ pc' = "failed" => ~had'
  BY FirstBefore DEF PresentInv
<1>0. ManifestKey \in Keys /\ BundleKey \in Keys
  BY AppLoadAssumption
<1>1. /\ pc # "again"
      /\ pc = "bundle" => signed = 1 /\ (had => Cached(BundleKey))
      /\ pc = "failed" => ~had
  BY DEF PresentInv
<1>2. \A k \in Keys : Cached(k) => files[k].f.etag = 1
  <2> TAKE k \in Keys
  <2>1. CASE Cached(k)
    <3>1. files[k].f.etag \in 1 .. MaxVersion /\ files[k].f.etag <= version[k] /\ version[k] = 1
      BY <2>1, CachedParts DEF FirstRelease
    <3>2. QED BY <3>1, CacheAssumption
  <2>2. QED BY <2>1
<1>3. ASSUME NEW k \in Keys, Fetch(k, "atomic") PROVE Cached(BundleKey)' <=> Cached(BundleKey)
  BY <1>3 DEF Fetch, Cached
<1>4. CASE Launch
  BY <1>4 DEF Launch
<1>5. CASE ManifestFetched
  <2>1. pc = "manifest" /\ status.key = ManifestKey
    BY <1>5 DEF ManifestFetched, FetchReturned, Returned
  <2>2. had <=> Cached(BundleKey)
    BY <2>1 DEF LaunchInv
  <2>3. CASE /\ Cached(ManifestKey) /\ Fetch(BundleKey, "atomic")
             /\ pc' = "bundle" /\ signed' = files[ManifestKey].f.etag /\ UNCHANGED had
    BY <1>0, <1>2, <1>3, <2>2, <2>3
  <2>4. ~(Succeeded /\ ~Cached(ManifestKey))
    BY <2>1, CachedWhenMild DEF Succeeded, Cached, SuccessMeansCached
  <2>5. CASE LoadBundle({ManifestKey})
    BY <2>5 DEF LoadBundle, End
  <2>6. CASE ~Cached(BundleKey) /\ End("failed", {ManifestKey})
    BY <2>2, <2>6 DEF End
  <2>7. CASE End("broken", {ManifestKey})
    BY <2>7 DEF End
  <2>8. QED BY <1>5, <2>3, <2>4, <2>5, <2>6, <2>7 DEF ManifestFetched
<1>6. CASE BundleFetched
  <2>1. signed = 1 /\ (had => Cached(BundleKey))
    BY <1>1, <1>6 DEF BundleFetched
  <2>2. CASE ~Cached(BundleKey) /\ End("failed", {ManifestKey, BundleKey})
    BY <2>1, <2>2 DEF End
  <2>3. CASE LoadBundle({})
    BY <2>3 DEF LoadBundle, End
  <2>4. Cached(BundleKey) => Verified
    BY <1>0, <1>2, <2>1 DEF Verified
  <2>5. QED BY <1>6, <2>2, <2>3, <2>4 DEF BundleFetched
<1>7. CASE FetchAgain
  BY <1>1, <1>7 DEF FetchAgain
<1>8. CASE Exit
  BY <1>8 DEF Exit
<1>9. CASE \E k \in Keys : Retry(k)
  BY <1>1, <1>3, <1>9 DEF Retry
<1>10. CASE Transfer /\ UNCHANGED load
  <2>1. UNCHANGED <<pc, signed, had>> /\ Moves
    BY <1>10, TransferMoves DEF load
  <2>2. Cached(BundleKey) => Cached(BundleKey)'
    BY <1>0, <2>1, MovesKeepCached
  <2>3. QED BY <1>1, <2>1, <2>2
<1>11. CASE Die
  BY <1>11 DEF Die
<1>12. QED BY <1>4, <1>5, <1>6, <1>7, <1>8, <1>9, <1>10, <1>11 DEF LoadNext, Player

\* So does a step of something else.
LEMMA PresentSame ==
  ASSUME PresentInv, UNCHANGED lvars
  PROVE  PresentInv'
<1>1. UNCHANGED <<files, version, pc, signed, had>>
  BY DEF lvars, vars, load
<1>2. (Cached(BundleKey)' <=> Cached(BundleKey)) /\ (FirstRelease' <=> FirstRelease)
  BY <1>1 DEF Cached, FirstRelease
<1>3. QED BY <1>1, <1>2 DEF PresentInv

\* As long as no write fails unseen and no answer redirects, a launch that found a
\* whole bundle in the cache does not end in failure while nothing new was released
\* (app_load_from_manifest).
THEOREM LaunchPresentsCached ==
  ASSUME Mild
  PROVE  LoadSpec => []PresentsCachedBundle
<1>1. CacheInv /\ MildInv /\ LaunchInv /\ PresentInv /\ [LoadNext]_lvars => CacheInv' /\ MildInv' /\ PresentInv'
  <2>1. UNCHANGED lvars => UNCHANGED vars
    BY DEF lvars
  <2>2. UNCHANGED vars => UNCHANGED <<files, req, status>>
    BY DEF vars
  <2>3. CacheInv /\ MildInv /\ [LoadNext]_lvars => CacheInv' /\ MildInv'
    BY <2>1, <2>2, LaunchSteps, CacheStepKeeps, StutterKeeps, MildStepKeeps, MildSame
  <2>4. QED BY <2>3, PresentKeeps, PresentSame
<1>2. LoadInit => CacheInv /\ MildInv /\ PresentInv
  BY InitCache, MildInit DEF LoadInit, PresentInv
<1>3. PresentInv => PresentsCachedBundle
  BY DEF PresentInv, PresentsCachedBundle, FirstRelease
<1>4. QED BY LaunchesAreSound, <1>1, <1>2, <1>3, PTL DEF LoadSpec

-----------------------------------------------------------------------------
(* The message of the bus. *)

\* The sizes the code computes at compile time
MessageSizes ==
  /\ F \in Nat \ {0} /\ D \in Nat \ {0} /\ D < F /\ Frags \in Nat \ {0}
  /\ Amounts \subseteq Nat \ {0}

\* A seek into the first fragment finds its data where a write put it.
HeadSeeksAgree == HeadSeeks => MsgOfs = D

Frag == [0 .. F - 1 -> Msg!Field .. F * Frags]

\* The offsets whose byte is there, and the byte at a place
Holds(fr, p) == fr[(p \div F) + 1][p % F]
WrittenOf(fr) == {o \in 0 .. F * Len(fr) - D - 1 : Holds(fr, D + o) = o}

\* The place of the cursor is that of its offset, wherever it came from.
MsgInv ==
  /\ phase \in {"none", "build", "deliver"}
  /\ frags \in Seq(Frag) /\ Len(frags) <= Frags
  /\ size \in Nat /\ cur \in [frag : Nat \ {0}, ofs : 0 .. F, cursor : Nat]
  /\ (cur.frag - 1) * F + cur.ofs = D + cur.cursor /\ cur.cursor <= size
  /\ phase = "none" => frags = <<>> /\ size = 0 /\ cur = Msg!Start
  /\ phase # "none" =>
       /\ Len(frags) > 0 /\ reserved = F * Len(frags) - D /\ size <= reserved
       /\ \A i \in 0 .. F - 1 : frags[1][i] = Msg!Field <=> i < D

\* Places are in fragments.
LEMMA PlacesSplit ==
  ASSUME MessageSizes, NEW p \in Nat
  PROVE  /\ p \div F \in Nat /\ p % F \in 0 .. F - 1 /\ (p \div F) * F + (p % F) = p
         /\ \A m \in Nat : p < F * m <=> p \div F < m
<1> DEFINE q == p \div F
           r == p % F
<1>1. F \in Nat \ {0}
  BY DEF MessageSizes
<1>2. q \in Int /\ r \in 0 .. F - 1 /\ p = F * q + r
  BY <1>1
<1> HIDE DEF q, r
<1>3. q \in Nat
  <2> SUFFICES ASSUME q < 0 PROVE FALSE
    BY <1>2
  <2>1. q + 1 <= 0
    BY <1>2
  <2>2. F * (q + 1) <= 0
    BY <1>1, <1>2, <2>1
  <2>3. F * (q + 1) = F * q + F
    BY <1>1, <1>2
  <2>4. QED BY <1>1, <1>2, <2>2, <2>3
<1>4. ASSUME NEW m \in Nat PROVE p < F * m <=> q < m
  <2>1. CASE q < m
    <3>1. F * (q + 1) <= F * m
      BY <1>1, <1>3, <2>1
    <3>2. F * (q + 1) = F * q + F
      BY <1>1, <1>3
    <3>3. F * m \in Int /\ F * q \in Int
      BY <1>1, <1>3
    <3>4. QED BY <1>1, <1>2, <2>1, <3>1, <3>2, <3>3
  <2>2. CASE ~(q < m)
    <3>1. F * m <= F * q
      BY <1>1, <1>3, <2>2
    <3>2. F * m \in Int /\ F * q \in Int
      BY <1>1, <1>3
    <3>3. QED BY <1>1, <1>2, <2>2, <3>1, <3>2
  <2>3. QED BY <2>1, <2>2
<1>5. q * F = F * q
  BY <1>1, <1>3
<1>6. q * F + r = p
  BY <1>2, <1>5
<1>7. QED BY <1>2, <1>3, <1>4, <1>6 DEF q, r

\* As many fragments as a size needs, or as many as there are
LEMMA MessageGrows ==
  ASSUME MessageSizes, MsgInv, phase # "none", NEW n \in Nat
  PROVE  LET g == Msg!Grown(n)
         IN /\ g \in Seq(Frag) /\ Len(g) \in Len(frags) .. Frags
            /\ \A k \in 1 .. Len(frags) : g[k] = frags[k]
            /\ \A k \in Len(frags) + 1 .. Len(g) : g[k] = Msg!Fresh
            /\ Msg!Reserved(n) => n <= F * Len(g) - D
<1>1. /\ F \in Nat \ {0} /\ D \in Nat \ {0} /\ Frags \in Nat \ {0}
      /\ frags \in Seq(Frag) /\ Len(frags) \in Nat /\ Len(frags) <= Frags
      /\ reserved = F * Len(frags) - D
  BY DEF MessageSizes, MsgInv
<1>2. reserved \in Int
  BY <1>1
<1> DEFINE d == Msg!Needed(n)
           m == Frags - Len(frags)
           k == IF d <= m THEN d ELSE m
<1>3. d \in Nat /\ n <= reserved + F * d
  <2>1. CASE n <= reserved
    <3>1. d = 0
      BY <2>1 DEF Msg!Needed
    <3>2. QED BY <1>1, <1>2, <2>1, <3>1
  <2>2. CASE n > reserved
    <3> DEFINE x == n - reserved + F - 1
    <3>1. x \in Nat
      BY <1>1, <1>2, <2>2
    <3>2. d = x \div F
      BY <1>2, <2>2 DEF Msg!Needed
    <3> HIDE DEF x
    <3>3. x \div F \in Nat /\ x % F \in 0 .. F - 1 /\ (x \div F) * F + (x % F) = x
      BY <3>1, PlacesSplit
    <3>4. d \in Nat /\ F * d = d * F /\ x - F < F * d
      BY <1>1, <3>1, <3>2, <3>3
    <3>5. F * d \in Int
      BY <1>1, <3>4
    <3>6. QED BY <1>1, <1>2, <3>1, <3>4, <3>5 DEF x
  <2>3. QED BY <1>2, <2>1, <2>2
<1> HIDE DEF d
<1>4. k \in 0 .. m /\ m \in Nat
  BY <1>1, <1>3
<1>5. Msg!Min({d, m}) = k
  BY <1>1, <1>3 DEF Msg!Min
<1>6. Msg!Grown(n) = frags \o [i \in 1 .. k |-> Msg!Fresh]
  BY <1>5 DEF Msg!Grown, d
<1>7. Msg!Fresh \in Frag
  <2>1. Msg!Junk \in Msg!Field .. F * Frags
    BY <1>1 DEF Msg!Junk, Msg!Field
  <2>2. QED BY <2>1 DEF Msg!Fresh, Frag
<1> DEFINE t == [i \in 1 .. k |-> Msg!Fresh]
<1>8. t \in Seq(Frag) /\ Len(t) = k /\ \A i \in 1 .. k : t[i] = Msg!Fresh
  BY <1>4, <1>7
<1>9. Msg!Reserved(n) => d <= m
  BY DEF Msg!Reserved, d
<1> HIDE DEF t, m, k
<1>10. /\ frags \o t \in Seq(Frag) /\ Len(frags \o t) = Len(frags) + k
       /\ \A i \in 1 .. Len(frags) : (frags \o t)[i] = frags[i]
       /\ \A i \in Len(frags) + 1 .. Len(frags) + k : (frags \o t)[i] = t[i - Len(frags)]
  BY <1>1, <1>4, <1>8
<1>11. \A i \in Len(frags) + 1 .. Len(frags) + k : (frags \o t)[i] = Msg!Fresh
  <2> TAKE i \in Len(frags) + 1 .. Len(frags) + k
  <2>1. i - Len(frags) \in 1 .. k
    BY <1>1, <1>4
  <2>2. QED BY <1>8, <1>10, <2>1
<1>12. Len(frags) + k \in Len(frags) .. Frags
  BY <1>1, <1>4 DEF m
<1>13. Msg!Reserved(n) => n <= F * (Len(frags) + k) - D
  <2> SUFFICES ASSUME Msg!Reserved(n) PROVE n <= F * (Len(frags) + k) - D
    OBVIOUS
  <2>1. k = d
    BY <1>9 DEF k
  <2>2. F * (Len(frags) + d) = F * Len(frags) + F * d /\ F * Len(frags) \in Int /\ F * d \in Int
    BY <1>1, <1>3
  <2>3. QED BY <1>1, <1>3, <2>1, <2>2
<1>14. Msg!Grown(n) = frags \o t
  BY <1>6 DEF t
<1>15. QED BY <1>10, <1>11, <1>12, <1>13, <1>14

\* Fragments that were added hold nothing.
LEMMA GrowsEmpty ==
  ASSUME MessageSizes, NEW fr \in Seq(Frag), NEW g \in Seq(Frag), Len(fr) <= Len(g),
         \A k \in 1 .. Len(fr) : g[k] = fr[k],
         \A k \in Len(fr) + 1 .. Len(g) : g[k] = Msg!Fresh
  PROVE  WrittenOf(g) = WrittenOf(fr)
<1>1. F \in Nat \ {0} /\ D \in Nat \ {0} /\ Len(fr) \in Nat /\ Len(g) \in Nat
  BY DEF MessageSizes
<1>2. F * Len(fr) \in Nat /\ F * Len(g) \in Nat /\ F * Len(fr) <= F * Len(g)
  BY <1>1
<1>3. ASSUME NEW o \in Nat PROVE o \in WrittenOf(g) <=> o \in WrittenOf(fr)
  <2> DEFINE p == D + o
             q == p \div F
  <2>1. p \in Nat
    BY <1>1
  <2> HIDE DEF p
  <2>2. /\ q \in Nat /\ p % F \in 0 .. F - 1
        /\ p < F * Len(g) <=> q < Len(g)
        /\ p < F * Len(fr) <=> q < Len(fr)
    BY <1>1, <2>1, PlacesSplit
  <2>3. /\ o \in 0 .. F * Len(g) - D - 1 <=> p < F * Len(g)
        /\ o \in 0 .. F * Len(fr) - D - 1 <=> p < F * Len(fr)
    BY <1>1, <1>2 DEF p
  <2> HIDE DEF q
  <2>4. CASE q < Len(fr)
    <3>1. q + 1 \in 1 .. Len(fr) /\ q < Len(g)
      BY <1>1, <2>2, <2>4
    <3>2. Holds(g, p) = Holds(fr, p)
      BY <3>1 DEF Holds, q
    <3>3. QED BY <2>2, <2>3, <2>4, <3>1, <3>2 DEF WrittenOf, p
  <2>5. CASE ~(q < Len(fr)) /\ q < Len(g)
    <3>1. q + 1 \in Len(fr) + 1 .. Len(g)
      BY <1>1, <2>2, <2>5
    <3>2. g[q + 1][p % F] = -1
      BY <2>2, <3>1 DEF Msg!Fresh, Msg!Junk
    <3>3. Holds(g, p) = -1
      BY <3>2 DEF Holds, q
    <3>4. o # -1
      OBVIOUS
    <3>5. QED BY <2>2, <2>3, <2>5, <3>3, <3>4 DEF WrittenOf, p
  <2>6. CASE ~(q < Len(g))
    BY <1>1, <2>2, <2>3, <2>6 DEF WrittenOf
  <2>7. QED BY <2>4, <2>5, <2>6
<1>4. WrittenOf(g) \subseteq Nat /\ WrittenOf(fr) \subseteq Nat
  BY <1>2 DEF WrittenOf
<1>5. QED BY <1>3, <1>4

\* What is stored is there, and nothing else changes.
LEMMA StoreAdds ==
  ASSUME MessageSizes, MsgInv, phase # "none", NEW g \in Seq(Frag),
         Len(g) \in Len(frags) .. Frags, g[1] = frags[1],
         NEW n \in Nat \ {0}, cur.cursor + n <= F * Len(g) - D
  PROVE  LET h == Msg!Stored(g, n)
         IN /\ h \in Seq(Frag) /\ Len(h) = Len(g)
            /\ \A i \in 0 .. F - 1 : h[1][i] = Msg!Field <=> i < D
            /\ WrittenOf(h) = WrittenOf(g) \cup cur.cursor .. cur.cursor + n - 1
<1>1. /\ F \in Nat \ {0} /\ D \in Nat \ {0} /\ Frags \in Nat \ {0} /\ Len(g) \in Nat
      /\ Len(g) > 0 /\ Len(g) <= Frags
      /\ \A i \in 0 .. F - 1 : g[1][i] = Msg!Field <=> i < D
  <2>1. F \in Nat \ {0} /\ D \in Nat \ {0} /\ Frags \in Nat \ {0}
    BY DEF MessageSizes
  <2>2. frags \in Seq(Frag) /\ Len(frags) > 0 /\ \A i \in 0 .. F - 1 : frags[1][i] = Msg!Field <=> i < D
    BY DEF MsgInv
  <2>3. Len(g) \in Nat /\ Len(frags) \in Nat
    BY <2>2
  <2>4. Len(g) > 0 /\ Len(g) <= Frags
    BY <2>1, <2>2, <2>3
  <2>5. QED BY <2>1, <2>2, <2>3, <2>4
<1>2. PICK c \in Nat : c = cur.cursor
  BY DEF MsgInv
<1>3. PICK lo \in Nat : lo = D + c
  BY <1>1
<1>4. Msg!Place(cur) = lo
  BY <1>2, <1>3 DEF MsgInv, Msg!Place
<1> DEFINE H(k, i) == LET at == (k - 1) * F + i
                      IN  IF at \in lo .. lo + n - 1 THEN c + at - lo ELSE g[k][i]
           h == [k \in DOMAIN g |-> [i \in 0 .. F - 1 |-> H(k, i)]]
<1>5. Msg!Stored(g, n) = h
  BY <1>2, <1>4 DEF Msg!Stored
<1>6. F * Len(g) <= F * Frags /\ F * Len(g) \in Nat /\ F * Frags \in Nat
  BY <1>1
<1>7. \A k \in 1 .. Len(g) : \A i \in 0 .. F - 1 : (k - 1) * F + i \in Nat
  <2> TAKE k \in 1 .. Len(g)
  <2> TAKE i \in 0 .. F - 1
  <2>1. F \in Nat /\ k - 1 \in Nat /\ i \in Nat
    BY <1>1
  <2>2. PICK q \in Nat : q = (k - 1) * F
    BY <2>1
  <2>3. q + i \in Nat
    BY <2>1, <2>2
  <2>4. QED BY <2>2, <2>3
<1>15. D \in Nat /\ lo + n <= F * Len(g)
  <2>1. PICK x \in Nat : x = F * Len(g)
    BY <1>6
  <2>2. c + n <= x - D /\ D \in Nat
    BY <1>1, <1>2, <2>1
  <2>3. lo + n <= x
    BY <1>3, <2>1, <2>2
  <2>4. QED BY <2>1, <2>2, <2>3
<1>8. \A k \in 1 .. Len(g) : \A i \in 0 .. F - 1 : \A at \in Nat : at = (k - 1) * F + i =>
        /\ h[k][i] = IF at \in lo .. lo + n - 1 THEN at - D ELSE g[k][i]
        /\ h[k][i] \in Msg!Field .. F * Frags
  <2> TAKE k \in 1 .. Len(g)
  <2> TAKE i \in 0 .. F - 1
  <2> TAKE at \in Nat
  <2> HAVE at = (k - 1) * F + i
  <2>1. k \in DOMAIN g
    OBVIOUS
  <2>2. h[k][i] = H(k, i)
    BY <2>1
  <2>3. g[k] \in Frag /\ g[k][i] \in Msg!Field .. F * Frags
    <3>1. g[k] \in Frag
      OBVIOUS
    <3>2. QED BY <3>1 DEF Frag
  <2>5. H(k, i) = IF at \in lo .. lo + n - 1 THEN c + at - lo ELSE g[k][i]
    OBVIOUS
  <2>6. c + at - lo = at - D
    BY <1>1, <1>3
  <2>8. PICK y \in Nat : y = F * Frags
    BY <1>6
  <2>9. at \in lo .. lo + n - 1 => at - D \in Msg!Field .. F * Frags
    <3>1. lo + n <= y
      <4>1. PICK z \in Nat : z = F * Len(g)
        BY <1>6
      <4>2. lo + n <= z /\ z <= y
        BY <1>6, <1>15, <2>8, <4>1
      <4>3. QED BY <4>2
    <3>2. D \in Nat /\ lo = D + c
      BY <1>3, <1>15
    <3>3. at \in lo .. lo + n - 1 => at - D \in -2 .. y
      BY <3>1, <3>2
    <3>4. Msg!Field = -2
      BY DEF Msg!Field
    <3>5. QED BY <2>8, <3>3, <3>4, Zenon
  <2> HIDE DEF H, h
  <2>10. CASE at \in lo .. lo + n - 1
    BY <2>2, <2>5, <2>6, <2>9, <2>10
  <2>11. CASE at \notin lo .. lo + n - 1
    BY <2>2, <2>3, <2>5, <2>11
  <2>12. QED BY <2>10, <2>11
<1>9. h \in Seq(Frag) /\ Len(h) = Len(g)
  <2>1. \A k \in 1 .. Len(g) : h[k] \in Frag
    <3> TAKE k \in 1 .. Len(g)
    <3>1. k \in DOMAIN g
      OBVIOUS
    <3>2. h[k] = [i \in 0 .. F - 1 |-> H(k, i)]
      BY <3>1
    <3>3. h[k] = [i \in 0 .. F - 1 |-> h[k][i]]
      BY <3>2
    <3>4. \A i \in 0 .. F - 1 : h[k][i] \in Msg!Field .. F * Frags
      <4> HIDE DEF h
      <4>1. QED BY <1>7, <1>8
    <3> HIDE DEF h, H
    <3>5. QED BY <3>3, <3>4 DEF Frag
  <2>2. h = [k \in 1 .. Len(g) |-> h[k]]
    OBVIOUS
  <2> HIDE DEF h, H
  <2>3. h \in [1 .. Len(g) -> Frag]
    BY <2>1, <2>2
  <2>4. PICK z \in Nat : z = Len(g)
    OBVIOUS
  <2>5. h \in [1 .. z -> Frag]
    BY <2>3, <2>4
  <2>6. h \in Seq(Frag) /\ Len(h) = z
    BY <2>5
  <2>7. QED BY <2>4, <2>6
<1> HIDE DEF h, H
<1>10. \A i \in 0 .. F - 1 : h[1][i] = Msg!Field <=> i < D
  <2> TAKE i \in 0 .. F - 1
  <2>1. (1 - 1) * F + i = i /\ 1 \in 1 .. Len(g)
    BY <1>1
  <2>3. h[1][i] = IF i \in lo .. lo + n - 1 THEN i - D ELSE g[1][i]
    BY <1>8, <2>1
  <2>4. CASE i \in lo .. lo + n - 1
    <3>1. ~(i < D) /\ i - D # -2 /\ h[1][i] = i - D
      BY <1>1, <1>3, <2>3, <2>4
    <3>2. QED BY <3>1 DEF Msg!Field
  <2>5. CASE i \notin lo .. lo + n - 1
    BY <1>1, <2>3, <2>5
  <2>6. QED BY <2>4, <2>5
<1>11. ASSUME NEW o \in Nat PROVE o \in WrittenOf(h) <=> o \in WrittenOf(g) \cup c .. c + n - 1
  <2> DEFINE p == D + o
             q == p \div F
             r == p % F
  <2>1. p \in Nat
    BY <1>1
  <2> HIDE DEF p
  <2>2. q \in Nat /\ r \in 0 .. F - 1 /\ (p < F * Len(g) <=> q < Len(g)) /\ q * F + r = p
    BY <1>1, <2>1, PlacesSplit
  <2>3. o \in 0 .. F * Len(g) - D - 1 <=> p < F * Len(g)
    BY <1>1, <1>6 DEF p
  <2>4. o \in c .. c + n - 1 <=> p \in lo .. lo + n - 1
    <3>1. D \in Nat /\ lo = D + c /\ p = D + o
      BY <1>3, <1>15 DEF p
    <3>2. o >= c <=> p >= lo
      BY <3>1
    <3>3. o <= c + n - 1 <=> p <= lo + n - 1
      BY <3>1
    <3>4. QED BY <2>1, <3>2, <3>3
  <2>5. p \in lo .. lo + n - 1 => p < F * Len(g)
    BY <1>3, <1>6, <1>15, <2>1
  <2>6. Holds(h, p) = h[q + 1][r] /\ Holds(g, p) = g[q + 1][r]
    BY DEF Holds
  <2> HIDE DEF q, r
  <2>7. /\ o \in WrittenOf(h) <=> p < F * Len(g) /\ Holds(h, p) = o
        /\ o \in WrittenOf(g) <=> p < F * Len(g) /\ Holds(g, p) = o
    BY <1>9, <2>3 DEF WrittenOf, p
  <2>8. CASE q < Len(g)
    <3>1. PICK k \in 1 .. Len(g) : k = q + 1
      <4>1. q \in Nat /\ Len(g) \in Nat
        BY <2>2
      <4>2. q + 1 \in 1 .. Len(g)
        BY <2>8, <4>1
      <4>3. QED BY <4>2
    <3>2. (k - 1) * F + r = p
      <4>1. k - 1 = q
        BY <2>2, <3>1
      <4>2. QED BY <2>2, <4>1
    <3>3. h[k][r] = IF p \in lo .. lo + n - 1 THEN p - D ELSE g[k][r]
      BY <1>8, <2>1, <2>2, <3>2
    <3>4. Holds(h, p) = IF p \in lo .. lo + n - 1 THEN p - D ELSE Holds(g, p)
      BY <2>6, <3>1, <3>3
    <3>5. p - D = o
      BY <1>1 DEF p
    <3>6. QED BY <2>2, <2>4, <2>7, <2>8, <3>4, <3>5
  <2>9. CASE ~(q < Len(g))
    BY <2>2, <2>4, <2>5, <2>7, <2>9
  <2>10. QED BY <2>8, <2>9
<1>12. WrittenOf(h) \subseteq Nat /\ WrittenOf(g) \subseteq Nat /\ c .. c + n - 1 \subseteq Nat
  <2>1. PICK z \in Int : z = F * Len(g) - D - 1
    BY <1>1, <1>6
  <2>2. WrittenOf(h) \subseteq 0 .. z /\ WrittenOf(g) \subseteq 0 .. z
    BY <1>9, <2>1 DEF WrittenOf
  <2>3. 0 .. z \subseteq Nat /\ c .. c + n - 1 \subseteq Nat
    OBVIOUS
  <2>4. QED BY <2>2, <2>3
<1>13. WrittenOf(h) = WrittenOf(g) \cup c .. c + n - 1
  BY <1>11, <1>12
<1>14. QED BY <1>2, <1>5, <1>9, <1>10, <1>13

\* A cursor that moved is at its offset.
LEMMA CursorMoves ==
  ASSUME MessageSizes, NEW c, Msg!Place(c) \in Nat, c.cursor \in Nat, NEW n \in Nat \ {0}
  PROVE  LET m == Msg!Moved(c, n)
         IN /\ m \in [frag : Nat \ {0}, ofs : 0 .. F, cursor : Nat]
            /\ (m.frag - 1) * F + m.ofs = Msg!Place(c) + n /\ m.cursor = c.cursor + n
<1>1. PICK p \in Nat : p = Msg!Place(c) + n - 1
  OBVIOUS
<1>2. Msg!Moved(c, n) = [frag |-> (p \div F) + 1, ofs |-> (p % F) + 1, cursor |-> c.cursor + n]
  BY <1>1 DEF Msg!Moved
<1>3. p \div F \in Nat /\ p % F \in 0 .. F - 1 /\ (p \div F) * F + (p % F) = p /\ F \in Nat
  BY PlacesSplit DEF MessageSizes
<1> DEFINE q == p \div F
           r == p % F
<1> HIDE DEF q, r
<1>4. q \in Nat /\ r \in 0 .. F - 1 /\ q * F + r = p /\ q * F \in Int
  BY <1>3 DEF q, r
<1>5. q + 1 \in Nat \ {0} /\ r + 1 \in 0 .. F /\ c.cursor + n \in Nat
  BY <1>3, <1>4
<1>6. (q + 1 - 1) * F + (r + 1) = Msg!Place(c) + n
  <2>1. q + 1 - 1 = q
    BY <1>4
  <2>2. QED BY <1>1, <1>3, <1>4, <2>1
<1>7. Msg!Moved(c, n) = [frag |-> q + 1, ofs |-> r + 1, cursor |-> c.cursor + n]
  BY <1>2 DEF q, r
<1>9. PICK m : m = Msg!Moved(c, n)
  OBVIOUS
<1>10. m.frag = q + 1 /\ m.ofs = r + 1 /\ m.cursor = c.cursor + n
       /\ m = [frag |-> m.frag, ofs |-> m.ofs, cursor |-> m.cursor]
  BY <1>7, <1>9
<1>11. m \in [frag : Nat \ {0}, ofs : 0 .. F, cursor : Nat]
  BY <1>5, <1>10
<1>12. (m.frag - 1) * F + m.ofs = Msg!Place(c) + n
  <2>1. m.frag - 1 = q
    BY <1>4, <1>10
  <2>2. (m.frag - 1) * F = q * F
    BY <2>1
  <2>3. QED BY <1>1, <1>4, <1>10, <2>2
<1>8. QED BY <1>9, <1>10, <1>11, <1>12

\* The bytes the flat message has
LEMMA FlatSeen ==
  /\ {o \in 0 .. F * Len(frags) - D - 1 : Msg!At(D + o) = o} = WrittenOf(frags)
  /\ {o \in 0 .. F * Len(frags) - D - 1 : Msg!At(D + o) = o}' = WrittenOf(frags')
BY DEF WrittenOf, Holds, Msg!At

FlatStep == Msg!Flat!Next \/ UNCHANGED Msg!Flat!flat

\* A step that leaves bytes, size and cursor is one of the flat message.
LEMMA FlatFails ==
  ASSUME WrittenOf(frags') = WrittenOf(frags), UNCHANGED <<size, cur>>, got' = <<>>
  PROVE  FlatStep
<1>1. Msg!Flat!Fail
  BY FlatSeen DEF Msg!Flat!Fail
<1>2. QED BY <1>1 DEF FlatStep, Msg!Flat!Next

\* What the actions need to know of a message that grew by n
LEMMA GrownFacts ==
  ASSUME MessageSizes, MsgInv, phase # "none", NEW n \in Nat, NEW g, g = Msg!Grown(n),
         NEW r, r = reserved + F * (Len(g) - Len(frags))
  PROVE  /\ g \in Seq(Frag) /\ Len(g) \in Len(frags) .. Frags /\ g[1] = frags[1]
         /\ WrittenOf(g) = WrittenOf(frags)
         /\ Len(g) > 0 /\ r = F * Len(g) - D /\ r \in Int /\ reserved \in Int /\ reserved <= r
         /\ Len(g) <= Frags /\ (Msg!Reserved(n) => n <= r)
<1>1. /\ g \in Seq(Frag) /\ Len(g) \in Len(frags) .. Frags
      /\ \A k \in 1 .. Len(frags) : g[k] = frags[k]
      /\ \A k \in Len(frags) + 1 .. Len(g) : g[k] = Msg!Fresh
      /\ Msg!Reserved(n) => n <= F * Len(g) - D
  BY MessageGrows
<1>2. frags \in Seq(Frag) /\ Len(frags) > 0 /\ reserved = F * Len(frags) - D
  BY DEF MsgInv
<1>3. Len(frags) \in Nat /\ Len(g) \in Nat /\ Frags \in Nat /\ F \in Nat \ {0} /\ D \in Nat \ {0}
  BY <1>1, <1>2 DEF MessageSizes
<1>4. Len(frags) <= Len(g) /\ g[1] = frags[1] /\ Len(g) > 0 /\ Len(g) <= Frags
  BY <1>1, <1>2, <1>3
<1>5. WrittenOf(g) = WrittenOf(frags)
  BY <1>1, <1>2, <1>4, GrowsEmpty
<1>6. /\ F * (Len(g) - Len(frags)) = F * Len(g) - F * Len(frags) /\ F * Len(frags) <= F * Len(g)
      /\ F * Len(g) \in Int /\ F * Len(frags) \in Int
  BY <1>3, <1>4
<1>7. r = F * Len(g) - D /\ r \in Int /\ reserved \in Int /\ reserved <= r
  BY <1>2, <1>3, <1>6
<1>8. QED BY <1>1, <1>4, <1>5, <1>7

\* A new message is the empty flat one.
LEMMA MessageBegins ==
  ASSUME MessageSizes, MsgInv, Msg!Begin
  PROVE  MsgInv' /\ FlatStep
<1>1. F \in Nat \ {0} /\ D \in Nat \ {0} /\ D < F /\ Frags \in Nat \ {0}
  BY DEF MessageSizes
<1>2. PICK b : b = [i \in 0 .. F - 1 |-> IF i < D THEN Msg!Field ELSE Msg!Junk]
  OBVIOUS
<1>3. /\ frags' = <<b>> /\ reserved' = F - D /\ cur' = Msg!Start /\ UNCHANGED <<size, got>>
      /\ phase' = "build" /\ frags = <<>> /\ size = 0 /\ cur = Msg!Start
  BY <1>2 DEF Msg!Begin, MsgInv, Msg!FirstSize
<1>4. b \in Frag /\ \A i \in 0 .. F - 1 : b[i] = Msg!Field <=> i < D
  BY <1>1, <1>2 DEF Frag, Msg!Field, Msg!Junk
<1>5. <<b>> \in Seq(Frag) /\ Len(<<b>>) = 1 /\ <<b>>[1] = b
  BY <1>4
<1>6. WrittenOf(<<b>>) = {}
  <2> SUFFICES ASSUME NEW o \in 0 .. F * Len(<<b>>) - D - 1, Holds(<<b>>, D + o) = o
               PROVE  FALSE
    BY DEF WrittenOf
  <2>1. PICK p \in Nat : p = D + o
    BY <1>1, <1>5
  <2>2. o \in Nat /\ p < F * 1 /\ p >= D
    BY <1>1, <1>5, <2>1
  <2> DEFINE q == p \div F
             r == p % F
  <2>3. q \in Nat /\ r \in 0 .. F - 1 /\ q * F + r = p /\ q < 1
    BY <2>2, PlacesSplit
  <2>4. Holds(<<b>>, p) = <<b>>[q + 1][r]
    BY DEF Holds
  <2> HIDE DEF q, r
  <2>5. q = 0
    BY <2>3
  <2>6. r = p
    BY <1>1, <2>3, <2>5
  <2>7. b[r] = -1
    BY <1>1, <1>2, <2>2, <2>3, <2>6 DEF Msg!Junk
  <2>8. <<b>>[q + 1] = b
    BY <2>5
  <2>9. QED BY <2>1, <2>2, <2>4, <2>7, <2>8
<1>7. WrittenOf(<<>>) = {}
  BY <1>1 DEF WrittenOf
<1>8. FlatStep
  <2>1. UNCHANGED Msg!Flat!flat
    BY <1>3, <1>6, <1>7, FlatSeen DEF Msg!Flat!flat
  <2>2. QED BY <2>1 DEF FlatStep
<1>9. F * 1 = F
  BY <1>1
<1>10. MsgInv'
  BY <1>1, <1>3, <1>4, <1>5, <1>9 DEF MsgInv, Msg!Start
<1>11. QED BY <1>8, <1>10

\* Growing a message leaves its bytes, its size and its cursor.
LEMMA MessageReserves ==
  ASSUME MessageSizes, MsgInv, phase # "none", NEW n \in Nat, frags' = Msg!Grown(n),
         reserved' = reserved + F * (Len(frags') - Len(frags)),
         UNCHANGED <<phase, size, cur>>, got' = <<>>
  PROVE  MsgInv' /\ FlatStep
<1>1. PICK g : g = frags'
  OBVIOUS
<1>2. PICK r : r = reserved'
  OBVIOUS
<1>3. /\ g \in Seq(Frag) /\ Len(g) \in Len(frags) .. Frags /\ g[1] = frags[1]
      /\ WrittenOf(g) = WrittenOf(frags)
      /\ Len(g) > 0 /\ r = F * Len(g) - D /\ r \in Int /\ reserved \in Int /\ reserved <= r
  BY <1>1, <1>2, GrownFacts
<1>4. FlatStep
  BY <1>1, <1>3, FlatFails
<1>5. size <= r
  BY <1>3 DEF MsgInv
<1>6. Len(g) <= Frags
  BY <1>1, <1>2, GrownFacts
<1>7. MsgInv'
  BY <1>1, <1>2, <1>3, <1>5, <1>6 DEF MsgInv
<1>8. QED BY <1>4, <1>7

\* A write puts its bytes from the cursor on, or fails and writes none.
LEMMA MessageWrites ==
  ASSUME MessageSizes, MsgInv, NEW n \in Amounts, Msg!Write(n)
  PROVE  MsgInv' /\ FlatStep
<1>1. PICK c \in Nat : c = cur.cursor
  BY DEF MsgInv
<1>2. PICK m \in Nat : m = n
  BY DEF MessageSizes
<1>3. phase # "none" /\ UNCHANGED phase /\ got' = <<>> /\ m > 0
      /\ reserved' = reserved + F * (Len(frags') - Len(frags))
  BY <1>2 DEF Msg!Write, MessageSizes
<1>4. CASE ~Msg!Reserved(cur.cursor + n)
  <2>1. frags' = Msg!Grown(c + m) /\ UNCHANGED <<cur, size>>
    BY <1>1, <1>2, <1>4 DEF Msg!Write
  <2>2. c + m \in Nat
    OBVIOUS
  <2>3. QED BY <1>3, <2>1, <2>2, MessageReserves
<1>5. CASE Msg!Reserved(cur.cursor + n)
  <2>1. PICK g : g = Msg!Grown(c + m)
    OBVIOUS
  <2>2. frags' = Msg!Stored(g, m) /\ cur' = Msg!Moved(cur, m) /\ size' = Msg!Max({size, c + m})
    BY <1>1, <1>2, <1>5, <2>1 DEF Msg!Write
  <2>3. PICK r : r = reserved + F * (Len(g) - Len(frags))
    OBVIOUS
  <2>4. c + m \in Nat /\ Msg!Reserved(c + m)
    BY <1>1, <1>2, <1>5
  <2>5. /\ g \in Seq(Frag) /\ Len(g) \in Len(frags) .. Frags /\ g[1] = frags[1]
        /\ WrittenOf(g) = WrittenOf(frags)
        /\ Len(g) > 0 /\ r = F * Len(g) - D /\ r \in Int /\ reserved \in Int /\ reserved <= r
        /\ Len(g) <= Frags /\ c + m <= r
    BY <1>3, <2>1, <2>3, <2>4, GrownFacts
  <2>6. PICK h : h = Msg!Stored(g, m)
    OBVIOUS
  <2>7. m \in Nat \ {0} /\ cur.cursor + m <= F * Len(g) - D
    BY <1>1, <1>3, <2>5
  <2>8. /\ h \in Seq(Frag) /\ Len(h) = Len(g)
        /\ \A i \in 0 .. F - 1 : h[1][i] = Msg!Field <=> i < D
        /\ WrittenOf(h) = WrittenOf(g) \cup cur.cursor .. cur.cursor + m - 1
    BY <1>3, <2>5, <2>6, <2>7, StoreAdds
  <2>9. frags' = h /\ reserved' = r
    BY <1>3, <2>2, <2>3, <2>6, <2>8
  <2>10. Msg!Place(cur) = D + c /\ D + c \in Nat
    <3>1. Msg!Place(cur) = D + c
      BY <1>1 DEF MsgInv, Msg!Place
    <3>2. D \in Nat
      BY DEF MessageSizes
    <3>3. QED BY <3>1, <3>2
  <2>11. PICK x : x = Msg!Moved(cur, m)
    OBVIOUS
  <2>12. /\ x \in [frag : Nat \ {0}, ofs : 0 .. F, cursor : Nat]
         /\ (x.frag - 1) * F + x.ofs = Msg!Place(cur) + m /\ x.cursor = cur.cursor + m
    BY <1>1, <2>7, <2>10, <2>11, CursorMoves
  <2>13. size \in Nat /\ size <= reserved
    BY <1>3 DEF MsgInv
  <2>14. size' = IF size < c + m THEN c + m ELSE size
    BY <2>2, <2>13 DEF Msg!Max
  <2>15. MsgInv'
    <3>1. size' \in Nat /\ size' <= r /\ c + m <= size'
      BY <2>5, <2>13, <2>14
    <3>2. cur' = x /\ x.cursor = c + m /\ (x.frag - 1) * F + x.ofs = D + x.cursor
      <4>1. cur' = x /\ x.cursor = c + m /\ (x.frag - 1) * F + x.ofs = D + c + m
        BY <1>1, <2>2, <2>10, <2>11, <2>12
      <4>2. D + c + m = D + (c + m)
        BY DEF MessageSizes
      <4>3. QED BY <4>1, <4>2
    <3>3. Len(h) > 0 /\ Len(h) <= Frags
      BY <2>5, <2>8
    <3>4. phase \in {"none", "build", "deliver"}
      BY DEF MsgInv
    <3>5. QED BY <1>3, <2>5, <2>8, <2>9, <2>12, <3>1, <3>2, <3>3, <3>4 DEF MsgInv
  <2>16. Msg!Flat!Write(n)
    <3>1. WrittenOf(frags') = WrittenOf(frags) \cup cur.cursor .. cur.cursor + n - 1
      BY <1>2, <2>5, <2>8, <2>9
    <3>2. cur'.cursor = cur.cursor + n
      BY <1>2, <2>2, <2>11, <2>12
    <3>3. size' = IF size < cur'.cursor THEN cur'.cursor ELSE size
      BY <1>1, <1>2, <2>14, <3>2
    <3>4. QED BY <1>3, <3>1, <3>2, <3>3, FlatSeen DEF Msg!Flat!Write
  <2>17. QED BY <2>15, <2>16 DEF FlatStep, Msg!Flat!Next
<1>6. QED BY <1>4, <1>5

\* Setting the size fails, or changes the size alone.
LEMMA MessageSized ==
  ASSUME MessageSizes, ~Shrinks, MsgInv, NEW n \in Amounts, Msg!SetSize(n)
  PROVE  MsgInv' /\ FlatStep
<1>1. PICK m \in Nat : m = n
  BY DEF MessageSizes
<1>2. /\ phase # "none" /\ UNCHANGED <<phase, cur>> /\ got' = <<>> /\ cur.cursor <= m
      /\ frags' = Msg!Grown(m) /\ reserved' = reserved + F * (Len(frags') - Len(frags))
      /\ size' = IF Msg!Reserved(m) THEN m ELSE size
  BY <1>1 DEF Msg!SetSize
<1>3. CASE ~Msg!Reserved(m)
  BY <1>2, <1>3, MessageReserves
<1>4. CASE Msg!Reserved(m)
  <2>1. PICK g : g = frags'
    OBVIOUS
  <2>2. PICK r : r = reserved'
    OBVIOUS
  <2>3. /\ g \in Seq(Frag) /\ Len(g) \in Len(frags) .. Frags /\ g[1] = frags[1]
        /\ WrittenOf(g) = WrittenOf(frags)
        /\ Len(g) > 0 /\ r = F * Len(g) - D /\ Len(g) <= Frags /\ m <= r
    BY <1>2, <1>4, <2>1, <2>2, GrownFacts
  <2>4. size' = m
    BY <1>2, <1>4
  <2>5. MsgInv'
    BY <1>2, <2>1, <2>2, <2>3, <2>4 DEF MsgInv
  <2>6. Msg!Flat!SetSize(n)
    BY <1>1, <1>2, <2>1, <2>3, <2>4, FlatSeen DEF Msg!Flat!SetSize
  <2>7. QED BY <2>5, <2>6 DEF FlatStep, Msg!Flat!Next
<1>5. QED BY <1>3, <1>4

\* A read gives the bytes at the cursor, up to the size.
LEMMA MessageRead ==
  ASSUME MessageSizes, MsgInv, NEW n \in Amounts, Msg!Read(n)
  PROVE  MsgInv' /\ FlatStep
<1>1. PICK c \in Nat : c = cur.cursor
  BY DEF MsgInv
<1>2. PICK s \in Nat : s = size
  BY DEF MsgInv
<1>3. PICK m \in Nat : m = n
  BY DEF MessageSizes
<1>4. c <= s /\ D \in Nat /\ m > 0
  BY <1>1, <1>2, <1>3 DEF MsgInv, MessageSizes
<1>5. PICK len \in Nat : len = IF m < s - c THEN m ELSE s - c
  BY <1>4
<1>6. Msg!Max({Msg!ToRead(n), 0}) = len
  <2>1. Msg!ToRead(n) = len
    BY <1>1, <1>2, <1>3, <1>4, <1>5 DEF Msg!ToRead, Msg!Min
  <2>2. QED BY <2>1 DEF Msg!Max
<1>7. Msg!Place(cur) = D + c /\ D + c \in Nat
  BY <1>1, <1>4 DEF MsgInv, Msg!Place
<1>8. /\ phase # "none" /\ UNCHANGED <<phase, frags, reserved, size>>
      /\ got' = [i \in 1 .. len |-> Msg!At(Msg!Place(cur) + i - 1)]
      /\ cur' = IF len = 0 THEN cur ELSE Msg!Moved(cur, len)
  BY <1>6 DEF Msg!Read, Msg!Alive
<1>9. PICK x : x = cur'
  OBVIOUS
<1>10. /\ x \in [frag : Nat \ {0}, ofs : 0 .. F, cursor : Nat]
       /\ (x.frag - 1) * F + x.ofs = D + x.cursor /\ x.cursor = c + len
  <2>1. CASE len = 0
    BY <1>1, <1>8, <1>9, <2>1 DEF MsgInv
  <2>2. CASE len # 0
    <3>1. len \in Nat \ {0} /\ x = Msg!Moved(cur, len)
      BY <1>8, <1>9, <2>2
    <3>2. /\ x \in [frag : Nat \ {0}, ofs : 0 .. F, cursor : Nat]
          /\ (x.frag - 1) * F + x.ofs = Msg!Place(cur) + len /\ x.cursor = cur.cursor + len
      BY <1>1, <1>7, <3>1, CursorMoves
    <3>3. D + c + len = D + (c + len)
      BY <1>4
    <3>4. QED BY <1>1, <1>7, <3>2, <3>3
  <2>3. QED BY <2>1, <2>2
<1>11. x.cursor <= size
  BY <1>2, <1>4, <1>5, <1>10
<1>12. MsgInv'
  BY <1>8, <1>9, <1>10, <1>11 DEF MsgInv
<1>13. Msg!Flat!Read(n)
  <2>1. PICK b : b = got'
    OBVIOUS
  <2>2. Len(b) = len
    <3>1. b = [i \in 1 .. len |-> Msg!At(Msg!Place(cur) + i - 1)]
      BY <1>8, <2>1
    <3>2. QED BY <3>1
  <2>3. \A i \in 1 .. len : c + i - 1 \in WrittenOf(frags) => b[i] = c + i - 1
    <3> SUFFICES ASSUME NEW i \in 1 .. len, c + i - 1 \in WrittenOf(frags)
                 PROVE  b[i] = c + i - 1
      OBVIOUS
    <3>1. b[i] = Msg!At(Msg!Place(cur) + i - 1)
      BY <1>8, <2>1
    <3>2. Msg!Place(cur) + i - 1 = D + (c + i - 1)
      BY <1>4, <1>7
    <3>3. b[i] = Holds(frags, D + (c + i - 1))
      BY <3>1, <3>2 DEF Holds, Msg!At
    <3>4. Holds(frags, D + (c + i - 1)) = c + i - 1
      BY DEF WrittenOf
    <3>5. QED BY <3>3, <3>4
  <2>4. len = IF n < size - cur.cursor THEN n ELSE size - cur.cursor
    BY <1>1, <1>2, <1>3, <1>5
  <2>5. cur'.cursor = cur.cursor + len
    BY <1>1, <1>9, <1>10
  <2>6. WrittenOf(frags') = WrittenOf(frags)
    BY <1>8
  <2>7. \A i \in 1 .. len : cur.cursor + i - 1 \in WrittenOf(frags) => got'[i] = cur.cursor + i - 1
    BY <1>1, <2>1, <2>3
  <2>8. Len(got') = len
    BY <2>1, <2>2
  <2> DEFINE k == IF n < size - cur.cursor THEN n ELSE size - cur.cursor
  <2>9. len = k
    BY <2>4
  <2> HIDE DEF k
  <2>10. /\ Len(got') = k /\ cur'.cursor = cur.cursor + k
         /\ \A i \in 1 .. k : cur.cursor + i - 1 \in WrittenOf(frags) => got'[i] = cur.cursor + i - 1
         /\ WrittenOf(frags') = WrittenOf(frags) /\ size' = size
    BY <1>8, <2>5, <2>6, <2>7, <2>8, <2>9
  <2>11. QED BY <2>10, FlatSeen DEF Msg!Flat!Read, k
<1>14. QED BY <1>12, <1>13 DEF FlatStep, Msg!Flat!Next

\* A seek, within the fragment or from the first on, finds the place of its offset.
LEMMA MessageSeeks ==
  ASSUME MessageSizes, HeadSeeksAgree, ~EndSeeks, MsgInv, NEW c \in 0 .. F * Frags, Msg!Seek(c)
  PROVE  MsgInv' /\ FlatStep
<1>1. F \in Nat \ {0} /\ D \in Nat \ {0} /\ D < F /\ Frags \in Nat \ {0}
  BY DEF MessageSizes
<1>2. PICK k \in [frag : Nat \ {0}, ofs : 0 .. F, cursor : Nat] : k = cur
  BY DEF MsgInv
<1>3. /\ phase # "none" /\ c \in 0 .. size /\ UNCHANGED <<phase, frags, reserved, size>>
      /\ got' = <<>> /\ (Msg!StaysInFragment(c) \/ c > F - D \/ MsgOfs = D)
      /\ cur' = IF Msg!StaysInFragment(c)
                THEN [k EXCEPT !.ofs = @ + c - k.cursor, !.cursor = c] ELSE Msg!Walked(c)
  BY <1>2 DEF Msg!Seek, Msg!Alive, Msg!FirstSize, HeadSeeksAgree
<1>4. PICK x : x = cur'
  OBVIOUS
<1>5. size \in Nat /\ (k.frag - 1) * F + k.ofs = D + k.cursor
  BY <1>2 DEF MsgInv
<1>6. c \in Nat
  BY <1>3, <1>5
<1>7. /\ x \in [frag : Nat \ {0}, ofs : 0 .. F, cursor : Nat]
      /\ (x.frag - 1) * F + x.ofs = D + x.cursor /\ x.cursor = c
  <2>1. CASE Msg!StaysInFragment(c)
    <3>1. PICK o : o = k.ofs + c - k.cursor
      OBVIOUS
    <3>2. o \in 0 .. F
      BY <1>1, <1>2, <1>6, <2>1, <3>1 DEF Msg!StaysInFragment, Msg!Limit, Msg!FirstSize
    <3>3. x = [k EXCEPT !.ofs = o, !.cursor = c]
      BY <1>3, <1>4, <2>1, <3>1
    <3>4. x.frag = k.frag /\ x.ofs = o /\ x.cursor = c
          /\ x \in [frag : Nat \ {0}, ofs : 0 .. F, cursor : Nat]
      BY <1>6, <3>2, <3>3
    <3>5. PICK q \in Int : q = (k.frag - 1) * F
      BY <1>1, <1>2
    <3>6. q + o = D + c
      BY <1>1, <1>2, <1>5, <1>6, <3>1, <3>5
    <3>7. (x.frag - 1) * F = q
      BY <3>4, <3>5
    <3>8. QED BY <3>4, <3>6, <3>7
  <2>2. CASE ~Msg!StaysInFragment(c) /\ c > F - D
    <3>1. c > F - D /\ c \in Nat \ {0}
      BY <1>1, <1>3, <1>6, <2>2
    <3>2. x = Msg!Moved(Msg!Start, c)
      BY <1>1, <1>3, <1>4, <1>6, <2>2, <3>1 DEF Msg!Walked, Msg!FirstSize
    <3>3. Msg!Place(Msg!Start) = D /\ Msg!Start.cursor = 0
      BY <1>1 DEF Msg!Place, Msg!Start
    <3>4. PICK s : s = Msg!Start
      OBVIOUS
    <3>5. Msg!Place(s) = D /\ s.cursor = 0 /\ x = Msg!Moved(s, c)
      BY <3>2, <3>3, <3>4
    <3>6. Msg!Place(s) \in Nat /\ s.cursor \in Nat
      BY <1>1, <3>5
    <3>7. /\ x \in [frag : Nat \ {0}, ofs : 0 .. F, cursor : Nat]
          /\ (x.frag - 1) * F + x.ofs = Msg!Place(s) + c /\ x.cursor = s.cursor + c
      BY <3>1, <3>5, <3>6, CursorMoves
    <3>8. s.cursor + c = c
      BY <1>6, <3>5
    <3>9. QED BY <3>5, <3>7, <3>8
  <2>3. CASE ~Msg!StaysInFragment(c) /\ ~(c > F - D)
    <3>1. c <= F - D /\ MsgOfs = D
      BY <1>1, <1>3, <1>6, <2>3
    <3>2. x = [frag |-> 1, ofs |-> D + c, cursor |-> c]
      BY <1>3, <1>4, <2>3, <3>1 DEF Msg!Walked, Msg!FirstSize
    <3>3. D + c \in 0 .. F
      BY <1>1, <1>6, <3>1
    <3>4. x.frag = 1 /\ x.ofs = D + c /\ x.cursor = c /\ (1 - 1) * F = 0
          /\ x \in [frag : Nat \ {0}, ofs : 0 .. F, cursor : Nat]
      BY <1>1, <1>6, <3>2, <3>3
    <3>5. QED BY <1>1, <1>6, <3>3, <3>4
  <2>4. QED BY <2>1, <2>2, <2>3
<1>8. MsgInv'
  BY <1>3, <1>4, <1>5, <1>6, <1>7 DEF MsgInv
<1>9. Msg!Flat!Seek
  BY <1>3, <1>4, <1>7, FlatSeen DEF Msg!Flat!Seek
<1>10. QED BY <1>8, <1>9 DEF FlatStep, Msg!Flat!Next

\* The first cursor, and the bytes of no fragments
LEMMA StartIsThere ==
  ASSUME MessageSizes
  PROVE  /\ Msg!Start \in [frag : Nat \ {0}, ofs : 0 .. F, cursor : Nat]
         /\ Msg!Start.frag = 1 /\ Msg!Start.ofs = D /\ Msg!Start.cursor = 0
         /\ (Msg!Start.frag - 1) * F + Msg!Start.ofs = D + Msg!Start.cursor
         /\ WrittenOf(<<>>) = {} /\ <<>> \in Seq(Frag) /\ Len(<<>>) = 0
<1>1. F \in Nat \ {0} /\ D \in Nat \ {0} /\ D < F
  BY DEF MessageSizes
<1>2. Msg!Start \in [frag : Nat \ {0}, ofs : 0 .. F, cursor : Nat]
      /\ Msg!Start.frag = 1 /\ Msg!Start.ofs = D /\ Msg!Start.cursor = 0
  BY <1>1 DEF Msg!Start
<1>3. (Msg!Start.frag - 1) * F + Msg!Start.ofs = D + Msg!Start.cursor
  <2>1. (1 - 1) * F = 0
    BY <1>1
  <2>2. QED BY <1>1, <1>2, <2>1
<1>4. WrittenOf(<<>>) = {} /\ <<>> \in Seq(Frag) /\ Len(<<>>) = 0
  BY <1>1 DEF WrittenOf
<1>5. QED BY <1>2, <1>3, <1>4

\* A receiver starts at the first byte; a message let go is the empty one.
LEMMA MessageRestarts ==
  ASSUME MessageSizes, MsgInv, Msg!Deliver \/ Msg!Release
  PROVE  MsgInv' /\ FlatStep
<1>1. PICK s : s = Msg!Start
  OBVIOUS
<1>2. /\ s \in [frag : Nat \ {0}, ofs : 0 .. F, cursor : Nat] /\ s.cursor = 0
      /\ (s.frag - 1) * F + s.ofs = D + s.cursor
  BY <1>1, StartIsThere
<1>3. size \in Nat
  BY DEF MsgInv
<1>4. CASE Msg!Deliver
  <2>1. /\ phase # "none" /\ phase' = "deliver" /\ cur' = s /\ got' = <<>>
        /\ UNCHANGED <<frags, reserved, size>>
    BY <1>1, <1>4 DEF Msg!Deliver, Msg!Alive
  <2>2. MsgInv'
    BY <1>2, <1>3, <2>1 DEF MsgInv
  <2>3. Msg!Flat!Restart
    BY <1>2, <2>1, FlatSeen DEF Msg!Flat!Restart
  <2>4. QED BY <2>2, <2>3 DEF FlatStep, Msg!Flat!Next
<1>5. CASE Msg!Release
  <2>1. phase' = "none" /\ frags' = <<>> /\ size' = 0 /\ cur' = s /\ got' = <<>>
    BY <1>1, <1>5 DEF Msg!Release
  <2>2. Frags \in Nat
    BY DEF MessageSizes
  <2>3. MsgInv'
    BY <1>1, <1>2, <2>1, <2>2, StartIsThere DEF MsgInv
  <2>4. Msg!Flat!Clear
    BY <1>2, <2>1, FlatSeen, StartIsThere DEF Msg!Flat!Clear
  <2>5. QED BY <2>3, <2>4 DEF FlatStep, Msg!Flat!Next
<1>6. QED BY <1>4, <1>5

\* The invariant gives the fragments, sizes and cursors their bounds.
LEMMA MessageTyped ==
  ASSUME MessageSizes, MsgInv
  PROVE  Msg!TypeOK
<1>1. F \in Nat \ {0} /\ D \in Nat \ {0} /\ D < F /\ Frags \in Nat \ {0}
  BY DEF MessageSizes
<1>2. PICK k \in [frag : Nat \ {0}, ofs : 0 .. F, cursor : Nat] : k = cur
  BY DEF MsgInv
<1>3. frags \in Seq(Frag) /\ Len(frags) \in 0 .. Frags /\ Len(frags) \in Nat
  BY <1>1 DEF MsgInv
<1>4. F * Frags \in Nat /\ F * Len(frags) \in Nat /\ F * Len(frags) <= F * Frags /\ F * Frags > 0
  BY <1>1, <1>3
<1>5. k.frag \in 1 .. Frags + 1 /\ k.cursor \in 0 .. F * Frags
  <2>1. CASE phase = "none"
    <3>1. k.frag = 1 /\ k.cursor = 0
      BY <1>2, <2>1, StartIsThere DEF MsgInv
    <3>2. QED BY <1>1, <1>4, <3>1
  <2>2. CASE phase # "none"
    <3>1. /\ (k.frag - 1) * F + k.ofs = D + k.cursor /\ k.cursor <= size /\ size \in Nat
          /\ reserved = F * Len(frags) - D /\ size <= reserved
      BY <1>2, <2>2 DEF MsgInv
    <3>2. PICK q \in Nat : q = k.frag - 1
      BY <1>2
    <3>3. q * F \in Nat /\ q * F + k.ofs = D + k.cursor
      <4>1. F \in Nat
        BY <1>1
      <4>2. q * F \in Nat
        BY <3>2, <4>1
      <4>3. QED BY <3>1, <3>2, <4>2, Zenon
    <3>4. D + k.cursor <= F * Len(frags)
      <4>1. PICK z \in Nat : z = F * Len(frags)
        BY <1>4
      <4>2. k.cursor <= z - D /\ D \in Nat /\ k.cursor \in Nat
        <5>1. k.cursor <= size /\ size <= reserved /\ reserved = z - D /\ size \in Nat
          BY <3>1, <4>1
        <5>2. D \in Nat /\ k.cursor \in Nat
          BY <1>1, <1>2
        <5>3. QED BY <5>1, <5>2
      <4>3. D + k.cursor <= z
        BY <4>2
      <4>4. QED BY <4>1, <4>3
    <3>5. q * F <= F * Frags
      <4>1. PICK x \in Nat : x = q * F
        BY <3>3
      <4>2. PICK z \in Nat : z = F * Len(frags)
        BY <1>4
      <4>3. PICK y \in Nat : y = F * Frags
        BY <1>4
      <4>4. x + k.ofs = D + k.cursor /\ D + k.cursor <= z /\ z <= y
        BY <1>4, <3>3, <3>4, <4>1, <4>2, <4>3
      <4>5. x <= y
        BY <1>1, <1>2, <4>4
      <4>6. QED BY <4>1, <4>3, <4>5
    <3>6. q <= Frags
      <4> SUFFICES ASSUME q >= Frags + 1 PROVE FALSE
        BY <1>1, <3>2
      <4>1. q * F >= (Frags + 1) * F
        BY <1>1, <3>2
      <4>2. (Frags + 1) * F = F * Frags + F
        BY <1>1
      <4>3. QED BY <1>1, <1>4, <3>3, <3>5, <4>1, <4>2
    <3>7. k.frag \in 1 .. Frags + 1
      BY <1>1, <1>2, <3>2, <3>6
    <3>8. k.cursor \in 0 .. F * Frags
      BY <1>1, <1>2, <1>4, <3>4
    <3>9. QED BY <3>7, <3>8
  <2>3. QED BY <2>1, <2>2
<1>6. k \in [frag : 1 .. Frags + 1, ofs : 0 .. 2 * F, cursor : 0 .. F * Frags]
  <2>1. k.ofs \in 0 .. 2 * F
    BY <1>1, <1>2
  <2>2. QED BY <1>2, <1>5, <2>1
<1>7. \A i \in DOMAIN frags : frags[i] \in [0 .. F - 1 -> Msg!Field .. F * Frags]
  BY <1>3 DEF Frag
<1>8. phase # "none" => size \in 0 .. reserved
  <2> SUFFICES ASSUME phase # "none" PROVE size \in 0 .. reserved
    OBVIOUS
  <2>1. size \in Nat /\ size <= reserved /\ reserved = F * Len(frags) - D
    BY DEF MsgInv
  <2>2. QED BY <1>1, <1>4, <2>1
<1>9. QED BY <1>2, <1>3, <1>6, <1>7, <1>8 DEF MsgInv, Msg!TypeOK

\* Every step keeps the invariant and is one of the flat message.
LEMMA MessageKeeps ==
  ASSUME MessageSizes, HeadSeeksAgree, ~EndSeeks, ~Shrinks, MsgInv, [Msg!Next]_(Msg!vars)
  PROVE  MsgInv' /\ [Msg!Flat!Next]_(Msg!Flat!flat)
<1>1. CASE Msg!Begin
  BY <1>1, MessageBegins DEF FlatStep
<1>2. CASE Msg!Deliver \/ Msg!Release
  BY <1>2, MessageRestarts DEF FlatStep
<1>3. ASSUME NEW n \in Amounts, Msg!Reserve(n) PROVE MsgInv' /\ FlatStep
  <2>1. n \in Nat
    BY DEF MessageSizes
  <2>2. /\ phase # "none" /\ frags' = Msg!Grown(n)
        /\ reserved' = reserved + F * (Len(frags') - Len(frags))
        /\ UNCHANGED <<phase, size, cur>> /\ got' = <<>>
    BY <1>3 DEF Msg!Reserve
  <2>3. QED BY <2>1, <2>2, MessageReserves
<1>4. ASSUME NEW n \in Amounts, Msg!Write(n) PROVE MsgInv' /\ FlatStep
  BY <1>4, MessageWrites
<1>5. ASSUME NEW n \in Amounts, Msg!SetSize(n) PROVE MsgInv' /\ FlatStep
  BY <1>5, MessageSized
<1>6. ASSUME NEW n \in Amounts, Msg!Read(n) PROVE MsgInv' /\ FlatStep
  BY <1>6, MessageRead
<1>7. ASSUME NEW c \in 0 .. F * Frags, Msg!Seek(c) PROVE MsgInv' /\ FlatStep
  BY <1>7, MessageSeeks
<1>8. CASE UNCHANGED Msg!vars
  <2>1. UNCHANGED <<phase, frags, reserved, size, cur, got>>
    BY <1>8 DEF Msg!vars
  <2>2. MsgInv'
    BY <2>1 DEF MsgInv
  <2>3. UNCHANGED Msg!Flat!flat
    BY <2>1, FlatSeen DEF Msg!Flat!flat
  <2>4. QED BY <2>2, <2>3
<1>9. QED BY <1>1, <1>2, <1>3, <1>4, <1>5, <1>6, <1>7, <1>8 DEF Msg!Next, FlatStep

\* A message in its fragments is the flat one of the interface (cncbus.h:215-285)
\* for every size of fragment and header, every number of fragments and every order
\* of calls, if a seek that falls back on the first fragment finds its data where a
\* write puts it, no seek fails its assertions (a walk that ends with a fragment before
\* the message does fails the one at cncbus.c:832), and no size is set below the cursor.
THEOREM MessageIsFlat ==
  ASSUME HeadSeeksAgree, ~EndSeeks, ~Shrinks
  PROVE  Msg!Spec => ImplementsFlatMessage
<1>0. MessageSizes
  BY MessageAssumption DEF MessageSizes
<1>1. Msg!Init => MsgInv /\ Msg!Flat!Init
  <2> SUFFICES ASSUME Msg!Init PROVE MsgInv /\ Msg!Flat!Init
    OBVIOUS
  <2>1. phase = "none" /\ frags = <<>> /\ size = 0 /\ cur = Msg!Start /\ got = <<>>
    BY DEF Msg!Init
  <2>2. Frags \in Nat
    BY <1>0 DEF MessageSizes
  <2>3. MsgInv
    BY <1>0, <2>1, <2>2, StartIsThere DEF MsgInv
  <2>4. cur.cursor = 0 /\ WrittenOf(frags) = {}
    BY <1>0, <2>1, StartIsThere
  <2>5. Msg!Flat!Init
    BY <2>1, <2>4, FlatSeen DEF Msg!Flat!Init
  <2>6. QED BY <2>3, <2>5
<1>2. MsgInv /\ [Msg!Next]_(Msg!vars) => MsgInv' /\ [Msg!Flat!Next]_(Msg!Flat!flat)
  BY <1>0, MessageKeeps
<1>3. MsgInv => Msg!TypeOK
  BY <1>0, MessageTyped
<1>4. QED BY <1>1, <1>2, <1>3, PTL DEF Msg!Spec, Msg!Flat!Spec, Msg!ImplementsFlatMessage, ImplementsFlatMessage
=============================================================================
