----------------------------- MODULE ListLemmas -----------------------------
(***************************************************************************)
(* What the moves of linked lists do to their members, for the proofs      *)
(* about the modules that model a list as a sequence, head first.          *)
(***************************************************************************)
EXTENDS Integers, Sequences, SequencesExt, Functions, FiniteSets, FiniteSetTheorems,
        SequenceTheorems, NaturalsInduction, TLAPS

\* The empty list.
LEMMA EmptyList == Range(<<>>) = {} /\ IsInjective(<<>>)
BY DEF Range, IsInjective

\* The members of a list.
LEMMA MembersOf ==
  ASSUME NEW S, NEW q \in Seq(S)
  PROVE  /\ Len(q) \in Nat /\ DOMAIN q = 1 .. Len(q) /\ Range(q) \subseteq S
         /\ \A i \in 1 .. Len(q) : q[i] \in Range(q)
         /\ \A x \in Range(q) : \E i \in 1 .. Len(q) : q[i] = x
BY DEF Range

\* How the members of a list move when its head is taken.
LEMMA ShiftOf ==
  ASSUME NEW S, NEW q \in Seq(S), q # <<>>
  PROVE  /\ Len(q) \in Nat \ {0} /\ DOMAIN q = 1 .. Len(q) /\ Head(q) = q[1] /\ Head(q) \in S
         /\ Tail(q) \in Seq(S) /\ Len(Tail(q)) = Len(q) - 1 /\ DOMAIN Tail(q) = 1 .. Len(q) - 1
         /\ \A i \in 1 .. Len(q) - 1 : Tail(q)[i] = q[i + 1]
OBVIOUS

\* What the tail of a list without repetition holds.
LEMMA TailOf ==
  ASSUME NEW S, NEW q \in Seq(S), q # <<>>, IsInjective(q)
  PROVE  /\ Head(q) \in S /\ Tail(q) \in Seq(S) /\ IsInjective(Tail(q))
         /\ Range(q) = {Head(q)} \cup Range(Tail(q)) /\ Head(q) \notin Range(Tail(q))
<1>1. /\ Len(q) \in Nat \ {0} /\ Head(q) = q[1] /\ Tail(q) \in Seq(S) /\ Len(Tail(q)) = Len(q) - 1
      /\ \A i \in 1 .. Len(q) - 1 : Tail(q)[i] = q[i + 1]
  OBVIOUS
<1>2. IsInjective(Tail(q)) /\ Head(q) \notin Range(Tail(q))
  BY <1>1 DEF IsInjective, Range
<1>3. \A i \in 1 .. Len(q) : i = 1 \/ (i - 1 \in 1 .. Len(Tail(q)) /\ q[i] = Tail(q)[i - 1])
  BY <1>1
<1>4. Range(q) \subseteq {Head(q)} \cup Range(Tail(q))
  <2>1. ASSUME NEW y \in Range(q) PROVE y \in {Head(q)} \cup Range(Tail(q))
    <3>1. PICK i \in 1 .. Len(q) : y = q[i]
      BY DEF Range
    <3>2. CASE i = 1
      BY <1>1, <3>1, <3>2
    <3>3. CASE i # 1
      <4> DEFINE j == i - 1
      <4>1. j \in DOMAIN Tail(q) /\ y = Tail(q)[j]
        BY <1>1, <1>3, <3>1, <3>3
      <4> HIDE DEF j
      <4>2. QED
        BY <4>1 DEF Range
    <3>4. QED
      BY <3>2, <3>3
  <2>2. QED
    BY <2>1
<1>5. {Head(q)} \cup Range(Tail(q)) \subseteq Range(q)
  BY <1>1 DEF Range
<1>6. QED
  BY <1>1, <1>2, <1>4, <1>5

\* What a list holds with one more at the end.
LEMMA AppendOf ==
  ASSUME NEW S, NEW q \in Seq(S), NEW x \in S
  PROVE  /\ Append(q, x) \in Seq(S) /\ Range(Append(q, x)) = Range(q) \cup {x}
         /\ IsInjective(q) /\ x \notin Range(q) => IsInjective(Append(q, x))
<1>1. /\ Len(q) \in Nat /\ Append(q, x) \in Seq(S) /\ Len(Append(q, x)) = Len(q) + 1
      /\ \A i \in 1 .. Len(q) : Append(q, x)[i] = q[i]
      /\ Append(q, x)[Len(q) + 1] = x
  OBVIOUS
<1>2. Range(Append(q, x)) = Range(q) \cup {x}
  BY <1>1 DEF Range
<1>3. ASSUME IsInjective(q), x \notin Range(q) PROVE IsInjective(Append(q, x))
  BY <1>1, <1>3 DEF IsInjective, Range
<1>4. QED
  BY <1>1, <1>2, <1>3

\* What a list holds with one more in front.
LEMMA PrependOf ==
  ASSUME NEW S, NEW q \in Seq(S), NEW x \in S
  PROVE  /\ <<x>> \o q \in Seq(S) /\ Range(<<x>> \o q) = {x} \cup Range(q)
         /\ IsInjective(q) /\ x \notin Range(q) => IsInjective(<<x>> \o q)
<1> DEFINE r == <<x>> \o q
<1>1. /\ Len(q) \in Nat /\ r \in Seq(S) /\ Len(r) = Len(q) + 1
      /\ r[1] = x /\ \A i \in 1 .. Len(q) : r[i + 1] = q[i]
  OBVIOUS
<1>2. \A i \in 1 .. Len(r) : i = 1 \/ (i - 1 \in 1 .. Len(q) /\ r[i] = q[i - 1])
  <2>1. ASSUME NEW i \in 1 .. Len(r), i # 1
        PROVE  i - 1 \in 1 .. Len(q) /\ r[i] = q[i - 1]
    <3>1. i - 1 \in 1 .. Len(q) /\ (i - 1) + 1 = i
      BY <1>1, <2>1
    <3>2. QED
      BY <1>1, <3>1
  <2>2. QED
    BY <2>1
<1> HIDE DEF r
<1>3. Range(r) = {x} \cup Range(q)
  <2>1. ASSUME NEW y \in Range(r) PROVE y \in {x} \cup Range(q)
    <3>1. PICK i \in 1 .. Len(r) : y = r[i]
      BY <1>1 DEF Range
    <3>2. CASE i = 1
      BY <1>1, <3>1, <3>2
    <3>3. CASE i # 1
      <4> DEFINE j == i - 1
      <4>1. j \in DOMAIN q /\ y = q[j]
        BY <1>1, <1>2, <3>1, <3>3
      <4> HIDE DEF j
      <4>2. QED
        BY <4>1 DEF Range
    <3>4. QED
      BY <3>2, <3>3
  <2>2. {x} \cup Range(q) \subseteq Range(r)
    BY <1>1 DEF Range
  <2>3. QED
    BY <2>1, <2>2
<1>4. ASSUME IsInjective(q), x \notin Range(q) PROVE IsInjective(r)
  BY <1>1, <1>2, <1>4 DEF IsInjective, Range
<1>5. QED
  BY <1>1, <1>3, <1>4 DEF r

\* Two lists, one after the other.
LEMMA ConcatOf ==
  ASSUME NEW S, NEW p \in Seq(S), NEW q \in Seq(S)
  PROVE  /\ p \o q \in Seq(S) /\ Range(p \o q) = Range(p) \cup Range(q)
         /\ Len(p \o q) = Len(p) + Len(q)
         /\ IsInjective(p) /\ IsInjective(q) /\ Range(p) \cap Range(q) = {}
              => IsInjective(p \o q)
<1>1. /\ p \o q \in Seq(S) /\ Len(p \o q) = Len(p) + Len(q) /\ Len(p) \in Nat /\ Len(q) \in Nat
      /\ \A i \in 1 .. Len(p) + Len(q) :
           (p \o q)[i] = IF i <= Len(p) THEN p[i] ELSE q[i - Len(p)]
  BY ConcatProperties
<1>2. Range(p \o q) = Range(p) \cup Range(q)
  BY RangeConcatenation
<1>3. ASSUME IsInjective(p), IsInjective(q), Range(p) \cap Range(q) = {},
             NEW i \in 1 .. Len(p) + Len(q), NEW j \in 1 .. Len(p) + Len(q),
             (p \o q)[i] = (p \o q)[j]
      PROVE  i = j
  <2>1. \A k \in 1 .. Len(p) + Len(q) :
          \/ k \in 1 .. Len(p) /\ (p \o q)[k] = p[k] /\ p[k] \in Range(p)
          \/ /\ k - Len(p) \in 1 .. Len(q) /\ (p \o q)[k] = q[k - Len(p)]
             /\ q[k - Len(p)] \in Range(q)
    BY <1>1, MembersOf
  <2>2. CASE i <= Len(p) /\ j <= Len(p)
    BY <1>1, <1>3, <2>2 DEF IsInjective
  <2>3. CASE i > Len(p) /\ j > Len(p)
    <3>1. i - Len(p) \in 1 .. Len(q) /\ j - Len(p) \in 1 .. Len(q)
      BY <1>1, <2>3
    <3>2. q[i - Len(p)] = q[j - Len(p)]
      BY <1>1, <1>3, <2>3
    <3>3. i - Len(p) = j - Len(p)
      BY <1>3, <3>1, <3>2 DEF IsInjective
    <3>4. QED
      BY <1>1, <3>3
  <2>4. CASE (i <= Len(p)) # (j <= Len(p))
    BY <1>1, <1>3, <2>1, <2>4
  <2>5. QED
    BY <1>1, <2>2, <2>3, <2>4
<1>4. DOMAIN (p \o q) = 1 .. Len(p) + Len(q)
  BY <1>1
<1>5. QED
  BY <1>1, <1>2, <1>3, <1>4 DEF IsInjective

\* A list cut after its n-th member.
LEMMA CutOf ==
  ASSUME NEW S, NEW q \in Seq(S), IsInjective(q), NEW n \in 0 .. Len(q)
  PROVE  LET p == SubSeq(q, 1, n)
             r == SubSeq(q, n + 1, Len(q))
         IN  /\ p \in Seq(S) /\ r \in Seq(S) /\ p \o r = q
             /\ Len(p) = n /\ Len(r) = Len(q) - n
             /\ Range(q) = Range(p) \cup Range(r)
             /\ IsInjective(p) /\ IsInjective(r) /\ Range(p) \cap Range(r) = {}
<1> DEFINE p == SubSeq(q, 1, n)
           r == SubSeq(q, n + 1, Len(q))
<1>1. Len(q) \in Nat /\ \A i \in 1 .. Len(q) : q[i] \in S
  OBVIOUS
<1>2. /\ p \in Seq(S) /\ Len(p) = n /\ \A i \in 1 .. n : p[i] = q[i]
  BY <1>1, SubSeqProperties
<1>3. /\ r \in Seq(S) /\ Len(r) = Len(q) - n /\ \A i \in 1 .. Len(q) - n : r[i] = q[n + i]
  <2>1. n + 1 \in Int /\ \A i \in n + 1 .. Len(q) : q[i] \in S
    BY <1>1
  <2>2. /\ r \in Seq(S) /\ Len(r) = (IF n + 1 <= Len(q) THEN Len(q) - (n + 1) + 1 ELSE 0)
        /\ \A i \in 1 .. Len(q) - (n + 1) + 1 : r[i] = q[n + 1 + i - 1]
    BY <1>1, <2>1, SubSeqProperties
  <2>3. QED
    BY <1>1, <2>2
<1> HIDE DEF p, r
<1>4. p \o r = q
  <2>1. /\ p \o r \in Seq(S) /\ Len(p \o r) = Len(q)
        /\ \A i \in 1 .. Len(q) : (p \o r)[i] = IF i <= n THEN p[i] ELSE r[i - n]
    BY <1>1, <1>2, <1>3, ConcatProperties
  <2>2. \A i \in 1 .. Len(q) : (p \o r)[i] = q[i]
    BY <1>1, <1>2, <1>3, <2>1
  <2>3. QED
    BY <2>1, <2>2, SeqEqual
<1>5. Range(q) = Range(p) \cup Range(r)
  BY <1>2, <1>3, <1>4, RangeConcatenation
<1>6. IsInjective(p) /\ IsInjective(r)
  <2>1. IsInjective(p)
    BY <1>1, <1>2 DEF IsInjective
  <2>2. ASSUME NEW i \in 1 .. Len(q) - n, NEW j \in 1 .. Len(q) - n, r[i] = r[j] PROVE i = j
    <3>1. n + i \in 1 .. Len(q) /\ n + j \in 1 .. Len(q) /\ q[n + i] = q[n + j]
      BY <1>1, <1>3, <2>2
    <3>2. n + i = n + j
      BY <3>1 DEF IsInjective
    <3>3. QED
      BY <1>1, <3>2
  <2>3. DOMAIN r = 1 .. Len(q) - n
    BY <1>1, <1>3
  <2>4. QED
    BY <2>1, <2>2, <2>3 DEF IsInjective
<1>7. Range(p) \cap Range(r) = {}
  <2>1. ASSUME NEW i \in 1 .. n, NEW j \in 1 .. Len(q) - n PROVE p[i] # r[j]
    <3>1. i \in 1 .. Len(q) /\ n + j \in 1 .. Len(q) /\ i # n + j
      BY <1>1
    <3>2. p[i] = q[i] /\ r[j] = q[n + j]
      BY <1>2, <1>3
    <3>3. QED
      BY <3>1, <3>2 DEF IsInjective
  <2>2. QED
    BY <1>1, <1>2, <1>3, <2>1 DEF Range
<1>8. QED
  BY <1>2, <1>3, <1>4, <1>5, <1>6, <1>7 DEF p, r

\* The length of a list, with one more and with one less.
LEMMA LengthOf ==
  ASSUME NEW S, NEW q \in Seq(S)
  PROVE  /\ Len(q) \in Nat /\ (q # <<>> => Len(q) > 0 /\ Len(Tail(q)) = Len(q) - 1)
         /\ \A x \in S : Len(Append(q, x)) = Len(q) + 1 /\ Len(<<x>> \o q) = Len(q) + 1
OBVIOUS

\* A list that grows at its end, and one that shrinks at its head, in front of another.
LEMMA JoinedOf ==
  ASSUME NEW S, NEW p \in Seq(S), NEW q \in Seq(S)
  PROVE  /\ p \o q \in Seq(S) /\ <<>> \o q = q
         /\ \A x \in S : p \o Append(q, x) = Append(p \o q, x)
         /\ p # <<>> => p \o q # <<>> /\ Tail(p) \o q = Tail(p \o q)
<1>1. p \o q \in Seq(S) /\ <<>> \o q = q
  BY ConcatProperties, ConcatEmptySeq
<1>2. ASSUME NEW x \in S PROVE p \o Append(q, x) = Append(p \o q, x)
  <2>1. <<x>> \in Seq(S)
    OBVIOUS
  <2>2. Append(q, x) = q \o <<x>> /\ Append(p \o q, x) = (p \o q) \o <<x>>
    BY <1>1, AppendIsConcat
  <2>3. (p \o q) \o <<x>> = p \o (q \o <<x>>)
    BY <2>1, ConcatAssociative
  <2>4. QED
    BY <2>2, <2>3
<1>3. ASSUME p # <<>> PROVE p \o q # <<>> /\ Tail(p) \o q = Tail(p \o q)
  <2>1. PICK h, s : h = Head(p) /\ s = Tail(p)
    OBVIOUS
  <2>2. h \in S /\ s \in Seq(S) /\ <<h>> \in Seq(S)
    BY <1>3, <2>1, HeadTailProperties
  <2>3. ASSUME NEW r \in Seq(S) PROVE Tail(<<h>> \o r) = r
    <3>1. PICK u : u = <<h>> \o r
      OBVIOUS
    <3>2. /\ Len(r) \in Nat /\ u \in Seq(S) /\ Len(u) = Len(r) + 1 /\ u # <<>>
          /\ \A i \in 1 .. Len(r) : u[i + 1] = r[i]
      BY <2>2, <3>1
    <3>3. Tail(u) \in Seq(S) /\ Len(Tail(u)) = Len(r) /\ \A i \in 1 .. Len(r) : Tail(u)[i] = u[i + 1]
      BY <3>2
    <3>4. Tail(u) = r
      BY <3>2, <3>3, SeqEqual
    <3>5. QED
      BY <3>1, <3>4
  <2>4. p = <<h>> \o s
    <3>1. PICK u : u = <<h>> \o s
      OBVIOUS
    <3>2. /\ Len(s) \in Nat /\ u \in Seq(S) /\ Len(u) = Len(s) + 1 /\ u[1] = h
          /\ \A i \in 1 .. Len(s) : u[i + 1] = s[i]
      BY <2>2, <3>1
    <3>3. Len(p) = Len(s) + 1 /\ p[1] = h /\ \A i \in 1 .. Len(s) : p[i + 1] = s[i]
      BY <1>3, <2>1
    <3>4. ASSUME NEW i \in 1 .. Len(s) + 1 PROVE u[i] = p[i]
      <4>1. CASE i = 1
        BY <3>2, <3>3, <4>1
      <4>2. CASE i # 1
        <5>1. i - 1 \in 1 .. Len(s) /\ (i - 1) + 1 = i
          BY <3>2, <4>2
        <5>2. QED
          BY <3>2, <3>3, <5>1
      <4>3. QED
        BY <4>1, <4>2
    <3>5. u = p
      BY <3>2, <3>3, <3>4, SeqEqual
    <3>6. QED
      BY <3>1, <3>5
  <2>5. (<<h>> \o s) \o q = <<h>> \o (s \o q) /\ s \o q \in Seq(S)
    BY <2>2, ConcatAssociative, ConcatProperties
  <2>6. Tail(p \o q) = s \o q
    BY <2>3, <2>4, <2>5
  <2>7. p \o q # <<>>
    BY <1>3, ConcatEqualIffEmpty
  <2>8. QED
    BY <2>1, <2>6, <2>7
<1>4. QED
  BY <1>1, <1>2, <1>3

\* A list without its i-th member.
LEMMA RemovedOf ==
  ASSUME NEW S, NEW q \in Seq(S), IsInjective(q), NEW i \in 1 .. Len(q)
  PROVE  /\ RemoveAt(q, i) \in Seq(S) /\ IsInjective(RemoveAt(q, i))
         /\ Len(RemoveAt(q, i)) = Len(q) - 1 /\ Range(RemoveAt(q, i)) = Range(q) \ {q[i]}
<1> DEFINE p == SubSeq(q, 1, i - 1)
           r == SubSeq(q, i, Len(q))
           s == SubSeq(q, i + 1, Len(q))
<1>1. Len(q) \in Nat /\ i - 1 \in 0 .. Len(q) /\ i \in 0 .. Len(q) /\ (i - 1) + 1 = i /\ q[i] \in S
  OBVIOUS
<1>10. \A n \in 0 .. Len(q) :
          /\ SubSeq(q, 1, n) \in Seq(S) /\ SubSeq(q, n + 1, Len(q)) \in Seq(S)
          /\ Len(SubSeq(q, 1, n)) = n
          /\ Range(q) = Range(SubSeq(q, 1, n)) \cup Range(SubSeq(q, n + 1, Len(q)))
          /\ IsInjective(SubSeq(q, 1, n)) /\ IsInjective(SubSeq(q, n + 1, Len(q)))
          /\ Range(SubSeq(q, 1, n)) \cap Range(SubSeq(q, n + 1, Len(q))) = {}
  BY CutOf, Zenon
<1>2. /\ p \in Seq(S) /\ r \in Seq(S) /\ Len(p) = i - 1 /\ Range(q) = Range(p) \cup Range(r)
      /\ IsInjective(p) /\ IsInjective(r) /\ Range(p) \cap Range(r) = {}
  BY <1>1, <1>10
<1>3. s \in Seq(S) /\ Len(s) = Len(q) - i /\ IsInjective(s)
  <2>1. s \in Seq(S) /\ IsInjective(s)
    BY <1>1, <1>10
  <2>2. Len(s) = Len(q) - i
    BY <1>1
  <2>3. QED
    BY <2>1, <2>2
<1>4. r = <<q[i]>> \o s
  BY <1>1, SubSeqRecursiveFirst
<1> HIDE DEF p, r, s
<1>5. Range(r) = {q[i]} \cup Range(s) /\ q[i] \notin Range(s)
  <2>1. Range(r) = {q[i]} \cup Range(s)
    BY <1>1, <1>3, <1>4, PrependOf
  <2>2. /\ \A k \in 1 .. Len(s) : k + 1 \in DOMAIN r /\ r[k + 1] = s[k] /\ 1 # k + 1
        /\ 1 \in DOMAIN r /\ r[1] = q[i]
    BY <1>1, <1>3, <1>4
  <2>3. \A k \in 1 .. Len(s) : s[k] # q[i]
    BY <1>2, <2>2 DEF IsInjective
  <2>4. QED
    BY <1>3, <2>1, <2>3, MembersOf
<1>6. /\ p \o s \in Seq(S) /\ IsInjective(p \o s) /\ Len(p \o s) = Len(q) - 1
      /\ Range(p \o s) = Range(p) \cup Range(s)
  <2>1. Range(p) \cap Range(s) = {}
    BY <1>2, <1>5
  <2>2. /\ p \o s \in Seq(S) /\ IsInjective(p \o s) /\ Len(p \o s) = Len(p) + Len(s)
        /\ Range(p \o s) = Range(p) \cup Range(s)
    <3>1. \A a, b \in Seq(S) :
            /\ a \o b \in Seq(S) /\ Len(a \o b) = Len(a) + Len(b)
            /\ Range(a \o b) = Range(a) \cup Range(b)
            /\ IsInjective(a) /\ IsInjective(b) /\ Range(a) \cap Range(b) = {} => IsInjective(a \o b)
      BY ConcatOf
    <3>2. QED
      BY <1>2, <1>3, <2>1, <3>1
  <2>3. QED
    BY <1>1, <1>2, <1>3, <2>2
<1>7. RemoveAt(q, i) = p \o s
  BY DEF RemoveAt, p, s
<1>8. Range(p) \cup Range(s) = Range(q) \ {q[i]}
  BY <1>2, <1>5
<1>9. QED
  BY <1>6, <1>7, <1>8

-----------------------------------------------------------------------------
(* Counting what several owners have: pair <<x, i>> is the i-th thing of x. *)

Piles(S, n) == UNION {{x} \X (1 .. n[x]) : x \in S}

\* One pile has as many members as it says.
LEMMA PileOf ==
  ASSUME NEW x, NEW k \in Nat
  PROVE  IsFiniteSet({x} \X (1 .. k)) /\ Cardinality({x} \X (1 .. k)) = k
<1>1. IsFiniteSet(1 .. k) /\ Cardinality(1 .. k) = k
  BY FS_Interval
<1>2. IsFiniteSet({x}) /\ Cardinality({x}) = 1
  BY FS_Singleton
<1>3. QED
  BY <1>1, <1>2, FS_Product

\* Finitely many owners have finitely many things.
LEMMA PilesFinite ==
  ASSUME NEW S, IsFiniteSet(S), NEW n \in [S -> Nat]
  PROVE  IsFiniteSet(Piles(S, n)) /\ Cardinality(Piles(S, n)) \in Nat
<1> DEFINE P == {{x} \X (1 .. n[x]) : x \in S}
           f == [x \in S |-> {x} \X (1 .. n[x])]
<1>1. f \in Surjection(S, P)
  BY DEF Surjection
<1>2. \A T \in P : IsFiniteSet(T)
  <2>1. ASSUME NEW x \in S PROVE IsFiniteSet({x} \X (1 .. n[x]))
    BY PileOf
  <2>2. QED
    BY <2>1
<1> HIDE DEF f, P
<1>3. IsFiniteSet(P)
  BY <1>1, FS_Surjection
<1>4. IsFiniteSet(UNION P)
  BY <1>2, <1>3, FS_UNION
<1>5. QED
  BY <1>4, FS_CardinalityType DEF Piles, P

\* All things but one owner's, and that owner's.
LEMMA PilesSplit ==
  ASSUME NEW S, IsFiniteSet(S), NEW n \in [S -> Nat], NEW x \in S
  PROVE  /\ Cardinality(Piles(S \ {x}, n)) \in Nat
         /\ Cardinality(Piles(S, n)) = Cardinality(Piles(S \ {x}, n)) + n[x]
<1> DEFINE A == Piles(S \ {x}, n)
           B == {x} \X (1 .. n[x])
<1>1. A = Piles(S \ {x}, [y \in S \ {x} |-> n[y]])
  BY DEF Piles
<1>2. IsFiniteSet(S \ {x})
  BY FS_Subset
<1>3. IsFiniteSet(A) /\ Cardinality(A) \in Nat
  <2>1. [y \in S \ {x} |-> n[y]] \in [S \ {x} -> Nat]
    OBVIOUS
  <2> HIDE DEF A
  <2>2. QED
    BY <1>1, <1>2, <2>1, PilesFinite
<1>4. n[x] \in Nat /\ IsFiniteSet(B) /\ Cardinality(B) = n[x]
  BY PileOf
<1>5. Piles(S, n) = A \cup B
  BY DEF Piles
<1>6. A \cap B = {}
  BY DEF Piles
<1> HIDE DEF A, B
<1>7. Cardinality(A \cup B) = Cardinality(A) + Cardinality(B) - Cardinality({})
  BY <1>3, <1>4, <1>6, FS_Union
<1>8. Cardinality({}) = 0
  BY FS_EmptySet
<1>9. QED
  BY <1>3, <1>4, <1>5, <1>7, <1>8 DEF A

\* One owner has more, or less, than before; nobody has more than all.
LEMMA PileChanges ==
  ASSUME NEW S, IsFiniteSet(S), NEW n \in [S -> Nat], NEW m \in [S -> Nat], NEW x \in S,
         \A y \in S \ {x} : m[y] = n[y]
  PROVE  /\ Cardinality(Piles(S, m)) = Cardinality(Piles(S, n)) - n[x] + m[x]
         /\ n[x] <= Cardinality(Piles(S, n))
<1>1. Piles(S \ {x}, m) = Piles(S \ {x}, n)
  BY DEF Piles
<1>2. /\ Cardinality(Piles(S \ {x}, m)) \in Nat
      /\ Cardinality(Piles(S, m)) = Cardinality(Piles(S \ {x}, m)) + m[x]
  BY PilesSplit
<1>3. /\ Cardinality(Piles(S \ {x}, n)) \in Nat
      /\ Cardinality(Piles(S, n)) = Cardinality(Piles(S \ {x}, n)) + n[x]
  BY PilesSplit
<1>4. n[x] \in Nat /\ m[x] \in Nat
  OBVIOUS
<1>5. QED
  BY <1>1, <1>2, <1>3, <1>4

\* Whoever has less everywhere has less in all.
LEMMA PilesOrdered ==
  ASSUME NEW S, IsFiniteSet(S), NEW n \in [S -> Nat], NEW m \in [S -> Nat],
         \A x \in S : n[x] <= m[x]
  PROVE  Cardinality(Piles(S, n)) <= Cardinality(Piles(S, m))
<1>1. Piles(S, n) \subseteq Piles(S, m)
  <2>1. \A x \in S : 1 .. n[x] \subseteq 1 .. m[x]
    OBVIOUS
  <2>2. QED
    BY <2>1 DEF Piles
<1>2. IsFiniteSet(Piles(S, m))
  BY PilesFinite
<1>3. QED
  BY <1>1, <1>2, FS_Subset

\* Nobody has anything.
LEMMA PilesEmpty ==
  ASSUME NEW S, NEW n \in [S -> Nat], \A x \in S : n[x] = 0
  PROVE  Cardinality(Piles(S, n)) = 0
<1>1. Piles(S, n) = {}
  BY DEF Piles
<1>2. QED
  BY <1>1, FS_EmptySet

-----------------------------------------------------------------------------
(* Counting up.                                                            *)

\* A set that holds zero and the successor of each number it holds holds all:
\* the numbers below the least one outside would be a least set of numbers.
LEMMA CountingUp ==
  ASSUME NEW S, 0 \in S, \A n \in Nat : n \in S => n + 1 \in S
  PROVE  Nat \subseteq S
<1> SUFFICES ASSUME NEW m \in Nat, m \notin S PROVE FALSE
  OBVIOUS
<1> DEFINE Below(n) == {k \in Nat : k < n}
           T == {Below(n) : n \in Nat \ S}
<1>1. \A n \in Nat : Below(n) \in FiniteSubsetsOf(Nat)
  <2> TAKE n \in Nat
  <2>1. Below(n) \subseteq 0 .. n /\ IsFiniteSet(0 .. n)
    BY FS_Interval
  <2>2. IsFiniteSet(Below(n))
    BY <2>1, FS_Subset
  <2>3. QED
    BY <2>2 DEF FiniteSubsetsOf
<1>2. \E x \in T : \A y \in T : ~ (<<y, x>> \in StrictSubsetOrdering(Nat))
  <2>1. T \subseteq FiniteSubsetsOf(Nat) /\ T # {}
    BY <1>1
  <2> HIDE DEF T
  <2>2. QED
    BY <2>1, WFMin, FS_StrictSubsetOrderingWellFounded
<1>3. PICK k \in Nat \ S : \A n \in Nat \ S : ~ (<<Below(n), Below(k)>> \in StrictSubsetOrdering(Nat))
  BY <1>2
<1>4. k # 0 /\ k - 1 \in Nat /\ (k - 1) + 1 = k
  OBVIOUS
<1>5. k - 1 \in Nat \ S
  BY <1>3, <1>4
<1>6. Below(k - 1) \subseteq Below(k) /\ k - 1 \in Below(k) /\ k - 1 \notin Below(k - 1)
  BY <1>4
<1>7. <<Below(k - 1), Below(k)>> \in StrictSubsetOrdering(Nat)
  BY <1>6 DEF StrictSubsetOrdering
<1>8. QED
  BY <1>3, <1>5, <1>7
=============================================================================
