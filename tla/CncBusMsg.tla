----------------------------- MODULE CncBusMsg ------------------------------
(***************************************************************************)
(* A message of the bus as the fragments it is kept in (cncbus.c:616-835): *)
(* the first one begins with the message's own fields, a cursor is a       *)
(* fragment, a place in it and an offset that must agree.                  *)
(***************************************************************************)
EXTENDS Integers, Sequences, FiniteSetsExt

CONSTANTS
  F,         \* message_fragment_size
  D,         \* first_msg_frag_ofs: where the data of the first fragment begins
  MsgOfs,    \* ALIGN_INT(sizeof(cncbus_msg_t), 8), which a seek takes for it
  Frags,     \* fragments of the bus
  Amounts,   \* sizes written, read and reserved
  HeadSeeks, \* whether seeks may fall back on the first fragment
  EndSeeks,  \* whether seeks may fail an assertion, which stops the program
  Shrinks    \* whether a size may be set before the cursor

VARIABLES
  phase,     \* "none", "build": the sender's, "deliver": a receiver's, "trapped"
  frags,     \* the fragments of the message: what each place holds
  reserved, size,        \* of cncbus_msg_data_t
  cur,       \* the cursor in use: [frag, ofs, cursor]
  got        \* what the last read gave

vars == <<phase, frags, reserved, size, cur, got>>

Alive == phase \in {"build", "deliver"}

Junk == -1
Field == -2
FirstSize == F - D
Start == [frag |-> 1, ofs |-> D, cursor |-> 0]

Init == phase = "none" /\ frags = <<>> /\ reserved = 0 /\ size = 0 /\ cur = Start /\ got = <<>>

Fresh == [i \in 0 .. F - 1 |-> Junk]

\* cncbus_msg_begin_unchecked
Begin ==
  /\ phase = "none" /\ phase' = "build"
  /\ frags' = <<[i \in 0 .. F - 1 |-> IF i < D THEN Field ELSE Junk]>>
  /\ reserved' = FirstSize /\ cur' = Start
  /\ UNCHANGED <<size, got>>

\* cncbus_msg_reserve_unchecked: the message keeps what it got when the bus
\* has not enough fragments.
Needed(n) == IF n <= reserved THEN 0 ELSE (n - reserved + F - 1) \div F
Reserved(n) == Needed(n) <= Frags - Len(frags)
Grown(n) ==
  LET k == Min({Needed(n), Frags - Len(frags)})
  IN frags \o [i \in 1 .. k |-> Fresh]

Reserve(n) ==
  /\ phase = "build"
  /\ frags' = Grown(n) /\ reserved' = reserved + F * (Len(frags') - Len(frags))
  /\ got' = <<>> /\ UNCHANGED <<phase, size, cur>>

\* Behind the first fragment's fields the data lies end to end: place p is
\* at p % F of fragment p \div F + 1.
Place(c) == (c.frag - 1) * F + c.ofs
At(p) == frags[p \div F + 1][p % F]

\* The cursor n > 0 bytes on stays at the end of a fragment it fills.
Moved(c, n) ==
  LET last == Place(c) + n - 1
  IN [frag |-> last \div F + 1, ofs |-> (last % F) + 1, cursor |-> c.cursor + n]

\* Mutant: what does not fit into the fragment is dropped.
BugStored(g, n) ==
  [k \in DOMAIN g |-> [i \in 0 .. F - 1 |->
        IF k = cur.frag /\ i \in cur.ofs .. cur.ofs + n - 1 THEN cur.cursor + i - cur.ofs ELSE g[k][i]]]

\* The bytes of the message from the cursor on, over as many fragments as it takes.
Stored(g, n) ==
  LET p == Place(cur)
  IN [k \in DOMAIN g |-> [i \in 0 .. F - 1 |->
        LET at == (k - 1) * F + i
        IN IF at \in p .. p + n - 1 THEN cur.cursor + at - p ELSE g[k][i]]]

\* cncbus_msg_write_unchecked
Write(n) ==
  /\ phase = "build"
  /\ IF Reserved(cur.cursor + n)
     THEN /\ frags' = Stored(Grown(cur.cursor + n), n)
          /\ cur' = Moved(cur, n) /\ size' = Max({size, cur.cursor + n})
     ELSE frags' = Grown(cur.cursor + n) /\ UNCHANGED <<cur, size>>
  /\ reserved' = reserved + F * (Len(frags') - Len(frags))
  /\ got' = <<>> /\ UNCHANGED phase

\* cncbus_msg_set_size_unchecked
SetSize(n) ==
  /\ phase = "build" /\ (Shrinks \/ cur.cursor <= n)
  /\ frags' = Grown(n) /\ reserved' = reserved + F * (Len(frags') - Len(frags))
  /\ size' = IF Reserved(n) THEN n ELSE size
  /\ got' = <<>> /\ UNCHANGED <<phase, cur>>

ToRead(n) == Min({n, size - cur.cursor})

\* cncbus_msg_read
Read(n) ==
  /\ Alive
  /\ LET len == Max({ToRead(n), 0})
     IN /\ got' = [i \in 1 .. len |-> At(Place(cur) + i - 1)]
        /\ cur' = IF len = 0 THEN cur ELSE Moved(cur, len)
  /\ UNCHANGED <<phase, frags, reserved, size>>

\* The seek that stays where it is: the first fragment's limit is its size
\* where its end is meant.
Limit == IF cur.frag = 1 THEN FirstSize ELSE F
StaysInFragment(c) ==
  LET ofs == cur.ofs + c - cur.cursor
  IN ofs >= 0 /\ (ofs < Limit \/ (ofs = Limit /\ c = size))

\* The other walks from the first fragment on, from MsgOfs instead of D.
Walked(c) ==
  IF c <= FirstSize THEN [frag |-> 1, ofs |-> MsgOfs + c, cursor |-> c]
  ELSE Moved(Start, c)

\* The walk may fill a fragment only at the end of the message, and the place
\* in the first fragment is never among the message's own fields.
WalkAsserted(at, size_of_frag) ==
  at.ofs < size_of_frag \/ (at.ofs = size_of_frag /\ at.cursor = size)
Asserted(c) ==
  /\ cur.frag = 1 => cur.ofs + c - cur.cursor >= D
  /\ \/ StaysInFragment(c)
     \/ WalkAsserted(Walked(c), IF c <= FirstSize THEN FirstSize ELSE F)

\* cncbus_msg_seek to offset c, however it was given
Seek(c) ==
  /\ Alive /\ c \in 0 .. size
  /\ HeadSeeks \/ StaysInFragment(c) \/ c > FirstSize
  /\ EndSeeks \/ Asserted(c)
  /\ phase' = IF Asserted(c) THEN phase ELSE "trapped"
  /\ cur' = IF StaysInFragment(c) THEN [cur EXCEPT !.ofs = @ + c - cur.cursor, !.cursor = c]
            ELSE Walked(c)
  /\ got' = <<>> /\ UNCHANGED <<frags, reserved, size>>

\* cncbus_send_async hands the message over; cncbus_dispatch gives each
\* receiver a cursor of its own; the last one frees it, as cancel does.
Deliver ==
  /\ Alive /\ phase' = "deliver" /\ cur' = Start /\ got' = <<>>
  /\ UNCHANGED <<frags, reserved, size>>

Release ==
  /\ Alive /\ phase' = "none" /\ frags' = <<>> /\ reserved' = 0 /\ size' = 0
  /\ cur' = Start /\ got' = <<>>

Next == \/ Begin \/ Deliver \/ Release
        \/ \E n \in Amounts : Reserve(n) \/ Write(n) \/ SetSize(n) \/ Read(n)
        \/ \E c \in 0 .. F * Frags : Seek(c)

Spec == Init /\ [][Next]_vars

-----------------------------------------------------------------------------
(* Properties. *)

\* A message has the fragments its reserved size needs and no more than the
\* bus has, its size is within them, only the first begins with fields, and no
\* assertion of a seek fails.
TypeOK ==
  /\ phase \in {"none", "build", "deliver"}
  /\ Len(frags) \in 0 .. Frags
  /\ \A k \in DOMAIN frags : frags[k] \in [0 .. F - 1 -> Field .. F * Frags]
  /\ phase # "none" => reserved = F * Len(frags) - D /\ size \in 0 .. reserved
  /\ phase # "none" => \A i \in 0 .. F - 1 : (frags[1][i] = Field) <=> (i < D)
  /\ cur \in [frag : 1 .. Frags + 1, ofs : 0 .. 2 * F, cursor : 0 .. F * Frags]

\* The message in its fragments is the flat one the interface promises.
Flat == INSTANCE FlatMessage WITH
  written <- {o \in 0 .. F * Len(frags) - D - 1 : At(D + o) = o},
  cursor <- cur.cursor
ImplementsFlatMessage == []TypeOK /\ Flat!Spec
=============================================================================
