----------------------------- MODULE Structures -----------------------------
(***************************************************************************)
(* What one thread uses at a time, and is proved about: the pool, the      *)
(* files of the cache, and a message of the bus in its fragments.          *)
(***************************************************************************)
EXTENDS MemoryPool, Cache

CONSTANTS F, D, MsgOfs, Frags, Amounts, HeadSeeks, EndSeeks, Shrinks    \* of CncBusMsg

ASSUME MessageAssumption ==
  /\ {F, D, MsgOfs, Frags} \subseteq Nat \ {0} /\ D < F /\ Amounts \subseteq Nat \ {0}
  /\ {HeadSeeks, EndSeeks, Shrinks} \subseteq BOOLEAN

VARIABLES phase, frags, reserved, size, cur, got              \* of CncBusMsg

Msg == INSTANCE CncBusMsg

\* A message in its fragments is the flat one of the interface.
ImplementsFlatMessage == Msg!ImplementsFlatMessage
=============================================================================
