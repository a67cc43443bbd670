---------------------------- MODULE FlatMessage -----------------------------
(***************************************************************************)
(* What the interface of a bus message promises (cncbus.h:215-285): a      *)
(* flat run of bytes with a size and a cursor.  The byte that belongs at   *)
(* offset o is written o, so a byte out of place shows.                    *)
(***************************************************************************)
EXTENDS Integers, Sequences

CONSTANT Amounts

VARIABLES written, size, cursor, got

flat == <<written, size, cursor, got>>

Init == written = {} /\ size = 0 /\ cursor = 0 /\ got = <<>>

\* The sender writes n bytes, all or none.
Write(n) ==
  /\ written' = written \cup cursor .. cursor + n - 1
  /\ cursor' = cursor + n
  /\ size' = IF size < cursor' THEN cursor' ELSE size
  /\ got' = <<>>

SetSize(n) == size' = n /\ got' = <<>> /\ UNCHANGED <<written, cursor>>

\* A read takes what there is; a byte nobody wrote may be anything.
Read(n) ==
  LET len == IF n < size - cursor THEN n ELSE size - cursor
  IN /\ Len(got') = len /\ cursor' = cursor + len
     /\ \A i \in 1 .. len : cursor + i - 1 \in written => got'[i] = cursor + i - 1
     /\ UNCHANGED <<written, size>>

Seek == cursor' \in 0 .. size /\ got' = <<>> /\ UNCHANGED <<written, size>>

\* A message that fails to grow is as it was.
Fail == got' = <<>> /\ UNCHANGED <<written, size, cursor>>

\* Each receiver reads from the start; a message let go leaves nothing.
Restart == cursor' = 0 /\ got' = <<>> /\ UNCHANGED <<written, size>>
Clear == written' = {} /\ size' = 0 /\ cursor' = 0 /\ got' = <<>>

Next == \/ \E n \in Amounts : Write(n) \/ SetSize(n) \/ Read(n)
        \/ Seek \/ Fail \/ Restart \/ Clear

Spec == Init /\ [][Next]_flat
=============================================================================
