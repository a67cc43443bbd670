---------------------------- MODULE MCHttpxPump ----------------------------
(* A finite instance of HttpxPump for TLC. *)
EXTENDS HttpxPump, TLC

CONSTANTS r1, r2

H(n) == [kind |-> "header", size |-> n]
B(n) == [kind |-> "body", size |-> n]

\* Headers that take two fragments before a body, and a body that takes two.
LongHeaders == <<H(1), H(1), B(1)>>
LongBody == <<B(2)>>
Answers == {LongHeaders, LongBody}

MCInit == Init /\ script = (r1 :> LongHeaders @@ r2 :> LongBody)
MCSpec == MCInit /\ [][Next]_vars /\ Fairness
=============================================================================
