---------------------------- MODULE ResultStream ----------------------------
(***************************************************************************)
(* What reading the result set of an operation promises the program: the   *)
(* rows come in the order of the result set, each at most once, and rows   *)
(* are missing only once a failure has been reported.                      *)
(***************************************************************************)
EXTENDS Integers, Sequences

VARIABLES
  numRows,  \* the result set is the rows 1 .. numRows
  pos,      \* the rows up to pos have been delivered or given up
  out,      \* the rows delivered
  failed    \* a failure has been reported

vars == <<numRows, pos, out, failed>>

Rows(from, k) == [i \in 1..k |-> from + i]

Init ==
  /\ numRows \in Nat
  /\ pos = 0
  /\ out = <<>>
  /\ failed = FALSE

Deliver(k) ==
  /\ out' = out \o Rows(pos, k)
  /\ pos' = pos + k
  /\ UNCHANGED <<numRows, failed>>

Lose(k) ==
  /\ failed' = TRUE
  /\ pos' = pos + k
  /\ UNCHANGED <<numRows, out>>

Next == \E k \in 0..(numRows - pos) : Deliver(k) \/ Lose(k)

Spec == Init /\ [][Next]_vars
=============================================================================
