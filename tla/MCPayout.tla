------------------------------ MODULE MCPayout ------------------------------
(***************************************************************************)
(* Recipients with equal allocations, where one mint can be taken for      *)
(* another; somebody who enrolls late, for whom the supply has no room;    *)
(* somebody who enrolls again under the same name.                         *)
(***************************************************************************)
EXTENDS Payout

\* The third enrolls late.
MCLate ==
    <<[name |-> 1, amount |-> 1], [name |-> 2, amount |-> 1], [name |-> 3, amount |-> 1]>>

\* The second replaces the file of the first.
MCAgain ==
    <<[name |-> 1, amount |-> 1], [name |-> 1, amount |-> 1]>>

First == {1}
FirstTwo == {1, 2}
=============================================================================
