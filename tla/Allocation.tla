----------------------------- MODULE Allocation -----------------------------
(***************************************************************************)
(* What funding and claiming promise to the recipients and the holders of  *)
(* the token, however often the programs are run, stopped and overtaken:   *)
(* each allocation is minted at most once and for its exact amount, is     *)
(* paid out at most once and as a whole, and nothing else moves the supply *)
(* of the token.  Payout implements this specification.                    *)
(***************************************************************************)
EXTENDS Naturals

CONSTANTS
    Recipients,     \* one for each enrollment
    Amount,         \* Amount[k]: the allocation of k
    Total,          \* the supply that the token is created with
    NoToken         \* there is no token yet

VARIABLES
    status,         \* status[k]: "open", "funded" or "claimed"
    supply          \* the supply of the token, or NoToken

vars == <<status, supply>>

Init ==
    /\ status = [k \in Recipients |-> "open"]
    /\ supply = NoToken

Create ==
    /\ supply = NoToken
    /\ supply' = Total
    /\ UNCHANGED status

Fund(k) ==
    /\ supply # NoToken
    /\ status[k] = "open"
    /\ status' = [status EXCEPT ![k] = "funded"]
    /\ supply' = supply + Amount[k]

Claim(k) ==
    /\ status[k] = "funded"
    /\ status' = [status EXCEPT ![k] = "claimed"]
    /\ UNCHANGED supply

Next == Create \/ \E k \in Recipients : Fund(k) \/ Claim(k)

Spec == Init /\ [][Next]_vars
=============================================================================
