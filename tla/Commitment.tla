----------------------------- MODULE Commitment -----------------------------
(***************************************************************************)
(* What an airdrop distribution promises to everyone who reads the chain,  *)
(* whoever sends transactions and in whatever order they are executed:     *)
(* the terms of a distribution (root, token, totals, distributor, time of  *)
(* commitment) are written once and never change, and a freeze, possible   *)
(* once the terms exist, is never undone.  AirdropProgram implements this  *)
(* specification.                                                          *)
(***************************************************************************)
EXTENDS Naturals

CONSTANTS
    Ids,            \* distribution ids
    Terms,          \* every record of terms that may be committed
    NoTerms         \* stands for "nothing committed yet"

VARIABLES
    terms,          \* terms[i]: what distribution i committed to, or NoTerms
    frozen          \* the distributions that have been frozen

vars == <<terms, frozen>>

Init ==
    /\ terms = [i \in Ids |-> NoTerms]
    /\ frozen = {}

\* terms' is constrained by membership: Terms is infinite, it is not enumerated.
Commit(i) ==
    /\ terms[i] = NoTerms
    /\ terms'[i] \in Terms
    /\ terms' = [terms EXCEPT ![i] = terms'[i]]
    /\ UNCHANGED frozen

Freeze(i) ==
    /\ terms[i] # NoTerms
    /\ i \notin frozen
    /\ frozen' = frozen \cup {i}
    /\ UNCHANGED terms

Next == \E i \in Ids : Commit(i) \/ Freeze(i)

Spec == Init /\ [][Next]_vars
=============================================================================
