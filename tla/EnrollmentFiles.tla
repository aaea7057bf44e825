--------------------------- MODULE EnrollmentFiles ---------------------------
(***************************************************************************)
(* The enrollment directory: one file per name, written by airdrop_enroll, *)
(* read in the order of the names by airdrop_deploy, airdrop_fund and      *)
(* airdrop_status.  Deployment and Payout extend this module.              *)
(***************************************************************************)
EXTENDS Naturals, Sequences, FiniteSets, SequencesExt

CONSTANTS
    Invocations,        \* the airdrop_enroll command lines: [name, amount]
    None                \* no file, no data, no account

ASSUME InvocationsAssumption == Invocations \in Seq([name : Nat, amount : Nat])

Enrollees == DOMAIN Invocations
Names == {Invocations[k].name : k \in Enrollees}

VARIABLE file           \* file[n]: the enrollment file of name n, or None

\* A wallet creates a fresh account each time, so an account is named after the
\* invocation that created it.
DAccount(k) == <<"D", k>>
MainAccount(k) == <<"main", k>>

\* eligibility_leaf, over an injective hash.
Leaf(d) == <<"leaf", d>>

Enrollment(k) ==
    [name         |-> Invocations[k].name,
     amount       |-> Invocations[k].amount,
     d_account    |-> DAccount(k),
     main_account |-> MainAccount(k),
     leaf         |-> Leaf(DAccount(k))]

\* The names of the enrollment files in order: there is one such listing.  The
\* programs make it before they open the first of the files.
Listings ==
    {names \in SetToSeqs({n \in Names : file[n] # None}) :
        \A i, j \in DOMAIN names : i < j => names[i] < names[j]}

\* What a program reads in which nobody writes in the meantime.
Enrollments ==
    LET names == CHOOSE names \in Listings : TRUE
    IN [j \in DOMAIN names |-> file[names[j]]]

TotalAllocation(enrollments) ==
    FoldLeft(LAMBDA sum, e : sum + e.amount, 0, enrollments)
=============================================================================
