------------------------------- MODULE Payout -------------------------------
(***************************************************************************)
(* From a committed distribution to tokens in the recipients' hands: the   *)
(* distributor runs airdrop_fund, recipients run airdrop_claim, each as    *)
(* often as they like, at the same time, and stopping anywhere.  Somebody  *)
(* may still enroll, and the distribution may be frozen.                   *)
(*                                                                         *)
(* Tokens are in private accounts.  The chain holds one version of each; a *)
(* transaction is built from versions that the sender's wallet has seen,   *)
(* and spends them: it is refused when one of them is not the latest any   *)
(* more.  That ledger is external, the programs are translated.            *)
(***************************************************************************)
EXTENDS EnrollmentFiles

CONSTANTS
    CommittedEnrollees, \* those whose files airdrop_deploy committed to
    MaxFunds,           \* bound on the runs of airdrop_fund
    MaxClaims,          \* bound on the runs of airdrop_claim
    MaxAmount           \* u128::MAX

ASSUME PayoutAssumption ==
    CommittedEnrollees \subseteq Enrollees
    /\ MaxFunds \in Nat /\ MaxClaims \in Nat /\ MaxAmount \in Nat

CommittedTotal == MapThenSumSet(LAMBDA k : Invocations[k].amount, CommittedEnrollees)

\* airdrop_deploy adds the allocations up with a check for overflow.
ASSUME TotalAssumption == CommittedTotal \in 0 .. MaxAmount

Funds == 1 .. MaxFunds
Claims == 1 .. MaxClaims

Definition == <<"definition">>
PrivateAccounts == {Definition} \cup {DAccount(k) : k \in Enrollees}
                                \cup {MainAccount(k) : k \in Enrollees}

Notes == [version : Nat, amount : 0 .. MaxAmount]

ASSUME NoneIsNothing ==
    None \notin Nat \cup Notes \cup {Enrollment(k) : k \in Enrollees}

VARIABLES
    enrolled,   \* invocations of airdrop_enroll that have taken place
    note,       \* note[a]: the latest version of account a on the chain, or None;
                \* its amount is the supply of the definition, else a balance
    active,     \* DistributionState::is_active of the distribution
    pool,       \* transactions sent and not yet executed
    fund,       \* fund[r]: the r-th run of airdrop_fund
    claim       \* claim[c]: the c-th run of airdrop_claim

fileVars == <<file, enrolled>>
vars == <<fileVars, note, active, pool, fund, claim>>

-----------------------------------------------------------------------------
(* The private ledger *)

DefinitionTx(total) == [kind |-> "definition", amount |-> total]

\* Spends version from of the definition and creates account to.
MintTx(r, from, to, amount) ==
    [kind |-> "mint", by |-> r, from |-> from, to |-> to, amount |-> amount]

\* Spends the versions of both accounts that the sender has seen.
TransferTx(c, from, fromNote, to, toNote, amount) ==
    [kind |-> "transfer", by |-> c, from |-> from, fromNote |-> fromNote,
     to |-> to, toNote |-> toNote, amount |-> amount]

NextVersion(seen, amount) ==
    [version |-> IF seen = None THEN 0 ELSE seen.version + 1, amount |-> amount]

ExecuteDefinition(tx) ==
    /\ tx.kind = "definition"
    /\ pool' = pool \ {tx}
    /\ note' = [note EXCEPT ![Definition] = NextVersion(None, tx.amount)]
    /\ UNCHANGED <<fileVars, active, fund, claim>>

\* Refused if the definition was spent meanwhile, or the account exists: a mint
\* to a foreign private account creates it.
ExecuteMint(tx) ==
    /\ tx.kind = "mint"
    /\ pool' = pool \ {tx}
    /\ note' = IF note[Definition] = tx.from /\ note[tx.to] = None
               THEN [note EXCEPT
                      ![Definition] = NextVersion(tx.from, tx.from.amount + tx.amount),
                      ![tx.to] = NextVersion(None, tx.amount)]
               ELSE note
    /\ UNCHANGED <<fileVars, active, fund, claim>>

\* Refused, as a double spend, if either account was spent meanwhile.
ExecuteTransfer(tx) ==
    /\ tx.kind = "transfer"
    /\ pool' = pool \ {tx}
    /\ note' = IF note[tx.from] = tx.fromNote /\ note[tx.to] = tx.toNote
               THEN [note EXCEPT
                      ![tx.from] = NextVersion(tx.fromNote, tx.fromNote.amount - tx.amount),
                      ![tx.to] = NextVersion(tx.toNote,
                          tx.amount + IF tx.toNote = None THEN 0 ELSE tx.toNote.amount)]
               ELSE note
    /\ UNCHANGED <<fileVars, active, fund, claim>>

\* Somebody with the distributor's key freezes the distribution.
Freeze ==
    /\ active
    /\ active' = FALSE
    /\ UNCHANGED <<fileVars, note, pool, fund, claim>>

\* airdrop_enroll, while the distribution is being paid out.
Enroll(k) ==
    /\ k \notin enrolled
    /\ enrolled' = enrolled \cup {k}
    /\ file' = [file EXCEPT ![Invocations[k].name] = Enrollment(k)]
    /\ UNCHANGED <<note, active, pool, fund, claim>>

-----------------------------------------------------------------------------
(* airdrop_fund.  Every look at the chain is a sync: the wallet then holds *)
(* the latest version.                                                     *)

Ended == {"done", "dead"}

NewFund ==
    [stage |-> "off", names |-> <<>>, list |-> <<>>, next |-> 1, view |-> None, expected |-> 0]

EndFund(r) == fund' = [fund EXCEPT ![r].stage = "dead"]

\* Lists the directory as it is now, not as it was committed; does not look at the
\* distribution.
FundList(r) ==
    /\ fund[r].stage = "off"
    /\ \E names \in Listings :
         fund' = [fund EXCEPT ![r].stage = IF names = <<>> THEN "dead" ELSE "reading",
                              ![r].names = names]
    /\ UNCHANGED <<fileVars, note, active, pool, claim>>

\* Then reads one file after the other, each as it is by then.
FundRead(r) ==
    LET f == fund[r]
        at == Len(f.list) + 1
    IN
    /\ f.stage = "reading"
    /\ fund' = [fund EXCEPT ![r].stage = IF at = Len(f.names) THEN "waiting" ELSE "reading",
                            ![r].list = Append(@, file[f.names[at]])]
    /\ UNCHANGED <<fileVars, note, active, pool, claim>>

\* Waits until the definition is there.
FundSync(r) ==
    /\ fund[r].stage = "waiting"
    /\ note[Definition] # None
    /\ fund' = [fund EXCEPT ![r].stage = "minting",
                            ![r].view = note[Definition],
                            ![r].expected = note[Definition].amount]
    /\ UNCHANGED <<fileVars, note, active, pool, claim>>

FundGivesUp(r) ==
    /\ fund[r].stage = "waiting"
    /\ note[Definition] = None
    /\ EndFund(r)
    /\ UNCHANGED <<fileVars, note, active, pool, claim>>

\* Mutant: the mint is sent to the recipient's main account.
AllocationAccountIsMain(e) == e.main_account

AllocationAccount(e) == e.d_account

\* Mutant: a mint that wraps is proved all the same.
MintableUnchecked(f, amount) == f.view # None

\* The token program runs in the wallet; a supply beyond u128 is an error there.
Mintable(f, amount) == f.view.amount + amount <= MaxAmount

SendMint(r) ==
    LET f == fund[r]
        e == f.list[f.next]
        sum == f.expected + e.amount
    IN
    /\ f.stage = "minting"
    /\ IF Mintable(f, e.amount)
       THEN /\ pool' = pool \cup {MintTx(r, f.view, AllocationAccount(e), e.amount)}
            /\ fund' = [fund EXCEPT ![r].stage = "polling",
                                    ![r].expected = IF sum > MaxAmount THEN MaxAmount
                                                    ELSE sum]
       ELSE EndFund(r) /\ UNCHANGED pool
    /\ UNCHANGED <<fileVars, note, active, claim>>

\* Mutant: any supply will do.
SupplySeenAnyway(r) == note[Definition] # None

\* The wait for a mint is a wait for the supply that this run expects.
SupplySeen(r) == note[Definition].amount = fund[r].expected

SeeMint(r) ==
    /\ fund[r].stage = "polling"
    /\ SupplySeen(r)
    /\ fund' = [fund EXCEPT
                  ![r].stage = IF fund[r].next = Len(fund[r].list) THEN "done" ELSE "minting",
                  ![r].next = @ + 1,
                  ![r].view = note[Definition]]
    /\ UNCHANGED <<fileVars, note, active, pool, claim>>

\* Mutant: polls without a limit.
MintPollsForEver(r) ==
    /\ fund[r].stage = "polling"
    /\ ~SupplySeen(r)
    /\ UNCHANGED vars

\* Mutant: a mint that was not seen is passed over.
MintIsPassedOver(r) ==
    /\ fund[r].stage = "polling"
    /\ ~SupplySeen(r)
    /\ fund' = [fund EXCEPT
                  ![r].stage = IF fund[r].next = Len(fund[r].list) THEN "done" ELSE "minting",
                  ![r].next = @ + 1]
    /\ UNCHANGED <<fileVars, note, active, pool, claim>>

MintTimesOut(r) ==
    /\ fund[r].stage = "polling"
    /\ ~SupplySeen(r)
    /\ EndFund(r)
    /\ UNCHANGED <<fileVars, note, active, pool, claim>>

FundStep(r) ==
    FundRead(r) \/ FundSync(r) \/ FundGivesUp(r) \/ SendMint(r) \/ SeeMint(r) \/ MintTimesOut(r)

\* Interrupted, or a sync failed; what was sent stays in the pool.
FundStops(r) ==
    /\ fund[r].stage \notin {"off"} \cup Ended
    /\ EndFund(r)
    /\ UNCHANGED <<fileVars, note, active, pool, claim>>

-----------------------------------------------------------------------------
(* airdrop_claim *)

NewClaim == [stage |-> "off", of |-> None, dView |-> None, mainView |-> None]

EndClaim(c) == claim' = [claim EXCEPT ![c].stage = "dead"]

Holds(a, amount) == note[a] # None /\ note[a].amount = amount

\* The only look at the distribution.
ClaimLoad(c, n) ==
    /\ claim[c].stage = "off"
    /\ file[n] # None
    /\ claim' = [claim EXCEPT ![c].stage = IF active THEN "waiting" ELSE "dead",
                              ![c].of = file[n]]
    /\ UNCHANGED <<fileVars, note, active, pool, fund>>

\* Polls until D_i holds the allocation.
SeeFunds(c) ==
    LET e == claim[c].of IN
    /\ claim[c].stage = "waiting"
    /\ Holds(e.d_account, e.amount)
    /\ claim' = [claim EXCEPT ![c].stage = "funded",
                              ![c].dView = note[e.d_account],
                              ![c].mainView = note[e.main_account]]
    /\ UNCHANGED <<fileVars, note, active, pool, fund>>

NotFunded(c) ==
    LET e == claim[c].of IN
    /\ claim[c].stage = "waiting"
    /\ ~Holds(e.d_account, e.amount)
    /\ EndClaim(c)
    /\ UNCHANGED <<fileVars, note, active, pool, fund>>

\* Mutant: one token less is claimed.
ClaimTxButOne(c) ==
    LET e == claim[c].of IN
    TransferTx(c, e.d_account, claim[c].dView, e.main_account, claim[c].mainView, e.amount - 1)

ClaimTx(c) ==
    LET e == claim[c].of IN
    TransferTx(c, e.d_account, claim[c].dView, e.main_account, claim[c].mainView, e.amount)

SendClaim(c) ==
    /\ claim[c].stage = "funded"
    /\ pool' = pool \cup {ClaimTx(c)}
    /\ claim' = [claim EXCEPT ![c].stage = "claiming"]
    /\ UNCHANGED <<fileVars, note, active, fund>>

\* Mutant: the hash of the transaction is taken for its execution.
SeeClaimHash(c) ==
    /\ claim[c].stage = "claiming"
    /\ claim' = [claim EXCEPT ![c].stage = "claimed"]
    /\ UNCHANGED <<fileVars, note, active, pool, fund>>

\* Polls until the main account holds the allocation; both views are then fresh.
SeeClaim(c) ==
    LET e == claim[c].of IN
    /\ claim[c].stage = "claiming"
    /\ Holds(e.main_account, e.amount)
    /\ claim' = [claim EXCEPT ![c].stage = "claimed",
                              ![c].dView = note[e.d_account],
                              ![c].mainView = note[e.main_account]]
    /\ UNCHANGED <<fileVars, note, active, pool, fund>>

ClaimDidNotLand(c) ==
    LET e == claim[c].of IN
    /\ claim[c].stage = "claiming"
    /\ ~Holds(e.main_account, e.amount)
    /\ EndClaim(c)
    /\ UNCHANGED <<fileVars, note, active, pool, fund>>

\* The attempt to claim one more token, from D_i as it was last seen: refused in the
\* wallet if it sees none.
SecondClaim(c) ==
    LET e == claim[c].of
        insufficient == claim[c].dView.amount < 1
    IN
    /\ claim[c].stage = "claimed"
    /\ claim' = [claim EXCEPT ![c].stage = IF insufficient THEN "done" ELSE "double"]
    /\ pool' = IF insufficient THEN pool
               ELSE pool \cup {TransferTx(c, e.d_account, claim[c].dView,
                                          e.main_account, claim[c].mainView, 1)}
    /\ UNCHANGED <<fileVars, note, active, fund>>

ClaimStep(c) ==
    SeeFunds(c) \/ NotFunded(c) \/ SendClaim(c) \/ SeeClaim(c) \/ ClaimDidNotLand(c)
    \/ SecondClaim(c)

ClaimStops(c) ==
    /\ claim[c].stage \notin {"off", "double"} \cup Ended
    /\ EndClaim(c)
    /\ UNCHANGED <<fileVars, note, active, pool, fund>>

-----------------------------------------------------------------------------

\* airdrop_deploy has ended: the manifest is there, the definition is on its way.
Init ==
    /\ enrolled = CommittedEnrollees
    /\ file = [n \in Names |->
                 IF \E k \in CommittedEnrollees : Invocations[k].name = n
                 THEN Enrollment(CHOOSE k \in CommittedEnrollees : Invocations[k].name = n)
                 ELSE None]
    /\ note = [a \in PrivateAccounts |-> None]
    /\ active = TRUE
    /\ pool = {DefinitionTx(CommittedTotal)}
    /\ fund = [r \in Funds |-> NewFund]
    /\ claim = [c \in Claims |-> NewClaim]

Next ==
    \/ \E tx \in pool : ExecuteDefinition(tx) \/ ExecuteMint(tx) \/ ExecuteTransfer(tx)
    \/ Freeze
    \/ \E k \in Enrollees : Enroll(k)
    \/ \E r \in Funds : FundList(r) \/ FundStep(r) \/ FundStops(r)
    \/ \E c \in Claims : ClaimStep(c) \/ ClaimStops(c) \/ \E n \in Names : ClaimLoad(c, n)

\* Programs take their steps; people start them, and the chain executes
\* transactions, if they like.
Fairness ==
    /\ \A r \in Funds : WF_vars(FundStep(r))
    /\ \A c \in Claims : WF_vars(ClaimStep(c))

Spec == Init /\ [][Next]_vars /\ Fairness

-----------------------------------------------------------------------------
(* Properties *)

FundStages == {"off", "reading", "waiting", "minting", "polling"} \cup Ended
ClaimStages == {"off", "waiting", "funded", "claiming", "claimed", "double"} \cup Ended

Txs ==
    [kind : {"definition"}, amount : 0 .. MaxAmount]
    \cup [kind : {"mint"}, by : Funds, from : Notes, to : PrivateAccounts,
          amount : 0 .. MaxAmount]
    \cup [kind : {"transfer"}, by : Claims, from : PrivateAccounts, fromNote : Notes,
          to : PrivateAccounts, toNote : Notes \cup {None}, amount : 0 .. MaxAmount]

\* The shape of the state; the supply never exceeds a u128, although the whole
\* allocation is minted on top of a supply of the same size.
PayoutTypeOK ==
    LET files == {Enrollment(k) : k \in Enrollees} IN
    /\ enrolled \subseteq Enrollees
    /\ file \in [Names -> files \cup {None}]
    /\ note \in [PrivateAccounts -> Notes \cup {None}]
    /\ active \in BOOLEAN
    /\ pool \subseteq Txs
    /\ fund \in [Funds -> [stage : FundStages, names : Seq(Names), list : Seq(files),
                           next : Nat, view : Notes \cup {None},
                           expected : 0 .. MaxAmount]]
    /\ \A r \in Funds :
         fund[r].stage \in {"minting", "polling"}
             => fund[r].next \in DOMAIN fund[r].list /\ fund[r].view # None
    /\ claim \in [Claims -> [stage : ClaimStages, of : files \cup {None},
                             dView : Notes \cup {None}, mainView : Notes \cup {None}]]

\* The allocation of k as the chain shows it; "other" is a state that an
\* allocation must never be in.
Status(k) ==
    LET d == note[DAccount(k)]
        main == note[MainAccount(k)]
        amount == Invocations[k].amount
    IN IF d = None /\ main = None THEN "open"
       ELSE IF d # None /\ d.amount = amount /\ main = None THEN "funded"
       ELSE IF d # None /\ d.amount = 0 /\ main # None /\ main.amount = amount THEN "claimed"
       ELSE "other"

Promise == INSTANCE Allocation WITH
    Recipients <- Enrollees,
    Amount <- [k \in Enrollees |-> Invocations[k].amount],
    Total <- CommittedTotal,
    NoToken <- None,
    status <- [k \in Enrollees |-> Status(k)],
    supply <- IF note[Definition] = None THEN None ELSE note[Definition].amount

\* Stale views, retries, several runs of both programs at a time and late
\* transactions never mint or pay an allocation twice, in part, or to another
\* account, and the supply accounts for every mint.
PaysEachOnce == Promise!Spec

\* A run of airdrop_claim ends well only if the whole allocation has left D_i and is
\* in the main account, and none ends with "Double claim unexpectedly succeeded":
\* by then no view of D_i is as old as the balance.  It is the wallet that refuses
\* the second claim, which is not sent; see SecondClaimSpendsTheSpentNote.
ClaimsEndWellOnce ==
    \A c \in Claims :
        /\ claim[c].stage # "double"
        /\ claim[c].stage = "done" =>
             \E k \in Enrollees : claim[c].of = Enrollment(k) /\ Status(k) = "claimed"

\* airdrop_fund.rs waits between mints so that no two of them are built from the
\* same definition: of the mints that a run has in the pool at most one can still
\* be executed, although other runs change the supply that it looks at.  It holds
\* of allocations above zero: a mint of nothing leaves the supply as it is.
MintsWaitForEachOther ==
    \A r \in Funds :
        Cardinality({tx \in pool : /\ tx.kind = "mint"
                                   /\ tx.by = r
                                   /\ tx.from = note[Definition]}) <= 1

\* "All {} allocations minted.": a run of airdrop_fund ends well only if every
\* enrollment that it read has been funded.  The supply does not tell whose mint
\* was executed; the order of the names does, while no file is replaced and none is
\* added before others.
AllAllocationsMinted ==
    \A r \in Funds : fund[r].stage = "done" =>
        \A k \in Enrollees :
            (\E j \in DOMAIN fund[r].list : fund[r].list[j] = Enrollment(k))
                => Status(k) # "open"

\* A program that was started ends, though nothing it waits for may come.
ProgramsEnd ==
    /\ \A r \in Funds : fund[r].stage # "off" ~> fund[r].stage \in Ended
    /\ \A c \in Claims : claim[c].stage # "off" ~> claim[c].stage \in Ended

-----------------------------------------------------------------------------
(* What the repository says and the code does not ensure.                  *)

\* design.md: "a second spend of the same note is rejected by the sequencer with a
\* nullifier/spent error (asserted in airdrop_claim)".  For this the version of D_i
\* that the second claim is built from would have to be one that is spent.
SecondClaimSpendsTheSpentNote ==
    \A c \in Claims : claim[c].stage = "claimed" =>
        claim[c].dView # note[claim[c].of.d_account]

\* instruction.rs: "Distributor freezes the distribution (no further funding)".
NoFundingOnceFrozen ==
    [][~active => \A tx \in pool' \ pool : tx.kind # "mint"]_vars
=============================================================================
