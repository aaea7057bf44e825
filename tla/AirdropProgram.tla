--------------------------- MODULE AirdropProgram ---------------------------
(***************************************************************************)
(* The airdrop zkVM program as the chain sees it: the data of its          *)
(* distribution PDAs, the CLOCK_50 system account, and the answer to the   *)
(* last executed call.  A call is executed alone and whole, so each        *)
(* instruction is one action.  Anybody may submit any call: nothing is     *)
(* assumed of the account list, of the signatures or of the arguments.     *)
(*                                                                         *)
(* A call is checked first by the dispatcher the SPEL macro generates from *)
(* the #[account] attributes (number of accounts, PDA of the first one),   *)
(* then by the handler, whose early returns are an ordered list of checks. *)
(***************************************************************************)
EXTENDS Naturals, Sequences, FiniteSetsExt

CONSTANTS
    Program,            \* the program id
    Ids,                \* distribution ids (u64)
    Signers,            \* accounts with a signing key
    Clock50,            \* the CLOCK_50 system account id
    OtherAccounts,      \* any other account id a caller may name
    Roots, ZeroRoot,    \* eligibility roots; ZeroRoot is [0u8; 32]
    Tokens,             \* token definition account ids
    Empty,              \* account data of length zero
    MaxClock,           \* bound on the timestamps reached
    ForeignTimestamp,   \* what the data of an account other than CLOCK_50 reads
                        \* as when it is decoded as a clock
    InitializeCalls,    \* the calls that are submitted, see the ASSUMEs
    FreezeCalls

VARIABLES
    account,            \* account[p]: data of the distribution PDA p, or Empty
    clock,              \* timestamp held by CLOCK_50
    receipt             \* the last executed call and its outcome

vars == <<account, clock, receipt>>

-----------------------------------------------------------------------------
(* Addresses: distribution_seed combines the label and the id with SHA-256 *)
(* and for_public_pda adds the program id.  Both are injective here.       *)

DistributionSeed(i) == <<"distribution", i>>
Pda(i) == <<Program, DistributionSeed(i)>>
Pdas == {Pda(i) : i \in Ids}

AccountIds == Pdas \cup Signers \cup {Clock50} \cup OtherAccounts

DistributionState ==
    [root             : Roots \ {ZeroRoot},
     token_definition : Tokens,
     total_allocation : Nat \ {0},
     num_eligible     : Nat \ {0},
     distributor      : AccountIds,
     committed_at     : Nat,
     active           : {0, 1}]

AnyInitializeCall ==
    [instruction      : {"initialize"},
     accounts         : Seq(AccountIds),
     authorized       : SUBSET Signers,
     distribution_id  : Ids,
     root             : Roots,
     token_definition : Tokens,
     total_allocation : Nat,
     num_eligible     : Nat]

AnyFreezeCall ==
    [instruction     : {"freeze"},
     accounts        : Seq(AccountIds),
     authorized      : SUBSET Signers,
     distribution_id : Ids]

ASSUME InitializeCallsAssumption ==
    \A c \in InitializeCalls : c \in AnyInitializeCall
ASSUME FreezeCallsAssumption ==
    \A c \in FreezeCalls : c \in AnyFreezeCall
ASSUME EmptyAssumption == Empty \notin DistributionState
ASSUME MaxClockAssumption == MaxClock \in Nat
ASSUME ForeignTimestampAssumption == ForeignTimestamp \in Nat

-----------------------------------------------------------------------------
(* Checks run in order; the first one that fails is the answer.            *)

Check(code, holds) == [code |-> code, holds |-> holds]

Passes(checks) == \A k \in DOMAIN checks : checks[k].holds

Outcome(checks) ==
    IF Passes(checks)
    THEN "OK"
    ELSE checks[Min({k \in DOMAIN checks : ~checks[k].holds})].code

\* The macro-generated dispatcher.  A later check is not evaluated by the code
\* once an earlier one failed, hence the implications.
Dispatch(c, n) ==
    <<Check("AccountCountMismatch", Len(c.accounts) = n),
      Check("PdaMismatch",
            Len(c.accounts) = n => c.accounts[1] = Pda(c.distribution_id))>>

\* Mutant: somebody signed, not the account named as distributor.
IsAuthorizedByAnyone(c) == c.authorized # {}

IsAuthorized(c) == c.accounts[2] \in c.authorized

GuestIsActive(s) == s.active = 1
HostIsActive(s) == s.active # 0

-----------------------------------------------------------------------------
(* initialize_distribution                                                 *)

\* Mutants: one check forgotten.
InitializeChecksAnyClock(c) ==
    <<Check("DISTRIBUTOR_NOT_AUTHORIZED", IsAuthorized(c)),
      Check("DISTRIBUTION_ALREADY_INITIALIZED", account[c.accounts[1]] = Empty),
      Check("INVALID_TOTAL_ALLOCATION", c.total_allocation # 0),
      Check("INVALID_NUM_ELIGIBLE", c.num_eligible # 0),
      Check("INVALID_ROOT", c.root # ZeroRoot)>>

InitializeChecksWithoutTotal(c) ==
    <<Check("DISTRIBUTOR_NOT_AUTHORIZED", IsAuthorized(c)),
      Check("DISTRIBUTION_ALREADY_INITIALIZED", account[c.accounts[1]] = Empty),
      Check("INVALID_NUM_ELIGIBLE", c.num_eligible # 0),
      Check("INVALID_ROOT", c.root # ZeroRoot),
      Check("INVALID_CLOCK_ACCOUNT", c.accounts[3] = Clock50)>>

InitializeChecksAgain(c) ==
    <<Check("DISTRIBUTOR_NOT_AUTHORIZED", IsAuthorized(c)),
      Check("INVALID_TOTAL_ALLOCATION", c.total_allocation # 0),
      Check("INVALID_NUM_ELIGIBLE", c.num_eligible # 0),
      Check("INVALID_ROOT", c.root # ZeroRoot),
      Check("INVALID_CLOCK_ACCOUNT", c.accounts[3] = Clock50)>>

InitializeChecks(c) ==
    <<Check("DISTRIBUTOR_NOT_AUTHORIZED", IsAuthorized(c)),
      Check("DISTRIBUTION_ALREADY_INITIALIZED", account[c.accounts[1]] = Empty),
      Check("INVALID_TOTAL_ALLOCATION", c.total_allocation # 0),
      Check("INVALID_NUM_ELIGIBLE", c.num_eligible # 0),
      Check("INVALID_ROOT", c.root # ZeroRoot),
      Check("INVALID_CLOCK_ACCOUNT", c.accounts[3] = Clock50)>>

\* The handler decodes a timestamp from the data of the account it was given in
\* third place, whichever that is.
TimestampIn(a) == IF a = Clock50 THEN clock ELSE ForeignTimestamp

CommittedState(c) ==
    [root             |-> c.root,
     token_definition |-> c.token_definition,
     total_allocation |-> c.total_allocation,
     num_eligible     |-> c.num_eligible,
     distributor      |-> c.accounts[2],
     committed_at     |-> TimestampIn(c.accounts[3]),
     active           |-> 1]

InitializeOutcome(c) ==
    IF Passes(Dispatch(c, 3)) THEN Outcome(InitializeChecks(c))
                              ELSE Outcome(Dispatch(c, 3))

InitializeAccepted(c) == Passes(Dispatch(c, 3)) /\ Passes(InitializeChecks(c))

Initialize(c) ==
    /\ receipt' = [call |-> c, outcome |-> InitializeOutcome(c)]
    /\ account' = IF InitializeAccepted(c)
                  THEN [account EXCEPT ![c.accounts[1]] = CommittedState(c)]
                  ELSE account
    /\ UNCHANGED clock

-----------------------------------------------------------------------------
(* freeze_distribution.  read_distribution decodes with an expect: on an   *)
(* account without data the guest panics instead of returning a code.      *)

\* Mutant: any signer may freeze.
FreezeChecksAnySigner(c) ==
    LET data == account[c.accounts[1]] IN
    <<Check("DISTRIBUTOR_NOT_AUTHORIZED", IsAuthorized(c)),
      Check("PANIC", data # Empty),
      Check("DISTRIBUTION_ALREADY_FROZEN", data # Empty => GuestIsActive(data))>>

FreezeChecks(c) ==
    LET data == account[c.accounts[1]] IN
    <<Check("DISTRIBUTOR_NOT_AUTHORIZED", IsAuthorized(c)),
      Check("PANIC", data # Empty),
      Check("NOT_DISTRIBUTOR", data # Empty => data.distributor = c.accounts[2]),
      Check("DISTRIBUTION_ALREADY_FROZEN", data # Empty => GuestIsActive(data))>>

FreezeOutcome(c) ==
    IF Passes(Dispatch(c, 2)) THEN Outcome(FreezeChecks(c))
                              ELSE Outcome(Dispatch(c, 2))

FreezeAccepted(c) == Passes(Dispatch(c, 2)) /\ Passes(FreezeChecks(c))

\* Mutant: a third status, which the host takes for active.
FrozenStateAsThirdStatus(s) == [s EXCEPT !.active = 2]

FrozenState(s) == [s EXCEPT !.active = 0]

Freeze(c) ==
    /\ receipt' = [call |-> c, outcome |-> FreezeOutcome(c)]
    /\ account' = IF FreezeAccepted(c)
                  THEN [account EXCEPT ![c.accounts[1]] =
                            FrozenState(account[c.accounts[1]])]
                  ELSE account
    /\ UNCHANGED clock

-----------------------------------------------------------------------------

NoCall == [instruction |-> "none"]

Init ==
    /\ account = [p \in Pdas |-> Empty]
    /\ clock = 0
    /\ receipt = [call |-> NoCall, outcome |-> "OK"]

\* The sequencer's clock program moves the timestamp.
Tick ==
    /\ clock < MaxClock
    /\ clock' = clock + 1
    /\ UNCHANGED <<account, receipt>>

Next ==
    \/ \E c \in InitializeCalls : Initialize(c)
    \/ \E c \in FreezeCalls : Freeze(c)
    \/ Tick

Spec == Init /\ [][Next]_vars

-----------------------------------------------------------------------------
(* Properties *)

Codes ==
    {"AccountCountMismatch", "PdaMismatch", "DISTRIBUTOR_NOT_AUTHORIZED",
     "DISTRIBUTION_ALREADY_INITIALIZED", "INVALID_TOTAL_ALLOCATION",
     "INVALID_NUM_ELIGIBLE", "INVALID_ROOT", "INVALID_CLOCK_ACCOUNT",
     "NOT_DISTRIBUTOR", "DISTRIBUTION_ALREADY_FROZEN", "PANIC"}

\* Every PDA is empty or holds a well-formed state (positive totals, non-zero
\* root, a status of 0 or 1), and every call is answered by OK or one code.
TypeOK ==
    /\ account \in [Pdas -> DistributionState \cup {Empty}]
    /\ clock \in 0 .. MaxClock
    /\ receipt \in [call    : {NoCall} \cup InitializeCalls \cup FreezeCalls,
                    outcome : Codes \cup {"OK"}]

Committed(p) == account[p] # Empty

\* No distribution is dated after the present: the date is decoded from the data
\* of an account that the caller chose, and the last of the handler's checks is
\* all that keeps that account from being one whose data the caller wrote.
CommittedInThePast ==
    \A p \in Pdas : Committed(p) => account[p].committed_at <= clock

\* The freeze authority of a committed distribution is an account that has a
\* key: initialize_distribution records an account that signed, so a freeze
\* that compares with it later cannot be locked out for ever.
DistributorCanSign ==
    \A p \in Pdas : Committed(p) => account[p].distributor \in Signers

\* The guest decides "active" by active = 1 (program.rs), the host by active # 0
\* (state.rs); on every state the program writes the two agree.
HostAgreesWithGuest ==
    \A p \in Pdas :
        Committed(p) => (GuestIsActive(account[p]) <=> HostIsActive(account[p]))

\* Only a freeze call signed by the recorded distributor takes a distribution
\* out of service, whoever else signed, and whichever accounts it named.
FreezeOnlyByDistributor ==
    [][\A p \in Pdas :
          Committed(p) /\ HostIsActive(account[p]) /\ ~HostIsActive(account'[p])
            => /\ receipt'.call.instruction = "freeze"
               /\ Pda(receipt'.call.distribution_id) = p
               /\ account[p].distributor \in receipt'.call.authorized]_vars

-----------------------------------------------------------------------------
(* The program implements the promise of Commitment.                       *)

TermsOf(s) ==
    [root             |-> s.root,
     token_definition |-> s.token_definition,
     total_allocation |-> s.total_allocation,
     num_eligible     |-> s.num_eligible,
     distributor      |-> s.distributor,
     committed_at     |-> s.committed_at]

CommitmentTerms ==
    [root             : Roots \ {ZeroRoot},
     token_definition : Tokens,
     total_allocation : Nat \ {0},
     num_eligible     : Nat \ {0},
     distributor      : Signers,
     committed_at     : Nat]

ASSUME NoTermsAssumption == Empty \notin CommitmentTerms

terms ==
    [i \in Ids |-> IF Committed(Pda(i)) THEN TermsOf(account[Pda(i)]) ELSE Empty]

frozen == {i \in Ids : Committed(Pda(i)) /\ ~HostIsActive(account[Pda(i)])}

Promise == INSTANCE Commitment WITH Terms <- CommitmentTerms, NoTerms <- Empty

\* The terms of a distribution are written once, with an authority that can
\* sign and with positive totals, and a freeze is never undone.
KeepsCommitment == Promise!Spec
=============================================================================
