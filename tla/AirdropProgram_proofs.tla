------------------------ MODULE AirdropProgram_proofs ------------------------
(***************************************************************************)
(* Proofs about the guest program, for every set of ids, signers, roots    *)
(* and tokens and for every set of submitted calls: type correctness, the  *)
(* safety invariants, who may freeze, and the implementation of            *)
(* Commitment.                                                             *)
(***************************************************************************)
EXTENDS AirdropProgram, TLAPS

\* The inductive invariant.  The properties that speak of one state need the
\* others: an accepted call is judged against what earlier calls wrote.
Inv == TypeOK /\ CommittedInThePast /\ DistributorCanSign

-----------------------------------------------------------------------------
(* Lemmas about the checks.                                                *)

\* Min picks a member: enough for lists of at most six checks.
LEMMA MinMember ==
  ASSUME NEW S, S \subseteq 1 .. 6, S # {}
  PROVE  Min(S) \in S
<1>1. PICK m \in S : \A y \in S : m <= y
  <2>1. CASE 1 \in S  BY <2>1
  <2>2. CASE 1 \notin S /\ 2 \in S  BY <2>2
  <2>3. CASE 1 \notin S /\ 2 \notin S /\ 3 \in S  BY <2>3
  <2>4. CASE 1 \notin S /\ 2 \notin S /\ 3 \notin S /\ 4 \in S  BY <2>4
  <2>5. CASE 1 \notin S /\ 2 \notin S /\ 3 \notin S /\ 4 \notin S /\ 5 \in S
    BY <2>5
  <2>6. CASE S = {6}  BY <2>6
  <2>7. \/ 1 \in S \/ 2 \in S \/ 3 \in S \/ 4 \in S \/ 5 \in S
        \/ S = {6}
    <3>1. \A x \in 1 .. 6 : x = 1 \/ x = 2 \/ x = 3 \/ x = 4 \/ x = 5 \/ x = 6
      OBVIOUS
    <3> QED  BY <3>1
  <2> QED  BY <2>1, <2>2, <2>3, <2>4, <2>5, <2>6, <2>7
<1> QED  BY <1>1 DEF Min

\* The outcome of a list of checks is OK or the code of one of them.
LEMMA OutcomeIsOneOfTheCodes ==
  ASSUME NEW checks, DOMAIN checks \subseteq 1 .. 6
  PROVE  \/ Outcome(checks) = "OK" /\ Passes(checks)
         \/ \E k \in DOMAIN checks : Outcome(checks) = checks[k].code
<1> DEFINE failed == {k \in DOMAIN checks : ~checks[k].holds}
<1>1. CASE Passes(checks)  BY <1>1 DEF Outcome
<1>2. CASE ~Passes(checks)
  <2>1. failed # {}  BY <1>2 DEF Passes
  <2>2. Min(failed) \in failed  BY <2>1, MinMember
  <2>3. Outcome(checks) = checks[Min(failed)].code  BY <1>2 DEF Outcome
  <2> QED  BY <2>2, <2>3
<1> QED  BY <1>1, <1>2

LEMMA OutcomesAreCodes ==
  ASSUME NEW c
  PROVE  /\ InitializeOutcome(c) \in Codes \cup {"OK"}
         /\ FreezeOutcome(c) \in Codes \cup {"OK"}
<1>1. ASSUME NEW n PROVE Outcome(Dispatch(c, n)) \in Codes \cup {"OK"}
  <2>1. DOMAIN Dispatch(c, n) = 1 .. 2  BY DEF Dispatch
  <2>2. \A k \in 1 .. 2 : Dispatch(c, n)[k].code \in Codes
    BY DEF Dispatch, Check, Codes
  <2> QED  BY <2>1, <2>2, OutcomeIsOneOfTheCodes
<1>2. Outcome(InitializeChecks(c)) \in Codes \cup {"OK"}
  <2>1. DOMAIN InitializeChecks(c) = 1 .. 6  BY DEF InitializeChecks
  <2>2. \A k \in 1 .. 6 : InitializeChecks(c)[k].code \in Codes
    BY DEF InitializeChecks, Check, Codes
  <2> QED  BY <2>1, <2>2, OutcomeIsOneOfTheCodes
<1>3. Outcome(FreezeChecks(c)) \in Codes \cup {"OK"}
  <2>1. DOMAIN FreezeChecks(c) = 1 .. 4  BY DEF FreezeChecks
  <2>2. \A k \in 1 .. 4 : FreezeChecks(c)[k].code \in Codes
    BY DEF FreezeChecks, Check, Codes
  <2> QED  BY <2>1, <2>2, OutcomeIsOneOfTheCodes
<1> QED  BY <1>1, <1>2, <1>3 DEF InitializeOutcome, FreezeOutcome

\* What the handler may rely on once initialize_distribution accepted a call.
LEMMA AcceptedInitialize ==
  ASSUME NEW c \in InitializeCalls, InitializeAccepted(c)
  PROVE  /\ c.distribution_id \in Ids
         /\ c.accounts[1] = Pda(c.distribution_id)
         /\ c.accounts[1] \in Pdas
         /\ c.accounts[2] \in AccountIds
         /\ c.accounts[2] \in c.authorized
         /\ c.accounts[2] \in Signers
         /\ account[c.accounts[1]] = Empty
         /\ c.total_allocation \in Nat \ {0}
         /\ c.num_eligible \in Nat \ {0}
         /\ c.root \in Roots \ {ZeroRoot}
         /\ c.token_definition \in Tokens
         /\ c.accounts[3] = Clock50
<1>1. c \in AnyInitializeCall  BY InitializeCallsAssumption
<1>2. /\ Len(c.accounts) = 3
      /\ c.accounts[1] = Pda(c.distribution_id)
  <2>1. /\ Dispatch(c, 3)[1].holds
        /\ Dispatch(c, 3)[2].holds
    <3>1. DOMAIN Dispatch(c, 3) = 1 .. 2  BY DEF Dispatch
    <3> QED  BY <3>1 DEF InitializeAccepted, Passes
  <2> QED  BY <2>1 DEF Dispatch, Check
<1>3. \A k \in 1 .. 6 : InitializeChecks(c)[k].holds
  <2>1. DOMAIN InitializeChecks(c) = 1 .. 6  BY DEF InitializeChecks
  <2> QED  BY <2>1 DEF InitializeAccepted, Passes
<1>4. /\ InitializeChecks(c)[1].holds /\ InitializeChecks(c)[2].holds
      /\ InitializeChecks(c)[3].holds /\ InitializeChecks(c)[4].holds
      /\ InitializeChecks(c)[5].holds /\ InitializeChecks(c)[6].holds
  BY <1>3
<1>5. /\ IsAuthorized(c)
      /\ account[c.accounts[1]] = Empty
      /\ c.total_allocation # 0
      /\ c.num_eligible # 0
      /\ c.root # ZeroRoot
      /\ c.accounts[3] = Clock50
  BY <1>4 DEF InitializeChecks, Check
<1>6. /\ c.distribution_id \in Ids
      /\ c.authorized \subseteq Signers
      /\ c.accounts \in Seq(AccountIds)
      /\ c.root \in Roots
      /\ c.token_definition \in Tokens
      /\ c.total_allocation \in Nat
      /\ c.num_eligible \in Nat
  BY <1>1 DEF AnyInitializeCall
<1>7. c.accounts[2] \in AccountIds  BY <1>2, <1>6
<1> QED  BY <1>2, <1>5, <1>6, <1>7 DEF IsAuthorized, Pdas

\* The timestamp of an accepted call is the one that CLOCK_50 holds.
LEMMA ReadsTheClock ==
  ASSUME NEW c \in InitializeCalls, InitializeAccepted(c)
  PROVE  TimestampIn(c.accounts[3]) = clock
  BY AcceptedInitialize DEF TimestampIn

LEMMA AcceptedStateWellFormed ==
  ASSUME NEW c \in InitializeCalls, InitializeAccepted(c), clock \in Nat
  PROVE  CommittedState(c) \in DistributionState
  BY AcceptedInitialize, ReadsTheClock DEF CommittedState, DistributionState

\* And once freeze_distribution accepted one.
LEMMA AcceptedFreeze ==
  ASSUME NEW c \in FreezeCalls, FreezeAccepted(c)
  PROVE  /\ c.instruction = "freeze"
         /\ c.distribution_id \in Ids
         /\ c.accounts[1] = Pda(c.distribution_id)
         /\ c.accounts[1] \in Pdas
         /\ account[c.accounts[1]] # Empty
         /\ account[c.accounts[1]].distributor \in c.authorized
         /\ GuestIsActive(account[c.accounts[1]])
<1>1. c \in AnyFreezeCall  BY FreezeCallsAssumption
<1>2. /\ Len(c.accounts) = 2
      /\ c.accounts[1] = Pda(c.distribution_id)
  <2>1. /\ Dispatch(c, 2)[1].holds
        /\ Dispatch(c, 2)[2].holds
    <3>1. DOMAIN Dispatch(c, 2) = 1 .. 2  BY DEF Dispatch
    <3> QED  BY <3>1 DEF FreezeAccepted, Passes
  <2> QED  BY <2>1 DEF Dispatch, Check
<1>3. /\ FreezeChecks(c)[1].holds /\ FreezeChecks(c)[2].holds
      /\ FreezeChecks(c)[3].holds /\ FreezeChecks(c)[4].holds
  <2>1. DOMAIN FreezeChecks(c) = 1 .. 4  BY DEF FreezeChecks
  <2> QED  BY <2>1 DEF FreezeAccepted, Passes
<1>4. /\ IsAuthorized(c)
      /\ account[c.accounts[1]] # Empty
      /\ account[c.accounts[1]].distributor = c.accounts[2]
      /\ GuestIsActive(account[c.accounts[1]])
  BY <1>3 DEF FreezeChecks, Check
<1>5. c.distribution_id \in Ids /\ c.instruction = "freeze"
  BY <1>1 DEF AnyFreezeCall
<1> QED  BY <1>2, <1>4, <1>5 DEF IsAuthorized, Pdas

-----------------------------------------------------------------------------
(* The invariant.                                                          *)

LEMMA InitInv == Init => Inv
<1> SUFFICES ASSUME Init PROVE Inv
  OBVIOUS
<1>1. TypeOK  BY MaxClockAssumption DEF Init, TypeOK
<1>2. \A p \in Pdas : ~Committed(p)  BY DEF Init, Committed
<1> QED  BY <1>1, <1>2 DEF Inv, CommittedInThePast, DistributorCanSign

LEMMA InitializeInv ==
  ASSUME Inv, NEW c \in InitializeCalls, Initialize(c)
  PROVE  Inv'
<1>1. receipt' \in [call : {NoCall} \cup InitializeCalls \cup FreezeCalls,
                   outcome : Codes \cup {"OK"}]
  BY OutcomesAreCodes DEF Initialize
<1>2. clock' = clock /\ clock \in Nat
  BY MaxClockAssumption DEF Initialize, Inv, TypeOK
<1>3. CASE ~InitializeAccepted(c)
  <2>1. account' = account  BY <1>3 DEF Initialize
  <2> QED
    BY <1>1, <1>2, <2>1 DEF Inv, TypeOK, CommittedInThePast, DistributorCanSign,
                            Committed
<1>4. CASE InitializeAccepted(c)
  <2> DEFINE p == c.accounts[1]
  <2>1. account' = [account EXCEPT ![p] = CommittedState(c)]
    BY <1>4 DEF Initialize
  <2>2. p \in Pdas  BY <1>4, AcceptedInitialize
  <2>3. CommittedState(c) \in DistributionState
    BY <1>2, <1>4, AcceptedStateWellFormed
  <2>4. /\ CommittedState(c).committed_at = clock
        /\ CommittedState(c).distributor \in Signers
    BY <1>4, AcceptedInitialize, ReadsTheClock DEF CommittedState
  <2>5. account \in [Pdas -> DistributionState \cup {Empty}]
    BY DEF Inv, TypeOK
  <2> HIDE DEF p
  <2>6. account' \in [Pdas -> DistributionState \cup {Empty}]
    BY <2>1, <2>2, <2>3, <2>5
  <2>7. TypeOK'  BY <1>1, <1>2, <2>6 DEF Inv, TypeOK
  <2>8. \A q \in Pdas : account'[q] = IF q = p THEN CommittedState(c) ELSE account[q]
    BY <2>1, <2>2, <2>5
  <2>9. CommittedInThePast'
    BY <1>2, <2>4, <2>8 DEF Inv, CommittedInThePast, Committed
  <2>10. DistributorCanSign'
    BY <2>4, <2>8 DEF Inv, DistributorCanSign, Committed
  <2> QED  BY <2>7, <2>9, <2>10 DEF Inv
<1> QED  BY <1>3, <1>4

LEMMA FreezeInv ==
  ASSUME Inv, NEW c \in FreezeCalls, Freeze(c)
  PROVE  Inv'
<1>1. receipt' \in [call : {NoCall} \cup InitializeCalls \cup FreezeCalls,
                   outcome : Codes \cup {"OK"}]
  BY OutcomesAreCodes DEF Freeze
<1>2. clock' = clock  BY DEF Freeze
<1>3. CASE ~FreezeAccepted(c)
  <2>1. account' = account  BY <1>3 DEF Freeze
  <2> QED
    BY <1>1, <1>2, <2>1 DEF Inv, TypeOK, CommittedInThePast, DistributorCanSign,
                            Committed
<1>4. CASE FreezeAccepted(c)
  <2> DEFINE p == c.accounts[1]
  <2>1. account' = [account EXCEPT ![p] = FrozenState(account[p])]
    BY <1>4 DEF Freeze
  <2>2. p \in Pdas /\ account[p] # Empty  BY <1>4, AcceptedFreeze
  <2>3. account \in [Pdas -> DistributionState \cup {Empty}]
    BY DEF Inv, TypeOK
  <2> HIDE DEF p
  <2>4. account[p] \in DistributionState  BY <2>2, <2>3
  <2>5. /\ FrozenState(account[p]) \in DistributionState
        /\ FrozenState(account[p]).committed_at = account[p].committed_at
        /\ FrozenState(account[p]).distributor = account[p].distributor
    BY <2>4 DEF FrozenState, DistributionState
  <2>6. account' \in [Pdas -> DistributionState \cup {Empty}]
    BY <2>1, <2>2, <2>3, <2>5
  <2>7. TypeOK'  BY <1>1, <1>2, <2>6 DEF Inv, TypeOK
  <2>8. \A q \in Pdas :
          account'[q] = IF q = p THEN FrozenState(account[p]) ELSE account[q]
    BY <2>1, <2>2, <2>3
  <2>9. CommittedInThePast'
    BY <1>2, <2>2, <2>5, <2>8 DEF Inv, CommittedInThePast, Committed
  <2>10. DistributorCanSign'
    BY <2>2, <2>5, <2>8 DEF Inv, DistributorCanSign, Committed
  <2> QED  BY <2>7, <2>9, <2>10 DEF Inv
<1> QED  BY <1>3, <1>4

LEMMA TickInv ==
  ASSUME Inv, Tick
  PROVE  Inv'
<1>1. clock' \in 0 .. MaxClock /\ clock <= clock' /\ clock \in Nat
  BY MaxClockAssumption DEF Inv, TypeOK, Tick
<1>2. account' = account /\ receipt' = receipt  BY DEF Tick
<1>3. TypeOK'  BY <1>1, <1>2 DEF Inv, TypeOK
<1>4. CommittedInThePast'
  <2> SUFFICES ASSUME NEW p \in Pdas, Committed(p)
               PROVE  account[p].committed_at <= clock'
    BY <1>2 DEF CommittedInThePast, Committed
  <2>1. account[p] \in DistributionState  BY DEF Inv, TypeOK, Committed
  <2>2. account[p].committed_at \in Nat  BY <2>1 DEF DistributionState
  <2>3. account[p].committed_at <= clock  BY DEF Inv, CommittedInThePast
  <2> QED  BY <1>1, <2>2, <2>3
<1>5. DistributorCanSign'
  BY <1>2 DEF Inv, DistributorCanSign, Committed
<1> QED  BY <1>3, <1>4, <1>5 DEF Inv

LEMMA NextInv == Inv /\ [Next]_vars => Inv'
<1> SUFFICES ASSUME Inv, [Next]_vars PROVE Inv'
  OBVIOUS
<1>1. CASE \E c \in InitializeCalls : Initialize(c)  BY <1>1, InitializeInv
<1>2. CASE \E c \in FreezeCalls : Freeze(c)  BY <1>2, FreezeInv
<1>3. CASE Tick  BY <1>3, TickInv
<1>4. CASE UNCHANGED vars
  BY <1>4 DEF vars, Inv, TypeOK, CommittedInThePast, DistributorCanSign, Committed
<1> QED  BY <1>1, <1>2, <1>3, <1>4 DEF Next

THEOREM Invariance == Spec => []Inv
  BY InitInv, NextInv, PTL DEF Spec

\* Every account holds nothing or a well-formed state, and every call gets OK or
\* one of the codes, whatever calls are submitted.
THEOREM TypeCorrect == Spec => []TypeOK
<1>1. Inv => TypeOK  BY DEF Inv
<1> QED  BY <1>1, Invariance, PTL

\* No distribution carries a timestamp from the future of its chain, whatever the
\* data of the accounts that callers list in the place of the clock.
THEOREM CommitmentsAreDated == Spec => []CommittedInThePast
<1>1. Inv => CommittedInThePast  BY DEF Inv
<1> QED  BY <1>1, Invariance, PTL

\* The freeze authority recorded for a distribution always has a signing key.
THEOREM AuthorityCanSign == Spec => []DistributorCanSign
<1>1. Inv => DistributorCanSign  BY DEF Inv
<1> QED  BY <1>1, Invariance, PTL

\* active = 1 in the guest and active # 0 in the host never differ on the chain.
THEOREM HostAndGuestAgree == Spec => []HostAgreesWithGuest
<1>1. Inv => HostAgreesWithGuest
  <2> SUFFICES ASSUME Inv, NEW p \in Pdas, Committed(p)
               PROVE  GuestIsActive(account[p]) <=> HostIsActive(account[p])
    BY DEF HostAgreesWithGuest
  <2>1. account[p] \in DistributionState  BY DEF Inv, TypeOK, Committed
  <2>2. account[p].active \in {0, 1}  BY <2>1 DEF DistributionState
  <2> QED  BY <2>2 DEF GuestIsActive, HostIsActive
<1> QED  BY <1>1, Invariance, PTL

-----------------------------------------------------------------------------
(* Who may freeze.                                                         *)

LEMMA FreezeStepByDistributor ==
  ASSUME Inv, [Next]_vars, NEW p \in Pdas,
         Committed(p), HostIsActive(account[p]), ~HostIsActive(account'[p])
  PROVE  /\ receipt'.call.instruction = "freeze"
         /\ Pda(receipt'.call.distribution_id) = p
         /\ account[p].distributor \in receipt'.call.authorized
<1>1. account \in [Pdas -> DistributionState \cup {Empty}]
  BY DEF Inv, TypeOK
<1>2. account' # account  OBVIOUS
<1>3. CASE \E c \in InitializeCalls : Initialize(c)
  <2>1. PICK c \in InitializeCalls : Initialize(c)  BY <1>3
  <2>2. InitializeAccepted(c)  BY <1>2, <2>1 DEF Initialize
  <2>3. account' = [account EXCEPT ![c.accounts[1]] = CommittedState(c)]
    BY <2>1, <2>2 DEF Initialize
  <2>4. account[c.accounts[1]] = Empty /\ c.accounts[1] \in Pdas
    BY <2>2, AcceptedInitialize
  <2>5. p # c.accounts[1]  BY <2>4 DEF Committed
  <2>6. account'[p] = account[p]  BY <1>1, <2>3, <2>4, <2>5
  <2> QED  BY <2>6
<1>4. CASE \E c \in FreezeCalls : Freeze(c)
  <2>1. PICK c \in FreezeCalls : Freeze(c)  BY <1>4
  <2>2. FreezeAccepted(c)  BY <1>2, <2>1 DEF Freeze
  <2>3. account' = [account EXCEPT ![c.accounts[1]] =
                        FrozenState(account[c.accounts[1]])]
    BY <2>1, <2>2 DEF Freeze
  <2>4. /\ c.instruction = "freeze"
        /\ c.accounts[1] = Pda(c.distribution_id)
        /\ c.accounts[1] \in Pdas
        /\ account[c.accounts[1]].distributor \in c.authorized
    BY <2>2, AcceptedFreeze
  <2>5. p = c.accounts[1]  BY <1>1, <2>3, <2>4
  <2>6. receipt'.call = c  BY <2>1 DEF Freeze
  <2> QED  BY <2>4, <2>5, <2>6
<1>5. CASE Tick  BY <1>2, <1>5 DEF Tick
<1>6. CASE UNCHANGED vars  BY <1>2, <1>6 DEF vars
<1> QED  BY <1>3, <1>4, <1>5, <1>6 DEF Next

\* Only a freeze call signed by the recorded distributor ends a distribution.
THEOREM OnlyTheDistributorFreezes == Spec => FreezeOnlyByDistributor
<1> DEFINE ByDistributor ==
      \A p \in Pdas :
        Committed(p) /\ HostIsActive(account[p]) /\ ~HostIsActive(account'[p])
          => /\ receipt'.call.instruction = "freeze"
             /\ Pda(receipt'.call.distribution_id) = p
             /\ account[p].distributor \in receipt'.call.authorized
<1>1. Inv /\ [Next]_vars => ByDistributor
  BY FreezeStepByDistributor
<1>2. Inv /\ [Next]_vars => [ByDistributor]_vars
  BY <1>1
<1> QED
  BY <1>2, Invariance, PTL DEF Spec, FreezeOnlyByDistributor

-----------------------------------------------------------------------------
(* The program implements Commitment.                                      *)

LEMMA PdaInjective ==
  ASSUME NEW i \in Ids, NEW j \in Ids, Pda(i) = Pda(j)
  PROVE  i = j
  BY DEF Pda, DistributionSeed

LEMMA PdaInPdas == \A i \in Ids : Pda(i) \in Pdas
  BY DEF Pdas

\* A committed state shows terms that are not NoTerms.
LEMMA TermsOfState ==
  ASSUME NEW s \in DistributionState, s.distributor \in Signers
  PROVE  TermsOf(s) \in CommitmentTerms /\ TermsOf(s) # Empty
<1>1. TermsOf(s) \in CommitmentTerms
  BY DEF DistributionState, TermsOf, CommitmentTerms
<1> QED  BY <1>1, NoTermsAssumption

LEMMA InitRefines == Init => Promise!Init
<1> SUFFICES ASSUME Init PROVE Promise!Init
  OBVIOUS
<1>1. \A i \in Ids : ~Committed(Pda(i))
  BY PdaInPdas DEF Init, Committed
<1> QED  BY <1>1 DEF Promise!Init, terms, frozen

LEMMA InitializeRefines ==
  ASSUME Inv, Inv', NEW c \in InitializeCalls, InitializeAccepted(c), Initialize(c)
  PROVE  Promise!Commit(c.distribution_id)
<1> DEFINE i == c.distribution_id
<1>1. account' = [account EXCEPT ![Pda(i)] = CommittedState(c)]
  BY AcceptedInitialize DEF Initialize
<1>2. account \in [Pdas -> DistributionState \cup {Empty}]
  BY DEF Inv, TypeOK
<1>3. i \in Ids /\ Pda(i) \in Pdas /\ account[Pda(i)] = Empty
  BY AcceptedInitialize
<1> HIDE DEF i
<1>4. /\ account'[Pda(i)] = CommittedState(c)
      /\ \A j \in Ids : j # i => account'[Pda(j)] = account[Pda(j)]
  BY <1>1, <1>2, <1>3, PdaInjective, PdaInPdas
<1>5. CommittedState(c) # Empty
  <2>1. clock \in Nat  BY MaxClockAssumption DEF Inv, TypeOK
  <2>2. CommittedState(c) \in DistributionState
    BY <2>1, AcceptedStateWellFormed
  <2> QED  BY <2>2, EmptyAssumption
<1>6. Committed(Pda(i))' /\ ~Committed(Pda(i))
  BY <1>3, <1>4, <1>5 DEF Committed
<1>7. \A j \in Ids : j # i => (Committed(Pda(j))' <=> Committed(Pda(j)))
  BY <1>4 DEF Committed
<1>8. terms[i] = Empty  BY <1>3, <1>6 DEF terms
<1>9. terms'[i] \in CommitmentTerms
  <2>1. CommittedState(c) \in DistributionState
    BY <1>3, <1>4, <1>5 DEF Inv, TypeOK
  <2>2. CommittedState(c).distributor \in Signers
    BY <1>3, <1>4, <1>6 DEF Inv, DistributorCanSign
  <2>3. terms'[i] = TermsOf(CommittedState(c))
    BY <1>3, <1>4, <1>6 DEF terms
  <2> QED  BY <2>1, <2>2, <2>3, TermsOfState
<1>10. terms' = [terms EXCEPT ![i] = terms'[i]]
  <2>1. \A j \in Ids : j # i => terms'[j] = terms[j]
    BY <1>4, <1>7 DEF terms
  <2>2. terms = [j \in Ids |-> terms[j]] /\ terms' = [j \in Ids |-> terms'[j]]
    BY DEF terms
  <2> HIDE DEF terms
  <2> QED  BY <1>3, <2>1, <2>2
<1>11. frozen' = frozen
  <2>1. CommittedState(c).active = 1  BY DEF CommittedState
  <2>2. i \notin frozen'  BY <1>4, <2>1 DEF frozen, HostIsActive
  <2>3. i \notin frozen  BY <1>6 DEF frozen
  <2>4. \A j \in Ids : j # i => (j \in frozen' <=> j \in frozen)
    BY <1>4, <1>7 DEF frozen
  <2>5. frozen \subseteq Ids /\ frozen' \subseteq Ids  BY DEF frozen
  <2> QED  BY <2>2, <2>3, <2>4, <2>5
<1> QED  BY <1>8, <1>9, <1>10, <1>11 DEF Promise!Commit, i

LEMMA FreezeRefines ==
  ASSUME Inv, NEW c \in FreezeCalls, FreezeAccepted(c), Freeze(c)
  PROVE  Promise!Freeze(c.distribution_id)
<1> DEFINE i == c.distribution_id
<1>1. account' = [account EXCEPT ![Pda(i)] = FrozenState(account[Pda(i)])]
  BY AcceptedFreeze DEF Freeze
<1>2. account \in [Pdas -> DistributionState \cup {Empty}]
  BY DEF Inv, TypeOK
<1>3. /\ i \in Ids /\ Pda(i) \in Pdas
      /\ account[Pda(i)] # Empty
      /\ GuestIsActive(account[Pda(i)])
  BY AcceptedFreeze
<1> HIDE DEF i
<1>4. /\ account'[Pda(i)] = FrozenState(account[Pda(i)])
      /\ \A j \in Ids : j # i => account'[Pda(j)] = account[Pda(j)]
  BY <1>1, <1>2, <1>3, PdaInjective, PdaInPdas
<1>5. account[Pda(i)] \in DistributionState  BY <1>2, <1>3
<1>6. /\ FrozenState(account[Pda(i)]) \in DistributionState
      /\ FrozenState(account[Pda(i)]).active = 0
      /\ TermsOf(FrozenState(account[Pda(i)])) = TermsOf(account[Pda(i)])
  BY <1>5 DEF FrozenState, DistributionState, TermsOf
<1>7. Committed(Pda(i)) /\ Committed(Pda(i))'
  BY <1>3, <1>4, <1>6, EmptyAssumption DEF Committed
<1>8. \A j \in Ids : j # i => (Committed(Pda(j))' <=> Committed(Pda(j)))
  BY <1>4 DEF Committed
<1>9. terms' = terms
  <2>1. \A j \in Ids : terms'[j] = terms[j]
    BY <1>3, <1>4, <1>6, <1>7, <1>8 DEF terms
  <2>2. terms = [j \in Ids |-> terms[j]] /\ terms' = [j \in Ids |-> terms'[j]]
    BY DEF terms
  <2> HIDE DEF terms
  <2> QED  BY <2>1, <2>2
<1>10. terms[i] # Empty
  <2>1. account[Pda(i)].distributor \in Signers
    BY <1>3, <1>7 DEF Inv, DistributorCanSign
  <2>2. terms[i] = TermsOf(account[Pda(i)])  BY <1>3, <1>7 DEF terms
  <2> QED  BY <1>5, <2>1, <2>2, TermsOfState
<1>11. i \notin frozen
  BY <1>3 DEF frozen, GuestIsActive, HostIsActive
<1>12. frozen' = frozen \cup {i}
  <2>1. i \in frozen'  BY <1>3, <1>4, <1>6, <1>7 DEF frozen, HostIsActive
  <2>2. \A j \in Ids : j # i => (j \in frozen' <=> j \in frozen)
    BY <1>4, <1>8 DEF frozen
  <2>3. frozen \subseteq Ids /\ frozen' \subseteq Ids  BY DEF frozen
  <2> QED  BY <1>3, <2>1, <2>2, <2>3
<1> QED  BY <1>9, <1>10, <1>11, <1>12 DEF Promise!Freeze, i

LEMMA NextRefines ==
  ASSUME Inv, Inv', [Next]_vars
  PROVE  [Promise!Next]_(Promise!vars)
<1>1. ASSUME account' = account PROVE UNCHANGED Promise!vars
  BY <1>1 DEF Promise!vars, terms, frozen, Committed, Pda
<1>2. CASE \E c \in InitializeCalls : Initialize(c)
  <2>1. PICK c \in InitializeCalls : Initialize(c)  BY <1>2
  <2>2. CASE InitializeAccepted(c)
    <3>1. c.distribution_id \in Ids  BY <2>2, AcceptedInitialize
    <3>2. Promise!Commit(c.distribution_id)  BY <2>1, <2>2, InitializeRefines
    <3> QED  BY <3>1, <3>2 DEF Promise!Next
  <2>3. CASE ~InitializeAccepted(c)
    BY <1>1, <2>1, <2>3 DEF Initialize
  <2> QED  BY <2>2, <2>3
<1>3. CASE \E c \in FreezeCalls : Freeze(c)
  <2>1. PICK c \in FreezeCalls : Freeze(c)  BY <1>3
  <2>2. CASE FreezeAccepted(c)
    <3>1. c.distribution_id \in Ids  BY <2>2, AcceptedFreeze
    <3>2. Promise!Freeze(c.distribution_id)  BY <2>1, <2>2, FreezeRefines
    <3> QED  BY <3>1, <3>2 DEF Promise!Next
  <2>3. CASE ~FreezeAccepted(c)
    BY <1>1, <2>1, <2>3 DEF Freeze
  <2> QED  BY <2>2, <2>3
<1>4. CASE Tick  BY <1>1, <1>4 DEF Tick
<1>5. CASE UNCHANGED vars  BY <1>1, <1>5 DEF vars
<1> QED  BY <1>2, <1>3, <1>4, <1>5 DEF Next

\* The terms of a distribution are written once and a freeze is final, for any
\* number of distributions and whatever calls are submitted.
THEOREM Implementation == Spec => KeepsCommitment
  BY InitRefines, NextRefines, Invariance, PTL
  DEF Spec, KeepsCommitment, Promise!Spec
=============================================================================
