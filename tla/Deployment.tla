----------------------------- MODULE Deployment -----------------------------
(***************************************************************************)
(* From enrollment to a committed distribution: recipients run             *)
(* airdrop_enroll, a distributor runs airdrop_deploy (again, when a run    *)
(* stopped half way) and may freeze what a run deployed, airdrop_status    *)
(* compares what was written where.  Programs crash between any two steps, *)
(* and read the enrollments file by file.  Transactions wait in a pool and *)
(* are executed in any order, as late as they like; other people send      *)
(* calls to the same program, whose address is that of its bytecode.       *)
(*                                                                         *)
(* The guest is AirdropProgram, through the calls that AirdropClient       *)
(* builds; the wallet and the sequencer are what the binaries use of them. *)
(***************************************************************************)
EXTENDS EnrollmentFiles

CONSTANTS
    Program,            \* id of the airdrop program, shared by all its users
    Ids,                \* distribution ids
    MaxRuns,            \* bound on the runs of airdrop_deploy
    MaxAmount,          \* u128::MAX
    RivalCalls,         \* calls that other people send
    Rivals,             \* their accounts
    Clock50, ZeroRoot, ForeignTimestamp,    \* see AirdropProgram
    Torn                \* a file whose writer is at it, or died at it

ASSUME BoundsAssumption ==
    MaxRuns \in Nat /\ MaxAmount \in Nat /\ ForeignTimestamp \in Nat

Runs == 1 .. MaxRuns

VARIABLES
    enroll,             \* enroll[k]: progress of the k-th airdrop_enroll
    recipientWallet,    \* recipientWallet[n]: accounts in the stored wallet of the
                        \* recipient n, or None
    stage,              \* stage[r]: progress of the r-th airdrop_deploy
    plan,               \* plan[r]: the enrollments that run r has read so far, and
                        \* once it has them all what it computed from them
    wallet,             \* accounts in the stored wallet of the distributor, or None
    manifest,           \* the manifest file, Torn, or None
    pool,               \* our transactions, sent and not yet executed
    programs,           \* programs deployed on the chain, of those that a
                        \* transaction below is for
    definitions,        \* token definitions on the chain, with their supply
    account,            \* these three: see AirdropProgram
    clock,
    receipt

recipientVars == <<enroll, recipientWallet, file>>
runVars == <<stage, plan, wallet, manifest>>
guestVars == <<account, clock, receipt>>
chainVars == <<programs, definitions, guestVars>>
vars == <<recipientVars, runVars, pool, chainVars>>

-----------------------------------------------------------------------------
(* Accounts, named after the run that created them. *)

Distributor(r) == <<"distributor", r>>
Definition(r) == <<"definition", r>>
Supply(r) == <<"supply", r>>

Distributors == {Distributor(r) : r \in Runs}

DistributorAccounts ==
    Distributors \cup {Definition(r) : r \in Runs} \cup {Supply(r) : r \in Runs}
RecipientAccounts == {DAccount(k) : k \in Enrollees} \cup {MainAccount(k) : k \in Enrollees}

\* A wallet that is stored is not taken for none.
ASSUME NoneIsNoWallet ==
    \A stored \in (SUBSET DistributorAccounts) \cup (SUBSET RecipientAccounts) : stored # None

\* Nor is a file that is there, whatever it holds.
ASSUME NoneIsNoFile == None \notin {Torn} \cup {Enrollment(k) : k \in Enrollees}

\* The root of the tree over a sequence of leaves: injective, which SparseMerkle
\* shows of the tree over an injective hash.
Root(leaves) == <<"root", leaves>>

RivalInitializeCalls == {c \in RivalCalls : c.instruction = "initialize"}

\* The roots over enrollments, and those that rivals have.
Roots ==
    {Root([j \in DOMAIN order |-> Leaf(DAccount(order[j]))]) :
        order \in UNION {SetToSeqs(S) : S \in SUBSET Enrollees}}
    \cup {c.root : c \in RivalInitializeCalls}

\* The calls come from the pool, not from the guest's own next-state relation.
Guest == INSTANCE AirdropClient WITH
    Signers <- Distributors \cup Rivals,
    OtherAccounts <- UNION {{c.accounts[j] : j \in DOMAIN c.accounts} : c \in RivalCalls},
    Tokens <- {Definition(r) : r \in Runs}
                  \cup {c.token_definition : c \in RivalInitializeCalls},
    Empty <- None,
    MaxClock <- 0,
    InitializeCalls <- {},
    FreezeCalls <- {}

\* Rivals send anything that the guest can decode, but cannot sign with our keys.
ASSUME RivalsAssumption ==
    /\ Rivals \cap Distributors = {}
    /\ \A c \in RivalCalls :
         /\ c \in Guest!AnyInitializeCall \cup Guest!AnyFreezeCall
         /\ c.authorized \cap Distributors = {}

\* An account without data is not taken for a distribution.
ASSUME NoneIsNoDistribution ==
    None \notin Guest!DistributionState \cup Guest!CommitmentTerms

Committed(i) == account[Guest!Pda(i)] # None
State(i) == account[Guest!Pda(i)]

-----------------------------------------------------------------------------
(* Wallets.  One program at a time works with a wallet: it is loaded and   *)
(* stored as a whole.                                                      *)

\* Mutant: storage that exists is initialized again.
init_wallet_anew(stored) == {}

\* The accounts of a wallet that is loaded; storage that exists is kept.
init_wallet(stored) == IF stored = None THEN {} ELSE stored

-----------------------------------------------------------------------------
(* airdrop_enroll *)

\* Creates D_i and the main account and stores the wallet.  A recipient's program
\* that crashes takes no further step: nothing makes it take the next one.
EnrollStore(k) ==
    /\ enroll[k] = "new"
    /\ enroll' = [enroll EXCEPT ![k] = "stored"]
    /\ recipientWallet' = [recipientWallet EXCEPT ![Invocations[k].name] =
                              init_wallet(@) \cup {DAccount(k), MainAccount(k)}]
    /\ UNCHANGED <<file, runVars, pool, chainVars>>

\* Writes <name>.json over an earlier one, which is lost from here on.
EnrollTruncate(k) ==
    /\ enroll[k] = "stored"
    /\ enroll' = [enroll EXCEPT ![k] = "writing"]
    /\ file' = [file EXCEPT ![Invocations[k].name] = Torn]
    /\ UNCHANGED <<recipientWallet, runVars, pool, chainVars>>

EnrollWrite(k) ==
    /\ enroll[k] = "writing"
    /\ enroll' = [enroll EXCEPT ![k] = "done"]
    /\ file' = [file EXCEPT ![Invocations[k].name] = Enrollment(k)]
    /\ UNCHANGED <<recipientWallet, runVars, pool, chainVars>>

\* from_file panics on a torn file, and with it the program that reads it.
DirectoryReadable == \A n \in Names : file[n] # Torn

EligibilityRoot(enrollments) ==
    Root([j \in DOMAIN enrollments |-> enrollments[j].leaf])

-----------------------------------------------------------------------------
(* airdrop_deploy, one action per step at which it can be interrupted or   *)
(* overtaken.                                                              *)

Ended == {"done", "dead"}

Goto(r, from, to) ==
    /\ stage[r] = from
    /\ stage' = [stage EXCEPT ![r] = to]

DeployTx(program) == [kind |-> "deploy", program |-> program]

\* For the mutants: the directory read again in the middle of a run, if it can be.
RootOfNow(r) == IF DirectoryReadable THEN EligibilityRoot(Enrollments) ELSE plan[r].root
TotalOfNow(r) ==
    IF DirectoryReadable THEN TotalAllocation(Enrollments) ELSE plan[r].total_allocation

\* Mutant: the total of the enrollments as they are when the token is created.
DefinitionTxOfNow(r) ==
    [kind |-> "definition", token |-> Definition(r), supply |-> TotalOfNow(r)]

DefinitionTx(r) ==
    [kind |-> "definition", token |-> Definition(r), supply |-> plan[r].total_allocation]

\* Mutants: the total read again; the supply account in the token's place.
InitializeTxOfNow(r) ==
    [kind |-> "call",
     call |-> Guest!ClientInitializeCall(plan[r].distribution_id, Distributor(r),
                  plan[r].root, Definition(r), TotalOfNow(r),
                  plan[r].num_eligible)]

InitializeTxWithSupply(r) ==
    [kind |-> "call",
     call |-> Guest!ClientInitializeCall(plan[r].distribution_id, Distributor(r),
                  plan[r].root, Supply(r), plan[r].total_allocation,
                  plan[r].num_eligible)]

InitializeTx(r) ==
    [kind |-> "call",
     call |-> Guest!ClientInitializeCall(plan[r].distribution_id, Distributor(r),
                  plan[r].root, Definition(r), plan[r].total_allocation,
                  plan[r].num_eligible)]

\* Mutants: the root of the enrollments as they are at the end of the run; the
\* default id whatever the argument was.
ManifestOfNow(r) ==
    [distribution_id  |-> plan[r].distribution_id,
     token_definition |-> Definition(r),
     supply_holding   |-> Supply(r),
     distributor      |-> Distributor(r),
     root             |-> RootOfNow(r),
     total_allocation |-> plan[r].total_allocation,
     num_eligible     |-> plan[r].num_eligible]

ManifestOfDefaultId(r) ==
    [distribution_id  |-> 1,
     token_definition |-> Definition(r),
     supply_holding   |-> Supply(r),
     distributor      |-> Distributor(r),
     root             |-> plan[r].root,
     total_allocation |-> plan[r].total_allocation,
     num_eligible     |-> plan[r].num_eligible]

Manifest(r) ==
    [distribution_id  |-> plan[r].distribution_id,
     token_definition |-> Definition(r),
     supply_holding   |-> Supply(r),
     distributor      |-> Distributor(r),
     root             |-> plan[r].root,
     total_allocation |-> plan[r].total_allocation,
     num_eligible     |-> plan[r].num_eligible]

\* Mutant: a sum that nobody checks.
DeployableUnchecked(enrollments) == enrollments # <<>>

\* The sum is checked for overflow: these binaries are run with cargo run.
Deployable(enrollments) ==
    enrollments # <<>> /\ TotalAllocation(enrollments) \in 0 .. MaxAmount

\* One distributor at one terminal: a run starts when the last one has ended.
ListDirectory(r) ==
    /\ \A q \in Runs : q < r => stage[q] \in Ended
    /\ Goto(r, "off", "reading")
    /\ \E names \in Listings :
         plan' = [plan EXCEPT ![r] = [names |-> names, enrollments |-> <<>>]]
    /\ UNCHANGED <<recipientVars, wallet, manifest, pool, chainVars>>

\* The file that a run which is reading opens next, as it is now.
Unread(r) == Len(plan[r].enrollments) < Len(plan[r].names)
NextFile(r) == file[plan[r].names[Len(plan[r].enrollments) + 1]]

ReadFile(r) ==
    /\ stage[r] = "reading"
    /\ Unread(r)
    /\ NextFile(r) # Torn
    /\ plan' = [plan EXCEPT ![r].enrollments = Append(@, NextFile(r))]
    /\ UNCHANGED <<recipientVars, stage, wallet, manifest, pool, chainVars>>

\* A torn file, or nothing to deploy.
LoadFails(r) ==
    /\ Goto(r, "reading", "dead")
    /\ IF Unread(r) THEN NextFile(r) = Torn ELSE ~Deployable(plan[r].enrollments)
    /\ UNCHANGED <<recipientVars, plan, wallet, manifest, pool, chainVars>>

\* The distribution id is an argument of the program.
Load(r, i) ==
    LET enrollments == plan[r].enrollments IN
    /\ Goto(r, "reading", "loaded")
    /\ ~Unread(r)
    /\ Deployable(enrollments)
    /\ plan' = [plan EXCEPT ![r] =
            [distribution_id  |-> i,
             root             |-> EligibilityRoot(enrollments),
             total_allocation |-> TotalAllocation(enrollments),
             num_eligible     |-> Len(enrollments)]]
    /\ UNCHANGED <<recipientVars, wallet, manifest, pool, chainVars>>

CreateDistributor(r) ==
    /\ Goto(r, "loaded", "distributor")
    /\ wallet' = init_wallet(wallet) \cup {Distributor(r)}
    /\ UNCHANGED <<recipientVars, plan, manifest, pool, chainVars>>

\* The check looks at the owner of the distribution account, which is set once
\* the distribution is initialized; a failed request counts as "not deployed".
EnsureProgram(r) ==
    /\ Goto(r, "distributor", "airdrop")
    /\ \/ /\ Committed(plan[r].distribution_id)
          /\ UNCHANGED pool
       \/ pool' = pool \cup {DeployTx("airdrop")}
    /\ UNCHANGED <<recipientVars, plan, wallet, manifest, chainVars>>

\* Sent each time; "already deployed" is not an error.
DeployBuiltin(r, from, program) ==
    /\ Goto(r, from, program)
    /\ pool' = pool \cup {DeployTx(program)}
    /\ UNCHANGED <<recipientVars, plan, wallet, manifest, chainVars>>

\* Mutant: the wallet is not stored after the keys are created.
CreateDefinitionUnsaved(r) ==
    /\ Goto(r, "auth", "keyed")
    /\ UNCHANGED <<recipientVars, plan, wallet, manifest, pool, chainVars>>

CreateDefinition(r) ==
    /\ Goto(r, "auth", "keyed")
    /\ wallet' = init_wallet(wallet) \cup {Definition(r), Supply(r)}
    /\ UNCHANGED <<recipientVars, plan, manifest, pool, chainVars>>

\* Nothing waits for the definition to be executed.
SendDefinition(r) ==
    /\ Goto(r, "keyed", "defined")
    /\ pool' = pool \cup {DefinitionTx(r)}
    /\ UNCHANGED <<recipientVars, plan, wallet, manifest, chainVars>>

SendInitialize(r) ==
    /\ Goto(r, "defined", "sent")
    /\ pool' = pool \cup {InitializeTx(r)}
    /\ UNCHANGED <<recipientVars, plan, wallet, manifest, chainVars>>

\* Mutant: the transaction hash is taken for its execution.
SeeHash(r) ==
    /\ Goto(r, "sent", "seen")
    /\ UNCHANGED <<recipientVars, plan, wallet, manifest, pool, chainVars>>

\* wait_for_account_data returns as soon as the account holds any data ...
SeeData(r) ==
    /\ Goto(r, "sent", "seen")
    /\ Committed(plan[r].distribution_id)
    /\ UNCHANGED <<recipientVars, plan, wallet, manifest, pool, chainVars>>

\* Mutant: polls without a limit.
PollForEver(r) ==
    /\ Goto(r, "sent", "sent")
    /\ UNCHANGED <<recipientVars, plan, wallet, manifest, pool, chainVars>>

\* ... and panics after the last attempt; the transaction stays in the pool.
TimeOut(r) ==
    /\ Goto(r, "sent", "dead")
    /\ ~Committed(plan[r].distribution_id)
    /\ UNCHANGED <<recipientVars, plan, wallet, manifest, pool, chainVars>>

\* The manifest of an earlier run is lost from here on.
TruncateManifest(r) ==
    /\ Goto(r, "seen", "writing")
    /\ manifest' = Torn
    /\ UNCHANGED <<recipientVars, plan, wallet, pool, chainVars>>

WriteManifest(r) ==
    /\ Goto(r, "writing", "done")
    /\ manifest' = Manifest(r)
    /\ UNCHANGED <<recipientVars, plan, wallet, pool, chainVars>>

\* Interrupted, or a request to the sequencer failed.
Stop(r) ==
    /\ stage[r] \notin {"off"} \cup Ended
    /\ stage' = [stage EXCEPT ![r] = "dead"]
    /\ UNCHANGED <<recipientVars, plan, wallet, manifest, pool, chainVars>>

\* A step of run r that its process takes by itself, in the order of main.
Step(r) ==
    \/ ReadFile(r)
    \/ LoadFails(r)
    \/ \E i \in Ids : Load(r, i)
    \/ CreateDistributor(r)
    \/ EnsureProgram(r)
    \/ DeployBuiltin(r, "airdrop", "token")
    \/ DeployBuiltin(r, "token", "auth")
    \/ CreateDefinition(r)
    \/ SendDefinition(r)
    \/ SendInitialize(r)
    \/ SeeData(r)
    \/ TimeOut(r)
    \/ TruncateManifest(r)
    \/ WriteManifest(r)

\* RunManifest::from_file panics otherwise.
HaveManifest == manifest \notin {None, Torn}

\* Mutant: signed for the distributor on the chain, if the wallet has the key.
FreezeCallOfTheChain(m) ==
    Guest!DocumentedFreezeCall(m.distribution_id, State(m.distribution_id).distributor)

\* What a client made from the guest's interface builds.  The one in client.rs lists an
\* account too many, so that its freezes are refused, see AirdropClient.
FreezeCall(m) == Guest!DocumentedFreezeCall(m.distribution_id, m.distributor)

\* The distributor freezes what the manifest says was deployed.  No program of the
\* repository does it, so that this may be at any time and again.
SendFreeze ==
    /\ HaveManifest
    /\ manifest.distributor \in init_wallet(wallet)
    /\ pool' = pool \cup {[kind |-> "call", call |-> FreezeCall(manifest)]}
    /\ UNCHANGED <<recipientVars, runVars, chainVars>>

-----------------------------------------------------------------------------
(* The chain executes pending transactions one at a time, in any order.  A *)
(* transaction for a program that is not there yet is refused for good.    *)

\* Nothing here looks whether "auth" is there: its deployment is left in the pool.
ExecuteDeploy(tx) ==
    /\ tx.kind = "deploy"
    /\ tx.program \in {"airdrop", "token"}
    /\ pool' = pool \ {tx}
    /\ programs' = programs \cup {tx.program}
    /\ UNCHANGED <<recipientVars, runVars, definitions, guestVars>>

ExecuteDefinition(tx) ==
    /\ tx.kind = "definition"
    /\ pool' = pool \ {tx}
    /\ definitions' = IF "token" \in programs
                      THEN definitions \cup {[token |-> tx.token, supply |-> tx.supply]}
                      ELSE definitions
    /\ UNCHANGED <<recipientVars, runVars, programs, guestVars>>

RunGuest(call) ==
    IF "airdrop" \in programs
    THEN \/ call.instruction = "initialize" /\ Guest!Initialize(call)
         \/ call.instruction = "freeze" /\ Guest!Freeze(call)
    ELSE UNCHANGED guestVars

ExecuteCall(tx) ==
    /\ tx.kind = "call"
    /\ pool' = pool \ {tx}
    /\ RunGuest(tx.call)
    /\ UNCHANGED <<recipientVars, runVars, programs, definitions>>

\* Other people, with the same bytecode and so the same addresses, may send a call
\* at any time and again: it is executed at any time, and the pool need not hold it.
ExecuteRivalCall(c) ==
    /\ RunGuest(c)
    /\ UNCHANGED <<recipientVars, runVars, pool, programs, definitions>>

-----------------------------------------------------------------------------

Init ==
    /\ enroll = [k \in Enrollees |-> "new"]
    /\ recipientWallet = [n \in Names |-> None]
    /\ file = [n \in Names |-> None]
    /\ stage = [r \in Runs |-> "off"]
    /\ plan = [r \in Runs |-> None]
    /\ wallet = None
    /\ manifest = None
    /\ pool = {}
    /\ programs = {}
    /\ definitions = {}
    /\ Guest!Init

Next ==
    \/ \E k \in Enrollees : EnrollStore(k) \/ EnrollTruncate(k) \/ EnrollWrite(k)
    \/ \E r \in Runs : ListDirectory(r) \/ Step(r) \/ Stop(r)
    \/ SendFreeze
    \/ \E tx \in pool : ExecuteDeploy(tx) \/ ExecuteDefinition(tx) \/ ExecuteCall(tx)
    \/ \E c \in RivalCalls : ExecuteRivalCall(c)

\* A process that can take its next step does; people and the chain may not.
Fairness == \A r \in Runs : WF_vars(Step(r))

Spec == Init /\ [][Next]_vars /\ Fairness

-----------------------------------------------------------------------------
(* airdrop_status: what it reports at a moment at which nothing moves.     *)

\* Mutant: the root of the manifest is printed and not compared.
StatusVerdictWithoutRebuild ==
    LET i == manifest.distribution_id IN
    IF ~HaveManifest THEN "no manifest"
    ELSE IF ~Committed(i) THEN "not initialized"
    ELSE IF State(i).root # manifest.root THEN "drifted"
    ELSE IF ~DirectoryReadable THEN "invalid enrollment"
    ELSE "OK"

StatusVerdict ==
    LET i == manifest.distribution_id IN
    IF ~HaveManifest THEN "no manifest"
    ELSE IF ~Committed(i) THEN "not initialized"
    ELSE IF State(i).root # manifest.root THEN "drifted"
    ELSE IF ~DirectoryReadable THEN "invalid enrollment"
    ELSE IF EligibilityRoot(Enrollments) # State(i).root THEN "enrollments changed"
    ELSE "OK"

-----------------------------------------------------------------------------
(* Properties *)

Stages == {"off", "reading", "loaded", "distributor", "airdrop", "token", "auth", "keyed",
           "defined", "sent", "seen", "writing", "done", "dead"}

\* The shape of the state: what a run uses it has computed, and no supply or
\* planned total exceeds a u128.
DeploymentTypeOK ==
    /\ enroll \in [Enrollees -> {"new", "stored", "writing", "done"}]
    /\ \A n \in Names : file[n] \in {None, Torn} \/ \E k \in Enrollees : file[n] = Enrollment(k)
    /\ \A n \in Names :
         recipientWallet[n] = None \/ recipientWallet[n] \subseteq RecipientAccounts
    /\ wallet = None \/ wallet \subseteq DistributorAccounts
    /\ stage \in [Runs -> Stages]
    /\ \A r \in Runs :
         /\ stage[r] = "off" => plan[r] = None
         /\ stage[r] = "reading" => plan[r].names \in Seq(Names)
         /\ stage[r] \notin {"off", "reading", "dead"} => plan[r].total_allocation \in 0 .. MaxAmount
    /\ programs \subseteq {"airdrop", "token"}
    /\ definitions \subseteq [token : {Definition(r) : r \in Runs}, supply : 0 .. MaxAmount]
    /\ HaveManifest => \E r \in Runs : stage[r] = "done" /\ manifest = Manifest(r)

\* The keys that are loaded by whoever opens a wallet next.
OurKeys == init_wallet(wallet)
RecipientKeys == UNION {init_wallet(recipientWallet[n]) : n \in Names}

OurDistributions == {i \in Ids : Committed(i) /\ State(i).distributor \in Distributors}

\* A manifest is written only for a distribution that is on the chain, however
\* late its transaction was executed and whatever crashed before.
ManifestMeansCommitted ==
    HaveManifest => Committed(manifest.distribution_id)

\* When the distribution on the chain is the one this manifest's run created,
\* every term in the manifest is the committed one: enrollments that arrived
\* during the run, or an earlier run, left nothing behind in it.
ManifestOfTheWinnerIsExact ==
    HaveManifest =>
        LET s == State(manifest.distribution_id) IN
        s.distributor = manifest.distributor =>
            /\ s.root = manifest.root
            /\ s.token_definition = manifest.token_definition
            /\ s.total_allocation = manifest.total_allocation
            /\ s.num_eligible = manifest.num_eligible

\* What one of our runs committed was an eligibility set: the root, the number and
\* the total on the chain are those of one list of enrollments, of one for each name
\* and in the order of the names, although files were added, truncated and replaced
\* between the listing of the directory and the reading of each file, and later.
\* The list need not have been in the directory at any one time.
CommittedTermsAreOfOneList ==
    \A i \in OurDistributions :
        \E S \in SUBSET Enrollees : \E order \in SetToSeqs(S) :
            /\ \A j, l \in DOMAIN order :
                 j < l => Invocations[order[j]].name < Invocations[order[l]].name
            /\ State(i).root = Root([j \in DOMAIN order |-> Leaf(DAccount(order[j]))])
            /\ State(i).num_eligible = Cardinality(S)
            /\ State(i).total_allocation =
                 MapThenSumSet(LAMBDA k : Invocations[k].amount, S)

\* A crash never leaves behind something on the chain, or in the pool, or in a
\* file, whose secret key nobody has stored: the distributor's and the token's in
\* the distributor's wallet, those of the D_i in the recipients'.
KeysOutliveCrashes ==
    /\ \A tx \in pool :
         /\ tx.kind = "definition" => tx.token \in OurKeys
         /\ tx.kind = "call" => tx.call.authorized \cap Distributors \subseteq OurKeys
         /\ tx.kind = "call" /\ tx.call.instruction = "initialize"
              /\ tx.call.authorized \cap Distributors # {}
              => tx.call.token_definition \in OurKeys
    /\ \A d \in definitions : d.token \in OurKeys
    /\ \A i \in OurDistributions :
         /\ {State(i).distributor, State(i).token_definition} \subseteq OurKeys
         /\ \E S \in SUBSET Enrollees : \E order \in SetToSeqs(S) :
              /\ State(i).root = Root([j \in DOMAIN order |-> Leaf(DAccount(order[j]))])
              /\ {DAccount(k) : k \in S} \subseteq RecipientKeys
    /\ HaveManifest =>
         {manifest.distributor, manifest.token_definition, manifest.supply_holding}
             \subseteq OurKeys

\* The token of a distribution, when its definition was executed at all, was
\* created with the total that the distribution committed to.
DefinitionSupplyIsTheTotal ==
    \A i \in OurDistributions, d \in definitions :
        d.token = State(i).token_definition => d.supply = State(i).total_allocation

\* airdrop_status compares roots only.  For a distribution of ours that is
\* enough for the totals too: a fresh D_i is in one enrollment only.
StatusOkFixesTheTotals ==
    StatusVerdict = "OK" /\ manifest.distribution_id \in OurDistributions =>
        LET s == State(manifest.distribution_id) IN
        /\ s.total_allocation = manifest.total_allocation
        /\ s.num_eligible = manifest.num_eligible
        /\ s.total_allocation = TotalAllocation(Enrollments)

\* A distribution of ours is frozen only for the run that created it: neither a rival
\* nor the manifest of another run of ours, which names the same distribution but
\* lost the race for it, takes it out of service.
FrozenByItsOwnRun ==
    \A i \in OurDistributions :
        State(i).active # 1 =>
            \E r \in Runs : /\ stage[r] = "done"
                            /\ State(i).distributor = Distributor(r)
                            /\ plan[r].distribution_id = i

\* The promise of Commitment, kept by the whole system: whatever runs that crash, start
\* again and time out, and rivals, have sent, and however late and in whatever order it is
\* executed, also before the program is there, the terms of a distribution are written
\* once, with positive totals and an authority that can sign, and a freeze is final.
KeepsCommitment == Guest!KeepsCommitment

\* A run of airdrop_deploy that was started ends, though the transaction it
\* waits for may never be executed.
RunsEnd == \A r \in Runs : stage[r] # "off" ~> stage[r] \in Ended

-----------------------------------------------------------------------------
(* What the repository says and the code does not ensure.                  *)

\* airdrop_status.rs: "on-chain root drifted from manifest" is an assertion.
ManifestRootIsOnChain ==
    HaveManifest => State(manifest.distribution_id).root = manifest.root
=============================================================================
