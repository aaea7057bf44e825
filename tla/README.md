# A TLA+ verification of the private airdrop

This directory models the private airdrop of this repository: a zkVM program
with two instructions that holds the public commitment of a distribution, and
five command line programs around it. TLC checks the modules on small
instances; TLAPS proves the safety of every part for every instance: the guest
program, the guest's binary on its way to the chain, enrollment and deployment,
the Merkle tree and the reduction of its inputs, funding and claiming.

## The system

| Part | State it keeps | Operations | Talks to |
|---|---|---|---|
| Guest program (`methods/guest`) | data of the PDA `["distribution", id]` | `initialize_distribution`, `freeze_distribution` | executed by the sequencer, one call at a time |
| `airdrop-core` | none; state layout, instructions, PDA seeds, Merkle tree | pure functions | guest and host |
| Client library (`src/airdrop/client.rs`) | none | build and send calls, deploy programs, poll accounts | sequencer RPC, wallet |
| `airdrop_enroll` | recipient's wallet file, `enrollments/<name>.json` | create keys, write file | files |
| `airdrop_deploy` | distributor's wallet file, `run.json` | read enrollments, deploy programs, create token, initialize, write manifest | files, sequencer |
| `airdrop_fund` | token definition on the chain | mint per enrollment, poll the supply | files, sequencer |
| `airdrop_claim` | `D_i` and main account on the chain | check freeze, transfer, second transfer must fail | files, sequencer |
| `airdrop_status` | none | compare manifest, chain and enrollment files | files, sequencer |
| `methods/build.rs` | guest artifact on disk, in two build trees | emit it, find llvm-strip, strip the user ELF in place | files |
| Wallet, sequencer, token program | external | transactions wait, are executed in some order or refused | – |

What is hard about it:

* **Nothing is atomic across the chain and the files.** `airdrop_deploy` is a
  sequence of wallet saves, transactions and waits that can stop anywhere, and
  whose transactions outlive the process that sent them. Running it again
  creates a new distributor and a new token.
* **Waiting looks at data, not at the answer.** `airdrop_deploy` waits until the
  distribution account holds *some* data, `airdrop_fund` until the token has
  *some* supply. Whose transaction it was, is not checked.
* **Addresses are shared.** A distribution's address depends on the bytecode
  and the id only, and the default id is 1.
* **Directories are read several times, file by file.** deploy, fund and status each
  list the enrollment files and then open one after the other, while recipients may
  write and overwrite them: a list that is read need not have been there at any one
  time.
* **One file, several distributions.** All ids share `run.json`.
* **Mints are a chain.** Each spends the definition account that the one before
  wrote; a mint built from an older one is refused long after it was sent.
* **Files are rewritten in place.** The guest artifact, the enrollment files, the
  manifest: a reader, or the next run, can meet a part of one.
* **The program's id is that of its bytes.** Every program reads the artifact to
  learn where its distribution is, `airdrop_deploy` reads it twice, and a build
  changes it three times.
* **Two readers of one word.** The guest says "active" for `active == 1`, the
  host for `active != 0`.

What makes each part correct:

| Part | Properties |
|---|---|
| Guest | terms are written once, under an authority that can sign; only that authority freezes; a freeze is final; the date is that of CLOCK_50 |
| deploy, enroll | root, count and totals are those of one list of enrollments; no key is lost; a manifest means a commitment, and that of the run that won says what was committed; only that run's manifest serves for a freeze |
| status | OK means that totals, root and enrollments agree |
| fund | no two mints of a run compete; nothing is minted twice; "All minted" is true |
| claim | a whole allocation is paid once, however many claims are on their way; the program's own second claim moves nothing |
| Build script | a run calls the program that it deployed; a completed build finds the distribution again |
| Merkle tree | every node is that of the full tree; paths prove their leaf only; old proofs expire; hash inputs are reduced exactly, so leaves are equal only for ids that are congruent |

## The modules

    Commitment   <- implemented by -  AirdropProgram  <- AirdropProgram_proofs
                                          ^
                                     AirdropClient
                                          ^ INSTANCE
    EnrollmentFiles  <-------------  Deployment  <- Deployment_proofs
           ^                                            | INSTANCE ->  AirdropProgram_proofs
           +-----------------------  Payout  - implements ->  Allocation
                                        ^
                                     Payout_proofs
    FieldReduction  <--------------  Eligibility  - INSTANCE ->  SparseMerkle
           ^                            ^                             ^
    FieldReduction_proofs  <-  Eligibility_proofs  - INSTANCE ->  SparseMerkle_proofs
           |                                                          |
           +-- INSTANCE ->  Recursion  <- INSTANCE -------------------+
                                ^ INSTANCE
                         Deployment_proofs
    GuestArtifact  <---------------  GuestArtifact_proofs

**`Commitment`** is the promise of a distribution: `terms` are written once,
`frozen` only grows. **`AirdropProgram`** is the guest (`handlers.rs`,
`program.rs`) with its whole environment: `account[p]` is the data of a PDA,
`clock` the timestamp in CLOCK_50, `receipt` the last call with its outcome. One
action per instruction, whose checks are a list in the order of the code; the
first one that fails is the outcome. `Dispatch` stands for what the SPEL
attributes ask for: the number of accounts and the PDA. `Outcome` is `"PANIC"`
where `read_distribution` has its `expect`. The date of a commitment is decoded from
the data of whatever account is third (`TimestampIn`): CLOCK_50 holds the clock, any
other account the `ForeignTimestamp` that its owner wrote there. **`AirdropClient`**
adds the calls that `client.rs` builds and the freeze as it is documented.

**`EnrollmentFiles`** is the directory. **`Deployment`** has one action for each
step of `airdrop_enroll` and `airdrop_deploy` between which the process can
stop or be overtaken, in the order of `main` (`stage[r]`). `ListDirectory` takes
the names down, `ReadFile` opens the next of them and reads it as it is by then
(`plan[r]` has both), `LoadFails` where that file is torn or the sum overflows, and
`Load` replaces what was read by what is computed from it. `wallet` is what
`store_persistent_data` has written; `pool` holds transactions that were sent and not
executed. A run that gives up or is stopped is `"dead"`; its transactions stay.
`SendFreeze` freezes what the manifest names with the key of the manifest's
distributor; no binary does that, and the client's own call has an account too many
(finding 2), so the call is the documented one. `ExecuteCall` runs the guest
of `AirdropProgram` on a pending call, `ExecuteRivalCall` on any call of somebody
else, who may send it again and again, so that the pool need not hold it.
`StatusVerdict` is `airdrop_status`. The enrollment files and the manifest are written in two steps, truncate and write;
in between, and for good if the writer dies there, they are `Torn`, and whoever
reads them panics. `init_wallet` loads the wallet that is stored, or makes one.

**`GuestArtifact`** looks at the same runs of `airdrop_deploy` from the side of
the program that `Deployment` takes as given. `artifact[t]` is `airdrop.bin` in
one of the two build trees, as a prefix that ends in the user ELF, in the kernel
ELF, or not at all. The build script (`build`) emits the local artifact, looks
for llvm-strip, and goes through both trees: unpack and strip, pack and write.
A docker build writes the other tree. `host[r]` loads the program, asks whether
it is deployed, reads the file again to deploy it, sends initialize, waits and
writes the manifest. The image id tells tree, source version and stripped or
not, since each changes the bytes.

**`Payout`** starts where `airdrop_deploy` ends, with the definition on its way,
and has the runs of `airdrop_fund` and `airdrop_claim`, any of them at the same
time. `FundList` and `FundRead` read the directory, which others enroll into, file by
file. `note[a]` is the latest version of a private account. A sync sets a
run's view to it; a transaction carries the view that it was built from and is
refused when the account has moved on. **`Allocation`** is what they promise:
each recipient's allocation goes from open to funded to claimed, as a whole and
once, and the supply grows by exactly what is funded.

**`SparseMerkle`** is the tree of `merkle.rs` over symbolic hashes, with somebody
who keeps an inclusion proof while leaves change. `nodes` holds the leaves;
`rows` derives every other node from them, row by row, with the default hash for
a subtree that holds no leaf. `FullTree` is what they are compared with: the rows
without that shortcut. **`FieldReduction`** is `reduce_mod_prime` with its limbs
and borrows: `borrows(a, b)[i]` is what limb `i` borrows in `limbs_sub`, from
either of its two wrapped subtractions. **`Eligibility`** puts them together: an
account id is reduced step by step, the result hashed, and the leaf inserted;
`member[i]` remembers whose leaf it is.

**`Recursion`** has what the proofs about recursive functions share; it models
nothing.

Definitions commented "Mutant" are plausible wrong versions of the one after
them. No specification uses them; each shows that a property can fail.

## The runs

| Run | Module, configuration | Instance | Shows |
|---|---|---|---|
| airdrop_program | `MCAirdropProgram`, `AirdropProgram.cfg` | 2 ids, 2 signers, 3 times, another account with a date that never comes, each call well-formed or with one or more things wrong | the guest keeps `Commitment`; states are well formed and none is dated by the caller; only the recorded distributor freezes; host and guest agree on "active" |
| deployment | `MCDeployment`, `Deployment.cfg` | 3 enrollments, two under one name; 2 runs of deploy; freezes | with crashes, retries, late transactions, files that are added, torn and replaced while they are read one by one: terms of one list of enrollments, no key lost by distributor or recipient, an exact manifest for the run that won, the token of a distribution has its total, and an OK of status fixes the totals |
| deployment_rival | `MCDeployment`, `DeploymentRival.cfg` | 1 enrollment, 2 runs, ids 1 and 2, freezes, a rival who initializes and freezes id 1 | the whole system keeps `Commitment`; a distribution is frozen only for the run that created it; a manifest means a commitment; every run ends |
| funding | `MCPayout`, `Funding.cfg` | 2 + 1 late enrollments, 2 runs of fund, 1 of claim | mints of a run do not compete; a good end means that all is minted; `Allocation` is implemented |
| claiming | `MCPayout`, `Claiming.cfg` | the same, 1 run of fund, 2 of claim | a good end means paid, as a whole; claims that compete pay once; the supply stays in range; programs end |
| eligibility | `MCEligibility`, `Eligibility.cfg` | every input of 3 limbs of 3 bits is reduced; depth 2, three ids are enrolled, two of them congruent | limb arithmetic is integer arithmetic; all of the tree's properties; leaves are equal exactly for congruent ids |
| guest_artifact | `GuestArtifact`, `GuestArtifact.cfg` | 2 versions of the source, 2 runs of deploy, any number of builds | a run calls what it deployed, the manifest names a committed program, and a completed build of its source finds it |

Five more runs state what the repository says and end in a counterexample; see
Findings.

Why the bounds are enough. The guest handles one PDA per call and compares
signers with one recorded signer; two of each show every interference. A race
in `Deployment` is between an earlier run and a later one, and a third would
repeat it; two enrollments of one name replace a file, a third one of another
name arrives late, and two names are enough for a list whose first file is of one time
and whose second is of another. In `Payout` two runs of a program compete for one private
account; equal amounts are chosen because only then one mint can pass for
another; `MaxAmount = 4` has room for two mints on top of the first supply of
two and none for the third. The tree has subtrees that are empty, half full and
full at depth 2. Three limbs have a first, a middle and a last borrow, and the
prime's largest middle limb makes a borrow meet a difference of zero; of the
three ids, two differ by twice the prime. An artifact is of the version that a
run deployed or of another one, and builds are not counted.
The bounds are constants: `MaxClock`, `MaxRuns`, `MaxFunds`, `MaxClaims`,
`MaxAmount` (u128::MAX), `MaxSource`, `Depth`, `Base` and `Limbs`;
`ForeignTimestamp` is one date, after the last clock of its run; `Ids` and `Audited` choose what is enrolled and whose proofs are kept.

Fairness. A process that was started takes its next step (`WF` of `Step(r)`,
`FundStep(r)`, `ClaimStep(c)`), because it is a loop with a bound on its
attempts (`wait_account_attempts`). Nobody is assumed to start a program, the
chain is not assumed to execute anything, and a process may be stopped. So the
liveness properties say that no program waits for ever, and no more. Deadlock is
not checked for systems that may come to rest.

## What is proved

`AirdropProgram_proofs` holds for every set of ids, signers, roots and tokens,
every bound on the clock and every set of submitted calls, of which it assumes
that they are calls (the `ASSUME`s of `AirdropProgram`, which TLC evaluates
too).

* `Invariance`: `Spec => []Inv` with
  `Inv == TypeOK /\ CommittedInThePast /\ DistributorCanSign`. The parts are
  inductive together. `TypeOK` gives the states their fields; the other two
  need to know of a frozen state that it keeps the fields it had. The lemmas
  `AcceptedInitialize` and `AcceptedFreeze` turn "every check passed" into the
  facts that the preservation lemmas of the two actions use.
* `TypeCorrect`, `CommitmentsAreDated`, `AuthorityCanSign` are its parts, the second
  by the check for CLOCK_50 alone: `ForeignTimestamp` is any number;
  `HostAndGuestAgree` follows from a status of 0 or 1.
* `OnlyTheDistributorFreezes`: an action property. Only an accepted freeze
  changes an active state to an inactive one, at the PDA of its id, and it
  passed the comparison with the recorded distributor, who signed.
* `Implementation`: `Spec => KeepsCommitment`. An accepted `Initialize` is a
  `Commit` of its id, an accepted `Freeze` a `Freeze`, everything else leaves
  the abstract state alone; distinct ids have distinct PDAs.

`GuestArtifact_proofs` holds for any number of source versions and of runs.

* `ArtifactInvariance`: `Spec => []IInv`, `IInv == FileInv /\ HostInv`. `FileInv`
  follows a build through the files: what it holds in memory is a binary of the
  tree that it works on, whole as long as that tree is the local one
  (`InMemory`); the local artifact is whole once it is emitted, and stripped
  once the build has gone past it (`LocalTree`). It is inductive without regard
  to the runs. `HostInv` needs to know that a program with a distribution is
  deployed and that a run which saw data has a program with a distribution.
* `TypeCorrect`, `CallsWhatItDeployed` and `ManifestProgramIsDeployed` are parts of it; `RebuildsAgree` puts `LocalTree`
  and the manifest's program together: at the end of a build the id is that of
  the stripped local binary of the source.

`Payout_proofs` holds for any enrollments, any number of runs of both programs,
and any `MaxAmount`, as long as the committed total is within it
(`TotalAssumption`; the sum in `airdrop_deploy` is checked).

* `PayoutInvariance`: `Spec => []IInv`. `LedgerInv` says that an allocation is
  open, funded or claimed; that alone is not inductive, since a transaction in
  the pool could do anything. `PoolInv` says what is in the pool: a definition
  only while there is none, mints of an exact allocation to its own `D_i` that
  were proved not to overflow, transfers of an exact allocation from a `D_i`
  seen with that balance. `FundInv` and `ClaimInv` tie the views of the runs to
  what they send: what is expected is what was seen plus the allocation; who is
  at the second claim has seen `D_i` empty.
* Every step of the ledger creates the definition, mints or pays one allocation,
  or changes no account (`NoteStep`). `NoteStepFacts` shows that such a step
  keeps `LedgerInv`, and `NoteStepRefines` that it is a step of `Allocation`, or
  none: the transfer of an allocation of zero may be executed again.
* `TypeCorrect` (with it, no supply beyond a u128), `ClaimsEndWell` and
  `Implementation` (`Spec => PaysEachOnce`) follow.
* `MintsWait`: if all allocations are above zero, no two mints of a run compete.
  The mints that a run has sent spend definitions of different supply, all below
  what it has reached or expects (`OrderInv`), because each is sent only after
  the supply has risen by the last. The hypothesis is needed, see below.
* `AllMinted`: if all allocations are above zero, and nobody enrolls under a name
  that is not after all names enrolled (`EnrollsInOrder`), a run that ends well
  has seen all of its list funded. The supply that it waits for does not say so
  by itself. `MintedInv` does: while names come in order, files added after the listing
  come after it, so that a list read file by file has every file up to its last name
  (`ReadOK`, then `ListOK`); whoever sent a mint had seen all that come before it on file
  funded (`InTurnInv`); so while the next allocation of a run is open, no mint
  at all has been executed since the version that the run minted from
  (`PassedOK`), and the supply cannot be the one expected. Each hypothesis is
  needed: TLC finds a run that ends well over an allocation that is open when an
  allocation is zero, when a file is replaced (finding 4), and when a late
  enrollment comes first in the directory.

`Deployment_proofs` holds for any enrollments, any number of runs of
`airdrop_deploy`, any ids, and any calls of rivals, initialize and freeze, that the
guest can decode and that are not signed with the distributor's keys
(`RivalsAssumption`; `CallsDecode` shows that what the runs send can be decoded, so
nothing is assumed of it). `NoneIsNoFile`, `NoneIsNoWallet` and `NoneIsNoDistribution`
keep the value for "nothing there" apart from what can be there.

* `Invariance`: `Spec => [](IInv /\ Chain!Inv)`. The properties speak of the manifest,
  the pool and the chain, and none is inductive: what a transaction does was fixed when
  it was sent, by a run that may be dead by the time it is executed. So `IInv` keeps
  its author in sight: a run `Answers` for what it sends when it has a plan and all
  three of its keys are stored; every transaction in the pool, every definition and
  every state on the chain is a rival's or has a run that answers for it (`TxOK`,
  `DefinitionOK`, `StateOK`), and a run that is past "auth" is one (`RunOK`). A freeze
  in the pool is that of a run which has ended well, and so is whoever owns a state that
  is frozen. `Chain!Inv`, the invariant of the guest, gives the states on the chain their
  fields.
* `Grows`: no step takes back a plan, a key, a file or a commitment. What `IInv` says
  of one run, transaction or state survives any step that grows (`TxGrows`,
  `ChainGrows`, `RunGrows`), so that each action only has to show what it adds.
* `Reading` and `OneList`: of a run that is reading, all listed names are still on file,
  whatever is written meanwhile, and what was read from each is an enrollment of that
  name whose recipient has stored the keys. A complete list has therefore one enrollment
  for each of its names, in their order (`ListOrder`, `ListTerms`), and its root, number
  and total are those of one set. It need not be a set that was ever there.
* `CallWrites` and `CallStep`: a call that is executed leaves every state alone except
  one that it creates or freezes. `FreezeKeepsState` uses that the guest has compared the
  signer with the recorded distributor: a freeze for another run's manifest is refused.
* `TypeCorrect`, `ManifestCommitted`, `ManifestExact`, `KeysStored`,
  `TermsAreOfOneList`, `SupplyIsTheTotal` and `OnlyItsOwnRunFreezes` follow from `IInv`;
  `ManifestExact` and `SupplyIsTheTotal` also use that an account is created by
  one run only (`RunNames`).
* `StatusOkIsRight`: an OK compares roots and nothing else. `RootFixesTerms` shows
  that two lists with one root are of the same set of enrollments, since a
  fresh `D_i` is in one of them only, and so have one number and one total. That
  the directory has a listing at all, which status reads, is `SortingExists`, and
  what it then reads `QuietDirectory`.
* The totals. `TotalAllocation` adds along a list and `CommittedTermsAreOfOneList`
  over a set, each by a fold that is unfolded through a `CHOOSE`. `SumFacts` and
  `SumsAgree` show, by induction over the subsets of a finite set, that any two
  functions that add one element at a time agree whichever element they take
  first; `AmountIsSum` and `TotalIsSum` that the two folds are such functions.
* `Implementation`: `Spec => KeepsCommitment`, in two refinements. `Chain` is
  `AirdropProgram` with any call that can be decoded submitted to it; its
  assumptions on constants are proved of this instance (`ChainAssumptions`).
  `ChainInit` and `ChainNext` show that the system is a behaviour of `Chain`: what
  is executed was sent by a run that answers for it, by its owner, or by a rival, and everything
  else leaves the guest's variables alone. That `Chain` implements `Commitment` is
  the theorem of `AirdropProgram_proofs`.

`Eligibility_proofs` holds for every base of at least two, any number of limbs and
any prime that is not zero, any depth above zero, any set of ids, and any audited
indices within the tree (`ReductionAssumption`, `EligibilityAssumption`: nobody
finds an id that hashes to the default leaf). Hashes are injective terms, in the
proofs as in the runs.

* `Invariance`: `EligibilitySpec => []Inv`. Besides `ReductionIsExact` and the
  shapes, `Inv` says what a kept proof is (`AuditOK`: path and leaf of the full
  tree of its time) and what an enrolled id has left behind (`MemberOK`: the leaf
  of a number with its residue), since neither can be read off the state later.
* `FieldReduction_proofs`: `TopDifference` carries a subtraction down from the most
  significant limb, owing at each limb what the limbs below borrow;
  `SubtractionIsExact` is its end, when nothing is borrowed from beyond the last.
  `ComparisonIsExact` shows that `limbs_ge` compares the numbers: the limb that
  decides absorbs every borrow from below (`NoBorrowAbove`), so the difference is
  a number and not zero. With both, each iteration takes off one prime
  (`ReductionExact`), and the loop stops below it (`StopsBelow`).
* `SparseMerkle_proofs`: `NodesAreFull`, by induction over the height, that the
  default of a subtree without leaves is what the full tree has there.
  `ClimbMeetsTheTree` and `InclusionIsExact`: step by step up a path, a hash is
  the node's of the full tree exactly if it was so at the leaf. `RootDeterminesLeaves`:
  full trees with one root have the same leaves. `NodesMatch`, `PathsProve`,
  `FoundPathsHold`, `KeptProofsHold` and `InsertsMove` follow from these.
* `ResiduesToldApart`: equal leaves, equal numbers, equal residues, and back, since
  the value of a number determines its limbs.

How the recursive functions are reached. The library states induction for an
operator parameter, which no prover here can instantiate. `Recursion` states it of
sets instead: a set of numbers that has 0 and with every member of the interval its
successor has the interval (`IntervalInduction`, from the well-foundedness of `<`),
and the same of the subsets of a finite set (`FiniteInduction`). From these follows
that a recursion on `0 .. n`, or along the subsets of a finite set, defines a
function (`RecursionExists`, `SetRecursionExists`). Start and step of the recursion
are the constants of the module, so each recursive definition of the project is an
instance of it.

Model-checked only: liveness (`RunsEnd`, `ProgramsEnd`), which is out of the
proof system's reach, with `ENABLED`. Every safety property of a passing run is
stated by a theorem. In `Payout_proofs` the committed
total is a constant, of which it is only assumed that it is a u128.

## Findings

1. **A refused initialize looks executed** (`manifest_root`). The wait in
   `client.rs:94` is satisfied by anybody's data. A second run for an id that is
   taken ends well and leaves a manifest whose root is not on the chain; the
   assertion in `airdrop_status.rs:34` then fails. The same holds of the token
   and the distributor in the manifest, which status never compares: with the
   same enrollments it prints them and ends with OK.
2. **The client's freeze has three accounts** (`client_freeze`), the
   documentation and the guest have two. The run takes it that the
   dispatcher compares the number (`SpelError::AccountCountMismatch`).
3. **Funding ignores a freeze** (`frozen_funding`): `airdrop_fund` never reads
   the distribution. `instruction.rs:23` says "no further funding".
4. **One mint passes for another** (`minted_twice`). `airdrop_fund` waits for a
   supply. When a file was replaced between two runs, the earlier run's mint
   produces the supply that the later run expects; it prints "All {}
   allocations minted." and the new `D_i` holds nothing. An enrollment that is
   added before others, by its name, does the same: the two runs then mint in
   different orders.
5. **The second claim is not a double spend** (`double_claim`). `design.md:132-134`,
   `privacy-model.md:176-179`, `errors.md:28` and the program's own output
   (`airdrop_claim.rs:136,153`) say that the sequencer rejects it because the nullifier
   of `D_i` is spent, and that `airdrop_claim` asserts so. The second transfer is built
   after the wallet has synced, from the version of `D_i` that the first one left, with
   a balance of zero; the wallet refuses it as insufficient, which the assertion accepts
   (`airdrop_claim.rs:150`), and nothing reaches the chain. That stale spends are
   refused there is checked all the same, of claims that compete (`PaysEachOnce`). That
   the wallet compares amount and balance before it sends is external; if it did not,
   the transfer would still spend a version that nobody has spent.

Seen while modelling and not a run of its own: a freeze of a distribution that was
never initialized makes the guest panic (`handlers.rs:65`; `"PANIC"` in the model),
although `furps.md:47` says that it never does on invalid input; an allocation of zero leaves the
supply unchanged, so the wait ends at once and the next mint is built from the
old definition (`MintsWaitForEachOther` is about allocations above zero);
late enrollments are funded, whatever the root says; a stopped funding cannot be
resumed, because the next run begins with an account that exists; a total above
half of u128::MAX is committed but cannot be funded, because it is minted on
top of an equal supply.

About the artifact: `build.rs:30-32` says that the docker artifact is what the
host reads as `AIRDROP_BINARY`, and `client.rs:18-23` names the local one; so the
programs use the local build and the docker build has no effect on them. After
an edit, or a build that stopped before the strip step, the id that
`load_program` computes is not the deployed one: `airdrop_status` and
`airdrop_claim` look at another address and find nothing, and status does not
compare the id with the one in the manifest. When llvm-strip is not found, the
build fails but leaves an unstripped artifact, which a run may deploy. An
artifact that is torn within the kernel ELF is repacked without complaint; only
`Program::new` refuses it. A docker artifact that is torn within the user ELF
makes every build fail after the local tree was stripped, until it is rebuilt.

About torn files: one enrollment file whose writer died stops deploy, fund and
status for everybody, until that recipient enrolls again; a torn manifest stops
fund, claim and status until the next run of deploy ends well.

## What is abstracted

* The SPEL dispatcher, the wallet, the sequencer and the token program are not
  in the repository. They are modelled as the code uses them. If the dispatcher
  refuses an unsigned or initialized account earlier, with a code of its own,
  the same calls are accepted.
* A mint to a foreign private account creates the account, so it can be done
  once per `D_i`; a transaction is refused when it spends a version that is not
  the latest, as the comment at `airdrop_fund.rs:75` says.
* Hashes, roots and PDAs are injective terms. Borsh, hex and JSON are left out.
  `hash_pair` leaves out the two `is_valid` assertions of `merkle.rs:105-112`: leaves
  come out of `hash_single` and nodes out of `hash_pair`, so they cannot fail.
* A directory is listed in one step (`read_dir` with its `collect`, then the sort) and
  read file by file; a file is read at once, torn or whole. Files are never removed,
  as no program removes one. `StatusVerdict` is taken at a moment at which nobody
  writes, since it is a verdict and not a process.
* What `airdrop_deploy` computes between the last file and the distributor's account is
  one step, `Load`. The pauses for a block seal are left out, as they ensure nothing.
* The deployment of the authenticated transfer program is sent and never executed in the
  model: nothing in it looks whether that program is there.
* In `Deployment` and `GuestArtifact` a file is written in two steps and is torn
  in between; in `Payout`, which is about the ledger, in one: whoever reads a torn file
  there panics before anything is sent, which `FundStops` and a claim that is not started
  stand for. A crash of
  `airdrop_enroll` is a run that takes no further step.
* One program at a time works with a wallet file: it is loaded and stored as a
  whole, and two that overlap would store over each other, which no binary
  guards against. So runs of `airdrop_deploy` follow each other. Those of fund
  and claim may overlap, as they do when run from copies of the wallet, or by
  different people.
* `Deployment` keeps the clock still, and nonces are left out: each run signs
  with an account of its own.
* The binaries are run by `cargo run`, whose sums are checked for overflow.
* Indices of the tree stay below its capacity; the code ignores others.
* `Stop` also stands for every request that fails with an `expect`.

* Sizes and contents of ELF files are left out. A binary that is too large to be
  sent is one of the reasons for `HostStops`; the two lengths in the header are
  read as the cut within the user ELF.

Not modelled: IDL generation, examples and scripts, which have no state of their
own; the byte layout of the state beyond its fields.

## Plan

Done, in this order: `Commitment`, `AirdropProgram` and its proofs,
`AirdropClient`; `Deployment`; `SparseMerkle`; `EnrollmentFiles`, `Allocation`,
`Payout`; `FieldReduction`; `Eligibility`; `GuestArtifact` and its proofs; torn
files and wallets in `Deployment`; `Payout_proofs`; `Deployment_proofs`;
`Recursion`, `FieldReduction_proofs`, `SparseMerkle_proofs` and
`Eligibility_proofs`; the totals in `Deployment_proofs`; the order of all mints in
`Payout_proofs`; that `Deployment` implements `Commitment`; directories that are read
file by file, and freezes, in `Deployment`.

Next:

1. `Airdrop`: `Deployment` and `Payout` composed over one directory and one
   chain, with the manifest of a refused run handed to fund and claim.
2. The 136-byte layout of the state, with its round trip.
