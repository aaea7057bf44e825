---------------------------- MODULE Payout_proofs ----------------------------
(***************************************************************************)
(* The safety of Payout for any enrollments, and any number of runs of     *)
(* airdrop_fund and airdrop_claim.                                         *)
(***************************************************************************)
EXTENDS Payout, FiniteSetTheorems, SequenceTheorems, TLAPS

Files == {Enrollment(k) : k \in Enrollees}
Amount(k) == Invocations[k].amount

FundRec == [stage : FundStages, names : Seq(Names), list : Seq(Files), next : Nat,
            view : Notes \cup {None}, expected : 0 .. MaxAmount]

ClaimRec == [stage : ClaimStages, of : Files \cup {None},
             dView : Notes \cup {None}, mainView : Notes \cup {None}]

\* A run of airdrop_fund has files left to read while it reads, none of which can go
\* away; it knows the definition that it minted from last, and waits for what its mint
\* would add to it.
FundOK(f) ==
    /\ f.view # None => note[Definition] # None
    /\ f.stage \in {"off", "reading", "waiting"} => f.next = 1
    /\ f.stage = "off" => f.list = <<>>
    /\ f.stage = "reading" =>
         /\ Len(f.list) < Len(f.names)
         /\ \A j \in DOMAIN f.names : file[f.names[j]] # None
    /\ f.stage = "waiting" => f.list # <<>>
    /\ f.stage \in {"minting", "polling"} => f.next \in DOMAIN f.list /\ f.view # None
    /\ f.stage = "minting" => f.expected = f.view.amount
    /\ f.stage = "polling" => f.expected = f.view.amount + f.list[f.next].amount

FundInv == \A r \in Funds : FundOK(fund[r])

\* A run of airdrop_claim has an enrollment, has seen it funded when it sends, and
\* has seen D_i empty when it tries again.
ClaimOK(s) ==
    /\ s.stage # "double"
    /\ s.stage \notin {"off", "dead"} => s.of # None
    /\ s.stage = "funded" => s.dView # None /\ s.dView.amount = s.of.amount
    /\ s.stage = "claimed" => s.dView # None /\ s.dView.amount = 0
    /\ s.stage \in {"claimed", "done"} =>
         \E k \in Enrollees : s.of = Enrollment(k) /\ Status(k) = "claimed"

ClaimInv == \A c \in Claims : ClaimOK(claim[c])

\* What is in the pool: the definition while there is none; mints of an allocation
\* to its D_i, proved not to overflow; transfers of one from its D_i, seen holding
\* it, to its main account.
PoolInv ==
    \A tx \in pool :
        /\ tx.kind = "definition" => tx.amount = CommittedTotal /\ note[Definition] = None
        /\ tx.kind = "mint" =>
             \E k \in Enrollees : /\ tx.to = DAccount(k) /\ tx.amount = Amount(k)
                                  /\ tx.from.amount + tx.amount <= MaxAmount
        /\ tx.kind = "transfer" =>
             \E k \in Enrollees : /\ tx.from = DAccount(k) /\ tx.to = MainAccount(k)
                                  /\ tx.amount = Amount(k)
                                  /\ tx.fromNote.amount = tx.amount

LedgerInv == \A k \in Enrollees : Status(k) # "other"

\* The type invariant without what FundOK says of the runs.
TypeInv ==
    /\ enrolled \subseteq Enrollees
    /\ file \in [Names -> Files \cup {None}]
    /\ note \in [PrivateAccounts -> Notes \cup {None}]
    /\ active \in BOOLEAN
    /\ pool \subseteq Txs
    /\ fund \in [Funds -> FundRec]
    /\ claim \in [Claims -> ClaimRec]

IInv == TypeInv /\ LedgerInv /\ PoolInv /\ FundInv /\ ClaimInv

-----------------------------------------------------------------------------
(* Constants *)

LEMMA InvocationFacts ==
    /\ Len(Invocations) \in Nat /\ Enrollees = 1 .. Len(Invocations)
    /\ \A k \in Enrollees : Amount(k) \in Nat /\ Invocations[k].name \in Names
<1>1. Len(Invocations) \in Nat /\ Enrollees = 1 .. Len(Invocations)
  BY InvocationsAssumption, LenProperties DEF Enrollees
<1>2. \A k \in Enrollees : Invocations[k] \in [name : Nat, amount : Nat]
  BY <1>1, InvocationsAssumption, ElementOfSeq
<1> QED BY <1>1, <1>2 DEF Names, Amount

LEMMA NameFacts == \A k \in Enrollees : Invocations[k].name \in Nat /\ Enrollment(k).name \in Nat
<1>1. \A k \in Enrollees : Invocations[k] \in [name : Nat, amount : Nat]
  BY InvocationFacts, InvocationsAssumption, ElementOfSeq
<1> QED BY <1>1 DEF Enrollment

LEMMA AccountFacts ==
    /\ Definition \in PrivateAccounts
    /\ \A k \in Enrollees :
         /\ DAccount(k) \in PrivateAccounts /\ MainAccount(k) \in PrivateAccounts
         /\ DAccount(k) # Definition /\ MainAccount(k) # Definition
         /\ \A j \in Enrollees : /\ DAccount(j) # MainAccount(k)
                                 /\ j # k => DAccount(j) # DAccount(k)
                                 /\ j # k => MainAccount(j) # MainAccount(k)
BY DEF PrivateAccounts, Definition, DAccount, MainAccount

LEMMA EnrollmentFacts ==
    /\ \A k \in Enrollees : /\ Enrollment(k).amount = Amount(k)
                            /\ Enrollment(k).d_account = DAccount(k)
                            /\ Enrollment(k).main_account = MainAccount(k)
                            /\ Enrollment(k) \in Files /\ Enrollment(k) # None
    /\ \A e \in Files : \E k \in Enrollees : e = Enrollment(k)
<1>1. \A k \in Enrollees : Enrollment(k) # None
  BY NoneIsNothing
<1> QED BY <1>1 DEF Files, Enrollment, Amount

LEMMA NoneFacts == None \notin Nat /\ None \notin Notes /\ None \notin Files
BY NoneIsNothing DEF Files

LEMMA NamesAreFinite == IsFiniteSet(Names)
<1>1. IsFiniteSet(Enrollees)
  BY InvocationFacts, FS_Interval
<1> DEFINE f == [k \in Enrollees |-> Invocations[k].name]
<1>2. f \in Surjection(Enrollees, Names)
  BY InvocationFacts DEF Surjection, Names
<1> QED BY <1>1, <1>2, FS_Surjection

\* The directory is finite, so a listing of it is a sequence of names: those of the
\* files there are, in order.
LEMMA ListingFacts ==
    \A names \in Listings :
        /\ names \in Seq(Names)
        /\ \A j \in DOMAIN names : file[names[j]] # None
        /\ \A n \in Names : file[n] # None => \E j \in DOMAIN names : names[j] = n
        /\ \A i, j \in DOMAIN names : i < j => names[i] < names[j]
<1> DEFINE T == {n \in Names : file[n] # None}
           size == Cardinality(T)
<1> SUFFICES ASSUME NEW names \in Listings
             PROVE  /\ names \in Seq(Names)
                    /\ \A j \in DOMAIN names : names[j] \in T
                    /\ \A n \in T : \E j \in DOMAIN names : names[j] = n
                    /\ \A i, j \in DOMAIN names : i < j => names[i] < names[j]
  OBVIOUS
<1>1. IsFiniteSet(T) /\ T \subseteq Names
  BY NamesAreFinite, FS_Subset
<1>2. size \in Nat
  BY <1>1, FS_CardinalityType
<1>3. /\ names \in SetToSeqs(T)
      /\ \A i, j \in DOMAIN names : i < j => names[i] < names[j]
  BY DEF Listings
<1>4. names \in [1 .. size -> T] /\ \A i, j \in 1 .. size : i # j => names[i] # names[j]
  BY <1>3 DEF SetToSeqs
<1>5. \A n \in T : \E j \in DOMAIN names : names[j] = n
  <2>1. IsFiniteSet(1 .. size) /\ Cardinality(1 .. size) = size
    BY <1>2, FS_Interval
  <2>2. names \in Injection(1 .. size, T)
    BY <1>4 DEF Injection, IsInjective
  <2>3. names \in Surjection(1 .. size, T)
    BY <1>1, <2>1, <2>2, FS_Injection
  <2> QED BY <1>4, <2>3 DEF Surjection
<1> HIDE DEF size, T
<1>6. names \in [1 .. size -> Names]
  <2>1. names \in [1 .. size -> T] /\ T \subseteq Names
    BY <1>1, <1>4
  <2> QED BY <2>1
<1>7. names \in Seq(Names)
  BY <1>2, <1>6, SeqDef
<1> QED BY <1>3, <1>4, <1>5, <1>7 DEF T

LEMMA NextVersionFacts ==
    /\ \A seen \in Notes \cup {None}, amount \in 0 .. MaxAmount :
         /\ NextVersion(seen, amount) \in Notes
         /\ NextVersion(seen, amount).amount = amount
BY NoneFacts DEF NextVersion, Notes

LEMMA TxTypes ==
    ASSUME TypeInv, NEW tx \in pool
    PROVE  /\ tx.kind \in {"definition", "mint", "transfer"}
           /\ tx.kind = "mint" => /\ tx.from \in Notes /\ tx.by \in Funds
                                  /\ tx.amount \in 0 .. MaxAmount
           /\ tx.kind = "transfer" =>
                /\ tx.fromNote \in Notes /\ tx.toNote \in Notes \cup {None}
                /\ tx.amount \in 0 .. MaxAmount
BY DEF TypeInv, Txs

-----------------------------------------------------------------------------
(* The ledger: a step creates the definition, mints or pays one allocation, *)
(* or changes no account.                                                  *)

Creates ==
    \E d \in Notes : /\ d.amount = CommittedTotal
                     /\ note[Definition] = None
                     /\ note' = [note EXCEPT ![Definition] = d]

Mints(k) ==
    \E d, n \in Notes :
        /\ Status(k) = "open"
        /\ note[Definition] # None
        /\ d.amount = note[Definition].amount + Amount(k)
        /\ n.amount = Amount(k)
        /\ note' = [note EXCEPT ![Definition] = d, ![DAccount(k)] = n]

Pays(k) ==
    \E d, m \in Notes :
        /\ Status(k) \in {"funded", "claimed"}
        /\ d.amount = 0
        /\ m.amount = Amount(k)
        /\ note' = [note EXCEPT ![DAccount(k)] = d, ![MainAccount(k)] = m]

NoteStep == note' = note \/ Creates \/ \E k \in Enrollees : Mints(k) \/ Pays(k)

LEMMA DefinitionStep ==
    ASSUME IInv, NEW tx \in pool, ExecuteDefinition(tx)
    PROVE  NoteStep
<1>1. tx.amount = CommittedTotal /\ note[Definition] = None
  BY DEF IInv, PoolInv, ExecuteDefinition
<1>2. NextVersion(None, tx.amount) \in Notes /\ NextVersion(None, tx.amount).amount = tx.amount
  BY <1>1, NextVersionFacts, TotalAssumption
<1> QED BY <1>1, <1>2 DEF NoteStep, Creates, ExecuteDefinition

LEMMA MintStep ==
    ASSUME IInv, NEW tx \in pool, ExecuteMint(tx)
    PROVE  NoteStep
<1>1. /\ tx.from \in Notes /\ tx.amount \in 0 .. MaxAmount
  BY TxTypes DEF IInv, ExecuteMint
<1>2. PICK k \in Enrollees : /\ tx.to = DAccount(k) /\ tx.amount = Amount(k)
                             /\ tx.from.amount + tx.amount <= MaxAmount
  BY DEF IInv, PoolInv, ExecuteMint
<1> SUFFICES ASSUME note[Definition] = tx.from, note[DAccount(k)] = None
             PROVE  Mints(k)
  BY <1>2 DEF ExecuteMint, NoteStep
<1>3. Status(k) = "open"
  BY DEF IInv, LedgerInv, Status
<1> DEFINE d == NextVersion(tx.from, tx.from.amount + tx.amount)
           n == NextVersion(None, tx.amount)
<1>4. tx.from.amount + tx.amount \in 0 .. MaxAmount
  BY <1>1, <1>2, PayoutAssumption DEF Notes
<1>5. /\ d \in Notes /\ d.amount = tx.from.amount + tx.amount
      /\ n \in Notes /\ n.amount = tx.amount
  BY <1>1, <1>4, NextVersionFacts
<1>6. note' = [note EXCEPT ![Definition] = d, ![DAccount(k)] = n]
  BY <1>2 DEF ExecuteMint
<1>7. note[Definition] # None
  BY <1>1, NoneFacts
<1> HIDE DEF d, n
<1> QED BY <1>2, <1>3, <1>5, <1>6, <1>7 DEF Mints

LEMMA TransferStep ==
    ASSUME IInv, NEW tx \in pool, ExecuteTransfer(tx)
    PROVE  NoteStep
<1>1. /\ tx.fromNote \in Notes /\ tx.toNote \in Notes \cup {None}
      /\ tx.amount \in 0 .. MaxAmount
  BY TxTypes DEF IInv, ExecuteTransfer
<1>2. PICK k \in Enrollees : /\ tx.from = DAccount(k) /\ tx.to = MainAccount(k)
                             /\ tx.amount = Amount(k) /\ tx.fromNote.amount = tx.amount
  BY DEF IInv, PoolInv, ExecuteTransfer
<1> SUFFICES ASSUME note[DAccount(k)] = tx.fromNote, note[MainAccount(k)] = tx.toNote
             PROVE  Pays(k)
  BY <1>2 DEF ExecuteTransfer, NoteStep
<1>3. Status(k) \in {"funded", "claimed"}
  BY <1>1, NoneFacts DEF IInv, LedgerInv, Status
<1>4. tx.toNote # None => tx.toNote.amount = 0 /\ tx.amount = 0
  BY <1>1, <1>2, NoneFacts DEF IInv, LedgerInv, Status, Amount
<1> DEFINE paid == tx.amount + IF tx.toNote = None THEN 0 ELSE tx.toNote.amount
           d == NextVersion(tx.fromNote, tx.fromNote.amount - tx.amount)
           m == NextVersion(tx.toNote, paid)
<1>5. tx.fromNote.amount - tx.amount = 0 /\ paid = tx.amount /\ 0 \in 0 .. MaxAmount
  BY <1>1, <1>2, <1>4, PayoutAssumption
<1>6. d \in Notes /\ d.amount = 0 /\ m \in Notes /\ m.amount = tx.amount
  <2> HIDE DEF paid
  <2> QED BY <1>1, <1>5, NextVersionFacts
<1>7. note' = [note EXCEPT ![DAccount(k)] = d, ![MainAccount(k)] = m]
  BY <1>2 DEF ExecuteTransfer
<1> HIDE DEF d, m
<1> QED BY <1>2, <1>3, <1>6, <1>7 DEF Pays

-----------------------------------------------------------------------------
(* What such a step does to the allocations.                               *)

NoteType == note \in [PrivateAccounts -> Notes \cup {None}]

LEMMA SameNote ==
    ASSUME note' = note
    PROVE  \A k \in Enrollees : Status(k)' = Status(k)
BY DEF Status

LEMMA CreatesStatus ==
    ASSUME NoteType, Creates
    PROVE  /\ NoteType'
           /\ note'[Definition] # None /\ note'[Definition].amount = CommittedTotal
           /\ \A k \in Enrollees : Status(k)' = Status(k)
<1>1. PICK d \in Notes : d.amount = CommittedTotal /\ note' = [note EXCEPT ![Definition] = d]
  BY DEF Creates
<1>2. NoteType' /\ note'[Definition] = d
  BY <1>1, AccountFacts DEF NoteType
<1>3. \A k \in Enrollees : Status(k)' = Status(k)
  BY <1>1, AccountFacts DEF NoteType, Status
<1> QED BY <1>1, <1>2, <1>3, NoneFacts

LEMMA MintsStatus ==
    ASSUME NoteType, NEW k \in Enrollees, Mints(k)
    PROVE  /\ NoteType'
           /\ note'[Definition] # None
           /\ note'[Definition].amount = note[Definition].amount + Amount(k)
           /\ Status(k)' = "funded"
           /\ \A j \in Enrollees \ {k} : Status(j)' = Status(j)
<1>1. PICK d \in Notes, n \in Notes :
         /\ Status(k) = "open"
         /\ d.amount = note[Definition].amount + Amount(k)
         /\ n.amount = Amount(k)
         /\ note' = [note EXCEPT ![Definition] = d, ![DAccount(k)] = n]
  BY DEF Mints
<1>2. /\ NoteType' /\ note'[Definition] = d /\ note'[DAccount(k)] = n
      /\ \A a \in PrivateAccounts \ {Definition, DAccount(k)} : note'[a] = note[a]
  BY <1>1, AccountFacts DEF NoteType
<1>3. note[MainAccount(k)] = None
  BY <1>1 DEF Status
<1>4. Status(k)' = "funded"
  BY <1>1, <1>2, <1>3, AccountFacts, NoneFacts DEF Status, Amount
<1>5. \A j \in Enrollees \ {k} : Status(j)' = Status(j)
  BY <1>2, AccountFacts DEF Status
<1> QED BY <1>1, <1>2, <1>4, <1>5, NoneFacts

LEMMA PaysStatus ==
    ASSUME NoteType, NEW k \in Enrollees, Pays(k)
    PROVE  /\ NoteType'
           /\ note'[Definition] = note[Definition]
           /\ Status(k) \in {"funded", "claimed"}
           /\ Status(k)' = "claimed"
           /\ \A j \in Enrollees \ {k} : Status(j)' = Status(j)
<1>1. PICK d \in Notes, m \in Notes :
         /\ Status(k) \in {"funded", "claimed"}
         /\ d.amount = 0
         /\ m.amount = Amount(k)
         /\ note' = [note EXCEPT ![DAccount(k)] = d, ![MainAccount(k)] = m]
  BY DEF Pays
<1>2. /\ NoteType' /\ note'[DAccount(k)] = d /\ note'[MainAccount(k)] = m
      /\ \A a \in PrivateAccounts \ {MainAccount(k), DAccount(k)} : note'[a] = note[a]
  BY <1>1, AccountFacts DEF NoteType
<1>3. Status(k)' = "claimed"
  BY <1>1, <1>2, AccountFacts, NoneFacts DEF Status, Amount
<1>4. \A j \in Enrollees \ {k} : Status(j)' = Status(j)
  BY <1>2, AccountFacts DEF Status
<1> QED BY <1>1, <1>2, <1>3, <1>4, AccountFacts

\* No step of the ledger spoils an allocation, takes one back or loses the definition.
LEMMA NoteStepFacts ==
    ASSUME NoteType, LedgerInv, NoteStep
    PROVE  /\ NoteType' /\ LedgerInv'
           /\ note[Definition] # None => note'[Definition] # None
           /\ \A k \in Enrollees : Status(k) = "claimed" => Status(k)' = "claimed"
<1>1. CASE note' = note
  BY <1>1, SameNote DEF NoteType, LedgerInv
<1>2. CASE Creates
  BY <1>2, CreatesStatus DEF LedgerInv
<1>3. ASSUME NEW k \in Enrollees, Mints(k)
      PROVE  /\ NoteType' /\ LedgerInv'
             /\ note[Definition] # None => note'[Definition] # None
             /\ \A j \in Enrollees : Status(j) = "claimed" => Status(j)' = "claimed"
  <2>1. Status(k) = "open"
    BY <1>3 DEF Mints
  <2> QED BY <1>3, <2>1, MintsStatus DEF LedgerInv
<1>4. ASSUME NEW k \in Enrollees, Pays(k)
      PROVE  /\ NoteType' /\ LedgerInv'
             /\ note[Definition] # None => note'[Definition] # None
             /\ \A j \in Enrollees : Status(j) = "claimed" => Status(j)' = "claimed"
  BY <1>4, PaysStatus DEF LedgerInv
<1> QED BY <1>1, <1>2, <1>3, <1>4 DEF NoteStep

\* Such a step is a step of Allocation, or leaves it where it is.
LEMMA NoteStepRefines ==
    ASSUME NoteType, LedgerInv, NoteStep
    PROVE  [Promise!Next]_(Promise!vars)
<1> DEFINE status == [k \in Enrollees |-> Status(k)]
           supply == IF note[Definition] = None THEN None ELSE note[Definition].amount
<1>0. CommittedTotal # None /\ (note[Definition] # None => note[Definition].amount # None)
  BY NoneFacts, AccountFacts, TotalAssumption DEF NoteType, Notes
<1>1. CASE note' = note
  <2>1. status' = status /\ supply' = supply
    BY <1>1, SameNote
  <2> QED BY <2>1 DEF Promise!vars
<1>2. CASE Creates
  <2>1. supply = None
    BY <1>2 DEF Creates
  <2>2. supply' = CommittedTotal /\ status' = status
    BY <1>2, CreatesStatus
  <2>3. Promise!Create
    BY <2>1, <2>2 DEF Promise!Create
  <2> QED BY <2>3 DEF Promise!Next
<1>3. ASSUME NEW k \in Enrollees, Mints(k) PROVE Promise!Next
  <2>1. Status(k) = "open" /\ note[Definition] # None
    BY <1>3 DEF Mints
  <2>2. supply # None /\ supply = note[Definition].amount
    BY <1>0, <2>1
  <2>3. supply' = supply + Amount(k)
    BY <1>3, <2>2, MintsStatus
  <2>4. status' = [status EXCEPT ![k] = "funded"]
    BY <1>3, MintsStatus
  <2>5. Promise!Fund(k)
    BY <2>1, <2>2, <2>3, <2>4 DEF Promise!Fund, Amount
  <2> QED BY <2>5 DEF Promise!Next
<1>4. ASSUME NEW k \in Enrollees, Pays(k) PROVE [Promise!Next]_(Promise!vars)
  <2>1. supply' = supply
    BY <1>4, PaysStatus
  <2>2. status' = [status EXCEPT ![k] = "claimed"]
    BY <1>4, PaysStatus
  <2>3. CASE Status(k) = "claimed"
    <3>1. status' = status
      BY <2>2, <2>3
    <3> QED BY <2>1, <3>1 DEF Promise!vars
  <2>4. CASE Status(k) = "funded"
    <3>1. Promise!Claim(k)
      BY <2>1, <2>2, <2>4 DEF Promise!Claim
    <3> QED BY <3>1 DEF Promise!Next
  <2> QED BY <1>4, <2>3, <2>4, PaysStatus
<1> QED BY <1>1, <1>2, <1>3, <1>4 DEF NoteStep

-----------------------------------------------------------------------------
(* The invariant holds at first, and the ledger keeps it.                  *)

LEMMA InitIInv == Init => IInv
<1> SUFFICES ASSUME Init PROVE IInv
  OBVIOUS
<1>1. file \in [Names -> Files \cup {None}]
  <2> SUFFICES ASSUME NEW n \in Names PROVE file[n] \in Files \cup {None}
    BY DEF Init
  <2>1. ASSUME \E k \in CommittedEnrollees : Invocations[k].name = n
        PROVE  file[n] \in Files
    <3> DEFINE k == CHOOSE k \in CommittedEnrollees : Invocations[k].name = n
    <3>1. k \in Enrollees
      BY <2>1, PayoutAssumption
    <3>2. file[n] = Enrollment(k)
      BY <2>1 DEF Init
    <3> QED BY <3>1, <3>2, EnrollmentFacts
  <2> QED BY <2>1 DEF Init
<1>2. NewFund \in FundRec /\ NewClaim \in ClaimRec
  <2>1. <<>> \in Seq(Files)
    BY EmptySeq
  <2> QED
    BY <2>1, PayoutAssumption DEF NewFund, NewClaim, FundRec, ClaimRec, FundStages, ClaimStages
<1>3. TypeInv
  <2>1. DefinitionTx(CommittedTotal) \in Txs
    BY TotalAssumption DEF DefinitionTx, Txs
  <2> QED BY <1>1, <1>2, <2>1, PayoutAssumption DEF Init, TypeInv
<1>4. LedgerInv
  BY AccountFacts DEF Init, LedgerInv, Status
<1>5. PoolInv
  BY AccountFacts DEF Init, PoolInv, DefinitionTx
<1>6. FundInv
  BY DEF Init, FundInv, FundOK, NewFund
<1>7. ClaimInv
  BY DEF Init, ClaimInv, ClaimOK, NewClaim
<1> QED BY <1>3, <1>4, <1>5, <1>6, <1>7 DEF IInv

\* What the steps of the ledger have in common.
LEMMA LedgerKeeps ==
    ASSUME IInv, NEW tx \in pool, NoteStep,
           pool' = pool \ {tx}, UNCHANGED <<fileVars, active, fund, claim>>,
           \A other \in pool' : other.kind = "definition" => note'[Definition] = None
    PROVE  IInv'
<1>1. /\ NoteType' /\ LedgerInv'
      /\ note[Definition] # None => note'[Definition] # None
      /\ \A k \in Enrollees : Status(k) = "claimed" => Status(k)' = "claimed"
  BY NoteStepFacts DEF IInv, TypeInv, NoteType
<1>2. TypeInv'
  BY <1>1 DEF IInv, TypeInv, NoteType, fileVars
<1>3. PoolInv'
  BY DEF IInv, PoolInv
<1>4. FundInv'
  BY <1>1 DEF IInv, FundInv, FundOK, fileVars
<1>5. ClaimInv'
  BY <1>1 DEF IInv, ClaimInv, ClaimOK
<1> QED BY <1>1, <1>2, <1>3, <1>4, <1>5 DEF IInv

LEMMA ExecuteDefinitionKeeps ==
    ASSUME IInv, NEW tx \in pool, ExecuteDefinition(tx)
    PROVE  IInv'
<1>1. \A other \in pool : other.kind = "definition" => other = tx
  <2> SUFFICES ASSUME NEW other \in pool, other.kind = "definition"
               PROVE  other = tx
    OBVIOUS
  <2>1. tx.kind = "definition" /\ other.amount = tx.amount
    BY DEF ExecuteDefinition, IInv, PoolInv
  <2>2. /\ tx \in [kind : {"definition"}, amount : 0 .. MaxAmount]
        /\ other \in [kind : {"definition"}, amount : 0 .. MaxAmount]
    BY <2>1 DEF IInv, TypeInv, Txs
  <2> QED BY <2>1, <2>2
<1> QED BY <1>1, DefinitionStep, LedgerKeeps DEF ExecuteDefinition

LEMMA ExecuteMintKeeps ==
    ASSUME IInv, NEW tx \in pool, ExecuteMint(tx)
    PROVE  IInv'
<1>1. CASE note' = note
  BY <1>1, MintStep, LedgerKeeps DEF ExecuteMint, IInv, PoolInv
<1>2. CASE note' # note
  <2>1. note[Definition] = tx.from /\ tx.from # None
    BY <1>2, TxTypes, NoneFacts DEF ExecuteMint, IInv
  <2>2. \A other \in pool : other.kind # "definition"
    BY <2>1 DEF IInv, PoolInv
  <2> QED BY <2>2, MintStep, LedgerKeeps DEF ExecuteMint
<1> QED BY <1>1, <1>2

LEMMA ExecuteTransferKeeps ==
    ASSUME IInv, NEW tx \in pool, ExecuteTransfer(tx)
    PROVE  IInv'
<1>1. note'[Definition] = note[Definition]
  <2>1. tx.from # Definition /\ tx.to # Definition
    BY AccountFacts DEF ExecuteTransfer, IInv, PoolInv
  <2> QED BY <2>1, AccountFacts DEF ExecuteTransfer, IInv, TypeInv
<1> QED BY <1>1, TransferStep, LedgerKeeps DEF ExecuteTransfer, IInv, PoolInv

-----------------------------------------------------------------------------
(* The directory and the distribution *)

LEMMA EnrollKeeps ==
    ASSUME IInv, NEW k \in Enrollees, Enroll(k)
    PROVE  IInv'
<1>1. file' \in [Names -> Files \cup {None}]
  BY InvocationFacts, EnrollmentFacts DEF Enroll, IInv, TypeInv
<1>2. TypeInv'
  BY <1>1 DEF Enroll, IInv, TypeInv
<1>3. LedgerInv' /\ PoolInv'
  BY DEF Enroll, IInv, LedgerInv, Status, PoolInv
<1>4. ClaimInv'
  BY SameNote DEF Enroll, IInv, ClaimInv, ClaimOK
<1>5. \A n \in Names : file[n] # None => file'[n] # None
  BY EnrollmentFacts DEF Enroll, IInv, TypeInv
<1>6. FundInv'
  <2> SUFFICES ASSUME NEW r \in Funds PROVE FundOK(fund[r])'
    BY DEF FundInv
  <2>1. FundOK(fund[r]) /\ fund[r].names \in Seq(Names)
    BY DEF IInv, TypeInv, FundInv, FundRec
  <2>2. \A j \in DOMAIN fund[r].names : fund[r].names[j] \in Names
    BY <2>1, LenProperties, ElementOfSeq
  <2> QED BY <1>5, <2>1, <2>2 DEF Enroll, FundOK
<1> QED BY <1>2, <1>3, <1>4, <1>6 DEF IInv

LEMMA FreezeKeeps == ASSUME IInv, Freeze PROVE IInv'
<1>1. TypeInv'
  BY DEF Freeze, IInv, TypeInv, fileVars
<1>2. LedgerInv' /\ PoolInv' /\ FundInv'
  BY DEF Freeze, IInv, LedgerInv, Status, PoolInv, FundInv, FundOK, fileVars
<1>3. ClaimInv'
  BY SameNote DEF Freeze, IInv, ClaimInv, ClaimOK
<1> QED BY <1>1, <1>2, <1>3 DEF IInv

-----------------------------------------------------------------------------
(* airdrop_fund *)

LEMMA FundTypes ==
    ASSUME IInv, NEW r \in Funds
    PROVE  /\ fund \in [Funds -> FundRec] /\ FundOK(fund[r])
           /\ fund[r].stage \in FundStages
           /\ fund[r].names \in Seq(Names) /\ fund[r].list \in Seq(Files)
           /\ fund[r].next \in Nat /\ fund[r].view \in Notes \cup {None}
           /\ fund[r].expected \in 0 .. MaxAmount
BY DEF IInv, TypeInv, FundInv, FundRec

\* A run with new values for its fields is a run.
LEMMA FundUpdate ==
    ASSUME fund \in [Funds -> FundRec], NEW r \in Funds, NEW stage \in FundStages
    PROVE  /\ \A names \in Seq(Names) :
                [fund EXCEPT ![r].stage = stage, ![r].names = names] \in [Funds -> FundRec]
           /\ \A list \in Seq(Files) :
                [fund EXCEPT ![r].stage = stage, ![r].list = list] \in [Funds -> FundRec]
           /\ \A expected \in 0 .. MaxAmount :
                [fund EXCEPT ![r].stage = stage, ![r].expected = expected]
                   \in [Funds -> FundRec]
           /\ \A view \in Notes \cup {None}, expected \in 0 .. MaxAmount :
                [fund EXCEPT ![r].stage = stage, ![r].view = view, ![r].expected = expected]
                   \in [Funds -> FundRec]
           /\ \A next \in Nat, view \in Notes \cup {None} :
                [fund EXCEPT ![r].stage = stage, ![r].next = next, ![r].view = view]
                   \in [Funds -> FundRec]
<1> DEFINE f == [fund EXCEPT ![r].stage = stage]
<1>1. f \in [Funds -> FundRec]
  BY DEF FundRec
<1>6. \A g \in [Funds -> FundRec], names \in Seq(Names) :
         [g EXCEPT ![r].names = names] \in [Funds -> FundRec]
  BY DEF FundRec
<1>7. \A g \in [Funds -> FundRec], list \in Seq(Files) :
         [g EXCEPT ![r].list = list] \in [Funds -> FundRec]
  BY DEF FundRec
<1>2. \A g \in [Funds -> FundRec] :
         /\ \A next \in Nat : [g EXCEPT ![r].next = next] \in [Funds -> FundRec]
         /\ \A view \in Notes \cup {None} : [g EXCEPT ![r].view = view] \in [Funds -> FundRec]
         /\ \A expected \in 0 .. MaxAmount :
              [g EXCEPT ![r].expected = expected] \in [Funds -> FundRec]
  BY DEF FundRec
<1>3. /\ \A names \in Seq(Names) : [f EXCEPT ![r].names = names] \in [Funds -> FundRec]
      /\ \A list \in Seq(Files) : [f EXCEPT ![r].list = list] \in [Funds -> FundRec]
      /\ \A expected \in 0 .. MaxAmount :
           [f EXCEPT ![r].expected = expected] \in [Funds -> FundRec]
  <2> HIDE DEF f
  <2> QED BY <1>1, <1>2, <1>6, <1>7
<1>4. \A view \in Notes \cup {None}, expected \in 0 .. MaxAmount :
         [[f EXCEPT ![r].view = view] EXCEPT ![r].expected = expected] \in [Funds -> FundRec]
  <2> HIDE DEF f
  <2> QED BY <1>1, <1>2
<1>5. \A next \in Nat, view \in Notes \cup {None} :
         [[f EXCEPT ![r].next = next] EXCEPT ![r].view = view] \in [Funds -> FundRec]
  <2> HIDE DEF f
  <2> QED BY <1>1, <1>2
<1> QED BY <1>3, <1>4, <1>5

\* A step of run r that leaves the pool alone.
LEMMA FundChange ==
    ASSUME IInv, NEW r \in Funds,
           UNCHANGED <<fileVars, note, active, claim>>,
           pool' \subseteq Txs, PoolInv',
           fund' \in [Funds -> FundRec],
           \A q \in Funds \ {r} : fund'[q] = fund[q],
           FundOK(fund'[r])
    PROVE  IInv'
<1>1. TypeInv'
  BY DEF IInv, TypeInv, fileVars
<1>2. LedgerInv'
  BY DEF IInv, LedgerInv, Status
<1>3. FundInv'
  <2> SUFFICES ASSUME NEW q \in Funds PROVE FundOK(fund'[q])
    BY DEF FundInv, FundOK, fileVars
  <2>1. CASE q = r
    BY <2>1
  <2>2. CASE q # r
    BY <2>2 DEF IInv, FundInv
  <2> QED BY <2>1, <2>2
<1>4. ClaimInv'
  BY SameNote DEF IInv, ClaimInv, ClaimOK
<1> QED BY <1>1, <1>2, <1>3, <1>4 DEF IInv

LEMMA SamePool ==
    ASSUME IInv, UNCHANGED <<note, pool>>
    PROVE  pool' \subseteq Txs /\ PoolInv'
BY DEF IInv, TypeInv, PoolInv

LEMMA EndFundKeeps ==
    ASSUME IInv, NEW r \in Funds, EndFund(r), fund[r].stage # "off",
           UNCHANGED <<fileVars, note, active, pool, claim>>
    PROVE  IInv'
<1>1. fund' \in [Funds -> FundRec]
  BY FundTypes DEF EndFund, FundRec, FundStages, Ended
<1>2. /\ \A q \in Funds \ {r} : fund'[q] = fund[q]
      /\ fund'[r].stage = "dead" /\ fund'[r].view = fund[r].view
  BY FundTypes DEF EndFund, FundRec
<1>3. FundOK(fund'[r])
  BY <1>2, FundTypes DEF FundOK
<1> QED BY <1>1, <1>2, <1>3, SamePool, FundChange

LEMMA FundListKeeps ==
    ASSUME IInv, NEW r \in Funds, FundList(r)
    PROVE  IInv'
<1>1. PICK names \in Listings :
         fund' = [fund EXCEPT ![r].stage = IF names = <<>> THEN "dead" ELSE "reading",
                              ![r].names = names]
  BY DEF FundList
<1>2. names \in Seq(Names) /\ \A j \in DOMAIN names : file[names[j]] # None
  BY ListingFacts
<1>3. fund' \in [Funds -> FundRec]
  <2> DEFINE stage == IF names = <<>> THEN "dead" ELSE "reading"
  <2>1. stage \in FundStages
    BY DEF FundStages, Ended
  <2>2. fund' = [fund EXCEPT ![r].stage = stage, ![r].names = names]
    BY <1>1
  <2> HIDE DEF stage
  <2> QED BY <1>2, <2>1, <2>2, FundTypes, FundUpdate
<1>4. /\ \A q \in Funds \ {r} : fund'[q] = fund[q]
      /\ fund'[r].stage = IF names = <<>> THEN "dead" ELSE "reading"
      /\ fund'[r].names = names
      /\ fund'[r].list = fund[r].list /\ fund'[r].next = fund[r].next
      /\ fund'[r].view = fund[r].view
  BY <1>1, FundTypes DEF FundRec
<1>5. fund[r].list = <<>> /\ fund[r].next = 1 /\ (fund[r].view # None => note[Definition] # None)
  BY FundTypes DEF FundList, FundOK
<1>6. names # <<>> => Len(<<>>) < Len(names)
  BY <1>2, EmptySeq, LenProperties
<1>7. FundOK(fund'[r])
  BY <1>2, <1>4, <1>5, <1>6 DEF FundOK
<1> QED BY <1>3, <1>4, <1>7, SamePool, FundChange DEF FundList

\* A file more is read.
LEMMA FundReadFacts ==
    ASSUME IInv, NEW r \in Funds, FundRead(r)
    PROVE  LET at == Len(fund[r].list) + 1
               e == file[fund[r].names[at]]
           IN
           /\ at \in DOMAIN fund[r].names /\ at \in Nat /\ at <= Len(fund[r].names)
           /\ fund[r].names[at] \in Names /\ e \in Files
           /\ fund' \in [Funds -> FundRec]
           /\ \A q \in Funds \ {r} : fund'[q] = fund[q]
           /\ fund'[r].stage = IF at = Len(fund[r].names) THEN "waiting" ELSE "reading"
           /\ fund'[r].list = Append(fund[r].list, e)
           /\ Len(fund'[r].list) = at
           /\ fund'[r].list[at] = e
           /\ \A j \in 1 .. Len(fund[r].list) : fund'[r].list[j] = fund[r].list[j]
           /\ fund'[r].names = fund[r].names /\ fund'[r].next = fund[r].next
           /\ fund'[r].view = fund[r].view
<1> DEFINE f == fund[r]
           at == Len(f.list) + 1
           e == file[f.names[at]]
           stage == IF at = Len(f.names) THEN "waiting" ELSE "reading"
           list == Append(f.list, e)
<1>1. /\ f.stage = "reading" /\ Len(f.list) < Len(f.names)
      /\ \A j \in DOMAIN f.names : file[f.names[j]] # None
  BY FundTypes DEF FundRead, FundOK
<1>2. f.names \in Seq(Names) /\ f.list \in Seq(Files)
  BY FundTypes
<1>3. /\ Len(f.list) \in Nat /\ Len(f.names) \in Nat
      /\ DOMAIN f.names = 1 .. Len(f.names)
  BY <1>2, LenProperties
<1>4. at \in DOMAIN f.names /\ at \in Nat /\ at <= Len(f.names)
  BY <1>1, <1>3
<1>5. f.names[at] \in Names
  BY <1>2, <1>3, <1>4, ElementOfSeq
<1>6. e \in Files
  BY <1>1, <1>4, <1>5 DEF IInv, TypeInv
<1>7. /\ list \in Seq(Files) /\ Len(list) = at /\ list[at] = e
      /\ \A j \in 1 .. Len(f.list) : list[j] = f.list[j]
  BY <1>2, <1>6, AppendProperties
<1>8. stage \in FundStages
  BY DEF FundStages
<1>9. fund' = [fund EXCEPT ![r].stage = stage, ![r].list = list]
  BY DEF FundRead
<1> HIDE DEF stage, list
<1>10. fund' \in [Funds -> FundRec]
  BY <1>7, <1>8, <1>9, FundTypes, FundUpdate
<1>11. /\ \A q \in Funds \ {r} : fund'[q] = fund[q]
       /\ fund'[r].stage = stage /\ fund'[r].list = list
       /\ fund'[r].names = f.names /\ fund'[r].next = f.next /\ fund'[r].view = f.view
  BY <1>9, FundTypes DEF FundRec
<1> HIDE DEF e
<1> QED BY <1>4, <1>5, <1>6, <1>7, <1>10, <1>11 DEF stage, list, e

LEMMA FundReadKeeps ==
    ASSUME IInv, NEW r \in Funds, FundRead(r)
    PROVE  IInv'
<1> DEFINE f == fund[r]
           g == fund'[r]
           at == Len(f.list) + 1
<1>1. /\ f.next = 1 /\ (f.view # None => note[Definition] # None)
      /\ \A j \in DOMAIN f.names : file[f.names[j]] # None
  BY FundTypes DEF FundRead, FundOK
<1>2. /\ at \in Nat /\ at <= Len(f.names)
      /\ g.stage = IF at = Len(f.names) THEN "waiting" ELSE "reading"
      /\ Len(g.list) = at
      /\ g.names = f.names /\ g.next = f.next /\ g.view = f.view
  BY FundReadFacts
<1>3. g.list # <<>>
  BY <1>2, FundTypes, LenProperties, EmptySeq
<1>4. Len(f.names) \in Nat
  BY FundTypes, LenProperties
<1>5. FundOK(g)
  BY <1>1, <1>2, <1>3, <1>4 DEF FundOK
<1> QED BY <1>5, FundReadFacts, SamePool, FundChange DEF FundRead

LEMMA FundSyncKeeps ==
    ASSUME IInv, NEW r \in Funds, FundSync(r)
    PROVE  IInv'
<1>1. note[Definition] \in Notes /\ note[Definition].amount \in 0 .. MaxAmount
  BY AccountFacts DEF FundSync, IInv, TypeInv, Notes
<1>2. fund' \in [Funds -> FundRec]
  <2>1. "minting" \in FundStages
    BY DEF FundStages
  <2> DEFINE view == note[Definition]
             expected == note[Definition].amount
  <2>2. fund' = [fund EXCEPT ![r].stage = "minting", ![r].view = view, ![r].expected = expected]
    BY DEF FundSync
  <2>3. view \in Notes \cup {None} /\ expected \in 0 .. MaxAmount
    BY <1>1
  <2> HIDE DEF view, expected
  <2>4. [fund EXCEPT ![r].stage = "minting", ![r].view = view, ![r].expected = expected]
           \in [Funds -> FundRec]
    BY <2>1, <2>3, FundTypes, FundUpdate, Zenon
  <2> QED BY <2>2, <2>4, Zenon
<1>3. /\ \A q \in Funds \ {r} : fund'[q] = fund[q]
      /\ fund'[r].stage = "minting" /\ fund'[r].view = note[Definition]
      /\ fund'[r].expected = note[Definition].amount
      /\ fund'[r].list = fund[r].list /\ fund'[r].next = fund[r].next
  BY FundTypes DEF FundSync, FundRec
<1>4. fund[r].next = 1 /\ 1 \in DOMAIN fund[r].list
  <2>1. fund[r].list # <<>> /\ fund[r].next = 1
    BY FundTypes DEF FundSync, FundOK
  <2> QED BY <2>1, FundTypes, EmptySeq, LenProperties
<1>5. FundOK(fund'[r])
  BY <1>3, <1>4 DEF FundOK, FundSync
<1> QED BY <1>2, <1>3, <1>5, SamePool, FundChange DEF FundSync

\* A mint that is sent: of which version, to whom, how much, and what is expected.
LEMMA SendMintFacts ==
    ASSUME IInv, NEW r \in Funds, SendMint(r), Mintable(fund[r], fund[r].list[fund[r].next].amount)
    PROVE  \E k \in Enrollees :
             LET tx == MintTx(r, fund[r].view, DAccount(k), Amount(k)) IN
             /\ fund[r].list[fund[r].next] = Enrollment(k)
             /\ fund[r].view \in Notes /\ fund[r].expected = fund[r].view.amount
             /\ Amount(k) \in Nat /\ fund[r].view.amount \in Nat
             /\ fund[r].view.amount + Amount(k) <= MaxAmount
             /\ pool' = pool \cup {tx}
             /\ fund' = [fund EXCEPT ![r].stage = "polling",
                                     ![r].expected = fund[r].view.amount + Amount(k)]
<1> DEFINE f == fund[r]
           e == f.list[f.next]
<1>1. /\ f.stage = "minting" /\ f.next \in DOMAIN f.list /\ f.view # None
      /\ f.expected = f.view.amount
  BY FundTypes DEF SendMint, FundOK
<1>2. PICK k \in Enrollees : e = Enrollment(k)
  <2>1. e \in Files
    BY <1>1, FundTypes, LenProperties, ElementOfSeq
  <2> QED BY <2>1, EnrollmentFacts
<1>3. f.view \in Notes /\ f.view.amount \in Nat /\ Amount(k) \in Nat
  BY <1>1, FundTypes, InvocationFacts, PayoutAssumption DEF Notes
<1>4. e.amount = Amount(k) /\ e.d_account = DAccount(k)
  BY <1>2, EnrollmentFacts
<1>5. f.view.amount + Amount(k) <= MaxAmount
  BY <1>4 DEF Mintable
<1>6. pool' = pool \cup {MintTx(r, f.view, DAccount(k), Amount(k))}
  BY <1>4 DEF SendMint, AllocationAccount
<1>7. fund' = [fund EXCEPT ![r].stage = "polling", ![r].expected = f.view.amount + Amount(k)]
  <2>1. ~(f.expected + e.amount > MaxAmount)
    BY <1>1, <1>3, <1>4, <1>5, PayoutAssumption
  <2> QED BY <1>1, <1>4, <2>1 DEF SendMint
<1> QED BY <1>1, <1>2, <1>3, <1>5, <1>6, <1>7

LEMMA SendMintKeeps ==
    ASSUME IInv, NEW r \in Funds, SendMint(r)
    PROVE  IInv'
<1> DEFINE f == fund[r]
<1>1. CASE Mintable(f, f.list[f.next].amount)
  <2>1. PICK k \in Enrollees :
           LET tx == MintTx(r, f.view, DAccount(k), Amount(k)) IN
             /\ f.list[f.next] = Enrollment(k)
             /\ f.view \in Notes /\ f.expected = f.view.amount
             /\ Amount(k) \in Nat /\ f.view.amount \in Nat
             /\ f.view.amount + Amount(k) <= MaxAmount
             /\ pool' = pool \cup {tx}
             /\ fund' = [fund EXCEPT ![r].stage = "polling",
                                     ![r].expected = f.view.amount + Amount(k)]
    BY <1>1, SendMintFacts
  <2> DEFINE tx == MintTx(r, f.view, DAccount(k), Amount(k))
  <2>2. Amount(k) \in 0 .. MaxAmount /\ f.view.amount + Amount(k) \in 0 .. MaxAmount
    BY <2>1, PayoutAssumption
  <2>3. tx \in Txs
    BY <2>1, <2>2, AccountFacts DEF MintTx, Txs
  <2>4. tx.kind = "mint" /\ tx.to = DAccount(k) /\ tx.amount = Amount(k) /\ tx.from = f.view
    BY DEF MintTx
  <2>5. pool' = pool \cup {tx} /\ note' = note
    BY <2>1 DEF SendMint
  <2> HIDE DEF tx
  <2>6. pool' \subseteq Txs
    BY <2>3, <2>5 DEF IInv, TypeInv
  <2>7. PoolInv'
    BY <2>1, <2>4, <2>5 DEF IInv, PoolInv
  <2>8. fund' \in [Funds -> FundRec]
    <3>1. "polling" \in FundStages
      BY DEF FundStages
    <3> QED BY <2>1, <2>2, <3>1, FundTypes, FundUpdate
  <2>9. /\ \A q \in Funds \ {r} : fund'[q] = fund[q]
        /\ fund'[r].stage = "polling" /\ fund'[r].view = f.view
        /\ fund'[r].expected = f.view.amount + Amount(k)
        /\ fund'[r].list = f.list /\ fund'[r].next = f.next
    BY <2>1, FundTypes DEF FundRec
  <2>10. FundOK(fund'[r])
    BY <2>1, <2>9, FundTypes, EnrollmentFacts DEF FundOK, SendMint
  <2> QED BY <2>6, <2>7, <2>8, <2>9, <2>10, FundChange DEF SendMint
<1>2. CASE ~Mintable(f, f.list[f.next].amount)
  BY <1>2, EndFundKeeps DEF SendMint
<1> QED BY <1>1, <1>2

\* What a run sees of its mint: the supply it expected.
LEMMA SeeMintFacts ==
    ASSUME IInv, NEW r \in Funds, SeeMint(r)
    PROVE  /\ note[Definition] \in Notes /\ note[Definition].amount = fund[r].expected
           /\ fund' \in [Funds -> FundRec]
           /\ \A q \in Funds \ {r} : fund'[q] = fund[q]
           /\ fund'[r].stage = IF fund[r].next = Len(fund[r].list) THEN "done" ELSE "minting"
           /\ fund'[r].next = fund[r].next + 1
           /\ fund'[r].view = note[Definition]
           /\ fund'[r].expected = fund[r].expected /\ fund'[r].list = fund[r].list
<1>1. note[Definition] \in Notes /\ note[Definition].amount = fund[r].expected
  BY FundTypes, AccountFacts DEF SeeMint, SupplySeen, FundOK, IInv, TypeInv
<1> DEFINE g == IF fund[r].next = Len(fund[r].list) THEN "done" ELSE "minting"
<1>2. fund' = [fund EXCEPT ![r].stage = g, ![r].next = fund[r].next + 1,
                           ![r].view = note[Definition]]
  BY FundTypes DEF SeeMint
<1>3. g \in FundStages
  BY DEF FundStages, Ended
<1> HIDE DEF g
<1>4. fund' \in [Funds -> FundRec]
  <2> DEFINE next == fund[r].next + 1
             view == note[Definition]
  <2>1. next \in Nat /\ view \in Notes \cup {None}
    BY <1>1, FundTypes
  <2>2. fund' = [fund EXCEPT ![r].stage = g, ![r].next = next, ![r].view = view]
    BY <1>2
  <2> HIDE DEF next, view
  <2>3. [fund EXCEPT ![r].stage = g, ![r].next = next, ![r].view = view] \in [Funds -> FundRec]
    BY <1>3, <2>1, FundTypes, FundUpdate, Zenon
  <2> QED BY <2>2, <2>3, Zenon
<1>5. /\ \A q \in Funds \ {r} : fund'[q] = fund[q]
      /\ fund'[r].stage = g /\ fund'[r].next = fund[r].next + 1
      /\ fund'[r].view = note[Definition]
      /\ fund'[r].expected = fund[r].expected /\ fund'[r].list = fund[r].list
  BY <1>2, FundTypes DEF FundRec
<1> QED BY <1>1, <1>4, <1>5 DEF g

LEMMA SeeMintKeeps ==
    ASSUME IInv, NEW r \in Funds, SeeMint(r)
    PROVE  IInv'
<1>1. fund'[r].stage = "minting" => fund'[r].next \in DOMAIN fund'[r].list
  <2>1. fund[r].next \in 1 .. Len(fund[r].list) /\ DOMAIN fund[r].list = 1 .. Len(fund[r].list)
        /\ Len(fund[r].list) \in Nat
    BY FundTypes, LenProperties DEF SeeMint, FundOK
  <2> QED BY <2>1, SeeMintFacts
<1>2. FundOK(fund'[r])
  BY <1>1, SeeMintFacts, NoneFacts DEF FundOK
<1> QED BY <1>2, SeeMintFacts, SamePool, FundChange DEF SeeMint

LEMMA FundKeeps ==
    ASSUME IInv, NEW r \in Funds, FundList(r) \/ FundStep(r) \/ FundStops(r)
    PROVE  IInv'
<1>1. CASE FundList(r)  BY <1>1, FundListKeeps
<1>2. CASE FundSync(r)  BY <1>2, FundSyncKeeps
<1>3. CASE FundGivesUp(r)  BY <1>3, EndFundKeeps DEF FundGivesUp
<1>4. CASE SendMint(r)  BY <1>4, SendMintKeeps
<1>5. CASE SeeMint(r)  BY <1>5, SeeMintKeeps
<1>6. CASE MintTimesOut(r)  BY <1>6, EndFundKeeps DEF MintTimesOut
<1>7. CASE FundStops(r)  BY <1>7, EndFundKeeps DEF FundStops
<1>8. CASE FundRead(r)  BY <1>8, FundReadKeeps
<1> QED BY <1>1, <1>2, <1>3, <1>4, <1>5, <1>6, <1>7, <1>8 DEF FundStep

-----------------------------------------------------------------------------
(* airdrop_claim *)

LEMMA ClaimTypes ==
    ASSUME IInv, NEW c \in Claims
    PROVE  /\ claim \in [Claims -> ClaimRec] /\ ClaimOK(claim[c])
           /\ claim[c].stage \in ClaimStages /\ claim[c].of \in Files \cup {None}
           /\ claim[c].dView \in Notes \cup {None} /\ claim[c].mainView \in Notes \cup {None}
BY DEF IInv, TypeInv, ClaimInv, ClaimRec

\* The enrollment that a run is about.
LEMMA ClaimOf ==
    ASSUME IInv, NEW c \in Claims, claim[c].stage \notin {"off", "dead"}
    PROVE  \E k \in Enrollees :
             /\ claim[c].of = Enrollment(k) /\ claim[c].of.amount = Amount(k)
             /\ claim[c].of.d_account = DAccount(k)
             /\ claim[c].of.main_account = MainAccount(k)
<1>1. claim[c].of \in Files
  BY ClaimTypes DEF ClaimOK
<1> QED BY <1>1, EnrollmentFacts

LEMMA ClaimChange ==
    ASSUME IInv, NEW c \in Claims,
           UNCHANGED <<fileVars, note, active, fund>>,
           pool' \subseteq Txs, PoolInv',
           claim' \in [Claims -> ClaimRec],
           \A q \in Claims \ {c} : claim'[q] = claim[q],
           ClaimOK(claim'[c])
    PROVE  IInv'
<1>1. TypeInv'
  BY DEF IInv, TypeInv, fileVars
<1>2. LedgerInv' /\ FundInv'
  BY DEF IInv, LedgerInv, Status, FundInv, FundOK, fileVars
<1>3. ClaimInv'
  <2> SUFFICES ASSUME NEW q \in Claims PROVE ClaimOK(claim'[q])
    BY SameNote DEF ClaimInv, ClaimOK
  <2>1. CASE q = c
    BY <2>1
  <2>2. CASE q # c
    BY <2>2 DEF IInv, ClaimInv
  <2> QED BY <2>1, <2>2
<1> QED BY <1>1, <1>2, <1>3 DEF IInv

\* A run with new values for its fields is a run.
LEMMA ClaimUpdate ==
    ASSUME claim \in [Claims -> ClaimRec], NEW c \in Claims, NEW stage \in ClaimStages
    PROVE  /\ [claim EXCEPT ![c].stage = stage] \in [Claims -> ClaimRec]
           /\ \A of \in Files \cup {None} :
                [claim EXCEPT ![c].stage = stage, ![c].of = of] \in [Claims -> ClaimRec]
           /\ \A dView, mainView \in Notes \cup {None} :
                [claim EXCEPT ![c].stage = stage, ![c].dView = dView, ![c].mainView = mainView]
                   \in [Claims -> ClaimRec]
<1> DEFINE s == [claim EXCEPT ![c].stage = stage]
<1>1. s \in [Claims -> ClaimRec]
  BY DEF ClaimRec
<1>2. \A g \in [Claims -> ClaimRec] :
         /\ \A of \in Files \cup {None} : [g EXCEPT ![c].of = of] \in [Claims -> ClaimRec]
         /\ \A view \in Notes \cup {None} :
              /\ [g EXCEPT ![c].dView = view] \in [Claims -> ClaimRec]
              /\ [g EXCEPT ![c].mainView = view] \in [Claims -> ClaimRec]
  BY DEF ClaimRec
<1>3. \A of \in Files \cup {None} : [s EXCEPT ![c].of = of] \in [Claims -> ClaimRec]
  <2> HIDE DEF s
  <2> QED BY <1>1, <1>2
<1>4. \A dView, mainView \in Notes \cup {None} :
         [[s EXCEPT ![c].dView = dView] EXCEPT ![c].mainView = mainView] \in [Claims -> ClaimRec]
  <2> HIDE DEF s
  <2> QED BY <1>1, <1>2
<1> QED BY <1>1, <1>3, <1>4

\* A run goes on with fresh views of the accounts of k.
SeesPair(c, stage, k) ==
    claim' = [claim EXCEPT ![c].stage = stage,
                           ![c].dView = note[DAccount(k)],
                           ![c].mainView = note[MainAccount(k)]]

LEMMA SeePairUpdate ==
    ASSUME IInv, NEW c \in Claims, NEW stage \in ClaimStages, NEW k \in Enrollees,
           SeesPair(c, stage, k)
    PROVE  /\ claim' \in [Claims -> ClaimRec]
           /\ \A q \in Claims \ {c} : claim'[q] = claim[q]
           /\ claim'[c].stage = stage /\ claim'[c].of = claim[c].of
           /\ claim'[c].dView = note[DAccount(k)]
<1> DEFINE dView == note[DAccount(k)]
           mainView == note[MainAccount(k)]
<1>1. dView \in Notes \cup {None} /\ mainView \in Notes \cup {None}
  BY AccountFacts DEF IInv, TypeInv
<1>2. claim' = [claim EXCEPT ![c].stage = stage, ![c].dView = dView, ![c].mainView = mainView]
  BY DEF SeesPair
<1> HIDE DEF dView, mainView
<1>3. [claim EXCEPT ![c].stage = stage, ![c].dView = dView, ![c].mainView = mainView]
         \in [Claims -> ClaimRec]
  BY <1>1, ClaimTypes, ClaimUpdate, Zenon
<1>4. claim' \in [Claims -> ClaimRec]
  BY <1>2, <1>3, Zenon
<1>5. /\ \A q \in Claims \ {c} : claim'[q] = claim[q]
      /\ claim'[c].stage = stage /\ claim'[c].of = claim[c].of
      /\ claim'[c].dView = dView
  BY <1>2, ClaimTypes DEF ClaimRec
<1> QED BY <1>4, <1>5 DEF dView

LEMMA EndClaimKeeps ==
    ASSUME IInv, NEW c \in Claims, EndClaim(c),
           UNCHANGED <<fileVars, note, active, pool, fund>>
    PROVE  IInv'
<1>1. claim' \in [Claims -> ClaimRec]
  BY ClaimTypes, ClaimUpdate DEF EndClaim, ClaimStages, Ended
<1>2. (\A q \in Claims \ {c} : claim'[q] = claim[q]) /\ claim'[c].stage = "dead"
  BY ClaimTypes DEF EndClaim, ClaimRec
<1>3. ClaimOK(claim'[c])
  BY <1>2 DEF ClaimOK
<1> QED BY <1>1, <1>2, <1>3, SamePool, ClaimChange

LEMMA ClaimLoadKeeps ==
    ASSUME IInv, NEW c \in Claims, NEW n \in Names, ClaimLoad(c, n)
    PROVE  IInv'
<1> DEFINE stage == IF active THEN "waiting" ELSE "dead"
<1>1. file[n] \in Files /\ file[n] # None
  BY DEF ClaimLoad, IInv, TypeInv
<1>2. stage \in ClaimStages /\ stage \in {"waiting", "dead"}
  BY DEF ClaimStages, Ended
<1>3. claim' = [claim EXCEPT ![c].stage = stage, ![c].of = file[n]]
  BY DEF ClaimLoad
<1> HIDE DEF stage
<1>4. claim' \in [Claims -> ClaimRec]
  BY <1>1, <1>2, <1>3, ClaimTypes, ClaimUpdate
<1>5. /\ \A q \in Claims \ {c} : claim'[q] = claim[q]
      /\ claim'[c].stage = stage /\ claim'[c].of = file[n]
  BY <1>3, ClaimTypes DEF ClaimRec
<1>6. ClaimOK(claim'[c])
  BY <1>1, <1>2, <1>5 DEF ClaimOK
<1> QED BY <1>4, <1>5, <1>6, SamePool, ClaimChange DEF ClaimLoad

LEMMA SeeFundsKeeps ==
    ASSUME IInv, NEW c \in Claims, SeeFunds(c)
    PROVE  IInv'
<1>1. PICK k \in Enrollees : /\ claim[c].of = Enrollment(k) /\ claim[c].of.amount = Amount(k)
                             /\ claim[c].of.d_account = DAccount(k)
                             /\ claim[c].of.main_account = MainAccount(k)
  BY ClaimOf DEF SeeFunds
<1>2. note[DAccount(k)] # None /\ note[DAccount(k)].amount = claim[c].of.amount
  BY <1>1 DEF SeeFunds, Holds
<1>3. SeesPair(c, "funded", k)
  BY <1>1 DEF SeeFunds, SeesPair
<1>4. "funded" \in ClaimStages
  BY DEF ClaimStages
<1>5. /\ claim' \in [Claims -> ClaimRec]
      /\ \A q \in Claims \ {c} : claim'[q] = claim[q]
      /\ claim'[c].stage = "funded" /\ claim'[c].of = claim[c].of
      /\ claim'[c].dView = note[DAccount(k)]
  BY <1>3, <1>4, SeePairUpdate
<1>6. ClaimOK(claim'[c])
  BY <1>2, <1>5, ClaimTypes DEF ClaimOK, SeeFunds
<1> QED BY <1>5, <1>6, SamePool, ClaimChange DEF SeeFunds

LEMMA SendClaimKeeps ==
    ASSUME IInv, NEW c \in Claims, SendClaim(c)
    PROVE  IInv'
<1>1. PICK k \in Enrollees : /\ claim[c].of = Enrollment(k) /\ claim[c].of.amount = Amount(k)
                             /\ claim[c].of.d_account = DAccount(k)
                             /\ claim[c].of.main_account = MainAccount(k)
  BY ClaimOf DEF SendClaim
<1>2. /\ claim[c].dView \in Notes /\ claim[c].dView.amount = Amount(k)
      /\ Amount(k) \in 0 .. MaxAmount
  BY <1>1, ClaimTypes DEF SendClaim, ClaimOK, Notes
<1> DEFINE tx == TransferTx(c, DAccount(k), claim[c].dView, MainAccount(k),
                            claim[c].mainView, Amount(k))
<1>3. tx \in Txs
  BY <1>2, ClaimTypes, AccountFacts DEF TransferTx, Txs
<1>4. /\ tx.kind = "transfer" /\ tx.from = DAccount(k) /\ tx.to = MainAccount(k)
      /\ tx.amount = Amount(k) /\ tx.fromNote = claim[c].dView
  BY DEF TransferTx
<1>5. pool' = pool \cup {tx} /\ note' = note
  BY <1>1 DEF SendClaim, ClaimTx
<1> HIDE DEF tx
<1>6. pool' \subseteq Txs
  BY <1>3, <1>5 DEF IInv, TypeInv
<1>7. PoolInv'
  BY <1>2, <1>4, <1>5 DEF IInv, PoolInv
<1>8. claim' \in [Claims -> ClaimRec]
  BY ClaimTypes, ClaimUpdate DEF SendClaim, ClaimStages
<1>9. /\ \A q \in Claims \ {c} : claim'[q] = claim[q]
      /\ claim'[c].stage = "claiming" /\ claim'[c].of = claim[c].of
  BY ClaimTypes DEF SendClaim, ClaimRec
<1>10. ClaimOK(claim'[c])
  BY <1>9, ClaimTypes DEF ClaimOK, SendClaim
<1> QED BY <1>6, <1>7, <1>8, <1>9, <1>10, ClaimChange DEF SendClaim

LEMMA SeeClaimKeeps ==
    ASSUME IInv, NEW c \in Claims, SeeClaim(c)
    PROVE  IInv'
<1>1. PICK k \in Enrollees : /\ claim[c].of = Enrollment(k) /\ claim[c].of.amount = Amount(k)
                             /\ claim[c].of.d_account = DAccount(k)
                             /\ claim[c].of.main_account = MainAccount(k)
  BY ClaimOf DEF SeeClaim
<1>2. note[MainAccount(k)] # None
  BY <1>1 DEF SeeClaim, Holds
<1>3. /\ Status(k) = "claimed"
      /\ note[DAccount(k)] # None /\ note[DAccount(k)].amount = 0
  BY <1>2 DEF IInv, LedgerInv, Status
<1>4. SeesPair(c, "claimed", k)
  BY <1>1 DEF SeeClaim, SeesPair
<1>5. "claimed" \in ClaimStages
  BY DEF ClaimStages
<1>6. /\ claim' \in [Claims -> ClaimRec]
      /\ \A q \in Claims \ {c} : claim'[q] = claim[q]
      /\ claim'[c].stage = "claimed" /\ claim'[c].of = claim[c].of
      /\ claim'[c].dView = note[DAccount(k)]
  BY <1>4, <1>5, SeePairUpdate
<1>7. ClaimOK(claim'[c])
  BY <1>1, <1>3, <1>6, ClaimTypes DEF ClaimOK, SeeClaim
<1> QED BY <1>6, <1>7, SamePool, ClaimChange DEF SeeClaim

LEMMA SecondClaimKeeps ==
    ASSUME IInv, NEW c \in Claims, SecondClaim(c)
    PROVE  IInv'
<1>1. claim[c].dView.amount < 1
  BY ClaimTypes DEF SecondClaim, ClaimOK
<1>2. claim' = [claim EXCEPT ![c].stage = "done"] /\ pool' = pool
  BY <1>1 DEF SecondClaim
<1>3. claim' \in [Claims -> ClaimRec]
  BY <1>2, ClaimTypes, ClaimUpdate DEF ClaimStages, Ended
<1>4. /\ \A q \in Claims \ {c} : claim'[q] = claim[q]
      /\ claim'[c].stage = "done" /\ claim'[c].of = claim[c].of
  BY <1>2, ClaimTypes DEF ClaimRec
<1>5. ClaimOK(claim'[c])
  BY <1>4, ClaimTypes DEF ClaimOK, SecondClaim
<1> QED BY <1>2, <1>3, <1>4, <1>5, SamePool, ClaimChange DEF SecondClaim

LEMMA ClaimKeeps ==
    ASSUME IInv, NEW c \in Claims,
           ClaimStep(c) \/ ClaimStops(c) \/ \E n \in Names : ClaimLoad(c, n)
    PROVE  IInv'
<1>1. CASE \E n \in Names : ClaimLoad(c, n)  BY <1>1, ClaimLoadKeeps
<1>2. CASE SeeFunds(c)  BY <1>2, SeeFundsKeeps
<1>3. CASE NotFunded(c)  BY <1>3, EndClaimKeeps DEF NotFunded
<1>4. CASE SendClaim(c)  BY <1>4, SendClaimKeeps
<1>5. CASE SeeClaim(c)  BY <1>5, SeeClaimKeeps
<1>6. CASE ClaimDidNotLand(c)  BY <1>6, EndClaimKeeps DEF ClaimDidNotLand
<1>7. CASE SecondClaim(c)  BY <1>7, SecondClaimKeeps
<1>8. CASE ClaimStops(c)  BY <1>8, EndClaimKeeps DEF ClaimStops
<1> QED BY <1>1, <1>2, <1>3, <1>4, <1>5, <1>6, <1>7, <1>8 DEF ClaimStep

-----------------------------------------------------------------------------
(* The results *)

LEMMA NextIInv == ASSUME IInv, [Next]_vars PROVE IInv'
<1>1. ASSUME NEW tx \in pool, ExecuteDefinition(tx) \/ ExecuteMint(tx) \/ ExecuteTransfer(tx)
      PROVE  IInv'
  BY <1>1, ExecuteDefinitionKeeps, ExecuteMintKeeps, ExecuteTransferKeeps
<1>2. CASE Freeze  BY <1>2, FreezeKeeps
<1>3. ASSUME NEW k \in Enrollees, Enroll(k) PROVE IInv'
  BY <1>3, EnrollKeeps
<1>4. ASSUME NEW r \in Funds, FundList(r) \/ FundStep(r) \/ FundStops(r) PROVE IInv'
  BY <1>4, FundKeeps
<1>5. ASSUME NEW c \in Claims,
             ClaimStep(c) \/ ClaimStops(c) \/ \E n \in Names : ClaimLoad(c, n)
      PROVE  IInv'
  BY <1>5, ClaimKeeps
<1>6. CASE UNCHANGED vars
  <2>1. /\ file' = file /\ enrolled' = enrolled /\ note' = note /\ active' = active
        /\ pool' = pool /\ fund' = fund /\ claim' = claim
    BY <1>6 DEF vars, fileVars
  <2>2. TypeInv' /\ LedgerInv' /\ PoolInv' /\ FundInv'
    BY <2>1 DEF IInv, TypeInv, LedgerInv, Status, PoolInv, FundInv, FundOK
  <2>3. ClaimInv'
    BY <2>1, SameNote DEF IInv, ClaimInv, ClaimOK
  <2> QED BY <2>2, <2>3 DEF IInv
<1> QED BY <1>1, <1>2, <1>3, <1>4, <1>5, <1>6 DEF Next

\* The inductive invariant: an allocation is open, funded or claimed; what is in
\* the pool can only take it further; and what a run waits for is what its own last
\* transaction would do.
THEOREM PayoutInvariance == Spec => []IInv
<1>1. Init => IInv  BY InitIInv
<1>2. IInv /\ [Next]_vars => IInv'  BY NextIInv
<1> QED BY <1>1, <1>2, PTL DEF Spec

\* The shape of the state, and a supply that stays within a u128, for any
\* allocations whose sum does.
THEOREM TypeCorrect == Spec => []PayoutTypeOK
<1>1. IInv => PayoutTypeOK
  BY DEF IInv, TypeInv, FundInv, FundOK, PayoutTypeOK, Files, FundRec, ClaimRec
<1> QED BY <1>1, PayoutInvariance, PTL

\* No run of airdrop_claim ends with "Double claim unexpectedly succeeded", and one
\* that ends well has paid out its allocation.
THEOREM ClaimsEndWell == Spec => []ClaimsEndWellOnce
<1>1. IInv => ClaimsEndWellOnce
  BY DEF IInv, ClaimInv, ClaimOK, ClaimsEndWellOnce
<1> QED BY <1>1, PayoutInvariance, PTL

LEMMA StepRefines == ASSUME IInv, [Next]_vars PROVE [Promise!Next]_(Promise!vars)
<1>1. NoteType /\ LedgerInv
  BY DEF IInv, TypeInv, NoteType
<1>2. NoteStep
  <2>1. ASSUME NEW tx \in pool,
               ExecuteDefinition(tx) \/ ExecuteMint(tx) \/ ExecuteTransfer(tx)
        PROVE  NoteStep
    BY <2>1, DefinitionStep, MintStep, TransferStep
  <2>2. CASE note' = note
    BY <2>2 DEF NoteStep
  <2>3. ASSUME NEW r \in Funds, FundList(r) \/ FundStep(r) \/ FundStops(r)
        PROVE  note' = note
    BY <2>3 DEF FundList, FundStep, FundRead, FundSync, FundGivesUp, SendMint, SeeMint, MintTimesOut,
                FundStops
  <2>4. ASSUME NEW c \in Claims,
               ClaimStep(c) \/ ClaimStops(c) \/ \E n \in Names : ClaimLoad(c, n)
        PROVE  note' = note
    BY <2>4 DEF ClaimLoad, ClaimStep, SeeFunds, NotFunded, SendClaim, SeeClaim,
                ClaimDidNotLand, SecondClaim, ClaimStops
  <2>5. Freeze \/ (\E k \in Enrollees : Enroll(k)) \/ UNCHANGED vars => note' = note
    BY DEF Freeze, Enroll, vars
  <2> QED BY <2>1, <2>2, <2>3, <2>4, <2>5 DEF Next
<1> QED BY <1>1, <1>2, NoteStepRefines

LEMMA InitRefines == Init => Promise!Init
<1> SUFFICES ASSUME Init PROVE Promise!Init
  OBVIOUS
<1>1. note[Definition] = None /\ \A k \in Enrollees : Status(k) = "open"
  BY AccountFacts DEF Init, Status
<1> QED BY <1>1 DEF Promise!Init

\* Funding and claiming implement Allocation: each allocation is minted at most once,
\* for its exact amount, and paid out at most once, as a whole; nothing else moves the
\* supply.  For any enrollments, and any number of runs of both programs.
THEOREM Implementation == Spec => PaysEachOnce
<1>1. Init => Promise!Init  BY InitRefines
<1>2. IInv /\ [Next]_vars => [Promise!Next]_(Promise!vars)  BY StepRefines
<1> QED BY <1>1, <1>2, PayoutInvariance, PTL DEF Spec, PaysEachOnce, Promise!Spec

-----------------------------------------------------------------------------
(* The order of a run's mints *)

MintsOf(r) == {tx \in pool : tx.kind = "mint" /\ tx.by = r}

\* A run starts with no mint in the pool; each mint spends a version with a supply
\* of its own, below the one that the run has now reached or waits for.
OrderOK(r) ==
    /\ fund[r].stage \in {"off", "reading", "waiting"} => MintsOf(r) = {}
    /\ fund[r].stage \in {"minting", "polling"} =>
         \A tx \in MintsOf(r) : tx.from.amount < fund[r].expected
    /\ \A tx, other \in MintsOf(r) : tx.from = other.from => tx = other

OrderInv == \A r \in Funds : OrderOK(r)

LEMMA InitOrder == Init => OrderInv
BY DEF Init, OrderInv, OrderOK, MintsOf, DefinitionTx

\* A run that sends nothing and does not start over keeps the order.
LEMMA OrderKept ==
    ASSUME NEW r \in Funds, OrderOK(r), MintsOf(r)' \subseteq MintsOf(r),
           fund'[r].stage \in {"off", "reading", "waiting"}
             => fund[r].stage \in {"off", "reading", "waiting"},
           fund'[r].stage \in {"minting", "polling"} =>
             \/ MintsOf(r) = {}
             \/ /\ fund[r].stage \in {"minting", "polling"}
                /\ fund'[r].expected = fund[r].expected
    PROVE  OrderOK(r)'
BY DEF OrderOK

LEMMA SendMintOrder ==
    ASSUME IInv, OrderInv, \A k \in Enrollees : Invocations[k].amount > 0,
           NEW r \in Funds, SendMint(r)
    PROVE  OrderInv'
<1> DEFINE f == fund[r]
<1>1. ASSUME NEW q \in Funds \ {r} PROVE OrderOK(q)'
  <2>1. fund'[q] = fund[q]
    BY FundTypes DEF SendMint, EndFund
  <2>2. MintsOf(q)' = MintsOf(q)
    BY DEF SendMint, MintsOf, MintTx
  <2> QED BY <2>1, <2>2, OrderKept DEF OrderInv, OrderOK
<1>2. CASE ~Mintable(f, f.list[f.next].amount)
  <2>1. pool' = pool /\ fund'[r].stage = "dead"
    BY <1>2, FundTypes DEF SendMint, EndFund, FundRec
  <2>2. OrderOK(r)'
    BY <2>1, OrderKept DEF OrderInv, MintsOf
  <2> QED BY <1>1, <2>2 DEF OrderInv
<1>3. CASE Mintable(f, f.list[f.next].amount)
  <2>1. PICK k \in Enrollees :
           LET tx == MintTx(r, f.view, DAccount(k), Amount(k)) IN
             /\ f.list[f.next] = Enrollment(k)
             /\ f.view \in Notes /\ f.expected = f.view.amount
             /\ Amount(k) \in Nat /\ f.view.amount \in Nat
             /\ f.view.amount + Amount(k) <= MaxAmount
             /\ pool' = pool \cup {tx}
             /\ fund' = [fund EXCEPT ![r].stage = "polling",
                                     ![r].expected = f.view.amount + Amount(k)]
    BY <1>3, SendMintFacts
  <2> DEFINE mint == MintTx(r, f.view, DAccount(k), Amount(k))
  <2>2. mint.from = f.view
    BY DEF MintTx
  <2>3. MintsOf(r)' \subseteq MintsOf(r) \cup {mint}
    BY <2>1 DEF MintsOf
  <2> HIDE DEF mint
  <2>4. fund'[r].stage = "polling" /\ fund'[r].expected = f.view.amount + Amount(k)
    BY <2>1, FundTypes DEF FundRec
  <2>5. /\ \A tx \in MintsOf(r) : tx.from.amount < f.view.amount /\ tx.from.amount \in Nat
        /\ \A tx, other \in MintsOf(r) : tx.from = other.from => tx = other
    <3>1. \A tx \in MintsOf(r) : tx.from \in Notes
      BY TxTypes DEF IInv, MintsOf
    <3>2. \A tx \in MintsOf(r) : tx.from.amount \in Nat
      BY <3>1, PayoutAssumption DEF Notes
    <3> QED BY <2>1, <3>2 DEF OrderInv, OrderOK, SendMint
  <2>6. Amount(k) > 0
    BY DEF Amount
  <2>7. \A tx \in MintsOf(r)' : tx.from.amount < f.view.amount + Amount(k)
    BY <2>1, <2>2, <2>3, <2>5, <2>6
  <2>8. \A tx, other \in MintsOf(r)' : tx.from = other.from => tx = other
    BY <2>1, <2>2, <2>3, <2>5
  <2>9. OrderOK(r)'
    BY <2>4, <2>7, <2>8 DEF OrderOK
  <2> QED BY <1>1, <2>9 DEF OrderInv
<1> QED BY <1>2, <1>3

LEMMA NextOrder ==
    ASSUME IInv, OrderInv, [Next]_vars, \A k \in Enrollees : Invocations[k].amount > 0
    PROVE  OrderInv'
<1>1. ASSUME pool' \subseteq pool, fund' = fund PROVE OrderInv'
  BY <1>1, OrderKept DEF OrderInv, MintsOf, OrderOK
<1>2. ASSUME NEW tx \in pool, ExecuteDefinition(tx) \/ ExecuteMint(tx) \/ ExecuteTransfer(tx)
      PROVE  OrderInv'
  BY <1>1, <1>2 DEF ExecuteDefinition, ExecuteMint, ExecuteTransfer
<1>3. CASE Freeze \/ (\E k \in Enrollees : Enroll(k)) \/ UNCHANGED vars
  BY <1>1, <1>3 DEF Freeze, Enroll, vars
<1>4. ASSUME NEW c \in Claims,
             ClaimStep(c) \/ ClaimStops(c) \/ \E n \in Names : ClaimLoad(c, n)
      PROVE  OrderInv'
  <2>1. fund' = fund
    BY <1>4 DEF ClaimLoad, ClaimStep, SeeFunds, NotFunded, SendClaim, SeeClaim,
                ClaimDidNotLand, SecondClaim, ClaimStops
  <2>2. \A tx \in pool' : tx.kind = "mint" => tx \in pool
    BY <1>4 DEF ClaimLoad, ClaimStep, SeeFunds, NotFunded, SendClaim, SeeClaim,
                ClaimDidNotLand, SecondClaim, ClaimStops, ClaimTx, TransferTx
  <2>3. \A r \in Funds : MintsOf(r)' \subseteq MintsOf(r)
    BY <2>2 DEF MintsOf
  <2> QED BY <2>1, <2>3, OrderKept DEF OrderInv, OrderOK
<1>5. ASSUME NEW r \in Funds, FundList(r) \/ FundStep(r) \/ FundStops(r) PROVE OrderInv'
  <2>1. CASE SendMint(r)
    BY <2>1, SendMintOrder
  <2>2. CASE ~SendMint(r)
    <3>1. pool' = pool /\ \A q \in Funds : MintsOf(q)' = MintsOf(q)
      BY <1>5, <2>2 DEF FundList, FundStep, FundRead, FundSync, FundGivesUp, SeeMint,
                        MintTimesOut, FundStops, MintsOf
    <3>2. \A q \in Funds \ {r} : fund'[q] = fund[q]
      BY <1>5, <2>2, FundTypes DEF FundList, FundStep, FundRead, FundSync, FundGivesUp,
                                   SeeMint, MintTimesOut, FundStops, EndFund
    <3>3. OrderOK(r)'
      <4>1. CASE FundList(r) \/ FundRead(r)
        <5>1. /\ fund[r].stage \in {"off", "reading"}
              /\ fund'[r].stage \in {"dead", "reading", "waiting"}
          <6>1. CASE FundList(r)
            BY <6>1, FundTypes DEF FundList, FundRec
          <6>2. CASE FundRead(r)
            BY <6>2, FundReadFacts DEF FundRead
          <6> QED BY <4>1, <6>1, <6>2
        <5> QED BY <3>1, <5>1, OrderKept DEF OrderInv
      <4>2. CASE FundSync(r)
        <5>1. MintsOf(r) = {} /\ fund'[r].stage = "minting"
          BY <4>2, FundTypes DEF FundSync, OrderInv, OrderOK, FundRec
        <5> QED BY <3>1, <5>1, OrderKept DEF OrderInv
      <4>3. CASE SeeMint(r)
        <5>1. /\ fund[r].stage = "polling" /\ fund'[r].expected = fund[r].expected
              /\ fund'[r].stage \in {"done", "minting"}
          BY <4>3, SeeMintFacts DEF SeeMint
        <5> QED BY <3>1, <5>1, OrderKept DEF OrderInv
      <4>4. CASE FundGivesUp(r) \/ MintTimesOut(r) \/ FundStops(r)
        <5>1. fund'[r].stage = "dead"
          BY <4>4, FundTypes DEF FundGivesUp, MintTimesOut, FundStops, EndFund, FundRec
        <5> QED BY <3>1, <5>1, OrderKept DEF OrderInv
      <4> QED BY <1>5, <2>2, <4>1, <4>2, <4>3, <4>4 DEF FundStep
    <3>4. \A q \in Funds \ {r} : OrderOK(q)'
      BY <3>1, <3>2, OrderKept DEF OrderInv, OrderOK
    <3> QED BY <3>3, <3>4 DEF OrderInv
  <2> QED BY <2>1, <2>2
<1> QED BY <1>2, <1>3, <1>4, <1>5 DEF Next

LEMMA OrderMeans == OrderInv => MintsWaitForEachOther
<1> SUFFICES ASSUME OrderInv, NEW r \in Funds
             PROVE  Cardinality({tx \in pool : /\ tx.kind = "mint"
                                               /\ tx.by = r
                                               /\ tx.from = note[Definition]}) <= 1
  BY DEF MintsWaitForEachOther
<1> DEFINE S == {tx \in pool : tx.kind = "mint" /\ tx.by = r /\ tx.from = note[Definition]}
<1>1. \A tx, other \in S : tx = other
  BY DEF OrderInv, OrderOK, MintsOf
<1>2. CASE S = {}
  BY <1>2, FS_EmptySet
<1>3. CASE S # {}
  <2>1. PICK tx \in S : S = {tx}
    BY <1>1, <1>3
  <2>2. Cardinality(S) = 1
    BY <2>1, FS_Singleton
  <2> QED BY <2>2
<1> QED BY <1>2, <1>3

\* Of allocations above zero: of the mints that a run has in the pool at most one can
\* still be executed, however many runs there are.
THEOREM MintsWait ==
    (\A k \in Enrollees : Invocations[k].amount > 0) => (Spec => []MintsWaitForEachOther)
<1> SUFFICES ASSUME \A k \in Enrollees : Invocations[k].amount > 0
             PROVE  Spec => []MintsWaitForEachOther
  OBVIOUS
<1>1. Init => OrderInv  BY InitOrder
<1>2. IInv /\ OrderInv /\ [Next]_vars => OrderInv'  BY NextOrder
<1>3. OrderInv => MintsWaitForEachOther  BY OrderMeans
<1> QED BY <1>1, <1>2, <1>3, PayoutInvariance, PTL DEF Spec

-----------------------------------------------------------------------------
(* Every allocation of a run's list *)

OnFile == {k \in Enrollees : file[Invocations[k].name] = Enrollment(k)}

IsFunded(e) == \A k \in Enrollees : e = Enrollment(k) => Status(k) # "open"

Before(j, k) == Invocations[j].name < Invocations[k].name

\* A file was written by an invocation that has taken place.
WriterInv ==
    \A n \in Names : file[n] # None =>
        \E k \in enrolled : Invocations[k].name = n /\ file[n] = Enrollment(k)

\* A list has the enrollments on file, up to its last name.
ListOK(list) ==
    /\ \A i \in DOMAIN list : \E k \in OnFile : list[i] = Enrollment(k)
    /\ \A i \in DOMAIN list, k \in OnFile :
         Invocations[k].name < list[i].name
            => \E j \in DOMAIN list : j < i /\ list[j] = Enrollment(k)

\* What a run has read is still on file, and all names that come before those that it
\* listed are on its listing.
ReadOK(names, list) ==
    /\ \A j \in DOMAIN list : list[j] = file[names[j]]
    /\ \A j \in DOMAIN names, n \in Names :
         file[n] # None /\ n < names[j] => \E i \in DOMAIN names : i < j /\ names[i] = n

\* A run has passed funded allocations only; while the next is open, no mint has been
\* executed since the version that the run mints from.
PassedOK(f) ==
    /\ f.stage = "reading" => ReadOK(f.names, f.list)
    /\ f.stage \in {"waiting", "minting", "polling"} => ListOK(f.list)
    /\ f.stage \in {"minting", "polling"} =>
         /\ \A i \in DOMAIN f.list : i < f.next => IsFunded(f.list[i])
         /\ ~IsFunded(f.list[f.next]) => f.view = note[Definition]
    /\ f.stage = "done" => \A i \in DOMAIN f.list : IsFunded(f.list[i])

PassedInv == \A r \in Funds : PassedOK(fund[r])

\* A mint was sent when all that come before it on file had been funded.
InTurnInv ==
    \A tx \in pool, k \in Enrollees :
        tx.kind = "mint" /\ tx.to = DAccount(k) =>
            k \in OnFile /\ \A j \in OnFile : Before(j, k) => Status(j) # "open"

MintedInv == WriterInv /\ PassedInv /\ InTurnInv

\* Nobody enrolls under a name that is not after all of the names enrolled.
EnrollsInOrder ==
    [][\A k \in enrolled' \ enrolled, j \in enrolled : Before(j, k)]_vars

LEMMA OnFileFacts ==
    /\ OnFile \subseteq Enrollees
    /\ \A j, k \in Enrollees : Enrollment(j) = Enrollment(k) => j = k
    /\ WriterInv /\ enrolled \subseteq Enrollees => OnFile \subseteq enrolled
<1>1. \A j, k \in Enrollees : Enrollment(j) = Enrollment(k) => j = k
  BY EnrollmentFacts, AccountFacts
<1>2. ASSUME WriterInv, NEW k \in OnFile, enrolled \subseteq Enrollees PROVE k \in enrolled
  <2>1. k \in Enrollees /\ file[Invocations[k].name] = Enrollment(k)
    BY DEF OnFile
  <2>2. PICK j \in enrolled : Enrollment(k) = Enrollment(j)
    BY <1>2, <2>1, InvocationFacts, EnrollmentFacts DEF WriterInv
  <2> QED BY <1>1, <1>2, <2>1, <2>2
<1> QED BY <1>1, <1>2 DEF OnFile

\* A listing, with nothing read yet.
LEMMA ListingOK ==
    ASSUME NEW names \in Listings
    PROVE  ReadOK(names, <<>>)
<1>1. /\ names \in Seq(Names)
      /\ \A n \in Names : file[n] # None => \E i \in DOMAIN names : names[i] = n
      /\ \A i, j \in DOMAIN names : i < j => names[i] < names[j]
  BY ListingFacts
<1>2. ASSUME NEW j \in DOMAIN names, NEW n \in Names, file[n] # None, n < names[j]
      PROVE  \E i \in DOMAIN names : i < j /\ names[i] = n
  <2>1. PICK i \in DOMAIN names : names[i] = n
    BY <1>1, <1>2
  <2>2. i \in Nat /\ j \in Nat /\ names[i] \in Nat /\ names[j] \in Nat
    BY <1>1, NameFacts, LenProperties, ElementOfSeq DEF Names, Enrollment
  <2>3. ~(j < i) /\ i # j
    BY <1>1, <1>2, <2>1, <2>2
  <2> QED BY <2>1, <2>2, <2>3
<1>3. \A j \in DOMAIN <<>> : FALSE
  BY EmptySeq, LenProperties
<1> QED BY <1>2, <1>3 DEF ReadOK

\* All that was listed has been read.
LEMMA ReadListOK ==
    ASSUME IInv, WriterInv, NEW names \in Seq(Names), NEW list \in Seq(Files),
           ReadOK(names, list), Len(list) = Len(names)
    PROVE  ListOK(list)
<1>1. DOMAIN list = DOMAIN names /\ \A j \in DOMAIN names : names[j] \in Names
  BY LenProperties, ElementOfSeq
<1>2. ASSUME NEW i \in DOMAIN list
      PROVE  \E k \in OnFile : list[i] = Enrollment(k) /\ list[i].name = names[i]
  <2>1. names[i] \in Names /\ list[i] = file[names[i]] /\ list[i] # None
    BY <1>1, LenProperties, ElementOfSeq, NoneFacts DEF ReadOK
  <2>2. PICK k \in enrolled : Invocations[k].name = names[i] /\ list[i] = Enrollment(k)
    BY <2>1 DEF WriterInv
  <2>3. k \in OnFile
    BY <2>1, <2>2 DEF OnFile, IInv, TypeInv
  <2>4. list[i].name = names[i]
    BY <2>2 DEF Enrollment
  <2> QED BY <2>2, <2>3, <2>4
<1>3. ASSUME NEW i \in DOMAIN list, NEW k \in OnFile, Invocations[k].name < list[i].name
      PROVE  \E j \in DOMAIN list : j < i /\ list[j] = Enrollment(k)
  <2>1. /\ Invocations[k].name \in Names /\ file[Invocations[k].name] = Enrollment(k)
        /\ Enrollment(k) # None
    BY InvocationFacts, EnrollmentFacts DEF OnFile
  <2>2. Invocations[k].name < names[i]
    BY <1>2, <1>3
  <2>3. PICK j \in DOMAIN names : j < i /\ names[j] = Invocations[k].name
    BY <1>1, <2>1, <2>2 DEF ReadOK
  <2> QED BY <1>1, <2>1, <2>3 DEF ReadOK
<1> QED BY <1>2, <1>3 DEF ListOK

\* What is funded stays so.
LEMMA StaysFunded ==
    ASSUME IInv, NoteStep
    PROVE  /\ \A k \in Enrollees : Status(k) # "open" => Status(k)' # "open"
           /\ \A e : IsFunded(e) => IsFunded(e)'
<1>1. NoteType
  BY DEF IInv, TypeInv, NoteType
<1>2. \A k \in Enrollees : Status(k) # "open" => Status(k)' # "open"
  <2>1. CASE note' = note  BY <2>1, SameNote
  <2>2. CASE Creates  BY <1>1, <2>2, CreatesStatus
  <2>3. ASSUME NEW j \in Enrollees, Mints(j)
        PROVE  \A k \in Enrollees : Status(k) # "open" => Status(k)' # "open"
    BY <1>1, <2>3, MintsStatus
  <2>4. ASSUME NEW j \in Enrollees, Pays(j)
        PROVE  \A k \in Enrollees : Status(k) # "open" => Status(k)' # "open"
    BY <1>1, <2>4, PaysStatus
  <2> QED BY <2>1, <2>2, <2>3, <2>4 DEF NoteStep
<1> QED BY <1>2 DEF IsFunded

\* A step of the ledger that does not mint past a run keeps the invariant.
LEMMA LedgerMints ==
    ASSUME IInv, MintedInv, NoteStep, pool' \subseteq pool,
           UNCHANGED <<fileVars, fund>>,
           \A r \in Funds :
             /\ fund[r].stage \in {"minting", "polling"}
             /\ ~IsFunded(fund[r].list[fund[r].next])'
             => note'[Definition] = note[Definition]
    PROVE  MintedInv'
<1>1. \A k \in Enrollees : Status(k) # "open" => Status(k)' # "open"
  BY StaysFunded
<1>2. \A e : IsFunded(e) => IsFunded(e)'
  BY StaysFunded
<1>3. WriterInv' /\ OnFile' = OnFile
  BY DEF MintedInv, WriterInv, OnFile, fileVars
<1>4. InTurnInv'
  <2>1. OnFile \subseteq Enrollees
    BY OnFileFacts
  <2> QED BY <1>1, <1>3, <2>1 DEF MintedInv, InTurnInv, Before
<1>5. ASSUME NEW r \in Funds PROVE PassedOK(fund[r])'
  <2>1. fund'[r] = fund[r]
    OBVIOUS
  <2>2. \A list : ListOK(list)' = ListOK(list)
    BY <1>3 DEF ListOK
  <2>3. PassedOK(fund[r])
    BY DEF MintedInv, PassedInv
  <2>4. ASSUME fund[r].stage \in {"minting", "polling"},
               ~IsFunded(fund[r].list[fund[r].next])'
        PROVE  fund[r].view = note'[Definition]
    BY <1>2, <2>3, <2>4 DEF PassedOK
  <2>5. \A names, list : ReadOK(names, list)' = ReadOK(names, list)
    BY DEF ReadOK, fileVars
  <2> QED BY <1>2, <2>1, <2>2, <2>3, <2>4, <2>5 DEF PassedOK
<1> QED BY <1>3, <1>4, <1>5 DEF MintedInv, PassedInv

\* The next of a run that is not funded is on file, and all before it are funded.
LEMMA NextFacts ==
    ASSUME IInv, MintedInv, NEW r \in Funds, fund[r].stage \in {"minting", "polling"}
    PROVE  \E k \in OnFile :
             /\ fund[r].list[fund[r].next] = Enrollment(k)
             /\ \A j \in OnFile : Before(j, k) => Status(j) # "open"
<1> DEFINE f == fund[r]
<1>1. f.next \in DOMAIN f.list /\ PassedOK(f)
  BY FundTypes DEF FundOK, MintedInv, PassedInv
<1>2. ListOK(f.list) /\ \A i \in DOMAIN f.list : i < f.next => IsFunded(f.list[i])
  BY <1>1 DEF PassedOK
<1>3. PICK k \in OnFile : f.list[f.next] = Enrollment(k)
  BY <1>1, <1>2 DEF ListOK
<1>4. ASSUME NEW j \in OnFile, Before(j, k) PROVE Status(j) # "open"
  <2>1. Invocations[j].name < f.list[f.next].name
    BY <1>3, <1>4 DEF Before, Enrollment
  <2>2. PICK i \in DOMAIN f.list : i < f.next /\ f.list[i] = Enrollment(j)
    BY <1>1, <1>2, <2>1 DEF ListOK
  <2> QED BY <1>2, <2>2, OnFileFacts DEF IsFunded
<1> QED BY <1>3, <1>4

LEMMA ExecuteMintMints ==
    ASSUME IInv, MintedInv, NEW tx \in pool, ExecuteMint(tx)
    PROVE  MintedInv'
<1>1. NoteStep
  BY MintStep
<1>2. PICK m \in Enrollees : tx.to = DAccount(m)
  BY DEF IInv, PoolInv, ExecuteMint
<1>3. ASSUME NEW r \in Funds, fund[r].stage \in {"minting", "polling"},
             ~IsFunded(fund[r].list[fund[r].next])'
      PROVE  note' = note
  <2> SUFFICES ASSUME note' # note PROVE FALSE
    OBVIOUS
  <2>1. PICK k \in OnFile :
           /\ fund[r].list[fund[r].next] = Enrollment(k)
           /\ \A j \in OnFile : Before(j, k) => Status(j) # "open"
    BY <1>3, NextFacts
  <2>2. k \in Enrollees /\ Status(k)' = "open" /\ Status(k) = "open"
    <3>1. k \in Enrollees /\ Status(k)' = "open"
      BY <1>3, <2>1, OnFileFacts DEF IsFunded, ExecuteMint
    <3> QED BY <1>1, <3>1, StaysFunded
  <2>3. note[DAccount(m)] = None
    BY <1>2 DEF ExecuteMint
  <2>4. Status(m) = "open"
    BY <2>3 DEF IInv, LedgerInv, Status
  <2>5. m \in OnFile /\ \A j \in OnFile : Before(j, m) => Status(j) # "open"
    BY <1>2 DEF MintedInv, InTurnInv, ExecuteMint
  <2>6. ~Before(m, k) /\ ~Before(k, m)
    BY <2>1, <2>2, <2>4, <2>5
  <2>7. Invocations[m].name = Invocations[k].name
    BY <2>2, <2>6, NameFacts DEF Before
  <2>8. m = k
    BY <2>1, <2>5, <2>7, OnFileFacts DEF OnFile
  <2>9. note'[DAccount(k)] # None
    <3>1. NextVersion(None, tx.amount) # None
      BY TxTypes, NextVersionFacts, NoneFacts DEF IInv, ExecuteMint
    <3>2. note' = [note EXCEPT ![Definition] = NextVersion(tx.from, tx.from.amount + tx.amount),
                               ![DAccount(k)] = NextVersion(None, tx.amount)]
      BY <1>2, <2>8 DEF ExecuteMint
    <3> QED BY <2>2, <3>1, <3>2, AccountFacts DEF IInv, TypeInv
  <2> QED BY <2>2, <2>9 DEF Status
<1>4. pool' \subseteq pool /\ UNCHANGED <<fileVars, fund>>
  BY DEF ExecuteMint
<1> QED BY <1>1, <1>3, <1>4, LedgerMints

LEMMA ExecuteOtherMints ==
    ASSUME IInv, MintedInv, NEW tx \in pool, ExecuteDefinition(tx) \/ ExecuteTransfer(tx)
    PROVE  MintedInv'
<1>1. NoteStep
  BY DefinitionStep, TransferStep
<1>2. pool' \subseteq pool /\ UNCHANGED <<fileVars, fund>>
  BY DEF ExecuteDefinition, ExecuteTransfer
<1>3. CASE ExecuteTransfer(tx)
  <2>1. tx.from # Definition /\ tx.to # Definition
    BY <1>3, AccountFacts DEF ExecuteTransfer, IInv, PoolInv
  <2>2. note'[Definition] = note[Definition]
    BY <1>3, <2>1, AccountFacts DEF ExecuteTransfer, IInv, TypeInv
  <2> QED BY <1>1, <1>2, <2>2, LedgerMints
<1>4. CASE ExecuteDefinition(tx)
  <2>1. note[Definition] = None
    BY <1>4 DEF ExecuteDefinition, IInv, PoolInv
  <2>2. \A r \in Funds : fund[r].stage \notin {"minting", "polling"}
    BY <2>1, FundTypes DEF FundOK
  <2> QED BY <1>1, <1>2, <2>2, LedgerMints
<1> QED BY <1>3, <1>4

\* The directory grows at its end.
LEMMA EnrollMints ==
    ASSUME IInv, MintedInv, NEW k \in Enrollees, Enroll(k),
           \A j \in enrolled : Before(j, k)
    PROVE  MintedInv'
<1>0. enrolled \subseteq Enrollees /\ Invocations[k].name \in Names /\ WriterInv
      /\ file \in [Names -> Files \cup {None}]
  BY InvocationFacts DEF IInv, TypeInv, MintedInv
<1>1. /\ \A n \in Names \ {Invocations[k].name} : file'[n] = file[n]
      /\ file'[Invocations[k].name] = Enrollment(k)
  BY <1>0 DEF Enroll
<1>2. \A j \in enrolled : Invocations[j].name # Invocations[k].name
  BY <1>0, NameFacts DEF Before
<1>3. WriterInv'
  BY <1>0, <1>1 DEF Enroll, WriterInv
<1>4. OnFile \subseteq enrolled /\ OnFile \subseteq Enrollees
  BY <1>0, OnFileFacts
<1>5. OnFile' = OnFile \cup {k}
  <2>1. ASSUME NEW j \in Enrollees, j # k PROVE j \in OnFile' <=> j \in OnFile
    <3>1. CASE Invocations[j].name = Invocations[k].name
      <4>1. j \notin OnFile
        BY <1>2, <1>4, <3>1
      <4>2. Enrollment(j) # Enrollment(k)
        BY <2>1, OnFileFacts
      <4> QED BY <1>1, <3>1, <4>1, <4>2 DEF OnFile
    <3>2. CASE Invocations[j].name # Invocations[k].name
      BY <1>1, <3>2, InvocationFacts DEF OnFile
    <3> QED BY <3>1, <3>2
  <2>2. k \in OnFile'
    BY <1>1 DEF OnFile
  <2> QED BY <1>4, <2>1, <2>2 DEF OnFile
<1>6. /\ note' = note /\ pool' = pool /\ fund' = fund
      /\ \A j \in Enrollees : Status(j)' = Status(j)
      /\ \A e : IsFunded(e)' = IsFunded(e)
  BY SameNote DEF Enroll, IsFunded
<1>7. \A j \in OnFile : ~Before(k, j)
  BY <1>0, <1>4, NameFacts DEF Before
<1>8. ASSUME NEW list, ListOK(list) PROVE ListOK(list)'
  <2>1. ASSUME NEW i \in DOMAIN list PROVE ~(Invocations[k].name < list[i].name)
    <3>1. PICK j \in OnFile : list[i] = Enrollment(j)
      BY <1>8 DEF ListOK
    <3> QED BY <1>7, <3>1 DEF Before, Enrollment
  <2> QED BY <1>5, <1>8, <2>1 DEF ListOK
<1>11. ASSUME NEW names \in Seq(Names), NEW list \in Seq(Files), Len(list) <= Len(names),
              \A j \in DOMAIN names : file[names[j]] # None, ReadOK(names, list)
       PROVE  ReadOK(names, list)'
  <2>1. ASSUME NEW j \in DOMAIN names
        PROVE  /\ names[j] \in Names /\ file'[names[j]] = file[names[j]]
               /\ ~(Invocations[k].name < names[j])
    <3>1. names[j] \in Names
      BY LenProperties, ElementOfSeq
    <3>2. PICK w \in enrolled : Invocations[w].name = names[j]
      BY <1>0, <1>11, <3>1 DEF WriterInv
    <3>3. Before(w, k)
      OBVIOUS
    <3> QED BY <1>0, <1>1, <1>2, <3>1, <3>2, <3>3, NameFacts DEF Before
  <2>2. \A j \in DOMAIN list : j \in DOMAIN names
    BY <1>11, LenProperties
  <2>3. ASSUME NEW j \in DOMAIN names, NEW n \in Names, file'[n] # None, n < names[j]
        PROVE  \E i \in DOMAIN names : i < j /\ names[i] = n
    <3>1. n # Invocations[k].name /\ file'[n] = file[n]
      BY <1>1, <2>1, <2>3
    <3> QED BY <1>11, <2>3, <3>1 DEF ReadOK
  <2> QED BY <1>11, <2>1, <2>2, <2>3 DEF ReadOK
<1>9. InTurnInv'
  <2> SUFFICES ASSUME NEW tx \in pool, NEW m \in Enrollees,
                      tx.kind = "mint", tx.to = DAccount(m)
               PROVE  m \in OnFile' /\ \A j \in OnFile' : Before(j, m) => Status(j)' # "open"
    BY <1>6 DEF InTurnInv, Before
  <2>1. m \in OnFile /\ \A j \in OnFile : Before(j, m) => Status(j) # "open"
    BY DEF MintedInv, InTurnInv
  <2> QED BY <1>4, <1>5, <1>6, <1>7, <2>1
<1>10. PassedInv'
  <2> SUFFICES ASSUME NEW r \in Funds PROVE PassedOK(fund[r])'
    BY DEF PassedInv
  <2>1. PassedOK(fund[r])
    BY DEF MintedInv, PassedInv
  <2>2. fund[r].stage = "reading" => ReadOK(fund[r].names, fund[r].list)'
    <3> SUFFICES ASSUME fund[r].stage = "reading" PROVE ReadOK(fund[r].names, fund[r].list)'
      OBVIOUS
    <3>1. /\ Len(fund[r].list) < Len(fund[r].names)
          /\ \A j \in DOMAIN fund[r].names : file[fund[r].names[j]] # None
      BY FundTypes DEF FundOK
    <3>2. /\ fund[r].names \in Seq(Names) /\ fund[r].list \in Seq(Files)
          /\ Len(fund[r].list) <= Len(fund[r].names)
      BY <3>1, FundTypes, LenProperties
    <3>3. ReadOK(fund[r].names, fund[r].list)
      BY <2>1 DEF PassedOK
    <3>4. fund' = fund
      BY <1>6
    <3> QED BY <1>11, <3>1, <3>2, <3>3, <3>4
  <2> QED BY <1>6, <1>8, <2>1, <2>2 DEF PassedOK
<1> QED BY <1>3, <1>9, <1>10 DEF MintedInv

\* A step that sends no mint, and moves one run at most.
LEMMA FundMints ==
    ASSUME IInv, MintedInv, UNCHANGED <<fileVars, note>>,
           \A tx \in pool' : tx.kind = "mint" => tx \in pool,
           NEW r \in Funds, \A q \in Funds \ {r} : fund'[q] = fund[q],
           PassedOK(fund[r]) => PassedOK(fund'[r])
    PROVE  MintedInv'
<1>1. /\ WriterInv' /\ OnFile' = OnFile
      /\ \A j \in Enrollees : Status(j)' = Status(j)
      /\ \A e : IsFunded(e)' = IsFunded(e)
  BY SameNote DEF MintedInv, WriterInv, OnFile, IsFunded, fileVars
<1>2. InTurnInv'
  BY <1>1, OnFileFacts DEF MintedInv, InTurnInv, Before
<1>3. \A f : PassedOK(f)' = PassedOK(f)
  BY <1>1 DEF PassedOK, ListOK, ReadOK, fileVars
<1>4. \A q \in Funds : PassedOK(fund[q])
  BY DEF MintedInv, PassedInv
<1>5. \A q \in Funds : PassedOK(fund'[q])
  BY <1>4
<1>6. PassedInv'
  BY <1>3, <1>5 DEF PassedInv, PassedOK
<1> QED BY <1>1, <1>2, <1>6 DEF MintedInv

LEMMA SendMintMints ==
    ASSUME IInv, MintedInv, NEW r \in Funds, SendMint(r)
    PROVE  MintedInv'
<1> DEFINE f == fund[r]
<1>1. UNCHANGED <<fileVars, note>>
  BY DEF SendMint
<1>2. CASE ~Mintable(f, f.list[f.next].amount)
  <2>1. /\ pool' = pool /\ fund'[r].stage = "dead"
        /\ \A q \in Funds \ {r} : fund'[q] = fund[q]
    BY <1>2, FundTypes DEF SendMint, EndFund, FundRec
  <2>2. PassedOK(fund'[r])
    BY <2>1 DEF PassedOK
  <2> QED BY <1>1, <2>1, <2>2, FundMints
<1>3. CASE Mintable(f, f.list[f.next].amount)
  <2>1. PICK k \in Enrollees :
           LET tx == MintTx(r, f.view, DAccount(k), Amount(k)) IN
             /\ f.list[f.next] = Enrollment(k)
             /\ f.view \in Notes /\ f.expected = f.view.amount
             /\ Amount(k) \in Nat /\ f.view.amount \in Nat
             /\ f.view.amount + Amount(k) <= MaxAmount
             /\ pool' = pool \cup {tx}
             /\ fund' = [fund EXCEPT ![r].stage = "polling",
                                     ![r].expected = f.view.amount + Amount(k)]
    BY <1>3, SendMintFacts
  <2> DEFINE mint == MintTx(r, f.view, DAccount(k), Amount(k))
  <2>2. mint.to = DAccount(k)
    BY DEF MintTx
  <2>3. pool' = pool \cup {mint}
    BY <2>1
  <2> HIDE DEF mint
  <2>4. /\ fund'[r].stage = "polling" /\ fund'[r].list = f.list /\ fund'[r].next = f.next
        /\ fund'[r].view = f.view
        /\ \A q \in Funds \ {r} : fund'[q] = fund[q]
    BY <2>1, FundTypes DEF FundRec
  <2>5. k \in OnFile /\ \A j \in OnFile : Before(j, k) => Status(j) # "open"
    <3>1. PICK m \in OnFile :
             /\ f.list[f.next] = Enrollment(m)
             /\ \A j \in OnFile : Before(j, m) => Status(j) # "open"
      BY NextFacts DEF SendMint
    <3> QED BY <2>1, <3>1, OnFileFacts
  <2>6. /\ OnFile' = OnFile /\ \A j \in Enrollees : Status(j)' = Status(j)
        /\ WriterInv' /\ \A e : IsFunded(e)' = IsFunded(e)
    BY <1>1, SameNote DEF OnFile, MintedInv, WriterInv, IsFunded, fileVars
  <2>7. InTurnInv'
    <3> SUFFICES ASSUME NEW tx \in pool', NEW m \in Enrollees,
                        tx.kind = "mint", tx.to = DAccount(m)
                 PROVE  m \in OnFile /\ \A j \in OnFile : Before(j, m) => Status(j) # "open"
      BY <2>6, OnFileFacts DEF InTurnInv, Before
    <3>1. CASE tx \in pool
      BY <3>1 DEF MintedInv, InTurnInv
    <3>2. CASE tx = mint
      <4>1. m = k
        BY <2>1, <2>2, <3>2, AccountFacts
      <4> QED BY <2>5, <4>1
    <3> QED BY <2>3, <3>1, <3>2
  <2>8. \A g : PassedOK(g)' = PassedOK(g)
    BY <1>1, <2>6 DEF PassedOK, ListOK, ReadOK, fileVars
  <2>9. \A q \in Funds : PassedOK(fund[q])
    BY DEF MintedInv, PassedInv
  <2>10. PassedOK(fund'[r])
    BY <2>4, <2>9 DEF PassedOK, SendMint
  <2>11. PassedInv'
    <3>1. \A q \in Funds : PassedOK(fund'[q])
      BY <2>4, <2>9, <2>10
    <3> QED BY <2>8, <3>1 DEF PassedInv, PassedOK
  <2> QED BY <2>6, <2>7, <2>11 DEF MintedInv
<1> QED BY <1>2, <1>3

\* A run that sees the supply that it expects has seen its allocation minted: were it
\* open, the supply would be the one that it minted from.
LEMMA SeeMintMints ==
    ASSUME IInv, MintedInv, \A k \in Enrollees : Invocations[k].amount > 0,
           NEW r \in Funds, SeeMint(r)
    PROVE  MintedInv'
<1> DEFINE f == fund[r]
<1>1. /\ f.stage = "polling" /\ f.next \in DOMAIN f.list /\ PassedOK(f)
      /\ f.expected = f.view.amount + f.list[f.next].amount
  BY FundTypes DEF SeeMint, FundOK, MintedInv, PassedInv
<1>2. /\ note[Definition] \in Notes /\ note[Definition].amount = f.expected
      /\ fund'[r].stage = IF f.next = Len(f.list) THEN "done" ELSE "minting"
      /\ fund'[r].next = f.next + 1 /\ fund'[r].list = f.list
      /\ fund'[r].view = note[Definition]
      /\ \A q \in Funds \ {r} : fund'[q] = fund[q]
  BY SeeMintFacts
<1>3. IsFunded(f.list[f.next])
  <2> SUFFICES ASSUME ~IsFunded(f.list[f.next]) PROVE FALSE
    OBVIOUS
  <2>1. f.view = note[Definition]
    BY <1>1 DEF PassedOK
  <2>2. PICK k \in Enrollees : f.list[f.next] = Enrollment(k)
    BY DEF IsFunded
  <2>3. f.list[f.next].amount = Amount(k) /\ Amount(k) \in Nat /\ Amount(k) > 0
    BY <2>2, EnrollmentFacts, InvocationFacts DEF Amount
  <2>4. note[Definition].amount \in Nat
    BY <1>2, PayoutAssumption DEF Notes
  <2> QED BY <1>1, <1>2, <2>1, <2>3, <2>4
<1>4. DOMAIN f.list = 1 .. Len(f.list) /\ Len(f.list) \in Nat /\ f.next \in Nat
  BY FundTypes, LenProperties
<1>5. \A i \in DOMAIN f.list : i < f.next + 1 => IsFunded(f.list[i])
  BY <1>1, <1>3, <1>4 DEF PassedOK
<1>6. PassedOK(fund'[r])
  BY <1>1, <1>2, <1>4, <1>5 DEF PassedOK
<1> QED BY <1>2, <1>6, FundMints DEF SeeMint

LEMMA FundStepMints ==
    ASSUME IInv, MintedInv, \A k \in Enrollees : Invocations[k].amount > 0,
           NEW r \in Funds, FundList(r) \/ FundStep(r) \/ FundStops(r)
    PROVE  MintedInv'
<1>1. CASE FundList(r)
  <2>1. PICK names \in Listings :
           fund' = [fund EXCEPT ![r].stage = IF names = <<>> THEN "dead" ELSE "reading",
                                ![r].names = names]
    BY <1>1 DEF FundList
  <2>2. /\ \A q \in Funds \ {r} : fund'[q] = fund[q]
        /\ fund'[r].stage \in {"dead", "reading"} /\ fund'[r].names = names
        /\ fund'[r].list = fund[r].list
    BY <2>1, FundTypes DEF FundRec
  <2>3. fund[r].list = <<>>
    BY <1>1, FundTypes DEF FundList, FundOK
  <2>4. PassedOK(fund'[r])
    BY <2>2, <2>3, ListingOK DEF PassedOK
  <2> QED BY <1>1, <2>2, <2>4, FundMints DEF FundList
<1>4. CASE FundRead(r)
  <2> DEFINE f == fund[r]
             g == fund'[r]
             at == Len(f.list) + 1
  <2>1. /\ at \in Nat /\ at <= Len(f.names)
        /\ \A q \in Funds \ {r} : fund'[q] = fund[q]
        /\ g.stage = IF at = Len(f.names) THEN "waiting" ELSE "reading"
        /\ Len(g.list) = at /\ g.list[at] = file[f.names[at]]
        /\ \A j \in 1 .. Len(f.list) : g.list[j] = f.list[j]
        /\ g.names = f.names
    BY <1>4, FundReadFacts
  <2>2. /\ g.list \in Seq(Files) /\ g.names \in Seq(Names)
    BY <1>4, FundReadFacts, FundTypes DEF FundRec
  <2>3. DOMAIN g.list = 1 .. at /\ DOMAIN f.list = 1 .. Len(f.list) /\ Len(f.list) \in Nat
    BY <2>1, <2>2, FundTypes, LenProperties
  <2>4. PassedOK(f) => PassedOK(g)
    <3> SUFFICES ASSUME ReadOK(f.names, f.list) PROVE PassedOK(g)
      BY <1>4 DEF FundRead, PassedOK
    <3>1. ReadOK(g.names, g.list)
      <4> SUFFICES ASSUME NEW j \in 1 .. at PROVE g.list[j] = file[g.names[j]]
        BY <2>1, <2>3 DEF ReadOK
      <4>1. CASE j = at
        BY <2>1, <4>1
      <4>2. CASE j # at
        BY <2>1, <2>3, <4>2 DEF ReadOK
      <4> QED BY <4>1, <4>2
    <3>2. at = Len(f.names) => ListOK(g.list)
      BY <2>1, <2>2, <3>1, ReadListOK DEF MintedInv
    <3> QED BY <2>1, <3>1, <3>2 DEF PassedOK
  <2> QED BY <1>4, <2>1, <2>4, FundMints DEF FundRead
<1>2. CASE FundSync(r)
  <2>1. /\ \A q \in Funds \ {r} : fund'[q] = fund[q]
        /\ fund'[r].stage = "minting" /\ fund'[r].view = note[Definition]
        /\ fund'[r].list = fund[r].list /\ fund'[r].next = fund[r].next
    BY <1>2, FundTypes DEF FundSync, FundRec
  <2>2. fund[r].next = 1 /\ DOMAIN fund[r].list = 1 .. Len(fund[r].list)
        /\ Len(fund[r].list) \in Nat
    BY <1>2, FundTypes, LenProperties DEF FundSync, FundOK
  <2>3. fund[r].stage = "waiting" /\ \A i \in DOMAIN fund[r].list : ~(i < fund[r].next)
    BY <1>2, <2>2 DEF FundSync
  <2>4. PassedOK(fund[r]) => PassedOK(fund'[r])
    BY <2>1, <2>3 DEF PassedOK
  <2> QED BY <1>2, <2>1, <2>4, FundMints DEF FundSync
<1>3. CASE FundGivesUp(r) \/ MintTimesOut(r) \/ FundStops(r)
  <2>1. fund'[r].stage = "dead" /\ \A q \in Funds \ {r} : fund'[q] = fund[q]
    BY <1>3, FundTypes DEF FundGivesUp, MintTimesOut, FundStops, EndFund, FundRec
  <2>2. PassedOK(fund'[r])
    BY <2>1 DEF PassedOK
  <2>3. UNCHANGED <<fileVars, note, pool>>
    BY <1>3 DEF FundGivesUp, MintTimesOut, FundStops
  <2> QED BY <2>1, <2>2, <2>3, FundMints
<1> QED BY <1>1, <1>2, <1>3, <1>4, SendMintMints, SeeMintMints DEF FundStep

LEMMA NextMints ==
    ASSUME IInv, MintedInv, [Next]_vars, \A k \in Enrollees : Invocations[k].amount > 0,
           [\A k \in enrolled' \ enrolled, j \in enrolled : Before(j, k)]_vars
    PROVE  MintedInv'
<1>1. ASSUME NEW tx \in pool, ExecuteDefinition(tx) \/ ExecuteMint(tx) \/ ExecuteTransfer(tx)
      PROVE  MintedInv'
  BY <1>1, ExecuteMintMints, ExecuteOtherMints
<1>2. ASSUME UNCHANGED <<fileVars, note, fund>>,
             \A tx \in pool' : tx.kind = "mint" => tx \in pool
      PROVE  MintedInv'
  <2>1. /\ WriterInv' /\ OnFile' = OnFile
        /\ \A j \in Enrollees : Status(j)' = Status(j)
        /\ \A e : IsFunded(e)' = IsFunded(e)
    BY <1>2, SameNote DEF MintedInv, WriterInv, OnFile, IsFunded, fileVars
  <2>2. InTurnInv'
    BY <1>2, <2>1, OnFileFacts DEF MintedInv, InTurnInv, Before
  <2>3. PassedInv'
    BY <1>2, <2>1 DEF MintedInv, PassedInv, PassedOK, ListOK, ReadOK, fileVars
  <2> QED BY <2>1, <2>2, <2>3 DEF MintedInv
<1>3. CASE Freeze \/ UNCHANGED vars
  BY <1>2, <1>3 DEF Freeze, vars
<1>4. ASSUME NEW k \in Enrollees, Enroll(k) PROVE MintedInv'
  <2>1. k \in enrolled' \ enrolled
    BY <1>4 DEF Enroll
  <2>2. ~UNCHANGED vars
    BY <2>1 DEF vars, fileVars
  <2> QED BY <1>4, <2>1, <2>2, EnrollMints
<1>5. ASSUME NEW r \in Funds, FundList(r) \/ FundStep(r) \/ FundStops(r) PROVE MintedInv'
  BY <1>5, FundStepMints
<1>6. ASSUME NEW c \in Claims,
             ClaimStep(c) \/ ClaimStops(c) \/ \E n \in Names : ClaimLoad(c, n)
      PROVE  MintedInv'
  BY <1>2, <1>6 DEF ClaimLoad, ClaimStep, SeeFunds, NotFunded, SendClaim, SeeClaim,
                    ClaimDidNotLand, SecondClaim, ClaimStops, ClaimTx, TransferTx
<1> QED BY <1>1, <1>3, <1>4, <1>5, <1>6 DEF Next

LEMMA InitMints == Init => MintedInv
<1> SUFFICES ASSUME Init PROVE MintedInv
  OBVIOUS
<1>1. WriterInv
  BY DEF Init, WriterInv
<1>2. PassedInv /\ InTurnInv
  BY DEF Init, PassedInv, PassedOK, NewFund, InTurnInv, DefinitionTx
<1> QED BY <1>1, <1>2 DEF MintedInv

\* Of allocations above zero, and while nobody enrolls under a name that is not after
\* all others: a run of airdrop_fund that ends well has seen every allocation of its
\* list funded, by its own mint or by another run's.  The supply that it waits for says
\* so only because all runs mint in the order of the same names.
THEOREM AllMinted ==
    (\A k \in Enrollees : Invocations[k].amount > 0)
        => (Spec /\ EnrollsInOrder => []AllAllocationsMinted)
<1> SUFFICES ASSUME \A k \in Enrollees : Invocations[k].amount > 0
             PROVE  Spec /\ EnrollsInOrder => []AllAllocationsMinted
  OBVIOUS
<1>1. Init => MintedInv  BY InitMints
<1>2. /\ IInv /\ MintedInv /\ [Next]_vars
      /\ [\A k \in enrolled' \ enrolled, j \in enrolled : Before(j, k)]_vars
      => MintedInv'
  BY NextMints
<1>3. MintedInv => AllAllocationsMinted
  BY DEF MintedInv, PassedInv, PassedOK, IsFunded, AllAllocationsMinted
<1> QED BY <1>1, <1>2, <1>3, PayoutInvariance, PTL DEF Spec, EnrollsInOrder
=============================================================================
