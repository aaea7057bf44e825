-------------------------- MODULE Deployment_proofs --------------------------
(***************************************************************************)
(* The safety of Deployment for any enrollments, any number of runs of     *)
(* airdrop_deploy, any distribution ids and any calls of rivals.           *)
(***************************************************************************)
EXTENDS Deployment, FiniteSetTheorems, SequenceTheorems, TLAPS

Keys(r) == {Distributor(r), Definition(r), Supply(r)}

\* The enrollments of recipients who have stored their keys.
Stored == {Enrollment(k) : k \in {j \in Enrollees : DAccount(j) \in RecipientKeys}}

\* A root over distinct enrollments whose recipients have stored their keys.
RootStored(root) ==
    \E S \in SUBSET Enrollees : \E order \in SetToSeqs(S) :
        /\ root = Root([j \in DOMAIN order |-> Leaf(DAccount(order[j]))])
        /\ {DAccount(k) : k \in S} \subseteq RecipientKeys

\* The total of the amounts of enrollees.
AmountOf(S) == MapThenSumSet(LAMBDA k : Invocations[k].amount, S)

\* Terms that are of one list of enrollments, in the order of their names.
OneList(terms) ==
    \E S \in SUBSET Enrollees : \E order \in SetToSeqs(S) :
        /\ \A j, l \in DOMAIN order :
             j < l => Invocations[order[j]].name < Invocations[order[l]].name
        /\ terms.root = Root([j \in DOMAIN order |-> Leaf(DAccount(order[j]))])
        /\ terms.num_eligible = Cardinality(S)
        /\ terms.total_allocation = AmountOf(S)

\* What a run that reads file by file has read: whatever is written meanwhile, the
\* next file is there, and has the name that was listed.
Reading(r) ==
    LET names == plan[r].names
        enrollments == plan[r].enrollments
    IN /\ plan[r] = [names |-> names, enrollments |-> enrollments]
       /\ names \in Seq(Names)
       /\ \A j, l \in DOMAIN names : j < l => names[j] < names[l]
       /\ \A j \in DOMAIN names : file[names[j]] # None
       /\ enrollments \in Seq(Stored)
       /\ Len(enrollments) <= Len(names)
       /\ \A j \in DOMAIN enrollments : enrollments[j].name = names[j]

\* What a run has computed.
Planned(r) ==
    /\ stage[r] \notin {"off", "reading"}
    /\ plan[r].distribution_id \in Ids
    /\ plan[r].total_allocation \in 0 .. MaxAmount
    /\ RootStored(plan[r].root)
    /\ OneList(plan[r])

\* A run that can answer for whatever it sends or writes.
Answers(r) == Planned(r) /\ Keys(r) \subseteq OurKeys

RunOK(r) ==
    /\ stage[r] \in Stages
    /\ stage[r] = "off" => plan[r] = None
    /\ stage[r] = "reading" => Reading(r)
    /\ stage[r] \notin {"off", "reading", "dead"} => Planned(r)
    /\ stage[r] \in {"distributor", "airdrop", "token", "auth"} => Distributor(r) \in OurKeys
    /\ stage[r] \in {"keyed", "defined", "sent", "seen", "writing", "done"} => Answers(r)
    /\ stage[r] \in {"seen", "writing", "done"} => Committed(plan[r].distribution_id)

\* The freeze of what run r deployed, by its owner.
FreezeTx(r) ==
    [kind |-> "call",
     call |-> Guest!DocumentedFreezeCall(plan[r].distribution_id, Distributor(r))]

\* What is in the pool was sent by a run that answers for it, or after it by its owner.
TxOK(tx) ==
    /\ tx.kind = "definition" => \E r \in Runs : Answers(r) /\ tx = DefinitionTx(r)
    /\ tx.kind = "call" =>
         \E r \in Runs : /\ Answers(r)
                         /\ tx = InitializeTx(r) \/ (stage[r] = "done" /\ tx = FreezeTx(r))

\* So was what is on the chain.
DefinitionOK(d) ==
    \E r \in Runs : /\ Answers(r)
                    /\ d = [token |-> Definition(r), supply |-> plan[r].total_allocation]

StateOK(i, s) ==
    \/ s.distributor \in Rivals
    \/ \E r \in Runs : /\ Answers(r)
                       /\ s.distributor = Distributor(r)
                       /\ s.root = plan[r].root
                       /\ s.token_definition = Definition(r)
                       /\ s.total_allocation = plan[r].total_allocation
                       /\ s.num_eligible = plan[r].num_eligible
                       /\ s.active # 1 => stage[r] = "done" /\ plan[r].distribution_id = i

FileOK(n) ==
    file[n] \notin {None, Torn} =>
        \E k \in Enrollees : /\ file[n] = Enrollment(k)
                             /\ Invocations[k].name = n
                             /\ DAccount(k) \in RecipientKeys

FileInv ==
    /\ enroll \in [Enrollees -> {"new", "stored", "writing", "done"}]
    /\ recipientWallet = [n \in Names |-> recipientWallet[n]]
    /\ \A n \in Names :
         recipientWallet[n] = None \/ recipientWallet[n] \subseteq RecipientAccounts
    /\ file = [n \in Names |-> file[n]]
    /\ \A k \in Enrollees : enroll[k] # "new" => DAccount(k) \in RecipientKeys
    /\ \A n \in Names : FileOK(n)

RunInv ==
    /\ wallet = None \/ wallet \subseteq DistributorAccounts
    /\ stage \in [Runs -> Stages]
    /\ plan = [r \in Runs |-> plan[r]]
    /\ \A r \in Runs : RunOK(r)
    /\ HaveManifest => \E r \in Runs : stage[r] = "done" /\ manifest = Manifest(r)

PoolInv == \A tx \in pool : TxOK(tx)

ChainInv ==
    /\ programs \subseteq {"airdrop", "token"}
    /\ \A d \in definitions : DefinitionOK(d)
    /\ account = [p \in Guest!Pdas |-> account[p]]
    /\ \A i \in Ids : Committed(i) => StateOK(i, State(i))

IInv == FileInv /\ RunInv /\ PoolInv /\ ChainInv

-----------------------------------------------------------------------------
(* Nothing is taken back: runs keep their plans, wallets their keys,       *)
(* directories their names, and the chain what was committed.              *)

Grows ==
    /\ \A r \in Runs : stage[r] \notin {"off", "reading"} =>
         stage'[r] \notin {"off", "reading"} /\ plan'[r] = plan[r]
    /\ \A r \in Runs : stage[r] = "done" => stage'[r] = "done"
    /\ OurKeys \subseteq OurKeys'
    /\ RecipientKeys \subseteq RecipientKeys'
    /\ \A n \in Names : file[n] # None => file'[n] # None
    /\ \A i \in Ids : Committed(i) => Committed(i)'

LEMMA RootGrows ==
    ASSUME Grows, NEW root, RootStored(root)
    PROVE  RootStored(root)'
<1>1. PICK S \in SUBSET Enrollees : \E order \in SetToSeqs(S) :
         /\ root = Root([j \in DOMAIN order |-> Leaf(DAccount(order[j]))])
         /\ {DAccount(k) : k \in S} \subseteq RecipientKeys
  BY DEF RootStored
<1>2. {DAccount(k) : k \in S} \subseteq RecipientKeys'
  BY <1>1 DEF Grows
<1> QED BY <1>1, <1>2 DEF RootStored

LEMMA AnswersGrows ==
    ASSUME Grows, NEW r \in Runs
    PROVE  /\ Planned(r) => Planned(r)' /\ plan'[r] = plan[r]
           /\ Answers(r) => Answers(r)' /\ plan'[r] = plan[r]
<1>1. ASSUME Planned(r) PROVE Planned(r)' /\ plan'[r] = plan[r]
  <2>1. plan'[r] = plan[r] /\ stage'[r] \notin {"off", "reading"}
    BY <1>1 DEF Planned, Grows
  <2>2. RootStored(plan[r].root)'
    <3>1. \A x : RootStored(x) => RootStored(x)'
      BY RootGrows
    <3>2. RootStored(plan[r].root)
      BY <1>1 DEF Planned
    <3> QED BY <2>1, <3>1, <3>2
  <2> QED BY <1>1, <2>1, <2>2 DEF Planned
<1>2. ASSUME Answers(r) PROVE Answers(r)'
  <2>1. Keys(r) \subseteq OurKeys' /\ Planned(r)
    BY <1>2 DEF Answers, Grows
  <2> QED BY <1>1, <2>1 DEF Answers, Keys
<1> QED BY <1>1, <1>2 DEF Answers

LEMMA TxGrows ==
    ASSUME Grows, NEW tx, TxOK(tx)
    PROVE  TxOK(tx)'
<1>1. \A r \in Runs : Answers(r) => /\ Answers(r)'
                                    /\ DefinitionTx(r)' = DefinitionTx(r)
                                    /\ InitializeTx(r)' = InitializeTx(r)
                                    /\ FreezeTx(r)' = FreezeTx(r)
  BY AnswersGrows DEF DefinitionTx, InitializeTx, FreezeTx
<1>2. \A r \in Runs : stage[r] = "done" => stage'[r] = "done"
  BY DEF Grows
<1> QED BY <1>1, <1>2 DEF TxOK

LEMMA ChainGrows ==
    ASSUME Grows
    PROVE  /\ \A d : DefinitionOK(d) => DefinitionOK(d)'
           /\ \A i, s : StateOK(i, s) => StateOK(i, s)'
<1>1. \A r \in Runs : stage[r] = "done" => stage'[r] = "done"
  BY DEF Grows
<1> QED BY <1>1, AnswersGrows DEF DefinitionOK, StateOK

LEMMA ReadingGrows ==
    ASSUME Grows, NEW r \in Runs, plan'[r] = plan[r], Reading(r)
    PROVE  Reading(r)'
<1>1. Stored \subseteq Stored'
  BY DEF Grows, Stored
<1> DEFINE names == plan[r].names
           enrollments == plan[r].enrollments
<1>2. \A j \in DOMAIN names : names[j] \in Names /\ file'[names[j]] # None
  <2>1. names \in Seq(Names)
    BY DEF Reading
  <2>2. \A j \in DOMAIN names : names[j] \in Names
    <3> HIDE DEF names
    <3> QED BY <2>1, ElementOfSeq, LenProperties
  <2> QED BY <2>2 DEF Reading, Grows
<1>3. enrollments \in Seq(Stored')
  <2>1. enrollments \in Seq(Stored)
    BY DEF Reading
  <2> HIDE DEF enrollments
  <2> QED BY <1>1, <2>1
<1> QED BY <1>2, <1>3 DEF Reading

LEMMA RunGrows ==
    ASSUME Grows, IInv, NEW r \in Runs, stage'[r] = stage[r], plan'[r] = plan[r]
    PROVE  RunOK(r)'
<1>1. RunOK(r)
  BY DEF IInv, RunInv
<1>2. /\ Planned(r) => Planned(r)'
      /\ Answers(r) => Answers(r)'
  BY AnswersGrows
<1>3. /\ Distributor(r) \in OurKeys => Distributor(r) \in OurKeys'
      /\ Reading(r) => Reading(r)'
  BY ReadingGrows DEF Grows
<1>4. ASSUME stage[r] \in {"seen", "writing", "done"}
      PROVE  Committed(plan[r].distribution_id)'
  <2>1. Committed(plan[r].distribution_id) /\ plan[r].distribution_id \in Ids
    BY <1>1, <1>4 DEF RunOK, Planned
  <2> DEFINE i == plan[r].distribution_id
  <2>2. plan'[r].distribution_id = i
    OBVIOUS
  <2>3. \A j \in Ids : Committed(j) => Committed(j)'
    BY DEF Grows
  <2> QED BY <2>1, <2>2, <2>3 DEF Committed
<1> QED BY <1>1, <1>2, <1>3, <1>4 DEF RunOK

LEMMA ManifestGrows ==
    ASSUME Grows, IInv, manifest' \in {manifest, Torn}
    PROVE  HaveManifest' => \E r \in Runs : stage'[r] = "done" /\ manifest' = Manifest(r)'
<1> SUFFICES ASSUME manifest' = manifest, HaveManifest
             PROVE  \E r \in Runs : stage'[r] = "done" /\ manifest' = Manifest(r)'
  BY DEF HaveManifest
<1>1. PICK r \in Runs : stage[r] = "done" /\ manifest = Manifest(r)
  BY DEF IInv, RunInv
<1>2. stage'[r] = "done" /\ plan'[r] = plan[r]
  BY <1>1 DEF Grows
<1> QED BY <1>1, <1>2 DEF Manifest

-----------------------------------------------------------------------------
(* Totals.  TotalAllocation adds up a list from its end, the properties    *)
(* add up a set of enrollments in any order.                               *)

NoAmount(x) == 0
PlusLast(list, s, sum) == sum + list[Max(s)].amount
PlusAny(x, s, sum) == Invocations[CHOOSE k \in s : TRUE].amount + sum

ListSums == INSTANCE Recursion WITH First <- NoAmount, Body <- PlusLast
SetSums == INSTANCE Recursion WITH First <- NoAmount, Body <- PlusAny

\* g adds up the weights w over the subsets of D, in the order in which c takes them.
IsSum(g, D, w, c) ==
    /\ g = [s \in SUBSET D |-> g[s]]
    /\ g[{}] = 0
    /\ \A s \in SUBSET D : s # {} =>
         /\ c[s] \in s
         /\ \/ g[s] = w[c[s]] + g[s \ {c[s]}]
            \/ g[s] = g[s \ {c[s]}] + w[c[s]]

\* A sum is a natural number, and any element may be taken first.
LEMMA SumFacts ==
    ASSUME NEW D, IsFiniteSet(D), NEW w \in [D -> Nat], NEW c, NEW g, IsSum(g, D, w, c)
    PROVE  \A s \in SUBSET D : /\ g[s] \in Nat
                               /\ \A x \in s : g[s] = w[x] + g[s \ {x}]
<1> DEFINE T == {s \in SUBSET D : /\ g[s] \in Nat
                                  /\ \A x \in s : g[s] = w[x] + g[s \ {x}]}
<1>1. ASSUME NEW s \in SUBSET D, \A t \in SUBSET s : t # s => t \in T
      PROVE  s \in T
  <2>1. CASE s = {}
    BY <2>1 DEF IsSum
  <2>2. CASE s # {}
    <3> DEFINE y == c[s]
    <3>1. y \in s /\ s \ {y} \in T
      BY <1>1, <2>2 DEF IsSum
    <3>2. w[y] \in Nat /\ g[s \ {y}] \in Nat
      BY <3>1
    <3>3. g[s] = w[y] + g[s \ {y}] \/ g[s] = g[s \ {y}] + w[y]
      BY <2>2 DEF IsSum
    <3> HIDE DEF y
    <3>5. g[s] = w[y] + g[s \ {y}] /\ g[s] \in Nat
      BY <3>2, <3>3
    <3>4. ASSUME NEW x \in s, x # y
          PROVE  g[s] = w[x] + g[s \ {x}]
      <4>1. s \ {x} \in T /\ y \in s \ {x} /\ x \in s \ {y}
        BY <1>1, <3>1, <3>4
      <4>2. (s \ {x}) \ {y} = (s \ {y}) \ {x}
        OBVIOUS
      <4>3. g[s \ {x}] = w[y] + g[(s \ {x}) \ {y}]
        BY <4>1
      <4>4. g[s \ {y}] = w[x] + g[(s \ {x}) \ {y}]
        BY <3>1, <4>1, <4>2
      <4>5. w[x] \in Nat /\ g[(s \ {x}) \ {y}] \in Nat
        BY <1>1, <3>1, <4>1
      <4> QED BY <3>2, <3>5, <4>3, <4>4, <4>5
    <3> QED BY <3>1, <3>4, <3>5
  <2> QED BY <2>1, <2>2
<1>2. \A s \in SUBSET D : s \in T
  <2> HIDE DEF T
  <2> QED BY <1>1, SetSums!FiniteInduction DEF SetSums!IsFiniteSet, IsFiniteSet
<1> QED BY <1>2

\* Sums of weights that correspond are equal.
LEMMA SumsAgree ==
    ASSUME NEW D, IsFiniteSet(D), NEW w \in [D -> Nat], NEW c, NEW g, IsSum(g, D, w, c),
           NEW E, IsFiniteSet(E), NEW v \in [E -> Nat], NEW d, NEW h, IsSum(h, E, v, d),
           NEW b, b \in Bijection(D, E), \A x \in D : w[x] = v[b[x]]
    PROVE  g[D] = h[E]
<1> DEFINE Image(s) == {b[x] : x \in s}
           T == {s \in SUBSET D : g[s] = h[Image(s)]}
<1>1. /\ \A x \in D : b[x] \in E
      /\ \A x, y \in D : b[x] = b[y] => x = y
      /\ \A z \in E : \E x \in D : b[x] = z
  BY DEF Bijection, Injection, Surjection, IsInjective
<1>2. ASSUME NEW s \in SUBSET D, \A t \in SUBSET s : t # s => t \in T
      PROVE  s \in T
  <2>1. CASE s = {}
    BY <2>1 DEF IsSum
  <2>2. CASE s # {}
    <3>1. PICK x \in s : TRUE
      BY <2>2
    <3>2. s \ {x} \in T
      BY <1>2, <3>1
    <3>3. Image(s) \in SUBSET E /\ b[x] \in Image(s) /\ Image(s) \ {b[x]} = Image(s \ {x})
      BY <1>1
    <3>4. g[s] = w[x] + g[s \ {x}]
      BY SumFacts
    <3>5. h[Image(s)] = v[b[x]] + h[Image(s) \ {b[x]}]
      <4> HIDE DEF Image
      <4> QED BY <3>3, SumFacts
    <3> QED BY <3>2, <3>3, <3>4, <3>5
  <2> QED BY <2>1, <2>2
<1>3. \A s \in SUBSET D : s \in T
  <2> HIDE DEF T
  <2> QED BY <1>2, SetSums!FiniteInduction DEF SetSums!IsFiniteSet, IsFiniteSet
<1>4. Image(D) = E
  BY <1>1
<1> QED BY <1>3, <1>4

LEMMA AmountIsSum ==
    ASSUME NEW S \in SUBSET Enrollees, IsFiniteSet(S)
    PROVE  \E g, c : /\ IsSum(g, S, [k \in S |-> Invocations[k].amount], c)
                     /\ AmountOf(S) = g[S]
<1> DEFINE c == [s \in SUBSET S |-> CHOOSE k \in s : TRUE]
           w == [k \in S |-> Invocations[k].amount]
           Solves(g) == g = [s \in SUBSET S |->
                               IF s = {} THEN 0
                               ELSE Invocations[CHOOSE k \in s : TRUE].amount
                                      + g[s \ {CHOOSE k \in s : TRUE}]]
<1>1. \A s \in SUBSET S : s # {} => c[s] \in s
  OBVIOUS
<1>2. \E g : Solves(g)
  <2>1. PICK g : SetSums!IsSetRecursive(g, 0, c, SUBSET S)
    <3> HIDE DEF c
    <3> QED BY <1>1, SetSums!SetRecursionExists DEF SetSums!IsFiniteSet, IsFiniteSet
  <2>2. Solves(g)
    BY <2>1 DEF SetSums!IsSetRecursive, NoAmount, PlusAny
  <2> QED BY <2>2
<1> DEFINE f == CHOOSE g : Solves(g)
<1>3. Solves(f)
  <2> HIDE DEF Solves
  <2> QED BY <1>2
<1>4. AmountOf(S) = f[S]
  BY DEF AmountOf, MapThenSumSet, MapThenFoldSet
<1> HIDE DEF f
<1>5. IsSum(f, S, w, c)
  BY <1>1, <1>3 DEF IsSum
<1> QED BY <1>4, <1>5

LEMMA TotalIsSum ==
    ASSUME NEW n \in Nat, NEW list, DOMAIN list = 1 .. n
    PROVE  \E g, c : /\ IsSum(g, 1 .. n, [j \in 1 .. n |-> list[j].amount], c)
                     /\ TotalAllocation(list) = g[1 .. n]
<1> DEFINE D == 1 .. n
           c == [s \in SUBSET D |-> Max(s)]
           w == [j \in D |-> list[j].amount]
           Solves(g) == g = [s \in SUBSET D |->
                               IF s = {} THEN 0 ELSE g[s \ {Max(s)}] + list[Max(s)].amount]
<1>1. \A s \in SUBSET D : s # {} => c[s] \in s
  <2> SUFFICES ASSUME NEW s \in SUBSET D, s # {} PROVE Max(s) \in s
    OBVIOUS
  <2>1. s \in SUBSET (0 .. n) /\ s \in SUBSET Int
    OBVIOUS
  <2>2. \E x \in s : \A y \in s : y <= x
    <3> HIDE DEF D
    <3> QED BY <2>1, ListSums!GreatestMember
  <2>3. \E x \in s : \A y \in s : x >= y
    BY <2>1, <2>2
  <2> QED BY <2>3 DEF Max
<1>2. \E g : Solves(g)
  <2>1. PICK g : ListSums!IsSetRecursive(g, list, c, SUBSET D)
    <3>1. IsFiniteSet(D)
      BY FS_Interval
    <3> HIDE DEF c, D
    <3> QED BY <1>1, <3>1, ListSums!SetRecursionExists
          DEF ListSums!IsFiniteSet, IsFiniteSet
  <2>2. Solves(g)
    BY <2>1 DEF ListSums!IsSetRecursive, NoAmount, PlusLast
  <2> QED BY <2>2
<1> DEFINE f == CHOOSE g : Solves(g)
<1>3. Solves(f)
  <2> HIDE DEF Solves
  <2> QED BY <1>2
<1>4. TotalAllocation(list) = f[D]
  BY DEF TotalAllocation, FoldLeft, MapThenFoldSet
<1> HIDE DEF f
<1>5. IsSum(f, D, w, c)
  BY <1>1, <1>3 DEF IsSum
<1> QED BY <1>4, <1>5

-----------------------------------------------------------------------------
(* Listings *)

LEMMA EnrolleesFinite == IsFiniteSet(Enrollees) /\ IsFiniteSet(Names)
<1>1. IsFiniteSet(Enrollees)
  <2>1. Len(Invocations) \in Nat /\ Enrollees = 1 .. Len(Invocations)
    BY InvocationsAssumption, LenProperties DEF Enrollees
  <2> QED BY <2>1, FS_Interval
<1> DEFINE f == [k \in Enrollees |-> Invocations[k].name]
<1>2. f \in Surjection(Enrollees, Names)
  BY DEF Surjection, Names
<1> QED BY <1>1, <1>2, FS_Surjection

LEMMA InvocationFacts ==
    \A k \in Enrollees : Invocations[k].name \in Nat /\ Invocations[k].amount \in Nat
<1>1. Enrollees = 1 .. Len(Invocations)
  BY InvocationsAssumption, LenProperties DEF Enrollees
<1>2. \A k \in 1 .. Len(Invocations) : Invocations[k] \in [name : Nat, amount : Nat]
  BY InvocationsAssumption, ElementOfSeq
<1> QED BY <1>1, <1>2

\* The directory is finite, so a listing of it is a sequence of names: those of the
\* files there are, in order.
LEMMA ListingFacts ==
    \A names \in Listings :
        /\ names \in Seq(Names)
        /\ \A j \in DOMAIN names : file[names[j]] # None
        /\ \A n \in Names : file[n] # None => \E j \in DOMAIN names : names[j] = n
        /\ \A i, j \in DOMAIN names : i < j => names[i] < names[j]
<1> DEFINE T == {n \in Names : file[n] # None}
           size == Cardinality(T)
<1> SUFFICES ASSUME NEW names \in Listings
             PROVE  /\ names \in Seq(Names)
                    /\ \A j \in DOMAIN names : names[j] \in T
                    /\ \A n \in T : \E j \in DOMAIN names : names[j] = n
                    /\ \A i, j \in DOMAIN names : i < j => names[i] < names[j]
  OBVIOUS
<1>1. IsFiniteSet(T) /\ T \subseteq Names
  BY EnrolleesFinite, FS_Subset
<1>2. size \in Nat
  BY <1>1, FS_CardinalityType
<1>3. /\ names \in SetToSeqs(T)
      /\ \A i, j \in DOMAIN names : i < j => names[i] < names[j]
  BY DEF Listings
<1>4. names \in [1 .. size -> T] /\ \A i, j \in 1 .. size : i # j => names[i] # names[j]
  BY <1>3 DEF SetToSeqs
<1>5. \A n \in T : \E j \in DOMAIN names : names[j] = n
  <2>1. IsFiniteSet(1 .. size) /\ Cardinality(1 .. size) = size
    BY <1>2, FS_Interval
  <2>2. names \in Injection(1 .. size, T)
    BY <1>4 DEF Injection, IsInjective
  <2>3. names \in Surjection(1 .. size, T)
    BY <1>1, <2>1, <2>2, FS_Injection
  <2> QED BY <1>4, <2>3 DEF Surjection
<1> HIDE DEF size, T
<1>6. names \in [1 .. size -> Names]
  <2>1. names \in [1 .. size -> T] /\ T \subseteq Names
    BY <1>1, <1>4
  <2> QED BY <2>1
<1>7. names \in Seq(Names)
  BY <1>2, <1>6, SeqDef
<1> QED BY <1>3, <1>4, <1>5, <1>7 DEF T

\* A list has the total of the enrollees it lists.
LEMMA ListTotal ==
    ASSUME NEW n \in Nat, NEW list, DOMAIN list = 1 .. n,
           NEW S \in SUBSET Enrollees, NEW order \in Bijection(1 .. n, S),
           \A j \in 1 .. n : list[j].amount = Invocations[order[j]].amount
    PROVE  TotalAllocation(list) = AmountOf(S)
<1> DEFINE D == 1 .. n
           w == [j \in D |-> list[j].amount]
           v == [k \in S |-> Invocations[k].amount]
<1>1. \A j \in D : order[j] \in S
  BY DEF Bijection, Injection
<1>2. IsFiniteSet(D) /\ IsFiniteSet(S)
  BY EnrolleesFinite, FS_Interval, FS_Subset
<1>3. v \in [S -> Nat]
  BY InvocationFacts
<1>4. w \in [D -> Nat]
  BY <1>1, InvocationFacts
<1>5. \A j \in D : w[j] = v[order[j]]
  BY <1>1
<1>6. PICK g, c : IsSum(g, D, w, c) /\ TotalAllocation(list) = g[D]
  BY TotalIsSum
<1>7. PICK h, d : IsSum(h, S, v, d) /\ AmountOf(S) = h[S]
  BY <1>2, AmountIsSum
<1>8. order \in Bijection(D, S)
  OBVIOUS
<1> HIDE DEF w, v, D
<1>9. g[D] = h[S]
  BY <1>2, <1>3, <1>4, <1>5, <1>6, <1>7, <1>8, SumsAgree
<1> QED BY <1>6, <1>7, <1>9

\* A list of enrollments with stored keys, in the order of their names, has their
\* leaves, their number and their total.
LEMMA ListOrder ==
    ASSUME NEW n \in Nat, NEW list, list \in [1 .. n -> Stored],
           \A i, j \in 1 .. n : i < j => list[i].name < list[j].name
    PROVE  \E S \in SUBSET Enrollees : \E order \in SetToSeqs(S) :
               /\ \A j, l \in DOMAIN order :
                    j < l => Invocations[order[j]].name < Invocations[order[l]].name
               /\ EligibilityRoot(list) = Root([j \in DOMAIN order |-> Leaf(DAccount(order[j]))])
               /\ {DAccount(k) : k \in S} \subseteq RecipientKeys
               /\ n = Cardinality(S)
               /\ TotalAllocation(list) = AmountOf(S)
<1> DEFINE order == [j \in 1 .. n |-> CHOOSE k \in Enrollees :
                        list[j] = Enrollment(k) /\ DAccount(k) \in RecipientKeys]
<1>5. \A j \in 1 .. n : /\ order[j] \in Enrollees
                        /\ list[j] = Enrollment(order[j])
                        /\ DAccount(order[j]) \in RecipientKeys
  <2>1. \A e \in Stored : \E k \in Enrollees : e = Enrollment(k) /\ DAccount(k) \in RecipientKeys
    BY DEF Stored
  <2> QED BY <2>1
<1>6. order = [j \in 1 .. n |-> order[j]] /\ DOMAIN order = 1 .. n
  OBVIOUS
<1> HIDE DEF order
<1> DEFINE S == {order[j] : j \in 1 .. n}
<1>3. \A j, l \in 1 .. n :
        j < l => Invocations[order[j]].name < Invocations[order[l]].name
  <2>1. \A k \in Enrollees : Enrollment(k).name = Invocations[k].name
    BY DEF Enrollment
  <2>2. \A j \in 1 .. n : list[j].name = Invocations[order[j]].name
    BY <1>5, <2>1
  <2> QED BY <2>2
<1>7. order \in [1 .. n -> S] /\ \A i, j \in 1 .. n : i # j => order[i] # order[j]
  <2>1. ASSUME NEW i \in 1 .. n, NEW j \in 1 .. n, i # j
        PROVE  order[i] # order[j]
    <3>1. \A l \in 1 .. n : Invocations[order[l]].name \in Nat
      BY <1>5, InvocationFacts
    <3>2. i < j \/ j < i
      BY <2>1
    <3>3. \/ Invocations[order[i]].name < Invocations[order[j]].name
          \/ Invocations[order[j]].name < Invocations[order[i]].name
      BY <1>3, <3>2
    <3> QED BY <3>1, <3>3
  <2>2. order \in [1 .. n -> S]
    BY <1>6
  <2> QED BY <2>1, <2>2
<1>8. Cardinality(S) = n
  <2>1. IsFiniteSet(1 .. n) /\ Cardinality(1 .. n) = n
    BY FS_Interval
  <2>2. order \in Bijection(1 .. n, S)
    <3>1. \A k \in S : \E j \in 1 .. n : order[j] = k
      OBVIOUS
    <3>2. order \in Injection(1 .. n, S)
      BY <1>7 DEF Injection, IsInjective
    <3>3. order \in Surjection(1 .. n, S)
      BY <1>7, <3>1 DEF Surjection
    <3> QED BY <3>2, <3>3 DEF Bijection
  <2>3. ExistsBijection(1 .. n, S)
    BY <2>2 DEF ExistsBijection
  <2> HIDE DEF S
  <2> QED BY <2>1, <2>3, FS_Bijection
<1>9. order \in SetToSeqs(S)
  BY <1>7, <1>8 DEF SetToSeqs
<1>10. EligibilityRoot(list) = Root([j \in DOMAIN order |-> Leaf(DAccount(order[j]))])
  <2>1. DOMAIN list = 1 .. n
    OBVIOUS
  <2>2. \A j \in 1 .. n : list[j].leaf = Leaf(DAccount(order[j]))
    <3>1. \A k \in Enrollees : Enrollment(k).leaf = Leaf(DAccount(k))
      BY DEF Enrollment
    <3> QED BY <1>5, <3>1
  <2>3. [j \in DOMAIN list |-> list[j].leaf]
           = [j \in DOMAIN order |-> Leaf(DAccount(order[j]))]
    BY <1>6, <2>1, <2>2
  <2> QED BY <2>3 DEF EligibilityRoot
<1>11. S \subseteq Enrollees /\ {DAccount(k) : k \in S} \subseteq RecipientKeys
  BY <1>5
<1>12. n = Cardinality(S)
  BY <1>8
<1>13. TotalAllocation(list) = AmountOf(S)
  <2>1. order \in Bijection(1 .. n, S)
    <3>1. \A k \in S : \E j \in 1 .. n : order[j] = k
      OBVIOUS
    <3> HIDE DEF S
    <3> QED BY <1>7, <3>1 DEF Bijection, Injection, Surjection, IsInjective
  <2>2. \A j \in 1 .. n : list[j].amount = Invocations[order[j]].amount
    <3>1. \A k \in Enrollees : Enrollment(k).amount = Invocations[k].amount
      BY DEF Enrollment
    <3> QED BY <1>5, <3>1
  <2>3. DOMAIN list = 1 .. n
    OBVIOUS
  <2> HIDE DEF S
  <2> QED BY <1>11, <2>1, <2>2, <2>3, ListTotal
<1>14. \A j, l \in DOMAIN order :
         j < l => Invocations[order[j]].name < Invocations[order[l]].name
  BY <1>3, <1>6
<1> HIDE DEF S
<1> QED BY <1>9, <1>10, <1>11, <1>12, <1>13, <1>14

LEMMA ListTerms ==
    ASSUME NEW list \in Seq(Stored),
           \A i, j \in DOMAIN list : i < j => list[i].name < list[j].name,
           NEW terms,
           terms.root = EligibilityRoot(list),
           terms.num_eligible = Len(list),
           terms.total_allocation = TotalAllocation(list)
    PROVE  RootStored(terms.root) /\ OneList(terms)
<1>1. /\ Len(list) \in Nat /\ DOMAIN list = 1 .. Len(list)
      /\ list \in [1 .. Len(list) -> Stored]
  BY LenProperties
<1>2. PICK S \in SUBSET Enrollees : \E order \in SetToSeqs(S) :
        /\ \A j, l \in DOMAIN order :
             j < l => Invocations[order[j]].name < Invocations[order[l]].name
        /\ EligibilityRoot(list) = Root([j \in DOMAIN order |-> Leaf(DAccount(order[j]))])
        /\ {DAccount(k) : k \in S} \subseteq RecipientKeys
        /\ Len(list) = Cardinality(S)
        /\ TotalAllocation(list) = AmountOf(S)
  BY <1>1, ListOrder
<1> QED BY <1>2 DEF RootStored, OneList

\* Names can be listed in their order.
LEMMA SortingExists ==
    ASSUME NEW D \in SUBSET Nat, IsFiniteSet(D)
    PROVE  \E list \in SetToSeqs(D) :
               \A i, j \in DOMAIN list : i < j => list[i] < list[j]
<1> DEFINE Sorted(list) == \A i, j \in DOMAIN list : i < j => list[i] < list[j]
           T == {s \in SUBSET D : \E list \in SetToSeqs(s) : Sorted(list)}
<1>1. ASSUME NEW s \in SUBSET D, \A t \in SUBSET s : t # s => t \in T
      PROVE  s \in T
  <2>1. CASE s = {}
    <3> DEFINE list == [i \in 1 .. 0 |-> i]
    <3>1. list \in SetToSeqs({})
      BY FS_EmptySet DEF SetToSeqs
    <3> QED BY <2>1, <3>1
  <2>2. CASE s # {}
    <3>1. s \in SUBSET Nat
      OBVIOUS
    <3>2. PICK e \in s : \A k \in s : e <= k
      BY <2>2, <3>1, SetSums!LeastMember
    <3> DEFINE t == s \ {e}
               n == Cardinality(t)
    <3>4. \A f \in t : e < f /\ f \in Nat
      BY <3>1, <3>2
    <3>5. IsFiniteSet(t) /\ n \in Nat /\ Cardinality(s) = n + 1
      <4>1. IsFiniteSet(s) /\ Cardinality(s) \in Nat
        BY FS_Subset, FS_CardinalityType
      <4>2. IsFiniteSet(t) /\ Cardinality(t) = Cardinality(s) - 1
        BY <4>1, FS_RemoveElement
      <4>3. Cardinality(t) \in Nat
        BY <4>2, FS_CardinalityType
      <4> QED BY <4>1, <4>2, <4>3
    <3>6. PICK rest \in SetToSeqs(t) : Sorted(rest)
      BY <1>1
    <3> HIDE DEF n, t
    <3>7. rest \in [1 .. n -> t] /\ \A i, j \in 1 .. n : i # j => rest[i] # rest[j]
      BY <3>6 DEF SetToSeqs, n
    <3> DEFINE list == [i \in 1 .. n + 1 |-> IF i = 1 THEN e ELSE rest[i - 1]]
    <3>8. \A i \in 1 .. n + 1 : i # 1 => i - 1 \in 1 .. n /\ list[i] = rest[i - 1]
      BY <3>5
    <3>9. list \in [1 .. n + 1 -> s]
      BY <3>5, <3>7, <3>8 DEF t
    <3>10. \A i, j \in 1 .. n + 1 : i < j => list[i] < list[j]
      <4> SUFFICES ASSUME NEW i \in 1 .. n + 1, NEW j \in 1 .. n + 1, i < j
                   PROVE  list[i] < list[j]
        OBVIOUS
      <4>1. j - 1 \in 1 .. n /\ list[j] = rest[j - 1] /\ rest[j - 1] \in t
        BY <3>5, <3>7, <3>8
      <4>2. CASE i = 1
        BY <3>4, <3>5, <4>1, <4>2
      <4>3. CASE i # 1
        <5>1. i - 1 \in 1 .. n /\ list[i] = rest[i - 1] /\ i - 1 < j - 1
          BY <3>5, <3>8, <4>3
        <5> HIDE DEF list
        <5>2. rest[i - 1] < rest[j - 1]
          BY <3>6, <3>7, <4>1, <5>1
        <5> QED BY <4>1, <5>1, <5>2
      <4> QED BY <4>2, <4>3
    <3> HIDE DEF list
    <3>11. \A i, j \in 1 .. n + 1 : i # j => list[i] # list[j]
      <4> SUFFICES ASSUME NEW i \in 1 .. n + 1, NEW j \in 1 .. n + 1, i < j
                   PROVE  list[i] # list[j]
        BY <3>5
      <4>1. list[i] < list[j] /\ list[i] \in Nat
        BY <3>1, <3>9, <3>10
      <4> QED BY <4>1
    <3>12. list \in SetToSeqs(s) /\ Sorted(list)
      BY <3>5, <3>9, <3>10, <3>11 DEF SetToSeqs
    <3> QED BY <3>12
  <2> QED BY <2>1, <2>2
<1>2. \A s \in SUBSET D : s \in T
  <2> HIDE DEF T
  <2> QED BY <1>1, SetSums!FiniteInduction DEF SetSums!IsFiniteSet, IsFiniteSet
<1> QED BY <1>2

\* A directory that can be read, at a moment at which nobody writes, is a list of
\* enrollments with stored keys.
LEMMA QuietDirectory ==
    ASSUME IInv, DirectoryReadable
    PROVE  /\ Enrollments \in Seq(Stored)
           /\ \A i, j \in DOMAIN Enrollments :
                i < j => Enrollments[i].name < Enrollments[j].name
<1> DEFINE T == {n \in Names : file[n] # None}
           names == CHOOSE l \in Listings : TRUE
<1>1. Names \subseteq Nat
  BY InvocationFacts DEF Names
<1>2. names \in Listings
  <2>1. IsFiniteSet(T) /\ T \in SUBSET Nat
    BY <1>1, EnrolleesFinite, FS_Subset
  <2>2. \E l \in SetToSeqs(T) : \A i, j \in DOMAIN l : i < j => l[i] < l[j]
    <3> HIDE DEF T
    <3> QED BY <2>1, SortingExists
  <2>3. Listings # {}
    BY <2>2 DEF Listings
  <2> QED BY <2>3
<1>3. Enrollments = [j \in DOMAIN names |-> file[names[j]]]
  BY DEF Enrollments
<1> HIDE DEF names
<1>4. /\ names \in Seq(Names)
      /\ \A j \in DOMAIN names : file[names[j]] # None
      /\ \A i, j \in DOMAIN names : i < j => names[i] < names[j]
  BY <1>2, ListingFacts
<1>5. /\ Len(names) \in Nat /\ DOMAIN names = 1 .. Len(names)
      /\ \A j \in DOMAIN names : names[j] \in Names
  BY <1>4, ElementOfSeq, LenProperties
<1>6. \A n \in T : file[n] \in Stored /\ file[n].name = n
  <2>1. \A k \in Enrollees : Enrollment(k).name = Invocations[k].name
    BY DEF Enrollment
  <2> QED BY <2>1 DEF IInv, FileInv, FileOK, DirectoryReadable, Stored
<1>7. \A j \in 1 .. Len(names) :
        file[names[j]] \in Stored /\ file[names[j]].name = names[j]
  BY <1>4, <1>5, <1>6
<1>8. Enrollments \in Seq(Stored)
  <2> DEFINE n == Len(names)
             list == [j \in 1 .. n |-> file[names[j]]]
  <2>1. list \in [1 .. n -> Stored] /\ n \in Nat
    BY <1>5, <1>7
  <2>2. Enrollments = list
    BY <1>3, <1>5
  <2> HIDE DEF n, list
  <2> QED BY <2>1, <2>2, SeqDef
<1>9. DOMAIN Enrollments = 1 .. Len(names) /\ \A j \in DOMAIN Enrollments :
        Enrollments[j].name = names[j]
  BY <1>3, <1>5, <1>7
<1> QED BY <1>4, <1>5, <1>8, <1>9

\* A root has its leaves in an order, and each leaf belongs to one enrollment: so
\* terms with the same root are of the same enrollments.
LEMMA RootFixesTerms ==
    ASSUME NEW p, NEW q, OneList(p), OneList(q), p.root = q.root
    PROVE  p.num_eligible = q.num_eligible /\ p.total_allocation = q.total_allocation
<1> DEFINE Leaves(order) == [j \in DOMAIN order |-> Leaf(DAccount(order[j]))]
<1>1. PICK S \in SUBSET Enrollees :
         /\ \E order \in SetToSeqs(S) : p.root = Root(Leaves(order))
         /\ p.num_eligible = Cardinality(S) /\ p.total_allocation = AmountOf(S)
  BY DEF OneList
<1>2. PICK R \in SUBSET Enrollees :
         /\ \E order \in SetToSeqs(R) : q.root = Root(Leaves(order))
         /\ q.num_eligible = Cardinality(R) /\ q.total_allocation = AmountOf(R)
  BY DEF OneList
<1>3. PICK order \in SetToSeqs(S) : p.root = Root(Leaves(order))
  BY <1>1
<1>4. PICK other \in SetToSeqs(R) : q.root = Root(Leaves(other))
  BY <1>2
<1>5. Leaves(order) = Leaves(other)
  <2>1. \A a, b : Root(a) = Root(b) => a = b
    BY DEF Root
  <2> HIDE DEF Leaves
  <2> QED BY <1>3, <1>4, <2>1
<1>6. DOMAIN order = DOMAIN other /\ \A j \in DOMAIN order : order[j] = other[j]
  <2>1. DOMAIN Leaves(order) = DOMAIN order /\ DOMAIN Leaves(other) = DOMAIN other
    OBVIOUS
  <2>2. DOMAIN order = DOMAIN other
    BY <1>5, <2>1
  <2>3. ASSUME NEW j \in DOMAIN order PROVE order[j] = other[j]
    <3>1. Leaf(DAccount(order[j])) = Leaf(DAccount(other[j]))
      <4>1. Leaves(order)[j] = Leaf(DAccount(order[j]))
        OBVIOUS
      <4>2. Leaves(other)[j] = Leaf(DAccount(other[j]))
        BY <2>2
      <4> QED BY <1>5, <4>1, <4>2
    <3> QED BY <3>1 DEF Leaf, DAccount
  <2> QED BY <2>2, <2>3
<1>7. ASSUME NEW Q \in SUBSET Enrollees, NEW list \in SetToSeqs(Q)
      PROVE  Q = {list[j] : j \in DOMAIN list}
  <2> DEFINE n == Cardinality(Q)
             listed == {list[j] : j \in 1 .. n}
  <2>1. IsFiniteSet(Q) /\ n \in Nat
    BY EnrolleesFinite, FS_Subset, FS_CardinalityType
  <2>2. list \in [1 .. n -> Q] /\ \A i, j \in 1 .. n : i # j => list[i] # list[j]
    BY DEF SetToSeqs
  <2> HIDE DEF n
  <2>3. listed \subseteq Q
    BY <2>2
  <2>4. list \in Bijection(1 .. n, listed)
    <3>1. list \in [1 .. n -> listed] /\ \A x \in listed : \E j \in 1 .. n : list[j] = x
      BY <2>2
    <3> HIDE DEF listed
    <3> QED BY <2>2, <3>1 DEF Bijection, Injection, Surjection, IsInjective
  <2>5. Cardinality(listed) = n
    <3>1. IsFiniteSet(1 .. n) /\ Cardinality(1 .. n) = n
      BY <2>1, FS_Interval
    <3>2. ExistsBijection(1 .. n, listed)
      BY <2>4 DEF ExistsBijection
    <3> HIDE DEF listed
    <3> QED BY <3>1, <3>2, FS_Bijection
  <2>6. listed = Q
    <3> HIDE DEF listed
    <3> QED BY <2>1, <2>3, <2>5, FS_Subset DEF n
  <2>7. DOMAIN list = 1 .. n
    BY <2>2
  <2> QED BY <2>6, <2>7
<1>8. S = R
  <2>1. S = {order[j] : j \in DOMAIN order} /\ R = {other[j] : j \in DOMAIN other}
    BY <1>7
  <2> QED BY <1>6, <2>1
<1> QED BY <1>1, <1>2, <1>8

-----------------------------------------------------------------------------
(* Steps of the recipients                                                 *)

LEMMA EnrollStep ==
    ASSUME IInv, UNCHANGED <<runVars, pool, chainVars>>,
           RecipientKeys \subseteq RecipientKeys', FileInv',
           \A n \in Names : file[n] # None => file'[n] # None
    PROVE  Grows /\ IInv'
<1>1. /\ stage' = stage /\ plan' = plan /\ wallet' = wallet /\ manifest' = manifest
      /\ pool' = pool /\ programs' = programs /\ definitions' = definitions
      /\ account' = account
  BY DEF runVars, chainVars, guestVars
<1>2. Grows
  BY <1>1 DEF Grows, OurKeys, Committed
<1>3. RunInv'
  <2>1. \A r \in Runs : RunOK(r)'
    BY <1>1, <1>2, RunGrows
  <2>2. HaveManifest' => \E r \in Runs : stage'[r] = "done" /\ manifest' = Manifest(r)'
    BY <1>1, <1>2, ManifestGrows
  <2> QED BY <1>1, <2>1, <2>2 DEF IInv, RunInv
<1>4. PoolInv'
  BY <1>1, <1>2, TxGrows DEF IInv, PoolInv
<1>5. ChainInv'
  BY <1>1, <1>2, ChainGrows DEF IInv, ChainInv, Committed, State
<1> QED BY <1>2, <1>3, <1>4, <1>5 DEF IInv

LEMMA EnrollStoreStep ==
    ASSUME IInv, NEW k \in Enrollees, EnrollStore(k)
    PROVE  Grows /\ IInv'
<1> DEFINE m == Invocations[k].name
           kept == init_wallet(recipientWallet[m]) \cup {DAccount(k), MainAccount(k)}
<1>1. m \in Names
  BY DEF Names
<1>2. recipientWallet' = [recipientWallet EXCEPT ![m] = kept]
  BY DEF EnrollStore
<1>3. kept \subseteq RecipientAccounts /\ kept # None
  <2>1. init_wallet(recipientWallet[m]) \subseteq RecipientAccounts
    BY <1>1 DEF IInv, FileInv, init_wallet
  <2>2. DAccount(k) \in RecipientAccounts /\ MainAccount(k) \in RecipientAccounts
    BY DEF RecipientAccounts
  <2> QED BY <2>1, <2>2, NoneIsNoWallet
<1> HIDE DEF kept, m
<1>4. /\ recipientWallet' = [n \in Names |-> recipientWallet'[n]]
      /\ recipientWallet'[m] = kept
      /\ \A n \in Names \ {m} : recipientWallet'[n] = recipientWallet[n]
  BY <1>1, <1>2 DEF IInv, FileInv
<1>5. \A n \in Names : init_wallet(recipientWallet[n]) \subseteq init_wallet(recipientWallet'[n])
  BY <1>3, <1>4 DEF init_wallet, kept
<1>6. RecipientKeys \subseteq RecipientKeys'
  BY <1>5 DEF RecipientKeys
<1>7. DAccount(k) \in RecipientKeys'
  <2>1. DAccount(k) \in init_wallet(recipientWallet'[m])
    BY <1>3, <1>4 DEF init_wallet, kept
  <2> QED BY <1>1, <2>1 DEF RecipientKeys
<1>8. FileInv'
  <2>1. enroll' = [enroll EXCEPT ![k] = "stored"] /\ file' = file
    BY DEF EnrollStore
  <2>2. \A j \in Enrollees : enroll'[j] # "new" => DAccount(j) \in RecipientKeys'
    BY <1>6, <1>7, <2>1 DEF IInv, FileInv
  <2>3. \A n \in Names : FileOK(n)'
    BY <1>6, <2>1 DEF IInv, FileInv, FileOK
  <2>4. enroll' \in [Enrollees -> {"new", "stored", "writing", "done"}]
    BY <2>1 DEF IInv, FileInv
  <2>5. \A n \in Names :
          recipientWallet'[n] = None \/ recipientWallet'[n] \subseteq RecipientAccounts
    BY <1>3, <1>4 DEF IInv, FileInv
  <2>6. file' = [n \in Names |-> file'[n]]
    BY <2>1 DEF IInv, FileInv
  <2> QED BY <1>4, <2>2, <2>3, <2>4, <2>5, <2>6 DEF FileInv
<1>9. file' = file
  BY DEF EnrollStore
<1> QED BY <1>6, <1>8, <1>9, EnrollStep DEF EnrollStore

LEMMA EnrollFileStep ==
    ASSUME IInv, NEW k \in Enrollees, EnrollTruncate(k) \/ EnrollWrite(k)
    PROVE  Grows /\ IInv'
<1> DEFINE m == Invocations[k].name
<1>1. PICK to \in {"writing", "done"}, new \in {Torn, Enrollment(k)} :
         /\ enroll[k] # "new"
         /\ enroll' = [enroll EXCEPT ![k] = to]
         /\ file' = [file EXCEPT ![m] = new]
         /\ UNCHANGED <<recipientWallet, runVars, pool, chainVars>>
  BY DEF EnrollTruncate, EnrollWrite
<1>2. m \in Names
  BY DEF Names
<1> HIDE DEF m
<1>3. RecipientKeys' = RecipientKeys
  BY <1>1 DEF RecipientKeys
<1>4. DAccount(k) \in RecipientKeys
  BY <1>1 DEF IInv, FileInv
<1>5. /\ file'[m] = new /\ file' = [n \in Names |-> file'[n]]
      /\ \A n \in Names \ {m} : file'[n] = file[n]
  BY <1>1, <1>2 DEF IInv, FileInv
<1>6. \A n \in Names : FileOK(n)'
  <2> SUFFICES ASSUME NEW n \in Names, file'[n] \notin {None, Torn}
               PROVE  \E j \in Enrollees : /\ file'[n] = Enrollment(j)
                                           /\ Invocations[j].name = n
                                           /\ DAccount(j) \in RecipientKeys'
    BY DEF FileOK
  <2>1. CASE n = m
    BY <1>1, <1>3, <1>4, <1>5, <2>1 DEF m
  <2>2. CASE n # m
    BY <1>3, <1>5, <2>2 DEF IInv, FileInv, FileOK
  <2> QED BY <2>1, <2>2
<1>7. /\ enroll' \in [Enrollees -> {"new", "stored", "writing", "done"}]
      /\ \A j \in Enrollees : enroll'[j] # "new" => DAccount(j) \in RecipientKeys'
  BY <1>1, <1>3, <1>4 DEF IInv, FileInv
<1>8. FileInv'
  BY <1>1, <1>5, <1>6, <1>7 DEF IInv, FileInv
<1>9. \A n \in Names : file[n] # None => file'[n] # None
  BY <1>1, <1>2, <1>5, NoneIsNoFile
<1> QED BY <1>1, <1>3, <1>8, <1>9, EnrollStep

-----------------------------------------------------------------------------
(* Steps of a run                                                          *)

\* Run r moves on; what it has computed stays, and no key is lost.
Moves(r, to) ==
    /\ stage[r] \notin Ended
    /\ stage' = [stage EXCEPT ![r] = to]
    /\ \/ plan' = plan /\ to # "reading"
       \/ stage[r] \in {"off", "reading"} /\ plan' = [plan EXCEPT ![r] = plan'[r]]
    /\ wallet' = None \/ wallet' \subseteq DistributorAccounts
    /\ OurKeys \subseteq OurKeys'
    /\ UNCHANGED <<recipientVars, chainVars>>

LEMMA MovesFacts ==
    ASSUME IInv, NEW r \in Runs, NEW to \in Stages \ {"off"}, Moves(r, to)
    PROVE  /\ Grows
           /\ stage'[r] = to
           /\ \A q \in Runs \ {r} : stage'[q] = stage[q] /\ plan'[q] = plan[q]
           /\ account' = account /\ RecipientKeys' = RecipientKeys
<1>1. account' = account /\ RecipientKeys' = RecipientKeys
  BY DEF Moves, recipientVars, chainVars, guestVars, RecipientKeys
<1>2. /\ stage'[r] = to
      /\ \A q \in Runs \ {r} : stage'[q] = stage[q] /\ plan'[q] = plan[q]
  BY DEF Moves, IInv, RunInv
<1>3. stage[r] \notin {"off", "reading"} => plan'[r] = plan[r] /\ to # "reading"
  BY DEF Moves
<1>4. stage[r] # "done"
  BY DEF Moves, Ended
<1>5. Grows
  BY <1>1, <1>2, <1>3, <1>4 DEF Moves, Grows, Committed, recipientVars
<1> QED BY <1>1, <1>2, <1>5

LEMMA RunStep ==
    ASSUME IInv, NEW r \in Runs, NEW to \in Stages \ {"off"}, Moves(r, to),
           RunOK(r)',
           \A tx \in pool' : tx \in pool \/ TxOK(tx)',
           \/ manifest' \in {manifest, Torn}
           \/ to = "done" /\ manifest' = Manifest(r)'
    PROVE  Grows /\ IInv'
<1>1. /\ Grows
      /\ stage'[r] = to
      /\ \A q \in Runs \ {r} : stage'[q] = stage[q] /\ plan'[q] = plan[q]
      /\ account' = account /\ RecipientKeys' = RecipientKeys
  BY MovesFacts
<1>2. FileInv'
  BY <1>1 DEF Moves, recipientVars, IInv, FileInv, FileOK
<1>3. RunInv'
  <2>1. \A q \in Runs : RunOK(q)'
    <3>1. \A q \in Runs \ {r} : RunOK(q)'
      BY <1>1, RunGrows
    <3> QED BY <3>1
  <2>2. HaveManifest' => \E q \in Runs : stage'[q] = "done" /\ manifest' = Manifest(q)'
    BY <1>1, ManifestGrows
  <2>3. stage' \in [Runs -> Stages]
    BY DEF Moves, IInv, RunInv
  <2>4. plan' = [q \in Runs |-> plan'[q]]
    BY DEF Moves, IInv, RunInv
  <2> QED BY <2>1, <2>2, <2>3, <2>4 DEF Moves, RunInv
<1>4. PoolInv'
  BY <1>1, TxGrows DEF IInv, PoolInv
<1>5. ChainInv'
  BY <1>1, ChainGrows DEF Moves, chainVars, IInv, ChainInv, Committed, State
<1> QED BY <1>1, <1>2, <1>3, <1>4, <1>5 DEF IInv

\* The steps between which a run keeps nothing and sends nothing.
LEMMA QuietMoves ==
    ASSUME IInv, NEW r \in Runs, NEW to \in Stages \ {"off", "reading"},
           stage[r] \notin Ended, stage' = [stage EXCEPT ![r] = to],
           UNCHANGED <<recipientVars, plan, wallet, chainVars>>
    PROVE  Moves(r, to)
BY DEF Moves, IInv, RunInv, OurKeys

\* What such a step, and one that stores keys, leaves of the run's own plan.
LEMMA MovesKeepsPlan ==
    ASSUME IInv, NEW r \in Runs, NEW to \in Stages \ {"off"}, Moves(r, to),
           stage[r] \notin {"off", "reading"}
    PROVE  /\ stage'[r] = to
           /\ plan'[r] = plan[r]
           /\ Planned(r)'
           /\ Answers(r) => /\ Answers(r)'
                            /\ DefinitionTx(r)' = DefinitionTx(r)
                            /\ InitializeTx(r)' = InitializeTx(r)
           /\ Distributor(r) \in OurKeys => Distributor(r) \in OurKeys'
           /\ Committed(plan[r].distribution_id)' <=> Committed(plan[r].distribution_id)
<1>1. Grows /\ stage'[r] = to /\ account' = account
  BY MovesFacts
<1>2. Planned(r)
  BY DEF Moves, Ended, IInv, RunInv, RunOK
<1>3. Planned(r)' /\ plan'[r] = plan[r] /\ (Answers(r) => Answers(r)')
  BY <1>1, <1>2, AnswersGrows
<1>4. OurKeys \subseteq OurKeys'
  BY DEF Moves
<1>5. Committed(plan[r].distribution_id)' <=> Committed(plan[r].distribution_id)
  BY <1>1, <1>3 DEF Committed
<1>6. DefinitionTx(r)' = DefinitionTx(r) /\ InitializeTx(r)' = InitializeTx(r)
  BY <1>3 DEF DefinitionTx, InitializeTx
<1> QED BY <1>1, <1>3, <1>4, <1>5, <1>6

LEMMA DeadStep ==
    ASSUME IInv, NEW r \in Runs, LoadFails(r) \/ TimeOut(r) \/ Stop(r)
    PROVE  Grows /\ IInv'
<1>1. /\ stage[r] \notin Ended /\ stage' = [stage EXCEPT ![r] = "dead"]
      /\ UNCHANGED <<recipientVars, plan, wallet, manifest, pool, chainVars>>
  BY DEF LoadFails, TimeOut, Stop, Goto, Ended
<1>2. Moves(r, "dead") /\ "dead" \in Stages \ {"off"}
  BY <1>1, QuietMoves DEF Stages
<1>3. stage'[r] = "dead"
  BY <1>2, MovesFacts
<1>4. RunOK(r)'
  BY <1>3 DEF RunOK, Stages
<1> QED BY <1>1, <1>2, <1>4, RunStep

LEMMA ListDirectoryStep ==
    ASSUME IInv, NEW r \in Runs, ListDirectory(r)
    PROVE  Grows /\ IInv'
<1>1. PICK names \in Listings : plan' = [plan EXCEPT ![r] = [names |-> names, enrollments |-> <<>>]]
  BY DEF ListDirectory
<1>2. /\ stage[r] = "off" /\ stage' = [stage EXCEPT ![r] = "reading"]
      /\ UNCHANGED <<recipientVars, wallet, manifest, pool, chainVars>>
  BY DEF ListDirectory, Goto
<1>3. /\ plan'[r] = [names |-> names, enrollments |-> <<>>]
      /\ plan' = [plan EXCEPT ![r] = plan'[r]]
  BY <1>1 DEF IInv, RunInv
<1>4. Moves(r, "reading") /\ "reading" \in Stages \ {"off"}
  BY <1>2, <1>3 DEF Moves, Ended, Stages, IInv, RunInv, OurKeys
<1>5. Grows /\ stage'[r] = "reading"
  BY <1>4, MovesFacts
<1>6. Reading(r)'
  <2>1. /\ names \in Seq(Names)
        /\ \A j \in DOMAIN names : file[names[j]] # None
        /\ \A i, j \in DOMAIN names : i < j => names[i] < names[j]
    BY ListingFacts
  <2>2. <<>> \in Seq(Stored') /\ Len(<<>>) = 0 /\ DOMAIN <<>> = {}
    OBVIOUS
  <2>3. Len(names) \in Nat
    BY <2>1, LenProperties
  <2>4. file' = file
    BY <1>2 DEF recipientVars
  <2> QED BY <1>3, <2>1, <2>2, <2>3, <2>4 DEF Reading
<1>7. RunOK(r)'
  BY <1>5, <1>6 DEF RunOK, Stages
<1> QED BY <1>2, <1>4, <1>7, RunStep

\* A file that was listed is still there, under its name; what it holds by now is of
\* the last recipient who wrote it, and had stored the keys before.
LEMMA ReadFileStep ==
    ASSUME IInv, NEW r \in Runs, ReadFile(r)
    PROVE  Grows /\ IInv'
<1> DEFINE names == plan[r].names
           before == plan[r].enrollments
           e == NextFile(r)
           j == Len(before) + 1
<1>1. /\ stage[r] = "reading" /\ stage' = stage /\ e # Torn /\ Len(before) < Len(names)
      /\ plan' = [plan EXCEPT ![r].enrollments = Append(@, e)]
      /\ UNCHANGED <<recipientVars, wallet, manifest, pool, chainVars>>
  BY DEF ReadFile, Unread
<1>2. Reading(r)
  BY <1>1 DEF IInv, RunInv, RunOK
<1>3. /\ names \in Seq(Names) /\ before \in Seq(Stored)
      /\ \A i, l \in DOMAIN names : i < l => names[i] < names[l]
      /\ \A l \in DOMAIN names : file[names[l]] # None
      /\ \A l \in DOMAIN before : before[l].name = names[l]
      /\ plan[r] = [names |-> names, enrollments |-> before]
  BY <1>2 DEF Reading
<1>4. /\ plan'[r] = [names |-> names, enrollments |-> Append(before, e)]
      /\ plan' = [plan EXCEPT ![r] = plan'[r]]
  BY <1>1, <1>3 DEF IInv, RunInv
<1>5. stage' = [stage EXCEPT ![r] = "reading"]
  BY <1>1 DEF IInv, RunInv
<1>6. Moves(r, "reading") /\ "reading" \in Stages \ {"off"}
  BY <1>1, <1>4, <1>5 DEF Moves, Ended, Stages, IInv, RunInv, OurKeys
<1>7. Grows /\ stage'[r] = "reading" /\ RecipientKeys' = RecipientKeys /\ file' = file
  BY <1>6, MovesFacts DEF Moves, recipientVars
<1>8. e = file[names[j]] /\ j \in DOMAIN names /\ names[j] \in Names
  <2> HIDE DEF names, before
  <2>1. /\ Len(names) \in Nat /\ DOMAIN names = 1 .. Len(names) /\ Len(before) \in Nat
        /\ \A l \in 1 .. Len(names) : names[l] \in Names
    BY <1>3, ElementOfSeq, LenProperties
  <2> QED BY <1>1, <2>1 DEF NextFile, names, before
<1>9. e \in Stored /\ e.name = names[j]
  <2>1. \A k \in Enrollees : Enrollment(k).name = Invocations[k].name
    BY DEF Enrollment
  <2>2. e # None
    BY <1>3, <1>8
  <2> HIDE DEF e, j, names
  <2> QED BY <1>1, <1>8, <2>1, <2>2 DEF IInv, FileInv, FileOK, Stored
<1>10. Reading(r)'
  <2> DEFINE after == Append(before, e)
  <2> HIDE DEF names, before, e
  <2>1. after \in Seq(Stored) /\ Len(after) = j /\ j <= Len(names)
    BY <1>1, <1>3, <1>9, AppendProperties, LenProperties
  <2>2. \A l \in DOMAIN after : after[l].name = names[l]
    BY <1>3, <1>9, AppendProperties, LenProperties
  <2>3. Stored' = Stored
    BY <1>7 DEF Stored
  <2>4. plan'[r] = [names |-> names, enrollments |-> after]
    BY <1>4
  <2> HIDE DEF after, j
  <2> QED BY <1>3, <1>7, <2>1, <2>2, <2>3, <2>4 DEF Reading
<1>11. RunOK(r)'
  BY <1>7, <1>10 DEF RunOK, Stages
<1> QED BY <1>1, <1>6, <1>11, RunStep

LEMMA LoadStep ==
    ASSUME IInv, NEW r \in Runs, NEW i \in Ids, Load(r, i)
    PROVE  Grows /\ IInv'
<1> DEFINE list == plan[r].enrollments
<1>1. /\ Deployable(list)
      /\ plan' = [plan EXCEPT ![r] =
                [distribution_id  |-> i,
                 root             |-> EligibilityRoot(list),
                 total_allocation |-> TotalAllocation(list),
                 num_eligible     |-> Len(list)]]
  BY DEF Load
<1>2. /\ stage[r] = "reading" /\ stage' = [stage EXCEPT ![r] = "loaded"]
      /\ UNCHANGED <<recipientVars, wallet, manifest, pool, chainVars>>
  BY DEF Load, Goto
<1>3. /\ plan'[r].distribution_id = i
      /\ plan'[r].root = EligibilityRoot(list)
      /\ plan'[r].total_allocation = TotalAllocation(list)
      /\ plan'[r].num_eligible = Len(list)
  BY <1>1 DEF IInv, RunInv
<1>4. plan' = [plan EXCEPT ![r] = plan'[r]]
  BY <1>1 DEF IInv, RunInv
<1>5. Moves(r, "loaded") /\ "loaded" \in Stages \ {"off"}
  BY <1>2, <1>4 DEF Moves, Ended, Stages, IInv, RunInv, OurKeys
<1>6. Grows /\ stage'[r] = "loaded"
  BY <1>5, MovesFacts
<1>7. list \in Seq(Stored) /\ \A l, j \in DOMAIN list : l < j => list[l].name < list[j].name
  <2> DEFINE names == plan[r].names
  <2>1. Reading(r)
    BY <1>2 DEF IInv, RunInv, RunOK
  <2>2. /\ names \in Seq(Names) /\ list \in Seq(Stored) /\ Len(list) <= Len(names)
        /\ \A l, j \in DOMAIN names : l < j => names[l] < names[j]
        /\ \A j \in DOMAIN list : list[j].name = names[j]
    BY <2>1 DEF Reading
  <2> HIDE DEF names, list
  <2>3. /\ DOMAIN list = 1 .. Len(list) /\ DOMAIN names = 1 .. Len(names)
        /\ Len(list) \in Nat /\ Len(names) \in Nat
    BY <2>2, LenProperties
  <2> QED BY <2>2, <2>3
<1>8. RootStored(plan[r].root)' /\ OneList(plan'[r])
  <2> DEFINE planned == plan'[r]
  <2> HIDE DEF list
  <2>1. RootStored(planned.root) /\ OneList(planned)
    <3> HIDE DEF planned
    <3> QED BY <1>3, <1>7, ListTerms DEF planned
  <2>2. \A x : RootStored(x) => RootStored(x)'
    BY <1>6, RootGrows
  <2> QED BY <2>1, <2>2
<1>9. Planned(r)'
  BY <1>1, <1>3, <1>6, <1>8 DEF Planned, Deployable
<1>10. RunOK(r)'
  BY <1>6, <1>9 DEF RunOK, Stages
<1> QED BY <1>2, <1>5, <1>10, RunStep

\* The keys are stored before anything of the run is sent.
LEMMA WalletStep ==
    ASSUME IInv, NEW r \in Runs, CreateDistributor(r) \/ CreateDefinition(r)
    PROVE  Grows /\ IInv'
<1>1. PICK to \in {"distributor", "keyed"}, keys \in SUBSET Keys(r) :
         /\ stage[r] \in {"loaded", "auth"} /\ stage' = [stage EXCEPT ![r] = to]
         /\ to = "distributor" => keys = {Distributor(r)}
         /\ to = "keyed" => stage[r] = "auth" /\ keys = {Definition(r), Supply(r)}
         /\ wallet' = init_wallet(wallet) \cup keys
         /\ UNCHANGED <<recipientVars, plan, manifest, pool, chainVars>>
  <2>1. CASE CreateDistributor(r)
    BY <2>1 DEF CreateDistributor, Goto, Keys
  <2>2. CASE CreateDefinition(r)
    BY <2>2 DEF CreateDefinition, Goto, Keys
  <2> QED BY <2>1, <2>2
<1>2. wallet' \subseteq DistributorAccounts
  <2>1. init_wallet(wallet) \subseteq DistributorAccounts
    BY DEF init_wallet, IInv, RunInv
  <2>2. Keys(r) \subseteq DistributorAccounts
    BY DEF Keys, DistributorAccounts, Distributors
  <2> QED BY <1>1, <2>1, <2>2
<1>3. OurKeys' = OurKeys \cup keys
  <2>1. wallet' # None
    BY <1>2, NoneIsNoWallet
  <2> QED BY <1>1, <2>1 DEF OurKeys, init_wallet
<1>4. Moves(r, to) /\ to \in Stages \ {"off"}
  BY <1>1, <1>2, <1>3 DEF Moves, Stages, Ended
<1>5. /\ stage'[r] = to /\ Planned(r)'
      /\ Distributor(r) \in OurKeys => Distributor(r) \in OurKeys'
  BY <1>1, <1>4, MovesKeepsPlan
<1>6. CASE to = "distributor"
  <2>1. Distributor(r) \in OurKeys'
    BY <1>1, <1>3, <1>6
  <2>2. RunOK(r)'
    BY <1>5, <1>6, <2>1 DEF RunOK, Stages
  <2> QED BY <1>1, <1>4, <2>2, RunStep
<1>7. CASE to = "keyed"
  <2>1. Distributor(r) \in OurKeys
    BY <1>1, <1>7 DEF IInv, RunInv, RunOK
  <2>2. Keys(r) \subseteq OurKeys'
    BY <1>1, <1>3, <1>5, <1>7, <2>1 DEF Keys
  <2>3. Answers(r)'
    BY <1>5, <2>2 DEF Answers, Keys
  <2>4. RunOK(r)'
    BY <1>5, <1>7, <2>3 DEF RunOK, Stages
  <2> QED BY <1>1, <1>4, <2>4, RunStep
<1> QED BY <1>1, <1>6, <1>7

\* Programs are sent without any key.
LEMMA DeployStep ==
    ASSUME IInv, NEW r \in Runs,
           \/ EnsureProgram(r)
           \/ DeployBuiltin(r, "airdrop", "token")
           \/ DeployBuiltin(r, "token", "auth")
    PROVE  Grows /\ IInv'
<1>1. PICK to \in {"airdrop", "token", "auth"} :
         /\ stage[r] \in {"distributor", "airdrop", "token"}
         /\ stage' = [stage EXCEPT ![r] = to]
         /\ pool' \subseteq pool \cup {DeployTx(to)}
         /\ UNCHANGED <<recipientVars, plan, wallet, manifest, chainVars>>
  BY DEF EnsureProgram, DeployBuiltin, Goto
<1>2. Moves(r, to) /\ to \in Stages \ {"off"}
  BY <1>1, QuietMoves DEF Stages, Ended
<1>3. stage'[r] = to /\ Planned(r)' /\ Distributor(r) \in OurKeys'
  <2>1. Distributor(r) \in OurKeys
    BY <1>1 DEF IInv, RunInv, RunOK
  <2> QED BY <1>1, <1>2, <2>1, MovesKeepsPlan
<1>4. RunOK(r)'
  BY <1>1, <1>3 DEF RunOK, Stages
<1>5. TxOK(DeployTx(to))'
  BY <1>1 DEF TxOK, DeployTx
<1>6. \A tx \in pool' : tx \in pool \/ TxOK(tx)'
  BY <1>1, <1>5
<1> QED BY <1>1, <1>2, <1>4, <1>6, RunStep

\* The token and the distribution are, and the run answers for them.
LEMMA SendStep ==
    ASSUME IInv, NEW r \in Runs, SendDefinition(r) \/ SendInitialize(r)
    PROVE  Grows /\ IInv'
<1>1. PICK to \in {"defined", "sent"}, sent \in {DefinitionTx(r), InitializeTx(r)} :
         /\ stage[r] \in {"keyed", "defined"}
         /\ stage' = [stage EXCEPT ![r] = to]
         /\ pool' = pool \cup {sent}
         /\ UNCHANGED <<recipientVars, plan, wallet, manifest, chainVars>>
  BY DEF SendDefinition, SendInitialize, Goto
<1>2. Moves(r, to) /\ to \in Stages \ {"off"}
  BY <1>1, QuietMoves DEF Stages, Ended
<1>3. Answers(r)
  BY <1>1 DEF IInv, RunInv, RunOK
<1>4. /\ stage'[r] = to /\ Planned(r)' /\ Answers(r)'
      /\ DefinitionTx(r)' = DefinitionTx(r) /\ InitializeTx(r)' = InitializeTx(r)
  BY <1>1, <1>2, <1>3, MovesKeepsPlan
<1>5. RunOK(r)'
  BY <1>1, <1>4 DEF RunOK, Stages
<1>6. TxOK(sent)'
  <2>1. DefinitionTx(r).kind = "definition" /\ InitializeTx(r).kind = "call"
    BY DEF DefinitionTx, InitializeTx
  <2> QED BY <1>1, <1>4, <2>1 DEF TxOK
<1>7. \A tx \in pool' : tx \in pool \/ TxOK(tx)'
  BY <1>1, <1>6
<1> QED BY <1>1, <1>2, <1>5, <1>7, RunStep

LEMMA SeeDataStep ==
    ASSUME IInv, NEW r \in Runs, SeeData(r)
    PROVE  Grows /\ IInv'
<1>1. /\ stage[r] = "sent" /\ stage' = [stage EXCEPT ![r] = "seen"]
      /\ Committed(plan[r].distribution_id)
      /\ UNCHANGED <<recipientVars, plan, wallet, manifest, pool, chainVars>>
  BY DEF SeeData, Goto
<1>2. Moves(r, "seen") /\ "seen" \in Stages \ {"off"}
  BY <1>1, QuietMoves DEF Stages, Ended
<1>3. Answers(r)
  BY <1>1 DEF IInv, RunInv, RunOK
<1>4. /\ stage'[r] = "seen" /\ Planned(r)' /\ Answers(r)'
      /\ Committed(plan[r].distribution_id)'
  BY <1>1, <1>2, <1>3, MovesKeepsPlan
<1>5. RunOK(r)'
  BY <1>1, <1>4 DEF RunOK, Stages
<1> QED BY <1>1, <1>2, <1>5, RunStep

LEMMA ManifestStep ==
    ASSUME IInv, NEW r \in Runs, TruncateManifest(r) \/ WriteManifest(r)
    PROVE  Grows /\ IInv'
<1>1. PICK to \in {"writing", "done"} :
         /\ stage[r] \in {"seen", "writing"} /\ stage' = [stage EXCEPT ![r] = to]
         /\ manifest' = Torn \/ (to = "done" /\ manifest' = Manifest(r))
         /\ UNCHANGED <<recipientVars, plan, wallet, pool, chainVars>>
  BY DEF TruncateManifest, WriteManifest, Goto
<1>2. Moves(r, to) /\ to \in Stages \ {"off"}
  BY <1>1, QuietMoves DEF Stages, Ended
<1>3. Answers(r) /\ Committed(plan[r].distribution_id)
  BY <1>1 DEF IInv, RunInv, RunOK
<1>4. /\ stage'[r] = to /\ Planned(r)' /\ Answers(r)'
      /\ Committed(plan[r].distribution_id)'
  BY <1>1, <1>2, <1>3, MovesKeepsPlan
<1>5. RunOK(r)'
  BY <1>1, <1>4 DEF RunOK, Stages
<1>6. Manifest(r)' = Manifest(r)
  BY <1>1 DEF Manifest
<1>7. manifest' \in {manifest, Torn} \/ (to = "done" /\ manifest' = Manifest(r)')
  BY <1>1, <1>6
<1> QED BY <1>1, <1>2, <1>5, <1>7, RunStep

-----------------------------------------------------------------------------
(* Steps of the chain                                                      *)

\* The chain as AirdropProgram has it, when any call whatever may be submitted.
Chain == INSTANCE AirdropProgram_proofs WITH
    Signers <- Distributors \cup Rivals,
    OtherAccounts <- UNION {{c.accounts[j] : j \in DOMAIN c.accounts} : c \in RivalCalls},
    Tokens <- {Definition(r) : r \in Runs}
                  \cup {c.token_definition : c \in RivalInitializeCalls},
    Empty <- None,
    MaxClock <- 0,
    InitializeCalls <- Guest!AnyInitializeCall,
    FreezeCalls <- Guest!AnyFreezeCall

\* What AirdropProgram assumes of its constants holds of these.
LEMMA ChainAssumptions ==
    /\ \A c \in Guest!AnyInitializeCall : c \in Chain!AnyInitializeCall
    /\ \A c \in Guest!AnyFreezeCall : c \in Chain!AnyFreezeCall
    /\ None \notin Chain!DistributionState
    /\ 0 \in Nat
    /\ ForeignTimestamp \in Nat
    /\ None \notin Chain!CommitmentTerms
    /\ Chain!Pdas = Guest!Pdas /\ Chain!DistributionState = Guest!DistributionState
<1>1. Chain!Pdas = Guest!Pdas
  BY DEF Chain!Pdas, Guest!Pdas, Chain!Pda, Guest!Pda, Chain!DistributionSeed,
         Guest!DistributionSeed
<1>2. Chain!AccountIds = Guest!AccountIds
  BY <1>1 DEF Chain!AccountIds, Guest!AccountIds
<1>3. /\ Chain!AnyInitializeCall = Guest!AnyInitializeCall
      /\ Chain!AnyFreezeCall = Guest!AnyFreezeCall
  BY <1>2 DEF Chain!AnyInitializeCall, Guest!AnyInitializeCall,
              Chain!AnyFreezeCall, Guest!AnyFreezeCall
<1>4. Chain!DistributionState = Guest!DistributionState
  BY <1>2 DEF Chain!DistributionState, Guest!DistributionState
<1>5. Chain!CommitmentTerms = Guest!CommitmentTerms
  BY DEF Chain!CommitmentTerms, Guest!CommitmentTerms
<1> QED BY <1>1, <1>3, <1>4, <1>5, NoneIsNoDistribution, BoundsAssumption

\* What the runs send is a call that the guest can decode.
LEMMA OurCallsDecode ==
    ASSUME IInv, NEW r \in Runs, Answers(r)
    PROVE  /\ InitializeTx(r).call \in Guest!AnyInitializeCall
           /\ FreezeTx(r).call \in Guest!AnyFreezeCall
<1> DEFINE c == InitializeTx(r).call
<1>1. c = [instruction      |-> "initialize",
           accounts         |-> <<Guest!Pda(plan[r].distribution_id), Distributor(r), Clock50>>,
           authorized       |-> {Distributor(r)},
           distribution_id  |-> plan[r].distribution_id,
           root             |-> plan[r].root,
           token_definition |-> Definition(r),
           total_allocation |-> plan[r].total_allocation,
           num_eligible     |-> plan[r].num_eligible]
  BY DEF InitializeTx, Guest!ClientInitializeCall
<1>2. /\ plan[r].distribution_id \in Ids
      /\ plan[r].total_allocation \in Nat
      /\ OneList(plan[r])
  BY BoundsAssumption DEF Answers, Planned
<1>3. PICK S \in SUBSET Enrollees :
        /\ \E order \in SetToSeqs(S) :
             plan[r].root = Root([j \in DOMAIN order |-> Leaf(DAccount(order[j]))])
        /\ plan[r].num_eligible = Cardinality(S)
  BY <1>2 DEF OneList
<1>4. plan[r].root \in Roots
  BY <1>3 DEF Roots
<1>5. plan[r].num_eligible \in Nat
  BY <1>3, EnrolleesFinite, FS_Subset, FS_CardinalityType
<1>6. Distributor(r) \in Distributors \cup Rivals
  BY DEF Distributors
<1>7. <<Guest!Pda(plan[r].distribution_id), Distributor(r), Clock50>> \in Seq(Guest!AccountIds)
  BY <1>2, <1>6 DEF Guest!AccountIds, Guest!Pdas
<1>8. c \in Guest!AnyInitializeCall
  BY <1>1, <1>2, <1>4, <1>5, <1>6, <1>7 DEF Guest!AnyInitializeCall
<1>9. FreezeTx(r).call = [instruction     |-> "freeze",
                          accounts        |-> <<Guest!Pda(plan[r].distribution_id), Distributor(r)>>,
                          authorized      |-> {Distributor(r)},
                          distribution_id |-> plan[r].distribution_id]
  BY DEF FreezeTx, Guest!DocumentedFreezeCall, Guest!ClientFreezeCall
<1>10. <<Guest!Pda(plan[r].distribution_id), Distributor(r)>> \in Seq(Guest!AccountIds)
  BY <1>2, <1>6 DEF Guest!AccountIds, Guest!Pdas
<1>11. FreezeTx(r).call \in Guest!AnyFreezeCall
  BY <1>2, <1>6, <1>9, <1>10 DEF Guest!AnyFreezeCall
<1> QED BY <1>8, <1>11

\* What may be executed is a call that the guest can decode.
LEMMA CallsDecode ==
    ASSUME IInv, NEW tx \in pool, tx.kind = "call"
    PROVE  tx.call \in Guest!AnyInitializeCall \cup Guest!AnyFreezeCall
BY OurCallsDecode DEF IInv, PoolInv, TxOK

\* The program is the same in both instances, whatever is submitted to it.
LEMMA SameProgram ==
    ASSUME NEW c
    PROVE  /\ Chain!InitializeAccepted(c) <=> Guest!InitializeAccepted(c)
           /\ Chain!FreezeAccepted(c) <=> Guest!FreezeAccepted(c)
           /\ Guest!Initialize(c) => Chain!Initialize(c)
           /\ Guest!Freeze(c) => Chain!Freeze(c)
<1>1. /\ \A n : Chain!Dispatch(c, n) = Guest!Dispatch(c, n)
      /\ Chain!InitializeChecks(c) = Guest!InitializeChecks(c)
      /\ Chain!CommittedState(c) = Guest!CommittedState(c)
  BY Zenon DEF Chain!Dispatch, Guest!Dispatch, Chain!InitializeChecks, Guest!InitializeChecks,
         Chain!CommittedState, Guest!CommittedState, Chain!Check, Guest!Check,
         Chain!TimestampIn, Guest!TimestampIn,
         Chain!IsAuthorized, Guest!IsAuthorized,
         Chain!Pda, Guest!Pda, Chain!DistributionSeed, Guest!DistributionSeed
<1>2. /\ Chain!FreezeChecks(c) = Guest!FreezeChecks(c)
      /\ \A s : Chain!FrozenState(s) = Guest!FrozenState(s)
  BY Zenon DEF Chain!FreezeChecks, Guest!FreezeChecks, Chain!Check, Guest!Check,
         Chain!IsAuthorized, Guest!IsAuthorized, Chain!GuestIsActive, Guest!GuestIsActive,
         Chain!FrozenState, Guest!FrozenState
<1>3. ASSUME NEW checks
      PROVE  /\ Chain!Passes(checks) <=> Guest!Passes(checks)
             /\ Chain!Outcome(checks) = Guest!Outcome(checks)
  BY Zenon DEF Chain!Passes, Guest!Passes, Chain!Outcome, Guest!Outcome, Chain!Min, Guest!Min
<1>4. /\ Chain!InitializeAccepted(c) <=> Guest!InitializeAccepted(c)
      /\ Chain!InitializeOutcome(c) = Guest!InitializeOutcome(c)
  BY <1>1, <1>3 DEF Chain!InitializeAccepted, Guest!InitializeAccepted,
                    Chain!InitializeOutcome, Guest!InitializeOutcome
<1>5. /\ Chain!FreezeAccepted(c) <=> Guest!FreezeAccepted(c)
      /\ Chain!FreezeOutcome(c) = Guest!FreezeOutcome(c)
  BY <1>1, <1>2, <1>3 DEF Chain!FreezeAccepted, Guest!FreezeAccepted,
                          Chain!FreezeOutcome, Guest!FreezeOutcome
<1>6. Guest!Initialize(c) => Chain!Initialize(c)
  BY <1>1, <1>4 DEF Guest!Initialize, Chain!Initialize
<1>7. Guest!Freeze(c) => Chain!Freeze(c)
  BY <1>2, <1>5 DEF Guest!Freeze, Chain!Freeze
<1> QED BY <1>4, <1>5, <1>6, <1>7

\* What a call can do on the chain: nothing, commit what nobody has committed, signed
\* by who is recorded, or freeze, signed by who was.
LEMMA CallWrites ==
    ASSUME NEW c \in Guest!AnyInitializeCall \cup Guest!AnyFreezeCall, RunGuest(c),
           account' # account
    PROVE  LET i == c.distribution_id IN
           /\ i \in Ids
           /\ \/ /\ c \in Guest!AnyInitializeCall
                 /\ ~Committed(i)
                 /\ c.accounts[2] \in c.authorized
                 /\ account' = [account EXCEPT ![Guest!Pda(i)] = Guest!CommittedState(c)]
              \/ /\ c \in Guest!AnyFreezeCall
                 /\ Committed(i)
                 /\ State(i).distributor \in c.authorized
                 /\ account' = [account EXCEPT ![Guest!Pda(i)] = Guest!FrozenState(State(i))]
<1>1. \A i : Chain!Pda(i) = Guest!Pda(i)
  BY DEF Chain!Pda, Guest!Pda, Chain!DistributionSeed, Guest!DistributionSeed
<1>2. /\ \A x \in Guest!AnyInitializeCall : x.instruction = "initialize"
      /\ \A x \in Guest!AnyFreezeCall : x.instruction = "freeze"
  BY DEF Guest!AnyInitializeCall, Guest!AnyFreezeCall
<1>3. CASE c.instruction = "initialize" /\ Guest!Initialize(c)
  <2>1. /\ Guest!InitializeAccepted(c)
        /\ account' = [account EXCEPT ![c.accounts[1]] = Guest!CommittedState(c)]
    BY <1>3 DEF Guest!Initialize
  <2>2. c \in Guest!AnyInitializeCall
    BY <1>2, <1>3
  <2>3. /\ c.distribution_id \in Ids
        /\ c.accounts[1] = Chain!Pda(c.distribution_id)
        /\ c.accounts[2] \in c.authorized
        /\ account[c.accounts[1]] = None
    BY <2>1, <2>2, SameProgram, ChainAssumptions, Chain!AcceptedInitialize
  <2> QED BY <1>1, <2>1, <2>2, <2>3 DEF Committed
<1>4. CASE c.instruction = "freeze" /\ Guest!Freeze(c)
  <2>1. /\ Guest!FreezeAccepted(c)
        /\ account' = [account EXCEPT ![c.accounts[1]] =
                           Guest!FrozenState(account[c.accounts[1]])]
    BY <1>4 DEF Guest!Freeze
  <2>2. c \in Guest!AnyFreezeCall
    BY <1>2, <1>4
  <2>3. /\ c.distribution_id \in Ids
        /\ c.accounts[1] = Chain!Pda(c.distribution_id)
        /\ account[c.accounts[1]] # None
        /\ account[c.accounts[1]].distributor \in c.authorized
    BY <2>1, <2>2, SameProgram, ChainAssumptions, Chain!AcceptedFreeze
  <2> QED BY <1>1, <2>1, <2>2, <2>3 DEF Committed, State
<1> QED BY <1>3, <1>4 DEF RunGuest, guestVars

\* A call that is accepted writes terms of a rival or of a run that answers for them,
\* and never empties an account.
Writes ==
    \/ account' = account
    \/ \E i \in Ids : \E s : /\ s # None \/ ~Committed(i)
                             /\ StateOK(i, s)
                             /\ account' = [account EXCEPT ![Guest!Pda(i)] = s]

LEMMA WritesFacts ==
    ASSUME IInv, Writes
    PROVE  /\ account' = [p \in Guest!Pdas |-> account'[p]]
           /\ \A i \in Ids : /\ Committed(i) => Committed(i)'
                             /\ State(i)' = State(i) \/ StateOK(i, State(i)')
<1>1. /\ \A i \in Ids : Guest!Pda(i) \in Guest!Pdas
      /\ \A i, j \in Ids : Guest!Pda(i) = Guest!Pda(j) => i = j
  BY DEF Guest!Pdas, Guest!Pda, Guest!DistributionSeed
<1>2. account = [p \in Guest!Pdas |-> account[p]]
  BY DEF IInv, ChainInv
<1>3. CASE account' = account
  BY <1>2, <1>3 DEF State, Committed
<1>4. ASSUME NEW j \in Ids, NEW s, s # None \/ ~Committed(j), StateOK(j, s),
             account' = [account EXCEPT ![Guest!Pda(j)] = s]
      PROVE  /\ account' = [p \in Guest!Pdas |-> account'[p]]
             /\ \A i \in Ids : /\ Committed(i) => Committed(i)'
                               /\ State(i)' = State(i) \/ StateOK(i, State(i)')
  <2>1. account' = [p \in Guest!Pdas |-> account'[p]]
    BY <1>2, <1>4
  <2>2. account'[Guest!Pda(j)] = s
    BY <1>1, <1>2, <1>4
  <2>3. \A i \in Ids : i # j => account'[Guest!Pda(i)] = account[Guest!Pda(i)]
    BY <1>1, <1>2, <1>4
  <2>4. ASSUME NEW i \in Ids
        PROVE  /\ Committed(i) => Committed(i)'
               /\ State(i)' = State(i) \/ StateOK(i, State(i)')
    <3>1. CASE i = j
      BY <1>4, <2>2, <3>1 DEF Committed, State
    <3>2. CASE i # j
      BY <2>3, <3>2 DEF Committed, State
    <3> QED BY <3>1, <3>2
  <2> QED BY <2>1, <2>4
<1> QED BY <1>3, <1>4 DEF Writes

LEMMA ChainStep ==
    ASSUME IInv, UNCHANGED <<recipientVars, runVars>>, Writes,
           \A tx \in pool' : tx \in pool \/ TxOK(tx),
           programs' \subseteq {"airdrop", "token"},
           \A d \in definitions' : d \in definitions \/ DefinitionOK(d)
    PROVE  Grows /\ IInv'
<1>1. /\ enroll' = enroll /\ recipientWallet' = recipientWallet /\ file' = file
      /\ stage' = stage /\ plan' = plan /\ wallet' = wallet /\ manifest' = manifest
  BY DEF recipientVars, runVars
<1>2. /\ account' = [p \in Guest!Pdas |-> account'[p]]
      /\ \A i \in Ids : /\ Committed(i) => Committed(i)'
                        /\ State(i)' = State(i) \/ StateOK(i, State(i)')
  BY WritesFacts
<1>3. Grows
  BY <1>1, <1>2 DEF Grows, OurKeys, RecipientKeys
<1>4. FileInv'
  BY <1>1 DEF IInv, FileInv, FileOK, RecipientKeys
<1>5. RunInv'
  <2>1. \A r \in Runs : RunOK(r)'
    BY <1>1, <1>3, RunGrows
  <2>2. HaveManifest' => \E r \in Runs : stage'[r] = "done" /\ manifest' = Manifest(r)'
    BY <1>1, <1>3, ManifestGrows
  <2> QED BY <1>1, <2>1, <2>2 DEF IInv, RunInv
<1>6. PoolInv'
  BY <1>3, TxGrows DEF IInv, PoolInv
<1>7. ChainInv'
  <2>1. \A d \in definitions' : DefinitionOK(d)'
    BY <1>3, ChainGrows DEF IInv, ChainInv
  <2>2. ASSUME NEW i \in Ids, NEW s, Committed(i)', s = State(i)'
        PROVE  StateOK(i, s)'
    <3>1. CASE s = State(i)
      <4>1. StateOK(i, s)
        BY <2>2, <3>1 DEF Committed, State, IInv, ChainInv
      <4> QED BY <1>3, <4>1, ChainGrows
    <3>2. CASE StateOK(i, s)
      BY <1>3, <3>2, ChainGrows
    <3> QED BY <1>2, <2>2, <3>1, <3>2
  <2>3. \A i \in Ids : Committed(i)' => StateOK(i, State(i))'
    BY <2>2 DEF StateOK
  <2> QED BY <1>2, <2>1, <2>3 DEF ChainInv
<1> QED BY <1>3, <1>4, <1>5, <1>6, <1>7 DEF IInv

\* The data of a distribution is a state of the program.
LEMMA StateType ==
    ASSUME Chain!Inv, NEW i \in Ids, Committed(i)
    PROVE  State(i) \in Guest!DistributionState
<1>1. account \in [Guest!Pdas -> Guest!DistributionState \cup {None}]
  BY ChainAssumptions DEF Chain!Inv, Chain!TypeOK
<1>2. Guest!Pda(i) \in Guest!Pdas
  BY DEF Guest!Pdas
<1> QED BY <1>1, <1>2 DEF Committed, State

LEMMA RunNames ==
    /\ \A q, r \in Runs : /\ Distributor(q) = Distributor(r) => q = r
                          /\ Definition(q) = Definition(r) => q = r
    /\ \A r \in Runs : Distributor(r) \in Distributors /\ Distributor(r) \notin Rivals
BY RivalsAssumption DEF Distributor, Definition, Distributors

\* A freeze that is signed by the owner, after the end of the run, or by a rival.
LEMMA FreezeKeepsState ==
    ASSUME IInv, Chain!Inv, NEW i \in Ids, Committed(i), NEW signer, State(i).distributor = signer,
           \/ signer \in Rivals
           \/ \E r \in Runs : /\ signer = Distributor(r) /\ stage[r] = "done"
                              /\ plan[r].distribution_id = i
    PROVE  StateOK(i, Guest!FrozenState(State(i))) /\ Guest!FrozenState(State(i)) # None
<1> DEFINE s == State(i)
           frozenState == Guest!FrozenState(s)
<1>1. s \in Guest!DistributionState
  BY StateType
<1>2. /\ frozenState \in Guest!DistributionState
      /\ frozenState.distributor = s.distributor
      /\ frozenState.root = s.root
      /\ frozenState.token_definition = s.token_definition
      /\ frozenState.total_allocation = s.total_allocation
      /\ frozenState.num_eligible = s.num_eligible
  BY <1>1 DEF Guest!FrozenState, Guest!DistributionState
<1>3. frozenState # None
  BY <1>2, NoneIsNoDistribution
<1>4. StateOK(i, s)
  BY DEF IInv, ChainInv
<1> HIDE DEF frozenState
<1>5. CASE signer \in Rivals
  BY <1>2, <1>3, <1>5 DEF StateOK, frozenState
<1>6. ASSUME NEW r \in Runs, signer = Distributor(r), stage[r] = "done",
             plan[r].distribution_id = i
      PROVE  StateOK(i, frozenState)
  <2>1. PICK q \in Runs : /\ Answers(q)
                          /\ s.distributor = Distributor(q)
                          /\ s.root = plan[q].root
                          /\ s.token_definition = Definition(q)
                          /\ s.total_allocation = plan[q].total_allocation
                          /\ s.num_eligible = plan[q].num_eligible
    BY <1>4, <1>6, RunNames DEF StateOK
  <2>2. q = r
    BY <1>6, <2>1, RunNames
  <2> HIDE DEF s
  <2> QED BY <1>2, <1>6, <2>1, <2>2 DEF StateOK
<1> QED BY <1>3, <1>5, <1>6 DEF frozenState

LEMMA CallStep ==
    ASSUME IInv, Chain!Inv,
           NEW c \in Guest!AnyInitializeCall \cup Guest!AnyFreezeCall, RunGuest(c),
           \/ c \in RivalCalls
           \/ \E r \in Runs : /\ Answers(r)
                              /\ \/ c = InitializeTx(r).call
                                 \/ stage[r] = "done" /\ c = FreezeTx(r).call,
           pool' \subseteq pool,
           UNCHANGED <<recipientVars, runVars, programs, definitions>>
    PROVE  Grows /\ IInv'
<1> DEFINE i == c.distribution_id
<1>1. c \in RivalCalls => c.authorized \subseteq Rivals
  BY RivalsAssumption DEF Guest!AnyInitializeCall, Guest!AnyFreezeCall
<1>2. \A r \in Runs : /\ InitializeTx(r).call.instruction = "initialize"
                      /\ FreezeTx(r).call.instruction = "freeze"
                      /\ FreezeTx(r).call.distribution_id = plan[r].distribution_id
                      /\ FreezeTx(r).call.authorized = {Distributor(r)}
  BY DEF InitializeTx, FreezeTx, Guest!ClientInitializeCall, Guest!DocumentedFreezeCall,
         Guest!ClientFreezeCall
<1>3. ASSUME c \in Guest!AnyInitializeCall, c.accounts[2] \in c.authorized
      PROVE  StateOK(i, Guest!CommittedState(c))
  <2>1. CASE c \in RivalCalls
    <3>1. Guest!CommittedState(c).distributor = c.accounts[2]
      BY DEF Guest!CommittedState
    <3> QED BY <1>1, <1>3, <2>1, <3>1 DEF StateOK
  <2>2. ASSUME NEW r \in Runs, Answers(r), c = InitializeTx(r).call
        PROVE  StateOK(i, Guest!CommittedState(c))
    <3>1. /\ c.accounts[2] = Distributor(r)
          /\ c.root = plan[r].root
          /\ c.token_definition = Definition(r)
          /\ c.total_allocation = plan[r].total_allocation
          /\ c.num_eligible = plan[r].num_eligible
      BY <2>2 DEF InitializeTx, Guest!ClientInitializeCall
    <3>2. /\ Guest!CommittedState(c).distributor = Distributor(r)
          /\ Guest!CommittedState(c).root = plan[r].root
          /\ Guest!CommittedState(c).token_definition = Definition(r)
          /\ Guest!CommittedState(c).total_allocation = plan[r].total_allocation
          /\ Guest!CommittedState(c).num_eligible = plan[r].num_eligible
          /\ Guest!CommittedState(c).active = 1
      BY <3>1 DEF Guest!CommittedState
    <3> QED BY <2>2, <3>2 DEF StateOK
  <2>3. c.instruction = "initialize"
    BY <1>3 DEF Guest!AnyInitializeCall
  <2> QED BY <1>2, <2>1, <2>2, <2>3
<1>4. ASSUME c \in Guest!AnyFreezeCall, i \in Ids, Committed(i), State(i).distributor \in c.authorized
      PROVE  StateOK(i, Guest!FrozenState(State(i))) /\ Guest!FrozenState(State(i)) # None
  <2>1. c.instruction = "freeze"
    BY <1>4 DEF Guest!AnyFreezeCall
  <2>2. \/ State(i).distributor \in Rivals
        \/ \E r \in Runs : /\ State(i).distributor = Distributor(r) /\ stage[r] = "done"
                           /\ plan[r].distribution_id = i
    BY <1>1, <1>2, <1>4, <2>1
  <2> QED BY <1>4, <2>2, FreezeKeepsState
<1>5. Writes
  <2>1. CASE account' = account
    BY <2>1 DEF Writes
  <2>2. CASE account' # account
    <3>1. /\ i \in Ids
          /\ \/ /\ c \in Guest!AnyInitializeCall
                /\ ~Committed(i)
                /\ c.accounts[2] \in c.authorized
                /\ account' = [account EXCEPT ![Guest!Pda(i)] = Guest!CommittedState(c)]
             \/ /\ c \in Guest!AnyFreezeCall
                /\ Committed(i)
                /\ State(i).distributor \in c.authorized
                /\ account' = [account EXCEPT ![Guest!Pda(i)] = Guest!FrozenState(State(i))]
      BY <2>2, CallWrites
    <3> QED BY <1>3, <1>4, <3>1 DEF Writes
  <2> QED BY <2>1, <2>2
<1>6. programs' \subseteq {"airdrop", "token"} /\ definitions' = definitions
  BY DEF IInv, ChainInv
<1> QED BY <1>5, <1>6, ChainStep

LEMMA ExecuteCallStep ==
    ASSUME IInv, Chain!Inv, NEW tx \in pool, ExecuteCall(tx)
    PROVE  Grows /\ IInv'
<1>1. tx.kind = "call" /\ tx.call \in Guest!AnyInitializeCall \cup Guest!AnyFreezeCall
  BY CallsDecode DEF ExecuteCall
<1>2. \E r \in Runs : /\ Answers(r)
                      /\ \/ tx.call = InitializeTx(r).call
                         \/ stage[r] = "done" /\ tx.call = FreezeTx(r).call
  BY <1>1 DEF IInv, PoolInv, TxOK
<1> QED BY <1>1, <1>2, CallStep DEF ExecuteCall

LEMMA RivalStep ==
    ASSUME IInv, Chain!Inv, NEW c \in RivalCalls, ExecuteRivalCall(c)
    PROVE  Grows /\ IInv'
<1>1. c \in Guest!AnyInitializeCall \cup Guest!AnyFreezeCall
  BY RivalsAssumption
<1> QED BY <1>1, CallStep DEF ExecuteRivalCall

\* A manifest is of a run that is done, and a freeze of what it says is of its owner.
LEMMA SendFreezeStep ==
    ASSUME IInv, SendFreeze
    PROVE  Grows /\ IInv'
<1>1. PICK r \in Runs : stage[r] = "done" /\ manifest = Manifest(r)
  BY DEF SendFreeze, IInv, RunInv
<1>2. Answers(r)
  BY <1>1 DEF IInv, RunInv, RunOK
<1>3. [kind |-> "call", call |-> FreezeCall(manifest)] = FreezeTx(r)
  BY <1>1 DEF FreezeTx, FreezeCall, Manifest
<1>4. TxOK(FreezeTx(r))
  <2>1. FreezeTx(r).kind = "call"
    BY DEF FreezeTx
  <2> QED BY <1>1, <1>2, <2>1 DEF TxOK
<1>5. UNCHANGED <<recipientVars, runVars, chainVars>> /\ pool' = pool \cup {FreezeTx(r)}
  BY <1>3 DEF SendFreeze
<1>6. Writes /\ definitions' = definitions /\ programs' \subseteq {"airdrop", "token"}
  BY <1>5 DEF chainVars, guestVars, Writes, IInv, ChainInv
<1> QED BY <1>4, <1>5, <1>6, ChainStep

LEMMA ProgramStep ==
    ASSUME IInv, NEW tx \in pool, ExecuteDeploy(tx)
    PROVE  Grows /\ IInv'
<1>1. programs' \subseteq {"airdrop", "token"}
  BY DEF ExecuteDeploy, IInv, ChainInv
<1>2. Writes
  BY DEF ExecuteDeploy, guestVars, Writes
<1> QED BY <1>1, <1>2, ChainStep DEF ExecuteDeploy

LEMMA DefinitionStep ==
    ASSUME IInv, NEW tx \in pool, ExecuteDefinition(tx)
    PROVE  Grows /\ IInv'
<1>1. DefinitionOK([token |-> tx.token, supply |-> tx.supply])
  BY DEF ExecuteDefinition, IInv, PoolInv, TxOK, DefinitionTx, DefinitionOK
<1>2. \A d \in definitions' : d \in definitions \/ DefinitionOK(d)
  BY <1>1 DEF ExecuteDefinition
<1>3. Writes
  BY DEF ExecuteDefinition, guestVars, Writes
<1>4. programs' \subseteq {"airdrop", "token"}
  BY DEF ExecuteDefinition, IInv, ChainInv
<1> QED BY <1>2, <1>3, <1>4, ChainStep DEF ExecuteDefinition

-----------------------------------------------------------------------------
(* The invariant                                                           *)

LEMMA InitInvariant == Init => IInv
<1> SUFFICES ASSUME Init PROVE IInv
  OBVIOUS
<1>1. FileInv
  BY DEF Init, FileInv, FileOK
<1>2. RunInv
  <2>1. \A r \in Runs : stage[r] = "off" /\ plan[r] = None
    BY DEF Init
  <2>2. \A r \in Runs : RunOK(r)
    BY <2>1 DEF RunOK, Stages
  <2> QED BY <2>2 DEF Init, RunInv, Stages, HaveManifest
<1>3. PoolInv
  BY DEF Init, PoolInv
<1>4. ChainInv
  <2>1. \A i \in Ids : Guest!Pda(i) \in Guest!Pdas
    BY DEF Guest!Pdas
  <2> QED BY <2>1 DEF Init, Guest!Init, ChainInv, Committed
<1> QED BY <1>1, <1>2, <1>3, <1>4 DEF IInv

LEMMA StutterInvariant ==
    ASSUME IInv, UNCHANGED vars
    PROVE  Grows /\ IInv'
BY EnrollStep DEF vars, recipientVars, RecipientKeys, IInv, FileInv, FileOK

LEMMA NextInvariant ==
    ASSUME IInv, Chain!Inv, [Next]_vars
    PROVE  Grows /\ IInv'
<1>1. ASSUME NEW k \in Enrollees, EnrollStore(k) \/ EnrollTruncate(k) \/ EnrollWrite(k)
      PROVE  Grows /\ IInv'
  BY <1>1, EnrollStoreStep, EnrollFileStep
<1>2. ASSUME NEW r \in Runs, ListDirectory(r) \/ ReadFile(r) PROVE Grows /\ IInv'
  BY <1>2, ListDirectoryStep, ReadFileStep
<1>3. ASSUME NEW r \in Runs, Stop(r) \/ LoadFails(r) PROVE Grows /\ IInv'
  BY <1>3, DeadStep
<1>4. ASSUME NEW r \in Runs, NEW i \in Ids, Load(r, i) PROVE Grows /\ IInv'
  BY <1>4, LoadStep
<1>5. ASSUME NEW r \in Runs, Step(r) PROVE Grows /\ IInv'
  BY <1>2, <1>3, <1>4, <1>5, WalletStep, DeployStep, SendStep, SeeDataStep, DeadStep,
     ManifestStep DEF Step
<1>6. ASSUME NEW tx \in pool, ExecuteDeploy(tx) \/ ExecuteDefinition(tx) \/ ExecuteCall(tx)
      PROVE  Grows /\ IInv'
  BY <1>6, ProgramStep, DefinitionStep, ExecuteCallStep
<1>7. ASSUME NEW c \in RivalCalls, ExecuteRivalCall(c) PROVE Grows /\ IInv'
  BY <1>7, RivalStep
<1> QED BY <1>1, <1>2, <1>3, <1>5, <1>6, <1>7, SendFreezeStep, StutterInvariant DEF Next

\* A chain that nothing happened on is one of Chain.
LEMMA ChainInit == Init => Chain!Init
BY DEF Init, Guest!Init, Chain!Init, Guest!Pdas, Chain!Pdas, Guest!Pda, Chain!Pda,
       Guest!DistributionSeed, Chain!DistributionSeed, Guest!NoCall, Chain!NoCall

\* Every step of the system is a call on the chain, or leaves the guest alone.
LEMMA ChainNext ==
    ASSUME IInv, [Next]_vars
    PROVE  [Chain!Next]_(Chain!vars)
<1>1. ASSUME guestVars' = guestVars PROVE UNCHANGED Chain!vars
  BY <1>1 DEF guestVars, Chain!vars
<1>2. ASSUME NEW k \in Enrollees, EnrollStore(k) \/ EnrollTruncate(k) \/ EnrollWrite(k)
      PROVE  guestVars' = guestVars
  BY <1>2 DEF EnrollStore, EnrollTruncate, EnrollWrite, chainVars
<1>3. ASSUME NEW r \in Runs, ListDirectory(r) \/ Step(r) \/ Stop(r)
      PROVE  guestVars' = guestVars
  BY <1>3 DEF ListDirectory, Step, Stop, ReadFile, LoadFails, Load, chainVars,
              CreateDistributor, EnsureProgram, DeployBuiltin, CreateDefinition, SendDefinition,
              SendInitialize, SeeData, TimeOut, TruncateManifest, WriteManifest
<1>4. ASSUME SendFreeze
      PROVE  guestVars' = guestVars
  BY <1>4 DEF SendFreeze, chainVars
<1>5. ASSUME NEW tx \in pool, ExecuteDeploy(tx) \/ ExecuteDefinition(tx)
      PROVE  guestVars' = guestVars
  BY <1>5 DEF ExecuteDeploy, ExecuteDefinition
<1>6. ASSUME NEW c \in Guest!AnyInitializeCall \cup Guest!AnyFreezeCall, RunGuest(c),
             guestVars' # guestVars
      PROVE  Chain!Next
  <2>1. /\ \A x \in Guest!AnyInitializeCall : x.instruction = "initialize"
        /\ \A x \in Guest!AnyFreezeCall : x.instruction = "freeze"
    BY DEF Guest!AnyInitializeCall, Guest!AnyFreezeCall
  <2>2. CASE c.instruction = "initialize" /\ Guest!Initialize(c)
    BY <1>6, <2>1, <2>2, SameProgram DEF Chain!Next
  <2>3. CASE c.instruction = "freeze" /\ Guest!Freeze(c)
    BY <1>6, <2>1, <2>3, SameProgram DEF Chain!Next
  <2> QED BY <1>6, <2>2, <2>3 DEF RunGuest
<1>7. ASSUME NEW tx \in pool, ExecuteCall(tx)
      PROVE  Chain!Next \/ guestVars' = guestVars
  BY <1>6, <1>7, CallsDecode DEF ExecuteCall
<1>8. ASSUME NEW c \in RivalCalls, ExecuteRivalCall(c)
      PROVE  Chain!Next \/ guestVars' = guestVars
  BY <1>6, <1>8, RivalsAssumption DEF ExecuteRivalCall
<1>9. CASE UNCHANGED vars
  BY <1>1, <1>9 DEF vars, chainVars
<1> QED BY <1>1, <1>2, <1>3, <1>4, <1>5, <1>7, <1>8, <1>9 DEF Next

\* Every reachable state satisfies the invariant that the theorems below draw on, and
\* the one of the guest, which tells what a freeze finds in an account.
THEOREM Invariance == Spec => [](IInv /\ Chain!Inv)
<1>1. Init => IInv /\ Chain!Inv
  <2>1. Chain!Init => Chain!Inv
    BY ChainAssumptions, Chain!InitInv
  <2> QED BY <2>1, InitInvariant, ChainInit
<1>2. (IInv /\ Chain!Inv) /\ [Next]_vars => (IInv /\ Chain!Inv)'
  <2>1. Chain!Inv /\ [Chain!Next]_(Chain!vars) => Chain!Inv'
    BY ChainAssumptions, Chain!NextInv
  <2> QED BY <2>1, NextInvariant, ChainNext
<1> QED BY <1>1, <1>2, PTL DEF Spec

\* The state of the recipients, the runs, the wallets and the chain has its shape, and
\* no run plans or defines a supply beyond a u128, whatever directory it was reading.
THEOREM TypeCorrect == Spec => []DeploymentTypeOK
<1>1. IInv => DeploymentTypeOK
  <2> SUFFICES ASSUME IInv PROVE DeploymentTypeOK
    OBVIOUS
  <2>1. \A n \in Names :
          file[n] \in {None, Torn} \/ \E k \in Enrollees : file[n] = Enrollment(k)
    BY DEF IInv, FileInv, FileOK
  <2>2. \A r \in Runs :
          /\ stage[r] = "off" => plan[r] = None
          /\ stage[r] = "reading" => plan[r].names \in Seq(Names)
          /\ stage[r] \notin {"off", "reading", "dead"} =>
                plan[r].total_allocation \in 0 .. MaxAmount
    BY DEF IInv, RunInv, RunOK, Planned, Reading
  <2>3. definitions \subseteq [token : {Definition(r) : r \in Runs}, supply : 0 .. MaxAmount]
    BY DEF IInv, ChainInv, DefinitionOK, Answers, Planned
  <2> QED BY <2>1, <2>2, <2>3 DEF DeploymentTypeOK, IInv, FileInv, RunInv, ChainInv
<1> QED BY <1>1, Invariance, PTL

\* A manifest is only ever of a distribution on the chain, for any number of runs,
\* crashes, late transactions and rivals.
THEOREM ManifestCommitted == Spec => []ManifestMeansCommitted
<1>1. IInv => ManifestMeansCommitted
  <2> SUFFICES ASSUME IInv, HaveManifest
               PROVE  Committed(manifest.distribution_id)
    BY DEF ManifestMeansCommitted
  <2>1. PICK r \in Runs : stage[r] = "done" /\ manifest = Manifest(r)
    BY DEF IInv, RunInv
  <2>2. Committed(plan[r].distribution_id)
    BY <2>1 DEF IInv, RunInv, RunOK
  <2>3. manifest.distribution_id = plan[r].distribution_id
    BY <2>1 DEF Manifest
  <2> QED BY <2>2, <2>3
<1> QED BY <1>1, Invariance, PTL

\* What a state of ours says is what the run that signed for it had planned.
LEMMA OurState ==
    ASSUME IInv, NEW i \in Ids, Committed(i), State(i).distributor \in Distributors
    PROVE  \E r \in Runs : /\ Answers(r)
                           /\ State(i).distributor = Distributor(r)
                           /\ State(i).root = plan[r].root
                           /\ State(i).token_definition = Definition(r)
                           /\ State(i).total_allocation = plan[r].total_allocation
                           /\ State(i).num_eligible = plan[r].num_eligible
                           /\ State(i).active # 1 =>
                                stage[r] = "done" /\ plan[r].distribution_id = i
<1>1. StateOK(i, State(i))
  BY DEF IInv, ChainInv
<1> QED BY <1>1, RivalsAssumption DEF StateOK

\* A manifest whose run created the distribution agrees with the chain in every term.
THEOREM ManifestExact == Spec => []ManifestOfTheWinnerIsExact
<1>1. IInv => ManifestOfTheWinnerIsExact
  <2> SUFFICES ASSUME IInv, HaveManifest,
                      State(manifest.distribution_id).distributor = manifest.distributor
               PROVE  LET s == State(manifest.distribution_id) IN
                      /\ s.root = manifest.root
                      /\ s.token_definition = manifest.token_definition
                      /\ s.total_allocation = manifest.total_allocation
                      /\ s.num_eligible = manifest.num_eligible
    BY DEF ManifestOfTheWinnerIsExact
  <2>1. PICK r \in Runs : stage[r] = "done" /\ manifest = Manifest(r)
    BY DEF IInv, RunInv
  <2> DEFINE i == plan[r].distribution_id
  <2>2. i \in Ids /\ Committed(i)
    BY <2>1 DEF IInv, RunInv, RunOK, Planned
  <2>3. /\ manifest.distribution_id = i /\ manifest.distributor = Distributor(r)
        /\ manifest.root = plan[r].root
        /\ manifest.token_definition = Definition(r)
        /\ manifest.total_allocation = plan[r].total_allocation
        /\ manifest.num_eligible = plan[r].num_eligible
    BY <2>1 DEF Manifest
  <2> HIDE DEF i
  <2>4. PICK q \in Runs : /\ State(i).distributor = Distributor(q)
                          /\ State(i).root = plan[q].root
                          /\ State(i).token_definition = Definition(q)
                          /\ State(i).total_allocation = plan[q].total_allocation
                          /\ State(i).num_eligible = plan[q].num_eligible
    BY <2>2, <2>3, OurState, RunNames
  <2>5. q = r
    BY <2>3, <2>4, RunNames
  <2> QED BY <2>3, <2>4, <2>5
<1> QED BY <1>1, Invariance, PTL

\* Whoever crashes and whenever, the keys of what is on the chain, in the pool and in
\* the manifest are stored, and so are those of the recipients under a root.
THEOREM KeysStored == Spec => []KeysOutliveCrashes
<1>1. IInv => KeysOutliveCrashes
  <2> SUFFICES ASSUME IInv PROVE KeysOutliveCrashes
    OBVIOUS
  <2>1. \A r \in Runs : Answers(r) => /\ Distributor(r) \in OurKeys
                                      /\ Definition(r) \in OurKeys
                                      /\ Supply(r) \in OurKeys
                                      /\ RootStored(plan[r].root)
    BY DEF Answers, Keys, Planned
  <2>2. ASSUME NEW tx \in pool
        PROVE  /\ tx.kind = "definition" => tx.token \in OurKeys
               /\ tx.kind = "call" => tx.call.authorized \cap Distributors \subseteq OurKeys
               /\ tx.kind = "call" /\ tx.call.instruction = "initialize"
                    /\ tx.call.authorized \cap Distributors # {}
                    => tx.call.token_definition \in OurKeys
    <3>1. TxOK(tx)
      BY DEF IInv, PoolInv
    <3>2. \A r \in Runs : /\ DefinitionTx(r).token = Definition(r)
                          /\ InitializeTx(r).call.authorized = {Distributor(r)}
                          /\ InitializeTx(r).call.token_definition = Definition(r)
                          /\ FreezeTx(r).call.authorized = {Distributor(r)}
                          /\ FreezeTx(r).call.instruction = "freeze"
      BY DEF DefinitionTx, InitializeTx, FreezeTx, Guest!ClientInitializeCall,
             Guest!DocumentedFreezeCall, Guest!ClientFreezeCall
    <3> QED BY <2>1, <3>1, <3>2 DEF TxOK
  <2>3. \A d \in definitions : d.token \in OurKeys
    BY <2>1 DEF IInv, ChainInv, DefinitionOK
  <2>4. ASSUME NEW i \in OurDistributions
        PROVE  /\ {State(i).distributor, State(i).token_definition} \subseteq OurKeys
               /\ RootStored(State(i).root)
    BY <2>1, OurState DEF OurDistributions
  <2>5. HaveManifest =>
          {manifest.distributor, manifest.token_definition, manifest.supply_holding}
              \subseteq OurKeys
    <3> SUFFICES ASSUME HaveManifest
                 PROVE  {manifest.distributor, manifest.token_definition,
                         manifest.supply_holding} \subseteq OurKeys
      OBVIOUS
    <3>1. PICK r \in Runs : stage[r] = "done" /\ manifest = Manifest(r)
      BY DEF IInv, RunInv
    <3>2. Answers(r)
      BY <3>1 DEF IInv, RunInv, RunOK
    <3>3. /\ manifest.distributor = Distributor(r)
          /\ manifest.token_definition = Definition(r)
          /\ manifest.supply_holding = Supply(r)
      BY <3>1 DEF Manifest
    <3> QED BY <2>1, <3>2, <3>3
  <2>6. \A i \in OurDistributions :
          \E S \in SUBSET Enrollees : \E order \in SetToSeqs(S) :
              /\ State(i).root = Root([j \in DOMAIN order |-> Leaf(DAccount(order[j]))])
              /\ {DAccount(k) : k \in S} \subseteq RecipientKeys
    BY <2>4 DEF RootStored
  <2> QED BY <2>2, <2>3, <2>4, <2>5, <2>6 DEF KeysOutliveCrashes
<1> QED BY <1>1, Invariance, PTL

\* What a run of ours committed is the root, the number and the total of one list of
\* enrollments, with one for each name and in the order of the names, whatever was
\* added, truncated and replaced between the listing and the reading of each file.
THEOREM TermsAreOfOneList == Spec => []CommittedTermsAreOfOneList
<1>1. IInv => CommittedTermsAreOfOneList
  <2> SUFFICES ASSUME IInv, NEW i \in OurDistributions
               PROVE  OneList(State(i))
    BY DEF CommittedTermsAreOfOneList, OneList, AmountOf
  <2>1. PICK r \in Runs : /\ Answers(r)
                          /\ State(i).root = plan[r].root
                          /\ State(i).total_allocation = plan[r].total_allocation
                          /\ State(i).num_eligible = plan[r].num_eligible
    BY OurState DEF OurDistributions
  <2>2. OneList(plan[r])
    BY <2>1 DEF Answers, Planned
  <2> QED BY <2>1, <2>2 DEF OneList
<1> QED BY <1>1, Invariance, PTL

\* An OK of airdrop_status, which compares roots only, is right about the totals of a
\* distribution of ours: on the chain, in the manifest and in the directory.
THEOREM StatusOkIsRight == Spec => []StatusOkFixesTheTotals
<1>1. IInv => StatusOkFixesTheTotals
  <2> DEFINE i == manifest.distribution_id
             s == State(i)
  <2> SUFFICES ASSUME IInv, StatusVerdict = "OK", i \in OurDistributions
               PROVE  /\ s.total_allocation = manifest.total_allocation
                      /\ s.num_eligible = manifest.num_eligible
                      /\ s.total_allocation = TotalAllocation(Enrollments)
    BY DEF StatusOkFixesTheTotals
  <2>1. /\ HaveManifest /\ Committed(i) /\ s.root = manifest.root
        /\ DirectoryReadable /\ EligibilityRoot(Enrollments) = s.root
    BY DEF StatusVerdict
  <2>2. PICK r \in Runs : stage[r] = "done" /\ manifest = Manifest(r)
    BY <2>1 DEF IInv, RunInv
  <2>3. /\ manifest.root = plan[r].root
        /\ manifest.total_allocation = plan[r].total_allocation
        /\ manifest.num_eligible = plan[r].num_eligible
    BY <2>2 DEF Manifest
  <2>4. OneList(plan[r])
    BY <2>2 DEF IInv, RunInv, RunOK, Answers, Planned
  <2>5. PICK q \in Runs : /\ Answers(q)
                          /\ s.root = plan[q].root
                          /\ s.total_allocation = plan[q].total_allocation
                          /\ s.num_eligible = plan[q].num_eligible
    BY OurState DEF OurDistributions
  <2>6. OneList(plan[q])
    BY <2>5 DEF Answers, Planned
  <2> DEFINE now == [root             |-> EligibilityRoot(Enrollments),
                     total_allocation |-> TotalAllocation(Enrollments),
                     num_eligible     |-> Len(Enrollments)]
  <2>7. OneList(now)
    <3>1. /\ Enrollments \in Seq(Stored)
          /\ \A j, l \in DOMAIN Enrollments :
               j < l => Enrollments[j].name < Enrollments[l].name
      BY <2>1, QuietDirectory
    <3>2. /\ now.root = EligibilityRoot(Enrollments)
          /\ now.total_allocation = TotalAllocation(Enrollments)
          /\ now.num_eligible = Len(Enrollments)
      OBVIOUS
    <3> HIDE DEF now
    <3> QED BY <3>1, <3>2, ListTerms
  <2>8. now.root = s.root /\ now.total_allocation = TotalAllocation(Enrollments)
    BY <2>1
  <2> HIDE DEF now, s
  <2>9. plan[q].total_allocation = plan[r].total_allocation
        /\ plan[q].num_eligible = plan[r].num_eligible
    BY <2>1, <2>3, <2>4, <2>5, <2>6, RootFixesTerms
  <2>10. plan[q].total_allocation = now.total_allocation
    BY <2>5, <2>6, <2>7, <2>8, RootFixesTerms
  <2> QED BY <2>3, <2>5, <2>8, <2>9, <2>10
<1> QED BY <1>1, Invariance, PTL

\* A token is created with the total of the distribution that names it.
THEOREM SupplyIsTheTotal == Spec => []DefinitionSupplyIsTheTotal
<1>1. IInv => DefinitionSupplyIsTheTotal
  <2> SUFFICES ASSUME IInv, NEW i \in OurDistributions, NEW d \in definitions,
                      d.token = State(i).token_definition
               PROVE  d.supply = State(i).total_allocation
    BY DEF DefinitionSupplyIsTheTotal
  <2>1. PICK r \in Runs : /\ State(i).token_definition = Definition(r)
                          /\ State(i).total_allocation = plan[r].total_allocation
    BY OurState DEF OurDistributions
  <2>2. PICK q \in Runs : d = [token |-> Definition(q), supply |-> plan[q].total_allocation]
    BY DEF IInv, ChainInv, DefinitionOK
  <2>3. q = r
    BY <2>1, <2>2, RunNames
  <2> QED BY <2>1, <2>2, <2>3
<1> QED BY <1>1, Invariance, PTL

\* Only for the run that created it is a distribution of ours frozen: what the manifest
\* of another run asks for is refused, and so is what any rival does.
THEOREM OnlyItsOwnRunFreezes == Spec => []FrozenByItsOwnRun
<1>1. IInv => FrozenByItsOwnRun
  BY OurState DEF FrozenByItsOwnRun, OurDistributions
<1> QED BY <1>1, Invariance, PTL

-----------------------------------------------------------------------------
(* The system keeps the promise of Commitment, because the guest does.     *)

\* The two instances of the program promise the same.
LEMMA SamePromise ==
    /\ Chain!Promise!Init => Guest!Promise!Init
    /\ [Chain!Promise!Next]_(Chain!Promise!vars) => [Guest!Promise!Next]_(Guest!Promise!vars)
<1>1. Chain!terms = Guest!terms /\ Chain!frozen = Guest!frozen
  BY Zenon DEF Chain!terms, Guest!terms, Chain!frozen, Guest!frozen,
         Chain!Pda, Guest!Pda, Chain!DistributionSeed, Guest!DistributionSeed,
         Chain!Committed, Guest!Committed, Chain!TermsOf, Guest!TermsOf,
         Chain!HostIsActive, Guest!HostIsActive
<1>2. Chain!terms' = Guest!terms' /\ Chain!frozen' = Guest!frozen'
  BY Zenon DEF Chain!terms, Guest!terms, Chain!frozen, Guest!frozen,
         Chain!Pda, Guest!Pda, Chain!DistributionSeed, Guest!DistributionSeed,
         Chain!Committed, Guest!Committed, Chain!TermsOf, Guest!TermsOf,
         Chain!HostIsActive, Guest!HostIsActive
<1>3. Chain!CommitmentTerms = Guest!CommitmentTerms
  BY DEF Chain!CommitmentTerms, Guest!CommitmentTerms
<1> QED BY <1>1, <1>2, <1>3
        DEF Chain!Promise!Init, Guest!Promise!Init, Chain!Promise!Next, Guest!Promise!Next,
            Chain!Promise!Commit, Guest!Promise!Commit, Chain!Promise!Freeze,
            Guest!Promise!Freeze, Chain!Promise!vars, Guest!Promise!vars

\* Everything that runs and rivals do together is a behaviour of the chain on which any
\* call may be submitted, of which AirdropProgram_proofs shows that it keeps the promise:
\* terms are written once, whatever is interrupted, sent again or executed late.
THEOREM Implementation == Spec => KeepsCommitment
<1>1. Spec => Chain!Spec
  BY ChainInit, ChainNext, Invariance, PTL DEF Spec, Chain!Spec
<1>2. Chain!Spec => Chain!KeepsCommitment
  BY ChainAssumptions, Chain!Implementation, PTL
<1>3. Chain!KeepsCommitment => KeepsCommitment
  BY SamePromise, PTL DEF KeepsCommitment, Guest!KeepsCommitment, Chain!KeepsCommitment,
     Guest!Promise!Spec, Chain!Promise!Spec
<1> QED BY <1>1, <1>2, <1>3, PTL
=============================================================================
