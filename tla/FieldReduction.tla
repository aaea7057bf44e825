--------------------------- MODULE FieldReduction ---------------------------
(***************************************************************************)
(* reduce_mod_prime of airdrop-core: a hash input modulo the field prime,  *)
(* by repeated subtraction on an array of limbs, least significant first.  *)
(* The bytes of the input are taken as the limbs they encode.  The steps   *)
(* are put into a specification by Eligibility.                            *)
(***************************************************************************)
EXTENDS Integers, Sequences

CONSTANTS
    Base,       \* 2^64
    Limbs,      \* 4
    Prime       \* BN254_PRIME_LIMBS

Digits == 0 .. Base - 1
Index == 1 .. Limbs
Number == [Index -> Digits]

ASSUME ReductionAssumption ==
    Base \in Nat \ {0, 1} /\ Limbs \in Nat \ {0} /\ Prime \in Number
    /\ Prime # [i \in Index |-> 0]

VARIABLES
    input,          \* what reduce_mod_prime was called with
    limbs,          \* its local variable
    subtractions    \* iterations of the loop so far

vars == <<input, limbs, subtractions>>

\* Mutant: the least significant difference decides.
limbs_ge_from_below(a, b) ==
    a = b \/ \E i \in Index : a[i] > b[i] /\ \A j \in Index : j < i => a[j] = b[j]

\* The most significant difference decides; equal numbers compare true.
limbs_ge(a, b) ==
    a = b \/ \E i \in Index : a[i] > b[i] /\ \A j \in Index : j > i => a[j] = b[j]

wrapping_sub(a, b, i) == (a[i] - b[i]) % Base

\* Mutant: the second subtraction's borrow is lost.
borrows_one(a, b) ==
    LET borrow[i \in 0 .. Limbs] ==
            IF i = 0 THEN 0 ELSE IF a[i] < b[i] THEN 1 ELSE 0
    IN borrow

\* borrows(a, b)[i] is what limb i borrows from the next one: of the two
\* subtractions at most one wraps around.
borrows(a, b) ==
    LET borrow[i \in 0 .. Limbs] ==
            IF i = 0 THEN 0
            ELSE IF a[i] < b[i] \/ wrapping_sub(a, b, i) < borrow[i - 1] THEN 1 ELSE 0
    IN borrow

limbs_sub(a, b) ==
    [i \in Index |-> (wrapping_sub(a, b, i) - borrows(a, b)[i - 1]) % Base]

Init ==
    /\ input \in Number
    /\ limbs = input
    /\ subtractions = 0

reduce_mod_prime ==
    /\ limbs_ge(limbs, Prime)
    /\ limbs' = limbs_sub(limbs, Prime)
    /\ subtractions' = subtractions + 1
    /\ UNCHANGED input

-----------------------------------------------------------------------------

\* The number that the k most significant limbs make.
ValueOfTop(a) ==
    LET top[k \in 0 .. Limbs] ==
            IF k = 0 THEN 0 ELSE Base * top[k - 1] + a[Limbs + 1 - k]
    IN top

Value(a) == ValueOfTop(a)[Limbs]

\* The limbs stay limbs: no subtraction leaves a digit out of range.
TypeOK == input \in Number /\ limbs \in Number /\ subtractions \in Nat

\* However borrows run through the limbs, the loop subtracts exactly the prime
\* each time, so host and guest hash the same residue of the same input.
ReductionIsExact ==
    Value(input) = Value(limbs) + subtractions * Value(Prime)

\* The loop stops exactly when the number is below the prime.
StopsBelowThePrime ==
    limbs_ge(limbs, Prime) <=> Value(limbs) >= Value(Prime)
=============================================================================
