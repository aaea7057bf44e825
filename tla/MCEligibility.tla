---------------------------- MODULE MCEligibility ----------------------------
(***************************************************************************)
(* Three limbs of three bits; like the BN254 prime in 256 bits, the prime  *)
(* fits a handful of times, and its middle limb is the largest one, so     *)
(* that a borrow meets a difference of zero.  Every number is reduced;     *)
(* three are enrolled, two of which differ by twice the prime.             *)
(***************************************************************************)
EXTENDS Eligibility

MCPrime == <<5, 7, 1>>

MCIds == {<<1, 0, 0>>, <<3, 7, 3>>, <<7, 7, 2>>}
=============================================================================
