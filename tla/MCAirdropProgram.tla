-------------------------- MODULE MCAirdropProgram --------------------------
(***************************************************************************)
(* Two distributions, two signers, two possible roots, and one call for    *)
(* each way a call can be right or wrong.                                  *)
(***************************************************************************)
EXTENDS AirdropClient

CONSTANTS alice, bob, clock50, fakeClock, rootA, rootB, zeroRoot, token

MCIds == {1, 2}
MCSigners == {alice, bob}
MCRoots == {rootA, rootB, zeroRoot}
MCTokens == {token}
MCOther == {fakeClock}

WellFormed(i, d, r) == ClientInitializeCall(i, d, r, token, 2, 1)

\* The well-formed calls, and the first one with one or several things wrong.
MCInitializeCalls ==
    LET good == WellFormed(1, alice, rootA) IN
    {WellFormed(i, d, r) : i \in MCIds, d \in MCSigners, r \in {rootA, rootB}}
    \cup {[good EXCEPT !.authorized = {}],
          [good EXCEPT !.authorized = {bob}],
          [good EXCEPT !.accounts = <<Pda(1), Pda(1), clock50>>],
          [good EXCEPT !.accounts = <<Pda(1), alice, fakeClock>>],
          [good EXCEPT !.accounts = <<Pda(1), alice>>],
          [good EXCEPT !.distribution_id = 2],
          [good EXCEPT !.total_allocation = 0],
          [good EXCEPT !.num_eligible = 0],
          [good EXCEPT !.root = zeroRoot],
          [good EXCEPT !.root = zeroRoot, !.total_allocation = 0,
                       !.num_eligible = 0, !.authorized = {}]}

MCFreezeCalls ==
    LET good == DocumentedFreezeCall(1, alice) IN
    {DocumentedFreezeCall(i, d) : i \in MCIds, d \in MCSigners}
    \cup {ClientFreezeCall(i, d) : i \in MCIds, d \in MCSigners}
    \cup {[good EXCEPT !.authorized = {}],
          [good EXCEPT !.authorized = {bob}],
          [good EXCEPT !.distribution_id = 2],
          [good EXCEPT !.accounts = <<>>]}
=============================================================================
