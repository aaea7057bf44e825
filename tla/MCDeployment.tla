---------------------------- MODULE MCDeployment ----------------------------
(***************************************************************************)
(* Two recipients, one of whom enrolls twice with different amounts; two   *)
(* runs of airdrop_deploy; one rival with the same program.                *)
(***************************************************************************)
EXTENDS Deployment

CONSTANTS rival, rivalToken, rivalRoot, clock50

MCInvocations ==
    <<[name |-> 1, amount |-> 1], [name |-> 2, amount |-> 2], [name |-> 1, amount |-> 2]>>

MCTwoInvocations ==
    <<[name |-> 1, amount |-> 1], [name |-> 2, amount |-> 2]>>

MCOneInvocation == <<[name |-> 1, amount |-> 1]>>

MCRivals == {rival}

\* A rival that uses the default distribution id; the calls are the ones its client
\* builds and the interface describes.
MCRivalCalls ==
    {[instruction     |-> "freeze",
      accounts        |-> <<<<Program, <<"distribution", 1>>>>, rival>>,
      authorized      |-> {rival},
      distribution_id |-> 1],
     [instruction      |-> "initialize",
      accounts         |-> <<<<Program, <<"distribution", 1>>>>, rival, clock50>>,
      authorized       |-> {rival},
      distribution_id  |-> 1,
      root             |-> rivalRoot,
      token_definition |-> rivalToken,
      total_allocation |-> 3,
      num_eligible     |-> 1]}

MCNoRivals == {}
=============================================================================
