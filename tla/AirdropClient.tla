---------------------------- MODULE AirdropClient ----------------------------
(***************************************************************************)
(* The calls that src/airdrop/client.rs builds for the two instructions:   *)
(* which accounts it lists and who signs.  What the caller does before and *)
(* after sending them is the business of the modules of the programs.      *)
(***************************************************************************)
EXTENDS AirdropProgram

ClientInitializeCall(i, d, root, token, total, count) ==
    [instruction      |-> "initialize",
     accounts         |-> <<Pda(i), d, Clock50>>,
     authorized       |-> {d},
     distribution_id  |-> i,
     root             |-> root,
     token_definition |-> token,
     total_allocation |-> total,
     num_eligible     |-> count]

ClientFreezeCall(i, d) ==
    [instruction     |-> "freeze",
     accounts        |-> <<Pda(i), d, Clock50>>,
     authorized      |-> {d},
     distribution_id |-> i]

\* The call that the documentation of Instruction::FreezeDistribution describes.
DocumentedFreezeCall(i, d) ==
    [ClientFreezeCall(i, d) EXCEPT !.accounts = <<Pda(i), d>>]

-----------------------------------------------------------------------------
(* What documents of the repository say and the code does not do.          *)

\* instruction.rs gives FreezeDistribution two accounts and so does the guest;
\* a freeze built by the client would then never be refused for its accounts.
ClientFreezeHasDocumentedAccounts ==
    \A i \in Ids, d \in Signers :
        receipt.call = ClientFreezeCall(i, d)
            => receipt.outcome # "AccountCountMismatch"
=============================================================================
