------------------------------ MODULE MCServices ------------------------------
(***************************************************************************)
(* The request-driven services on small instances: wallet authentication,  *)
(* remittances behind the idempotency middleware, privileged actions, key  *)
(* rotation, the pool operations of the web client, and the governance and *)
(* NFT contracts.  They share no variable, so a safety property of one     *)
(* holds of all of them together exactly if it holds of that one: one      *)
(* service at a time is let run, and "service" chooses it.                 *)
(***************************************************************************)
EXTENDS Challenges, Remittances, PrivilegedActions, KeyRotation, PoolOperations,
        Governance, MCRemittanceNft

VARIABLE service

vars == <<service, challengeVars, remittanceVars, privilegedVars, rotationVars, poolOpVars,
          govVars, hvars>>

Init ==
    /\ service \in {"login", "remittances", "privileged", "rotation", "pool operations",
                   "governance", "nft"}
    /\ ChallengeInit /\ RemittanceInit /\ PrivilegedInit /\ RotationInit /\ PoolOpInit
    /\ GovInit /\ HInit
    /\ service # "governance" => govAdmin = CHOOSE a \in GovAccounts : TRUE
    /\ service # "rotation" => kms
    /\ \A r \in PiiRecords : piiFields[r].label = CHOOSE key \in Keys : TRUE

Next ==
    /\ UNCHANGED service
    /\ \/ /\ service = "login" /\ ChallengeNext
          /\ UNCHANGED <<remittanceVars, privilegedVars, rotationVars, poolOpVars, govVars, hvars>>
       \/ /\ service = "remittances" /\ RemittanceNext
          /\ UNCHANGED <<challengeVars, privilegedVars, rotationVars, poolOpVars, govVars, hvars>>
       \/ /\ service = "privileged" /\ PrivilegedNext
          /\ UNCHANGED <<challengeVars, remittanceVars, rotationVars, poolOpVars, govVars, hvars>>
       \/ /\ service = "rotation" /\ RotationNext
          /\ UNCHANGED <<challengeVars, remittanceVars, privilegedVars, poolOpVars, govVars,
                        hvars>>
       \/ /\ service = "pool operations" /\ PoolOpNext
          /\ UNCHANGED <<challengeVars, remittanceVars, privilegedVars, rotationVars, govVars,
                        hvars>>
       \/ /\ service = "governance" /\ GovNext
          /\ UNCHANGED <<challengeVars, remittanceVars, privilegedVars, rotationVars, poolOpVars,
                        hvars>>
       \/ /\ service = "nft" /\ HNext
          /\ UNCHANGED <<challengeVars, remittanceVars, privilegedVars, rotationVars, poolOpVars,
                        govVars>>

(* Nothing reads the result of a verification: states that differ only in   *)
(* it are reached and checked, and not taken further.                       *)
VerificationAlone == \A b \in Batches : ~rotationBatch[b].verified

Spec == Init /\ [][Next]_vars
===============================================================================
