------------------------------ MODULE Governance ------------------------------
(***************************************************************************)
(* contracts/multisig_governance/src/lib.rs: the transfer of the admin     *)
(* role of a target contract by proposal, approvals, timelock and expiry.  *)
(* A call that returns an error or traps is reverted and is no step.       *)
(*                                                                         *)
(* The target contract is external: only its admin, and the account that   *)
(* authorizes set_admin on it, matter here.                                *)
(***************************************************************************)
EXTENDS Naturals, FiniteSets

CONSTANTS
    GovAccounts, GovContract,
    MinTimelock,        \* MIN_TIMELOCK_SECONDS
    ProposalTtl,        \* PROPOSAL_TTL_SECONDS
    ReproposalCooldown, \* REPROPOSAL_COOLDOWN_SECONDS
    MaxSigners,         \* MAX_SIGNERS
    Delays,             \* delays an admin asks for
    MaxTime, MaxProposals

ASSUME GovAssumption ==
    /\ IsFiniteSet(GovAccounts) /\ GovContract \notin GovAccounts
    /\ {MinTimelock, ProposalTtl, ReproposalCooldown, MaxSigners, MaxTime, MaxProposals} \subseteq Nat
    /\ Delays \subseteq Nat

VARIABLES
    now,            \* env.ledger().timestamp()
    govAdmin,       \* KEY_ADMIN
    transfer,       \* KEY_PENDING, status "none" when the key is absent
    cancelledAt,    \* KEY_LAST_CANCELLED_AT, 0 when the key is absent
    proposalCount,  \* KEY_PROPOSAL_COUNT
    targetAdmin,    \* the target contract's admin
    votes           \* history: who approved which proposal while it was open

govVars == <<now, govAdmin, transfer, cancelledAt, proposalCount, targetAdmin, votes>>

-------------------------------------------------------------------------------
NoTransfer == [status |-> "none", id |-> 0, to |-> GovContract, signers |-> {}, threshold |-> 0,
               after |-> 0, approvals |-> {}, at |-> 0]

(* The state initialize leaves; the target has been handed to the contract. *)
GovInit ==
    /\ now = 1
    /\ govAdmin \in GovAccounts
    /\ transfer = NoTransfer
    /\ cancelledAt = 0 /\ proposalCount = 0
    /\ targetAdmin = GovContract
    /\ votes = {}

TimePasses ==
    /\ now < MaxTime
    /\ now' = now + 1
    /\ UNCHANGED <<govAdmin, transfer, cancelledAt, proposalCount, targetAdmin, votes>>

\* Mutant: a new proposal starts from the approvals of the one it replaces.
InheritedApprovals == transfer.approvals

InitialApprovals == {}

ProposeAdminTransfer(to, signers, threshold, delay) ==
    /\ transfer.status # "active"
    /\ cancelledAt > 0 => now >= cancelledAt + ReproposalCooldown
    /\ signers # {} /\ Cardinality(signers) <= MaxSigners
    /\ threshold \in 1..Cardinality(signers)
    /\ delay >= MinTimelock
    /\ proposalCount < MaxProposals
    /\ proposalCount' = proposalCount + 1
    /\ transfer' = [status |-> "active", id |-> proposalCount', to |-> to, signers |-> signers,
                    threshold |-> threshold, after |-> now + delay,
                    approvals |-> InitialApprovals, at |-> now]
    /\ UNCHANGED <<now, govAdmin, cancelledAt, targetAdmin, votes>>

ApproveTransfer(signer) ==
    /\ transfer.status = "active"
    /\ signer \in transfer.signers
    /\ transfer' = [transfer EXCEPT !.approvals = @ \cup {signer}]
    /\ votes' = votes \cup {<<signer, transfer.id>>}
    /\ UNCHANGED <<now, govAdmin, cancelledAt, proposalCount, targetAdmin>>

Expired == now >= transfer.at + ProposalTtl

(* set_admin needs the authorization of the target's admin: this contract,  *)
(* or the caller, who may authorize the whole call.                         *)
FinalizeAdminTransfer(caller) ==
    /\ transfer.status = "active"
    /\ now >= transfer.after /\ ~Expired
    /\ Cardinality(transfer.approvals) >= transfer.threshold
    /\ targetAdmin \in {GovContract, caller}
    /\ targetAdmin' = transfer.to
    /\ govAdmin' = transfer.to
    /\ transfer' = NoTransfer
    /\ cancelledAt' = now
    /\ UNCHANGED <<now, proposalCount, votes>>

(* cancel_admin_transfer, and emergency_cancel_proposal with the id of the  *)
(* proposal; a second call changes nothing.                                 *)
CancelTransfer ==
    /\ transfer.status = "active"
    /\ transfer' = [transfer EXCEPT !.status = "cancelled"]
    /\ cancelledAt' = now
    /\ UNCHANGED <<now, govAdmin, proposalCount, targetAdmin, votes>>

ExpireProposal ==
    /\ transfer.status = "active" /\ Expired
    /\ transfer' = NoTransfer
    /\ UNCHANGED <<now, govAdmin, cancelledAt, proposalCount, targetAdmin, votes>>

(* The target's admin, once it is an account, hands the target on. *)
TargetSetAdmin(a) ==
    /\ targetAdmin # GovContract
    /\ targetAdmin' = a
    /\ UNCHANGED <<now, govAdmin, transfer, cancelledAt, proposalCount, votes>>

GovNext ==
    \/ TimePasses \/ CancelTransfer \/ ExpireProposal
    \/ \E a \in GovAccounts :
          \/ ApproveTransfer(a) \/ FinalizeAdminTransfer(a)
          \/ \E signers \in SUBSET GovAccounts, n \in 1..MaxSigners, d \in Delays :
                ProposeAdminTransfer(a, signers, n, d)
    \/ \E a \in GovAccounts \cup {GovContract} : TargetSetAdmin(a)

GovSpec == GovInit /\ [][GovNext]_govVars

-------------------------------------------------------------------------------
(* Every variable has its type. *)
GovTypeOK ==
    /\ now \in Nat /\ cancelledAt \in Nat /\ proposalCount \in Nat
    /\ govAdmin \in GovAccounts /\ targetAdmin \in GovAccounts \cup {GovContract}
    /\ transfer \in [status : {"none", "active", "cancelled"}, id : Nat,
                     to : GovAccounts \cup {GovContract}, signers : SUBSET GovAccounts,
                     threshold : Nat, after : Nat, approvals : SUBSET GovAccounts, at : Nat]
    /\ votes \subseteq GovAccounts \X Nat

(* The admin role moves only to whom the pending proposal names, after the  *)
(* minimum timelock and before the proposal expires, and with the threshold *)
(* of its signers having approved that very proposal: approvals of one that *)
(* was cancelled, finalized or expired never count for another.             *)
TransfersAreApproved ==
    [][govAdmin' # govAdmin =>
         /\ govAdmin' = transfer.to /\ targetAdmin' = transfer.to
         /\ now \in (transfer.at + MinTimelock)..(transfer.at + ProposalTtl - 1)
         /\ Cardinality({s \in transfer.signers : <<s, transfer.id>> \in votes})
               >= transfer.threshold]_govVars
===============================================================================
