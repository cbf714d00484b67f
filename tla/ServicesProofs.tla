---------------------------- MODULE ServicesProofs ----------------------------
(***************************************************************************)
(* Theorems about the request-driven services, each about its own          *)
(* specification and for any number of accounts, requests, records and     *)
(* overlapping calls:                                                      *)
(*   the governance contract hands the admin role over only with the       *)
(*   approvals, and within the time, its proposal asks for;                *)
(*   a login challenge signs in at most once;                              *)
(*   no remittance under which a payment was sent is offered for           *)
(*   submission again;                                                     *)
(*   a privileged action takes two admins and takes effect once;           *)
(*   the web client's optimistic figures are transient;                    *)
(*   a completed key rotation leaves at most one record with the old key;  *)
(* and about the background jobs: the types of their rows and runs.        *)
(***************************************************************************)
EXTENDS Governance, Challenges, Remittances, PrivilegedActions, PoolOperations, KeyRotation,
        MCJobs, Recursion, FiniteSetTheorems, TLAPS

-------------------------------------------------------------------------------
(* contracts/multisig_governance (Governance).                              *)

(* What an active proposal is known to be: its approvals were given to it,  *)
(* by its own signers, and its timelock is at least the minimum.            *)
ProposalIsSound ==
    transfer.status = "active" =>
        /\ transfer.to \in GovAccounts
        /\ transfer.approvals \subseteq {s \in transfer.signers : <<s, transfer.id>> \in votes}
        /\ transfer.after >= transfer.at + MinTimelock

GovInv == GovTypeOK /\ ProposalIsSound

LEMMA GovInitInv == GovInit => GovInv
  BY GovAssumption DEF GovInit, GovInv, GovTypeOK, ProposalIsSound, NoTransfer

LEMMA ProposeKeepsGovInv ==
    ASSUME GovInv, NEW to \in GovAccounts, NEW signers \in SUBSET GovAccounts,
           NEW threshold \in 1..MaxSigners, NEW delay \in Delays,
           ProposeAdminTransfer(to, signers, threshold, delay)
    PROVE  GovInv'
  <1> USE GovAssumption DEF ProposeAdminTransfer, GovInv, GovTypeOK
  <1>1. threshold \in Nat /\ delay \in Nat /\ now + delay \in Nat /\ proposalCount' \in Nat
    OBVIOUS
  <1>2. transfer' = [status |-> "active", id |-> proposalCount', to |-> to, signers |-> signers,
                     threshold |-> threshold, after |-> now + delay, approvals |-> {}, at |-> now]
    BY DEF InitialApprovals
  <1>3. GovTypeOK'
    BY <1>1, <1>2
  <1>4. ProposalIsSound'
    BY <1>1, <1>2 DEF ProposalIsSound
  <1> QED BY <1>3, <1>4

LEMMA ApproveKeepsGovInv ==
    ASSUME GovInv, NEW signer \in GovAccounts, ApproveTransfer(signer)
    PROVE  GovInv'
  <1> USE GovAssumption DEF ApproveTransfer, GovInv, GovTypeOK
  <1>1. GovTypeOK'
    OBVIOUS
  <1>2. /\ transfer'.to = transfer.to /\ transfer'.signers = transfer.signers
        /\ transfer'.id = transfer.id /\ transfer'.after = transfer.after
        /\ transfer'.at = transfer.at /\ transfer'.approvals = transfer.approvals \cup {signer}
    OBVIOUS
  <1>3. <<signer, transfer.id>> \in votes' /\ votes \subseteq votes'
    OBVIOUS
  <1>4. ProposalIsSound'
    BY <1>2, <1>3 DEF ProposalIsSound
  <1> QED BY <1>1, <1>4

LEMMA FinalizeKeepsGovInv ==
    ASSUME GovInv, NEW caller \in GovAccounts, FinalizeAdminTransfer(caller)
    PROVE  GovInv'
  BY DEF FinalizeAdminTransfer, GovInv, GovTypeOK, ProposalIsSound, NoTransfer

LEMMA CloseKeepsGovInv ==
    ASSUME GovInv, CancelTransfer \/ ExpireProposal
    PROVE  GovInv'
  <1>1. CASE CancelTransfer
    BY <1>1 DEF CancelTransfer, GovInv, GovTypeOK, ProposalIsSound
  <1>2. CASE ExpireProposal
    BY <1>2 DEF ExpireProposal, GovInv, GovTypeOK, ProposalIsSound, NoTransfer
  <1> QED BY <1>1, <1>2

LEMMA OutsideKeepsGovInv ==
    ASSUME GovInv,
           TimePasses \/ (\E a \in GovAccounts \cup {GovContract} : TargetSetAdmin(a))
                      \/ UNCHANGED govVars
    PROVE  GovInv'
  <1> USE DEF GovInv, GovTypeOK, ProposalIsSound
  <1>1. CASE TimePasses
    BY <1>1 DEF TimePasses
  <1>2. ASSUME NEW a \in GovAccounts \cup {GovContract}, TargetSetAdmin(a)
        PROVE  GovInv'
    BY <1>2 DEF TargetSetAdmin
  <1>3. CASE UNCHANGED govVars
    BY <1>3 DEF govVars
  <1> QED BY <1>1, <1>2, <1>3

LEMMA GovNextInv == GovInv /\ [GovNext]_govVars => GovInv'
  <1> SUFFICES ASSUME GovInv, [GovNext]_govVars PROVE GovInv'
    OBVIOUS
  <1>1. ASSUME NEW a \in GovAccounts, ApproveTransfer(a) PROVE GovInv'
    BY <1>1, ApproveKeepsGovInv
  <1>2. ASSUME NEW a \in GovAccounts, FinalizeAdminTransfer(a) PROVE GovInv'
    BY <1>2, FinalizeKeepsGovInv
  <1>3. ASSUME NEW a \in GovAccounts, NEW signers \in SUBSET GovAccounts, NEW n \in 1..MaxSigners,
               NEW d \in Delays, ProposeAdminTransfer(a, signers, n, d)
        PROVE  GovInv'
    BY <1>3, ProposeKeepsGovInv
  <1> QED BY <1>1, <1>2, <1>3, CloseKeepsGovInv, OutsideKeepsGovInv DEF GovNext

(* The storage of the governance contract keeps its types, and whatever     *)
(* proposal is active carries only approvals its own signers gave to it.    *)
THEOREM GovInvHolds == GovSpec => []GovInv
  <1> QED BY GovInitInv, GovNextInv, PTL DEF GovSpec

(* The step of TransfersAreApproved, for a step that finalizes.             *)
LEMMA FinalizeIsApproved ==
    ASSUME GovInv, NEW caller \in GovAccounts, FinalizeAdminTransfer(caller)
    PROVE  /\ govAdmin' = transfer.to /\ targetAdmin' = transfer.to
           /\ now \in (transfer.at + MinTimelock)..(transfer.at + ProposalTtl - 1)
           /\ Cardinality({s \in transfer.signers : <<s, transfer.id>> \in votes})
                 >= transfer.threshold
  <1> DEFINE approved == {s \in transfer.signers : <<s, transfer.id>> \in votes}
  <1> USE GovAssumption DEF GovInv, GovTypeOK, FinalizeAdminTransfer
  <1>1. transfer.approvals \subseteq approved /\ transfer.after >= transfer.at + MinTimelock
    BY DEF ProposalIsSound
  <1>2. now \in (transfer.at + MinTimelock)..(transfer.at + ProposalTtl - 1)
    BY <1>1 DEF Expired
  <1>3. approved \subseteq GovAccounts
    OBVIOUS
  <1>4. IsFiniteSet(approved)
    BY <1>3, FS_Subset
  <1>5. Cardinality(transfer.approvals) <= Cardinality(approved) /\ IsFiniteSet(transfer.approvals)
    BY <1>1, <1>4, FS_Subset
  <1>6. Cardinality(approved) \in Nat /\ Cardinality(transfer.approvals) \in Nat
    BY <1>4, <1>5, FS_CardinalityType
  <1>7. Cardinality(approved) >= transfer.threshold
    BY <1>5, <1>6
  <1> QED BY <1>2, <1>7

(* Only finalize_admin_transfer moves the admin role, and it does so to     *)
(* whom the pending proposal names, after the minimum timelock, before the  *)
(* proposal expires, and with its threshold of approvals.                   *)
THEOREM TransfersAlwaysApproved == GovSpec => TransfersAreApproved
  <1>1. ASSUME GovInv, [GovNext]_govVars, govAdmin' # govAdmin
        PROVE  /\ govAdmin' = transfer.to /\ targetAdmin' = transfer.to
               /\ now \in (transfer.at + MinTimelock)..(transfer.at + ProposalTtl - 1)
               /\ Cardinality({s \in transfer.signers : <<s, transfer.id>> \in votes})
                     >= transfer.threshold
    <2>1. PICK caller \in GovAccounts : FinalizeAdminTransfer(caller)
      BY <1>1 DEF GovNext, govVars, TimePasses, CancelTransfer, ExpireProposal, ApproveTransfer,
                  ProposeAdminTransfer, TargetSetAdmin
    <2> QED BY <1>1, <2>1, FinalizeIsApproved
  <1> QED BY <1>1, GovInvHolds, PTL DEF GovSpec, TransfersAreApproved

-------------------------------------------------------------------------------
(* Wallet authentication (Challenges).                                      *)

Signing(q, c) == loginCall[q].pc = "token" /\ loginCall[q].challenge = c

(* Whoever has passed consumeChallenge, and every challenge with a token,   *)
(* has left a row that cannot be consumed again - consumed, or cleaned up - *)
(* and a challenge has one login past that point or one token, never both.  *)
SpentOnce ==
    /\ \A c \in ChallengeIds :
          /\ tokens[c] \in {0, 1}
          /\ tokens[c] = 1 => challengeRow[c] \in {"consumed", "deleted"}
    /\ \A q \in Logins, c \in ChallengeIds : Signing(q, c) =>
          /\ challengeRow[c] \in {"consumed", "deleted"}
          /\ tokens[c] = 0
          /\ loginCall[q].wallet = challengeFor[c]
          /\ \A r \in Logins : Signing(r, c) => r = q

ChallengeInv == ChallengeTypeOK /\ SpentOnce

LEMMA NoLoginType ==
    /\ NoLogin \in [pc : {"idle", "consume", "token"}, challenge : ChallengeIds, wallet : Wallets]
    /\ NoLogin.pc = "idle"
  <1>1. (CHOOSE c \in ChallengeIds : TRUE) \in ChallengeIds
    BY ChallengeAssumption
  <1>2. (CHOOSE w \in Wallets : TRUE) \in Wallets
    BY ChallengeAssumption
  <1> QED BY <1>1, <1>2 DEF NoLogin

LEMMA ChallengeInitInv == ChallengeInit => ChallengeInv
  <1>1. (CHOOSE w \in Wallets : TRUE) \in Wallets
    BY ChallengeAssumption
  <1>2. ChallengeInit => ChallengeTypeOK
    BY <1>1, NoLoginType DEF ChallengeInit, ChallengeTypeOK
  <1>3. ChallengeInit => SpentOnce
    BY NoLoginType DEF ChallengeInit, SpentOnce, Signing
  <1> QED BY <1>2, <1>3 DEF ChallengeInv

(* A login that gives up or is lost only stops being about to sign.         *)
LEMMA LeavingKeepsChallengeInv ==
    ASSUME ChallengeInv, NEW q \in Logins, loginCall' = [loginCall EXCEPT ![q] = NoLogin],
           UNCHANGED <<challengeRow, challengeFor, stale, tokens>>
    PROVE  ChallengeInv'
  <1> USE NoLoginType DEF ChallengeInv, ChallengeTypeOK
  <1>1. ChallengeTypeOK'
    OBVIOUS
  <1>2. \A r \in Logins, c \in ChallengeIds : Signing(r, c)' => Signing(r, c) /\ loginCall'[r] = loginCall[r]
    BY DEF Signing
  <1>3. SpentOnce'
    BY <1>2 DEF SpentOnce
  <1> QED BY <1>1, <1>3

LEMMA IssueKeepsChallengeInv ==
    ASSUME ChallengeInv, NEW c \in ChallengeIds, NEW wallet \in Wallets, IssueChallenge(c, wallet)
    PROVE  ChallengeInv'
  <1> USE DEF ChallengeInv, ChallengeTypeOK
  <1>1. PICK deleted \in SUBSET stale, inserted \in BOOLEAN :
          /\ Cleanup(deleted)
          /\ challengeRow' = [d \in ChallengeIds |->
                                IF d \in deleted THEN "deleted"
                                ELSE IF d = c /\ inserted THEN "issued"
                                ELSE challengeRow[d]]
          /\ challengeFor' = IF inserted THEN [challengeFor EXCEPT ![c] = wallet] ELSE challengeFor
    BY DEF IssueChallenge
  <1>2. challengeRow[c] = "none" /\ UNCHANGED <<stale, loginCall, tokens>>
    BY DEF IssueChallenge
  <1>3. ChallengeTypeOK'
    BY <1>1, <1>2
  <1>4. \A d \in ChallengeIds : challengeRow[d] \in {"consumed", "deleted"} =>
           challengeRow'[d] \in {"consumed", "deleted"} /\ challengeFor'[d] = challengeFor[d]
    BY <1>1, <1>2
  <1>5. \A q \in Logins, d \in ChallengeIds : Signing(q, d)' <=> Signing(q, d)
    BY <1>2 DEF Signing
  <1>6. SpentOnce'
    BY <1>2, <1>4, <1>5 DEF SpentOnce
  <1> QED BY <1>3, <1>6

LEMMA LoginKeepsChallengeInv ==
    ASSUME ChallengeInv, NEW q \in Logins, NEW c \in ChallengeIds, NEW wallet \in Wallets,
           StartLogin(q, c, wallet)
    PROVE  ChallengeInv'
  <1> USE DEF ChallengeInv, ChallengeTypeOK, StartLogin
  <1>1. ChallengeTypeOK'
    OBVIOUS
  <1>2. \A r \in Logins, d \in ChallengeIds : Signing(r, d)' => Signing(r, d) /\ loginCall'[r] = loginCall[r]
    BY DEF Signing
  <1>3. SpentOnce'
    BY <1>2 DEF SpentOnce
  <1> QED BY <1>1, <1>3

(* The conditional UPDATE finds the row issued, so nobody has passed it     *)
(* before and no token was signed.                                          *)
LEMMA ConsumeKeepsChallengeInv ==
    ASSUME ChallengeInv, NEW q \in Logins, ConsumeChallenge(q)
    PROVE  ChallengeInv'
  <1> DEFINE c == loginCall[q].challenge
  <1> USE DEF ChallengeInv, ChallengeTypeOK
  <1>0. /\ c \in ChallengeIds /\ loginCall[q].pc = "consume"
        /\ UNCHANGED <<challengeFor, stale, tokens>>
    BY DEF ConsumeChallenge
  <1>1. CASE loginCall' = [loginCall EXCEPT ![q] = NoLogin] /\ UNCHANGED challengeRow
    BY <1>0, <1>1, LeavingKeepsChallengeInv
  <1>2. CASE /\ Consumable(c, loginCall[q].wallet)
             /\ challengeRow' = [challengeRow EXCEPT ![c] = "consumed"]
             /\ loginCall' = [loginCall EXCEPT ![q] = NoLogin]
    <2>1. ChallengeTypeOK'
      BY <1>0, <1>2, NoLoginType
    <2>2. \A r \in Logins, d \in ChallengeIds : Signing(r, d)' => Signing(r, d) /\ loginCall'[r] = loginCall[r]
      BY <1>2, NoLoginType DEF Signing
    <2>3. SpentOnce'
      BY <1>0, <1>2, <2>2 DEF SpentOnce
    <2> QED BY <2>1, <2>3
  <1>3. CASE /\ Consumable(c, loginCall[q].wallet)
             /\ challengeRow' = [challengeRow EXCEPT ![c] = "consumed"]
             /\ loginCall' = [loginCall EXCEPT ![q].pc = "token"]
    <2>1. ChallengeTypeOK'
      BY <1>0, <1>3
    <2>2. /\ challengeRow[c] = "issued" /\ challengeFor[c] = loginCall[q].wallet
      BY <1>3 DEF Consumable
    <2>3. /\ tokens[c] = 0 /\ \A r \in Logins : ~Signing(r, c)
      BY <1>0, <2>2 DEF SpentOnce
    <2>4. \A r \in Logins, d \in ChallengeIds :
             Signing(r, d)' => \/ Signing(r, d) /\ loginCall'[r] = loginCall[r] /\ d # c
                               \/ r = q /\ d = c /\ loginCall'[q].wallet = loginCall[q].wallet
      BY <1>0, <1>3, <2>3 DEF Signing
    <2>5. challengeRow'[c] = "consumed" /\ \A d \in ChallengeIds \ {c} : challengeRow'[d] = challengeRow[d]
      BY <1>0, <1>3
    <2>6. SpentOnce'
      BY <1>0, <2>2, <2>3, <2>4, <2>5 DEF SpentOnce
    <2> QED BY <2>1, <2>6
  <1> QED BY <1>1, <1>2, <1>3 DEF ConsumeChallenge

LEMMA SignKeepsChallengeInv ==
    ASSUME ChallengeInv, NEW q \in Logins, SignToken(q)
    PROVE  ChallengeInv'
  <1> DEFINE c == loginCall[q].challenge
  <1> USE NoLoginType DEF ChallengeInv, ChallengeTypeOK
  <1>1. /\ c \in ChallengeIds /\ Signing(q, c)
        /\ tokens' = [tokens EXCEPT ![c] = @ + 1]
        /\ loginCall' = [loginCall EXCEPT ![q] = NoLogin]
        /\ UNCHANGED <<challengeRow, challengeFor, stale>>
    BY DEF SignToken, Signing
  <1>2. ChallengeTypeOK'
    BY <1>1
  <1>3. /\ tokens[c] = 0 /\ challengeRow[c] \in {"consumed", "deleted"}
        /\ \A r \in Logins : Signing(r, c) => r = q
    BY <1>1 DEF SpentOnce
  <1>4. \A r \in Logins, d \in ChallengeIds :
           Signing(r, d)' => Signing(r, d) /\ loginCall'[r] = loginCall[r] /\ r # q
    BY <1>1 DEF Signing
  <1>5. tokens'[c] = 1 /\ \A d \in ChallengeIds \ {c} : tokens'[d] = tokens[d]
    BY <1>1, <1>3
  <1>6. SpentOnce'
    BY <1>1, <1>3, <1>4, <1>5 DEF SpentOnce
  <1> QED BY <1>2, <1>6

LEMMA ChallengeNextInv == ChallengeInv /\ [ChallengeNext]_challengeVars => ChallengeInv'
  <1> SUFFICES ASSUME ChallengeInv, [ChallengeNext]_challengeVars PROVE ChallengeInv'
    OBVIOUS
  <1>1. ASSUME NEW c \in ChallengeIds, ChallengeExpires(c) PROVE ChallengeInv'
    BY <1>1 DEF ChallengeExpires, ChallengeInv, ChallengeTypeOK, SpentOnce, Signing
  <1>2. ASSUME NEW c \in ChallengeIds, NEW w \in Wallets, IssueChallenge(c, w) PROVE ChallengeInv'
    BY <1>2, IssueKeepsChallengeInv
  <1>3. ASSUME NEW c \in ChallengeIds, NEW w \in Wallets, NEW q \in Logins, StartLogin(q, c, w)
        PROVE  ChallengeInv'
    BY <1>3, LoginKeepsChallengeInv
  <1>4. ASSUME NEW q \in Logins, LoginLost(q) PROVE ChallengeInv'
    BY <1>4, LeavingKeepsChallengeInv DEF LoginLost
  <1>5. CASE UNCHANGED challengeVars
    BY <1>5 DEF challengeVars, ChallengeInv, ChallengeTypeOK, SpentOnce, Signing
  <1> QED BY <1>1, <1>2, <1>3, <1>4, <1>5, ConsumeKeepsChallengeInv, SignKeepsChallengeInv DEF ChallengeNext

LEMMA SpentOnceSuffices == ChallengeInv => OneLoginPerChallenge
  <1> SUFFICES ASSUME ChallengeInv, NEW c \in ChallengeIds
               PROVE  LET about == {q \in Logins : loginCall[q].pc = "token" /\ loginCall[q].challenge = c}
                      IN  /\ tokens[c] + Cardinality(about) <= 1
                          /\ \A q \in about : loginCall[q].wallet = challengeFor[c]
    BY DEF OneLoginPerChallenge
  <1> DEFINE about == {q \in Logins : loginCall[q].pc = "token" /\ loginCall[q].challenge = c}
  <1>1. \A q \in about : q \in Logins /\ Signing(q, c)
    BY DEF Signing
  <1>2. \A q \in about : tokens[c] = 0 /\ loginCall[q].wallet = challengeFor[c] /\ about = {q}
    BY <1>1 DEF ChallengeInv, SpentOnce, Signing
  <1>3. tokens[c] \in {0, 1}
    BY DEF ChallengeInv, SpentOnce
  <1>4. CASE about = {}
    <2>1. Cardinality(about) = 0
      BY <1>4, FS_EmptySet
    <2> QED BY <1>2, <1>3, <2>1
  <1>5. CASE about # {}
    <2>1. PICK q \in about : TRUE
      BY <1>5
    <2>2. Cardinality(about) = 1
      BY <1>2, <2>1, FS_Singleton
    <2> QED BY <1>2, <2>1, <2>2
  <1> QED BY <1>4, <1>5, <1>2

(* However often its login is sent, overlaps or is lost, and whenever its   *)
(* row expires or is cleaned up, a challenge yields one token at most, for  *)
(* the wallet it was issued to.                                             *)
THEOREM ChallengesSignInOnce == ChallengeSpec => []OneLoginPerChallenge
  <1>1. ChallengeSpec => []ChallengeInv
    BY ChallengeInitInv, ChallengeNextInv, PTL DEF ChallengeSpec
  <1> QED BY <1>1, SpentOnceSuffices, PTL

-------------------------------------------------------------------------------
(* Remittances behind the idempotency middleware (Remittances).             *)

Submitted(i) == remittances[i].status \in {"processing", "completed", "failed"}

(* A request that has come as far as the payment has marked its row, and no *)
(* step turns a marked row back to pending.                                 *)
MarkedFirst ==
    /\ \A q \in HttpRequests :
          /\ http[q].pc \in {"read", "mark", "submit", "complete", "notify", "catch"}
                => http[q].id \in RemittanceIds
          /\ http[q].pc = "submit" => Submitted(http[q].id)
    /\ \A t \in paid : Submitted(t.under)

RemittanceInv == RemittanceTypeOK /\ MarkedFirst

(* The steps of a request, and what a request is. *)
RequestSteps == {"idle", "create", "read", "mark", "submit", "complete", "notify", "catch", "finish"}

RequestType == [pc : RequestSteps, key : IdempotencyKeys \cup {"none"},
                id : RemittanceIds \cup {NoRemittance}, by : Senders,
                reply : {"none", "ok", "refused", "error"}]

LEMMA RequestsTyped == RemittanceTypeOK => http \in [HttpRequests -> RequestType]
  BY DEF RemittanceTypeOK, RequestType, RequestSteps

LEMMA StepMoves ==
    ASSUME http \in [HttpRequests -> RequestType], NEW q \in HttpRequests, NEW pc \in RequestSteps,
           Step(q, pc)
    PROVE  /\ http' \in [HttpRequests -> RequestType]
           /\ http'[q].pc = pc /\ http'[q].id = http[q].id
           /\ \A r \in HttpRequests : r # q => http'[r] = http[r]
  BY DEF Step, RequestType

LEMMA ReplyMoves ==
    ASSUME http \in [HttpRequests -> RequestType], NEW q \in HttpRequests, NEW pc \in RequestSteps,
           NEW class \in {"ok", "refused", "error"},
           http' = [http EXCEPT ![q].pc = pc, ![q].reply = class]
    PROVE  /\ http' \in [HttpRequests -> RequestType]
           /\ http'[q].pc = pc /\ http'[q].id = http[q].id
           /\ \A r \in HttpRequests : r # q => http'[r] = http[r]
  BY DEF RequestType

LEMMA NoRequestType ==
    /\ NoRequest \in [pc : {"idle", "create", "read", "mark", "submit", "complete", "notify",
                            "catch", "finish"},
                      key : IdempotencyKeys \cup {"none"},
                      id : RemittanceIds \cup {NoRemittance}, by : Senders,
                      reply : {"none", "ok", "refused", "error"}]
    /\ NoRequest.pc = "idle"
  BY RemittanceAssumption DEF NoRequest

LEMMA RemittanceInitInv == RemittanceInit => RemittanceInv
  <1>1. RemittanceInit => RemittanceTypeOK
    BY NoRequestType, RemittanceAssumption DEF RemittanceInit, RemittanceTypeOK, Absent
  <1>2. RemittanceInit => MarkedFirst
    BY NoRequestType DEF RemittanceInit, MarkedFirst
  <1> QED BY <1>1, <1>2 DEF RemittanceInv

(* A request that moves on without touching a row, to a step before the     *)
(* payment or after it.                                                     *)
LEMMA RequestMovesKeepsRemittanceInv ==
    ASSUME RemittanceInv, NEW q \in HttpRequests, RemittanceTypeOK',
           UNCHANGED <<remittances, paid>>,
           \A r \in HttpRequests : r # q => http'[r] = http[r],
           http'[q].pc # "submit",
           http'[q].pc \in {"read", "mark", "complete", "notify", "catch"}
              => http'[q].id \in RemittanceIds
    PROVE  RemittanceInv'
  BY DEF RemittanceInv, MarkedFirst, Submitted

LEMMA ReceiveKeepsRemittanceInv ==
    ASSUME RemittanceInv, NEW q \in HttpRequests, NEW key \in IdempotencyKeys,
           NEW id \in RemittanceIds \cup {NoRemittance}, NEW by \in Senders, Receive(q, key, id, by)
    PROVE  RemittanceInv'
  <1> DEFINE request == [NoRequest EXCEPT !.pc = IF id = NoRemittance THEN "create" ELSE "read",
                                          !.key = key, !.id = id, !.by = by]
  <1> USE DEF RemittanceInv, RemittanceTypeOK
  <1>1. /\ UNCHANGED <<remittances, paid, replies>> /\ received' \in 0..MaxRequests
        /\ http' = http \/ http' = [http EXCEPT ![q] = request]
    BY RemittanceAssumption DEF Receive
  <1>2. /\ request \in [pc : {"idle", "create", "read", "mark", "submit", "complete", "notify",
                              "catch", "finish"},
                        key : IdempotencyKeys \cup {"none"},
                        id : RemittanceIds \cup {NoRemittance}, by : Senders,
                        reply : {"none", "ok", "refused", "error"}]
        /\ request.pc \in {"create", "read"} /\ request.id = id
        /\ request.pc = "read" => id # NoRemittance
    BY NoRequestType DEF NoRequest
  <1> HIDE DEF request
  <1>3. CASE http' = http
    BY <1>1, <1>3 DEF MarkedFirst, Submitted
  <1>4. CASE http' = [http EXCEPT ![q] = request]
    BY <1>1, <1>2, <1>4, RequestMovesKeepsRemittanceInv
  <1> QED BY <1>1, <1>3, <1>4

LEMMA CreateKeepsRemittanceInv ==
    ASSUME RemittanceInv, NEW q \in HttpRequests, CreateRemittance(q)
    PROVE  RemittanceInv'
  <1> USE DEF RemittanceInv, RemittanceTypeOK
  <1>1. /\ UNCHANGED <<paid, replies, received>> /\ http[q].pc = "create"
        /\ \E class \in {"ok", "error"} :
              http' = [http EXCEPT ![q].pc = "finish", ![q].reply = class]
    BY DEF CreateRemittance, Reply
  <1>2. /\ \A r \in HttpRequests : r # q => http'[r] = http[r]
        /\ http'[q].pc = "finish"
        /\ http' \in [HttpRequests -> RequestType]
    BY <1>1, RequestsTyped, ReplyMoves DEF RequestSteps
  <1>3. CASE UNCHANGED remittances
    BY <1>1, <1>2, <1>3, RequestMovesKeepsRemittanceInv DEF RequestType, RequestSteps
  <1>4. ASSUME NEW i \in RemittanceIds, remittances[i] = Absent,
               remittances' = [remittances EXCEPT ![i].status = "pending"]
        PROVE  RemittanceInv'
    <2>1. RemittanceTypeOK'
      BY <1>1, <1>2, <1>4 DEF RequestType, RequestSteps
    <2>2. \A j \in RemittanceIds : Submitted(j) => Submitted(j)'
      BY <1>4 DEF Submitted, Absent
    <2>3. MarkedFirst'
      BY <1>1, <1>2, <2>2 DEF MarkedFirst
    <2> QED BY <2>1, <2>3
  <1> QED BY <1>3, <1>4 DEF CreateRemittance

(* The three writes of a status: none of them says pending.                 *)
LEMMA StatusKeepsRemittanceInv ==
    ASSUME RemittanceInv, NEW q \in HttpRequests, http[q].id \in RemittanceIds,
           NEW status \in {"processing", "completed", "failed"}, NEW hash \in BOOLEAN,
           NEW pc \in {"submit", "notify", "finish"},
           remittances' = Status(http[q].id, status, hash), Step(q, pc),
           UNCHANGED <<paid, replies, received>>
    PROVE  RemittanceInv'
  <1>0. PICK i \in RemittanceIds : i = http[q].id
    OBVIOUS
  <1>1. /\ http' \in [HttpRequests -> RequestType]
        /\ http'[q].pc = pc /\ http'[q].id = i
        /\ \A r \in HttpRequests : r # q => http'[r] = http[r]
    BY <1>0, RequestsTyped, StepMoves DEF RemittanceInv, RequestSteps
  <1>2. remittances' = [remittances EXCEPT ![i] = [status |-> status, hash |-> hash]]
    BY <1>0 DEF Status
  <1>3. RemittanceTypeOK'
    <2>1. remittances' \in [RemittanceIds -> [status : {"none", "pending", "processing",
                                                       "completed", "failed"}, hash : BOOLEAN]]
      BY <1>2 DEF RemittanceInv, RemittanceTypeOK
    <2> QED BY <1>1, <2>1 DEF RemittanceInv, RemittanceTypeOK, RequestType, RequestSteps
  <1>4. /\ Submitted(i)'
        /\ \A j \in RemittanceIds : Submitted(j) => Submitted(j)'
    BY <1>2 DEF Submitted, RemittanceInv, RemittanceTypeOK
  <1>5. \A r \in HttpRequests :
          /\ http'[r].pc \in {"read", "mark", "submit", "complete", "notify", "catch"}
                => http'[r].id \in RemittanceIds
          /\ http'[r].pc = "submit" => remittances'[http'[r].id].status
                                          \in {"processing", "completed", "failed"}
    <2> SUFFICES ASSUME NEW r \in HttpRequests
                 PROVE  /\ http'[r].pc \in {"read", "mark", "submit", "complete", "notify", "catch"}
                              => http'[r].id \in RemittanceIds
                        /\ http'[r].pc = "submit" => remittances'[http'[r].id].status
                                                        \in {"processing", "completed", "failed"}
      OBVIOUS
    <2>1. CASE r = q
      BY <1>1, <1>4, <2>1 DEF Submitted
    <2>2. CASE r # q
      BY <1>1, <1>4, <2>2 DEF RemittanceInv, MarkedFirst, Submitted
    <2> QED BY <2>1, <2>2
  <1>6. \A t \in paid' : remittances'[t.under].status \in {"processing", "completed", "failed"}
    BY <1>4 DEF RemittanceInv, RemittanceTypeOK, MarkedFirst, Submitted
  <1>7. MarkedFirst'
    BY <1>5, <1>6 DEF MarkedFirst, Submitted
  <1> QED BY <1>3, <1>7 DEF RemittanceInv

LEMMA PaymentKeepsRemittanceInv ==
    ASSUME RemittanceInv, NEW q \in HttpRequests, SubmitPayment(q)
    PROVE  RemittanceInv'
  <1> USE DEF RemittanceInv, RemittanceTypeOK
  <1>1. /\ http[q].pc = "submit" /\ http[q].id \in RemittanceIds /\ Submitted(http[q].id)
        /\ \/ paid' = paid
           \/ \E x \in RemittanceIds : paid' = paid \cup {[under |-> http[q].id, payment |-> x]}
        /\ UNCHANGED <<remittances, replies, received>>
    BY DEF SubmitPayment, MarkedFirst
  <1>2. /\ paid' \subseteq [under : RemittanceIds, payment : RemittanceIds]
        /\ \A t \in paid' : t \in paid \/ t.under = http[q].id
    BY <1>1
  <1>5. /\ RemittanceTypeOK'
        /\ http'[q].pc \in {"complete", "catch"} /\ http'[q].id = http[q].id
        /\ \A r \in HttpRequests : r # q => http'[r] = http[r]
    BY <1>1, <1>2 DEF SubmitPayment, Step, Throw
  <1>3. \A i \in RemittanceIds : Submitted(i)' <=> Submitted(i)
    BY <1>1 DEF Submitted
  <1>4. MarkedFirst'
    BY <1>1, <1>2, <1>3, <1>5 DEF MarkedFirst
  <1> QED BY <1>5, <1>4

(* A step of a request that only throws or answers. *)
LEMMA ThrowKeepsRemittanceInv ==
    ASSUME RemittanceInv, NEW q \in HttpRequests, http[q].id \in RemittanceIds,
           NEW class \in {"ok", "refused", "error"}, Throw(q, class) \/ Reply(q, class),
           UNCHANGED <<remittances, paid, replies, received>>
    PROVE  RemittanceInv'
  <1>1. /\ http' \in [HttpRequests -> RequestType]
        /\ http'[q].pc \in {"catch", "finish"} /\ http'[q].id = http[q].id
        /\ \A r \in HttpRequests : r # q => http'[r] = http[r]
    BY RequestsTyped, ReplyMoves DEF RemittanceInv, RequestSteps, Throw, Reply
  <1>2. RemittanceTypeOK'
    BY <1>1 DEF RemittanceInv, RemittanceTypeOK, RequestType, RequestSteps
  <1> QED BY <1>1, <1>2, RequestMovesKeepsRemittanceInv

LEMMA RemittanceNextInv == RemittanceInv /\ [RemittanceNext]_remittanceVars => RemittanceInv'
  <1> SUFFICES ASSUME RemittanceInv, [RemittanceNext]_remittanceVars PROVE RemittanceInv'
    OBVIOUS
  <1>1. ASSUME NEW q \in HttpRequests, ReadForSubmit(q) PROVE RemittanceInv'
    <2>1. /\ http[q].id \in RemittanceIds /\ UNCHANGED <<remittances, paid, replies, received>>
          /\ \/ Step(q, "mark")
             \/ http' = [http EXCEPT ![q].pc = "catch", ![q].reply = "refused"]
             \/ http' = [http EXCEPT ![q].pc = "catch", ![q].reply = "error"]
      BY <1>1 DEF ReadForSubmit, RemittanceInv, MarkedFirst, Throw
    <2>2. /\ http' \in [HttpRequests -> RequestType]
          /\ http'[q].pc \in {"mark", "catch"} /\ http'[q].id = http[q].id
          /\ \A r \in HttpRequests : r # q => http'[r] = http[r]
      BY <2>1, RequestsTyped, StepMoves, ReplyMoves DEF RemittanceInv, RequestSteps
    <2>3. RemittanceTypeOK'
      BY <2>1, <2>2 DEF RemittanceInv, RemittanceTypeOK, RequestType, RequestSteps
    <2> QED BY <2>1, <2>2, <2>3, RequestMovesKeepsRemittanceInv
  <1>2. ASSUME NEW q \in HttpRequests, MarkProcessing(q) PROVE RemittanceInv'
    BY <1>2, StatusKeepsRemittanceInv, ThrowKeepsRemittanceInv
       DEF MarkProcessing, RemittanceInv, MarkedFirst
  <1>3. ASSUME NEW q \in HttpRequests, MarkCompleted(q) PROVE RemittanceInv'
    BY <1>3, StatusKeepsRemittanceInv, ThrowKeepsRemittanceInv
       DEF MarkCompleted, RemittanceInv, MarkedFirst
  <1>4. ASSUME NEW q \in HttpRequests, MarkFailed(q) PROVE RemittanceInv'
    BY <1>4, StatusKeepsRemittanceInv, ThrowKeepsRemittanceInv
       DEF MarkFailed, RemittanceInv, MarkedFirst
  <1>5. ASSUME NEW q \in HttpRequests, NotifySender(q) PROVE RemittanceInv'
    BY <1>5, ThrowKeepsRemittanceInv DEF NotifySender, RemittanceInv, MarkedFirst
  <1>6. ASSUME NEW q \in HttpRequests, Respond(q) \/ RequestLost(q) PROVE RemittanceInv'
    <2>1. /\ http' = [http EXCEPT ![q] = NoRequest] /\ UNCHANGED <<remittances, paid, received>>
          /\ replies' \in [IdempotencyKeys -> {"none", "ok", "refused"}]
      BY <1>6 DEF Respond, RequestLost, RemittanceInv, RemittanceTypeOK
    <2>2. RemittanceTypeOK'
      BY <2>1, NoRequestType DEF RemittanceInv, RemittanceTypeOK
    <2>3. /\ http'[q].pc = "idle" /\ \A r \in HttpRequests : r # q => http'[r] = http[r]
      BY <2>1, NoRequestType DEF RemittanceInv, RemittanceTypeOK
    <2> QED BY <2>1, <2>2, <2>3, RequestMovesKeepsRemittanceInv
  <1>7. CASE UNCHANGED remittanceVars
    BY <1>7 DEF remittanceVars, RemittanceInv, RemittanceTypeOK, MarkedFirst, Submitted
  <1> QED BY <1>1, <1>2, <1>3, <1>4, <1>5, <1>6, <1>7, ReceiveKeepsRemittanceInv, CreateKeepsRemittanceInv,
             PaymentKeepsRemittanceInv DEF RemittanceNext

(* Through overlapping submissions, lost requests, failing queries and      *)
(* retries, no remittance under which the network has taken a payment is    *)
(* pending.                                                                 *)
THEOREM SubmittedNeverPending == RemittanceSpec => []SubmittedIsNeverPending
  <1>1. RemittanceSpec => []RemittanceInv
    BY RemittanceInitInv, RemittanceNextInv, PTL DEF RemittanceSpec
  <1>2. RemittanceInv => SubmittedIsNeverPending
    BY DEF RemittanceInv, MarkedFirst, Submitted, SubmittedIsNeverPending
  <1> QED BY <1>1, <1>2, PTL

-------------------------------------------------------------------------------
(* Dual control of privileged actions (PrivilegedActions).                  *)

(* The call holds the claim on the request. *)
Holds(c, r) == executeCall[c].request = r /\ executeCall[c].pc \in {"execute", "record", "fail"}

(* A row that is approved, or was, names a second admin. *)
SecondAdmin(row) ==
    row.status \in Claimed \cup {"approved"} => row.approver \in Admins \ {row.initiator}

(* The claim is what makes an execution single: while a call holds it the   *)
(* row says so, no other call does, and until the executor has run there is *)
(* no effect.  An effect leaves its discrepancy closed, so no other request *)
(* can have the same one.                                                   *)
ControlInv ==
    /\ \A r \in PrivRequests :
          /\ SecondAdmin(privRequest[r])
          /\ effects[r] \in {0, 1}
          /\ effects[r] = 1 => /\ privRequest[r].status \in Claimed
                               /\ privRequest[r].payload \notin openDiscrepancies
    /\ \A c \in ExecuteCalls, r \in PrivRequests : Holds(c, r) =>
          /\ privRequest[r].status = "executing"
          /\ executeCall[c].pc = "execute" => effects[r] = 0
          /\ \A d \in ExecuteCalls : Holds(d, r) => d = c
    /\ \A r, s \in PrivRequests :
          /\ effects[r] = 1 /\ effects[s] = 1
          /\ privRequest[r].payload = privRequest[s].payload
          /\ privRequest[r].payload # ConfigChange
          => r = s

PrivilegedInv == PrivilegedTypeOK /\ ControlInv

LEMMA NoCallType ==
    /\ NoCall \in [pc : {"idle", "claim", "execute", "record", "fail"},
                   request : PrivRequests, by : Admins \cup {NoAdmin}]
    /\ NoCall.pc = "idle"
  <1>1. (CHOOSE r \in PrivRequests : TRUE) \in PrivRequests
    BY PrivilegedAssumption
  <1> QED BY <1>1 DEF NoCall

LEMMA PrivilegedInitInv == PrivilegedInit => PrivilegedInv
  <1> SUFFICES ASSUME PrivilegedInit PROVE PrivilegedInv
    OBVIOUS
  <1> USE DEF PrivilegedInit
  <1>1. PrivilegedTypeOK
    BY NoCallType DEF PrivilegedTypeOK, NoPrivRequest, Payloads
  <1>2. ControlInv
    BY NoCallType DEF ControlInv, SecondAdmin, Claimed, NoPrivRequest, Holds
  <1> QED BY <1>1, <1>2 DEF PrivilegedInv

(* The rows of the requests stay of their type when one is replaced by      *)
(* another row, or only its status is.                                      *)
PrivRows ==
    [status : {"none", "pending", "approved", "revoked", "executing", "executed", "failed"},
     initiator : Admins \cup {NoAdmin}, approver : Admins \cup {NoAdmin},
     payload : Payloads, expired : BOOLEAN]

LEMMA RowKeepsType ==
    ASSUME PrivilegedTypeOK, NEW r \in PrivRequests, NEW row \in PrivRows
    PROVE  [privRequest EXCEPT ![r] = row] \in [PrivRequests -> PrivRows]
  <1>1. privRequest \in [PrivRequests -> PrivRows]
    BY DEF PrivilegedTypeOK, PrivRows
  <1> QED BY <1>1

LEMMA StatusKeepsType ==
    ASSUME PrivilegedTypeOK, NEW r \in PrivRequests,
           NEW st \in {"approved", "revoked", "executing", "executed", "failed"}
    PROVE  [privRequest EXCEPT ![r].status = st] \in [PrivRequests -> PrivRows]
  <1>1. privRequest[r] \in PrivRows
    BY DEF PrivilegedTypeOK, PrivRows
  <1>2. [privRequest[r] EXCEPT !.status = st] \in PrivRows
    BY <1>1 DEF PrivRows
  <1> QED BY <1>2, RowKeepsType

(* A step that only rewrites the row of an unclaimed request.               *)
LEMMA UnclaimedRowKeepsPrivilegedInv ==
    ASSUME PrivilegedInv, NEW r \in PrivRequests,
           privRequest[r].status \notin Claimed,
           NEW row, privRequest' = [privRequest EXCEPT ![r] = row],
           PrivilegedTypeOK', SecondAdmin(row),
           UNCHANGED <<openDiscrepancies, executeCall, effects>>
    PROVE  PrivilegedInv'
  <1> USE DEF PrivilegedInv, PrivilegedTypeOK
  <1>1. effects[r] = 0
    BY DEF ControlInv
  <1>2. \A c \in ExecuteCalls : ~Holds(c, r)
    BY DEF ControlInv, Claimed
  <1>3. \A c \in ExecuteCalls, s \in PrivRequests : Holds(c, s)' <=> Holds(c, s)
    BY DEF Holds
  <1>4. /\ privRequest'[r] = row
        /\ \A s \in PrivRequests \ {r} : privRequest'[s] = privRequest[s]
    OBVIOUS
  <1>5. ControlInv'
    <2>1. \A s \in PrivRequests : SecondAdmin(privRequest'[s])
      BY <1>4 DEF ControlInv
    <2>2. \A s \in PrivRequests : SecondAdmin(privRequest[s])'
      BY <2>1 DEF SecondAdmin, Claimed
    <2> QED BY <1>1, <1>2, <1>3, <1>4, <2>2 DEF ControlInv
  <1> QED BY <1>5

LEMMA CreateKeepsPrivilegedInv ==
    ASSUME PrivilegedInv, NEW r \in PrivRequests, NEW by \in Admins, NEW p \in Payloads,
           CreateRequest(r, by, p)
    PROVE  PrivilegedInv'
  <1> DEFINE row == [NoPrivRequest EXCEPT !.status = "pending", !.initiator = by, !.payload = p]
  <1>0. /\ row \in [status : {"none", "pending", "approved", "revoked", "executing", "executed",
                             "failed"},
                    initiator : Admins \cup {NoAdmin}, approver : Admins \cup {NoAdmin},
                    payload : Payloads, expired : BOOLEAN]
        /\ row.status = "pending"
    BY DEF NoPrivRequest, Payloads
  <1>1. /\ privRequest[r].status = "none" /\ privRequest' = [privRequest EXCEPT ![r] = row]
        /\ UNCHANGED <<openDiscrepancies, executeCall, effects>>
    BY DEF CreateRequest
  <1> HIDE DEF row
  <1>2. PrivilegedTypeOK'
    BY <1>0, <1>1 DEF PrivilegedInv, PrivilegedTypeOK
  <1>3. SecondAdmin(row)
    BY <1>0 DEF SecondAdmin, Claimed
  <1> QED BY <1>1, <1>2, <1>3, UnclaimedRowKeepsPrivilegedInv DEF Claimed

LEMMA ApproveKeepsPrivilegedInv ==
    ASSUME PrivilegedInv, NEW r \in PrivRequests, NEW by \in Admins, NEW p \in Payloads,
           ApproveRequest(r, by, p)
    PROVE  PrivilegedInv'
  <1> DEFINE row == [privRequest[r] EXCEPT !.status = "approved", !.approver = by]
  <1>1. /\ privRequest[r].status = "pending" /\ by # privRequest[r].initiator
        /\ privRequest' = [privRequest EXCEPT ![r] = row]
        /\ UNCHANGED <<openDiscrepancies, executeCall, effects>>
    BY DEF ApproveRequest, PrivilegedInv, PrivilegedTypeOK
  <1>0. row \in PrivRows
    <2>1. privRequest[r] \in PrivRows
      BY DEF PrivilegedInv, PrivilegedTypeOK, PrivRows
    <2> QED BY <2>1 DEF PrivRows
  <1>2. PrivilegedTypeOK'
    <2> HIDE DEF row
    <2>1. privRequest' \in [PrivRequests -> PrivRows]
      BY <1>0, <1>1, RowKeepsType DEF PrivilegedInv
    <2> QED BY <1>1, <2>1 DEF PrivilegedInv, PrivilegedTypeOK, PrivRows
  <1>3. SecondAdmin(row)
    BY <1>1 DEF SecondAdmin, Claimed, PrivilegedInv, PrivilegedTypeOK
  <1> HIDE DEF row
  <1> QED BY <1>1, <1>2, <1>3, UnclaimedRowKeepsPrivilegedInv DEF Claimed

LEMMA RevokeKeepsPrivilegedInv ==
    ASSUME PrivilegedInv, NEW r \in PrivRequests, NEW by \in Admins, RevokeRequest(r, by)
    PROVE  PrivilegedInv'
  <1> DEFINE row == [privRequest[r] EXCEPT !.status = "revoked"]
  <1>1. /\ privRequest[r].status \in {"pending", "approved"}
        /\ privRequest' = [privRequest EXCEPT ![r] = row]
        /\ UNCHANGED <<openDiscrepancies, executeCall, effects>>
    BY DEF RevokeRequest, PrivilegedInv, PrivilegedTypeOK
  <1>0. row \in PrivRows
    <2>1. privRequest[r] \in PrivRows
      BY DEF PrivilegedInv, PrivilegedTypeOK, PrivRows
    <2> QED BY <2>1 DEF PrivRows
  <1>2. PrivilegedTypeOK'
    <2> HIDE DEF row
    <2>1. privRequest' \in [PrivRequests -> PrivRows]
      BY <1>0, <1>1, RowKeepsType DEF PrivilegedInv
    <2> QED BY <1>1, <2>1 DEF PrivilegedInv, PrivilegedTypeOK, PrivRows
  <1>3. SecondAdmin(row)
    BY <1>1 DEF SecondAdmin, Claimed, PrivilegedInv, PrivilegedTypeOK
  <1> HIDE DEF row
  <1> QED BY <1>1, <1>2, <1>3, UnclaimedRowKeepsPrivilegedInv DEF Claimed

LEMMA ExpiryKeepsPrivilegedInv ==
    ASSUME PrivilegedInv, NEW r \in PrivRequests, RequestExpires(r)
    PROVE  PrivilegedInv'
  <1>1. PrivilegedTypeOK'
    <2>1. privRequest[r] \in PrivRows
      BY DEF PrivilegedInv, PrivilegedTypeOK, PrivRows
    <2>2. [privRequest[r] EXCEPT !.expired = TRUE] \in PrivRows
      BY <2>1 DEF PrivRows
    <2>3. privRequest' \in [PrivRequests -> PrivRows]
      BY <2>2, RowKeepsType DEF PrivilegedInv, RequestExpires
    <2> QED BY <2>3 DEF PrivilegedInv, PrivilegedTypeOK, PrivRows, RequestExpires
  <1> USE DEF PrivilegedInv, PrivilegedTypeOK, RequestExpires
  <1>2. \A s \in PrivRequests :
          /\ privRequest'[s].status = privRequest[s].status
          /\ privRequest'[s].initiator = privRequest[s].initiator
          /\ privRequest'[s].approver = privRequest[s].approver
          /\ privRequest'[s].payload = privRequest[s].payload
    OBVIOUS
  <1>3. \A c \in ExecuteCalls, s \in PrivRequests : Holds(c, s)' <=> Holds(c, s)
    BY DEF Holds
  <1>4. ControlInv'
    BY <1>2, <1>3 DEF ControlInv, SecondAdmin, Claimed
  <1> QED BY <1>1, <1>4

(* A call that starts, is refused or is lost holds nothing afterwards.      *)
LEMMA LettingGoKeepsPrivilegedInv ==
    ASSUME PrivilegedInv, NEW c \in ExecuteCalls,
           NEW call \in [pc : {"idle", "claim"}, request : PrivRequests, by : Admins \cup {NoAdmin}],
           executeCall' = [executeCall EXCEPT ![c] = call],
           UNCHANGED <<privRequest, openDiscrepancies, effects>>
    PROVE  PrivilegedInv'
  <1> USE DEF PrivilegedInv, PrivilegedTypeOK
  <1>1. PrivilegedTypeOK'
    OBVIOUS
  <1>2. \A d \in ExecuteCalls, s \in PrivRequests :
           Holds(d, s)' => Holds(d, s) /\ executeCall'[d] = executeCall[d]
    BY DEF Holds
  <1>3. ControlInv'
    BY <1>2 DEF ControlInv, SecondAdmin, Claimed
  <1> QED BY <1>1, <1>3

(* The claim finds the row approved, so nobody holds it yet and it has had  *)
(* no effect.                                                               *)
LEMMA ClaimKeepsPrivilegedInv ==
    ASSUME PrivilegedInv, NEW c \in ExecuteCalls, ClaimRequest(c)
    PROVE  PrivilegedInv'
  <1> DEFINE r == executeCall[c].request
  <1> USE DEF PrivilegedInv, PrivilegedTypeOK
  <1>1. CASE executeCall' = [executeCall EXCEPT ![c] = NoCall] /\ UNCHANGED privRequest
    <2>1. NoCall \in [pc : {"idle", "claim"}, request : PrivRequests, by : Admins \cup {NoAdmin}]
      BY NoCallType
    <2> QED BY <1>1, <2>1, LettingGoKeepsPrivilegedInv DEF ClaimRequest
  <1>2. CASE /\ Claimable(privRequest[r], executeCall[c].by)
             /\ privRequest' = [privRequest EXCEPT ![r].status = "executing"]
             /\ executeCall' = [executeCall EXCEPT ![c].pc = "execute"]
    <2>1. r \in PrivRequests /\ UNCHANGED <<openDiscrepancies, effects>>
      BY DEF ClaimRequest
    <2>2. PrivilegedTypeOK'
      <3>1. executeCall' \in [ExecuteCalls -> [pc : {"idle", "claim", "execute", "record", "fail"},
                                               request : PrivRequests, by : Admins \cup {NoAdmin}]]
        BY <1>2
      <3>2. privRequest' \in [PrivRequests -> PrivRows]
        BY <1>2, <2>1, StatusKeepsType
      <3> QED BY <2>1, <3>1, <3>2 DEF PrivRows
    <2>3. privRequest[r].status = "approved"
      BY <1>2 DEF Claimable
    <2>4. effects[r] = 0 /\ \A d \in ExecuteCalls : ~Holds(d, r)
      BY <2>1, <2>3 DEF ControlInv, Claimed
    <2>5. \A d \in ExecuteCalls, s \in PrivRequests :
             Holds(d, s)' => \/ Holds(d, s) /\ executeCall'[d] = executeCall[d] /\ s # r
                             \/ d = c /\ s = r
      BY <1>2, <2>1, <2>4 DEF Holds
    <2>6. /\ privRequest'[r].status = "executing"
          /\ \A s \in PrivRequests \ {r} : privRequest'[s] = privRequest[s]
          /\ \A s \in PrivRequests : /\ privRequest'[s].initiator = privRequest[s].initiator
                                     /\ privRequest'[s].approver = privRequest[s].approver
                                     /\ privRequest'[s].payload = privRequest[s].payload
      BY <1>2, <2>1
    <2>7. \A s \in PrivRequests : SecondAdmin(privRequest[s])'
      BY <2>1, <2>3, <2>6 DEF ControlInv, SecondAdmin, Claimed
    <2>8. \A s \in PrivRequests :
             /\ effects'[s] \in {0, 1}
             /\ effects'[s] = 1 => /\ privRequest'[s].status \in Claimed
                                   /\ privRequest'[s].payload \notin openDiscrepancies'
      BY <2>1, <2>4, <2>6 DEF ControlInv
    <2>9. \A d \in ExecuteCalls, s \in PrivRequests : Holds(d, s)' =>
             /\ privRequest'[s].status = "executing"
             /\ executeCall'[d].pc = "execute" => effects'[s] = 0
             /\ \A e \in ExecuteCalls : Holds(e, s)' => e = d
      BY <2>1, <2>4, <2>5, <2>6 DEF ControlInv
    <2>10. \A s, t \in PrivRequests :
             /\ effects'[s] = 1 /\ effects'[t] = 1
             /\ privRequest'[s].payload = privRequest'[t].payload
             /\ privRequest'[s].payload # ConfigChange
             => s = t
      BY <2>1, <2>6 DEF ControlInv
    <2>11. ControlInv'
      BY <2>7, <2>8, <2>9, <2>10 DEF ControlInv
    <2> QED BY <2>2, <2>11
  <1> QED BY <1>1, <1>2 DEF ClaimRequest

(* What the executor does to its own call: nothing, or it passes on to      *)
(* record or fail.                                                          *)
LEMMA ExecutorKeepsPrivilegedInv ==
    ASSUME PrivilegedInv, NEW c \in ExecuteCalls, RunExecutor(c)
    PROVE  PrivilegedInv'
  <1> DEFINE r == executeCall[c].request
             target == privRequest[r].payload
  <1> USE DEF PrivilegedInv, PrivilegedTypeOK
  <1>1. /\ r \in PrivRequests /\ executeCall[c].pc = "execute" /\ UNCHANGED privRequest
        /\ Holds(c, r)
    BY DEF RunExecutor, Holds
  <1>2. /\ privRequest[r].status = "executing" /\ effects[r] = 0
        /\ \A d \in ExecuteCalls : Holds(d, r) => d = c
    BY <1>1 DEF ControlInv
  <1>3. PICK pc \in {"record", "fail"} : executeCall' = [executeCall EXCEPT ![c].pc = pc]
    BY DEF RunExecutor
  <1>4. \A d \in ExecuteCalls, s \in PrivRequests :
           Holds(d, s)' => /\ Holds(d, s)
                           /\ d # c => executeCall'[d] = executeCall[d]
                           /\ d = c => s = r /\ executeCall'[d].pc # "execute"
    BY <1>1, <1>3 DEF Holds
  <1>5. \A s \in PrivRequests : SecondAdmin(privRequest[s])'
    BY <1>1 DEF ControlInv, SecondAdmin, Claimed
  <1>6. CASE UNCHANGED <<effects, openDiscrepancies>>
    <2>1. PrivilegedTypeOK'
      BY <1>1, <1>3, <1>6
    <2>2. ControlInv'
      BY <1>1, <1>4, <1>5, <1>6 DEF ControlInv, Claimed
    <2> QED BY <2>1, <2>2
  <1>7. CASE /\ target \in openDiscrepancies \cup {ConfigChange}
             /\ effects' = [effects EXCEPT ![r] = @ + 1]
             /\ openDiscrepancies' = openDiscrepancies \ {target}
    <2>1. PrivilegedTypeOK'
      <3>1. executeCall' \in [ExecuteCalls -> [pc : {"idle", "claim", "execute", "record", "fail"},
                                               request : PrivRequests, by : Admins \cup {NoAdmin}]]
        BY <1>3
      <3>2. effects' \in [PrivRequests -> Nat]
        BY <1>1, <1>7
      <3> QED BY <1>1, <1>7, <3>1, <3>2
    <2>2. effects'[r] = 1 /\ \A s \in PrivRequests \ {r} : effects'[s] = effects[s]
      BY <1>1, <1>2, <1>7
    <2>3. \A s \in PrivRequests \ {r} : effects[s] = 1 /\ target # ConfigChange
                                           => privRequest[s].payload # target
      BY <1>7 DEF ControlInv
    <2>4. \A s \in PrivRequests :
             effects'[s] = 1 => /\ privRequest[s].status \in Claimed
                                /\ privRequest[s].payload \notin openDiscrepancies'
      BY <1>2, <1>7, <2>2 DEF ControlInv, Claimed
    <2>5. \A d \in ExecuteCalls, s \in PrivRequests : Holds(d, s)' =>
             /\ privRequest[s].status = "executing"
             /\ executeCall'[d].pc = "execute" => effects'[s] = 0
             /\ \A e \in ExecuteCalls : Holds(e, s)' => e = d
      <3>1. TAKE d \in ExecuteCalls, s \in PrivRequests
      <3>2. HAVE Holds(d, s)'
      <3>3. Holds(d, s) /\ \A e \in ExecuteCalls : Holds(e, s)' => Holds(e, s)
        BY <3>2, <1>4 DEF Holds
      <3>4. /\ privRequest[s].status = "executing"
            /\ \A e \in ExecuteCalls : Holds(e, s) => e = d
        BY <3>3 DEF ControlInv
      <3>5. ASSUME executeCall'[d].pc = "execute" PROVE effects'[s] = 0
        <4>1. d # c
          BY <3>2, <3>5, <1>4
        <4>2. s # r
          BY <4>1, <1>1, <3>3, <3>4
        <4>3. executeCall[d].pc = "execute"
          BY <3>2, <3>5, <4>1, <1>3
        <4> QED BY <4>2, <4>3, <2>2, <3>3 DEF ControlInv
      <3> QED BY <3>3, <3>4, <3>5
    <2>6. \A s, t \in PrivRequests :
             /\ effects'[s] = 1 /\ effects'[t] = 1
             /\ privRequest[s].payload = privRequest[t].payload
             /\ privRequest[s].payload # ConfigChange
             => s = t
      BY <2>2, <2>3 DEF ControlInv
    <2>7. \A s \in PrivRequests : effects'[s] \in {0, 1}
      BY <2>2 DEF ControlInv
    <2>8. ControlInv'
      BY <1>1, <1>5, <2>4, <2>5, <2>6, <2>7 DEF ControlInv
    <2> QED BY <2>1, <2>8
  <1> QED BY <1>6, <1>7 DEF RunExecutor

LEMMA RecordKeepsPrivilegedInv ==
    ASSUME PrivilegedInv, NEW c \in ExecuteCalls, RecordOutcome(c)
    PROVE  PrivilegedInv'
  <1> DEFINE r == executeCall[c].request
  <1> USE DEF PrivilegedInv, PrivilegedTypeOK
  <1>1. /\ r \in PrivRequests /\ UNCHANGED <<openDiscrepancies, effects>> /\ Holds(c, r)
    BY DEF RecordOutcome, Holds
  <1>2. /\ privRequest[r].status = "executing" /\ \A d \in ExecuteCalls : Holds(d, r) => d = c
    BY <1>1 DEF ControlInv
  <1>3. CASE executeCall' = [executeCall EXCEPT ![c].pc = "fail"] /\ UNCHANGED privRequest
    <2>1. PrivilegedTypeOK'
      BY <1>1, <1>3
    <2>2. \A d \in ExecuteCalls, s \in PrivRequests :
             Holds(d, s)' => Holds(d, s) /\ (executeCall'[d].pc = "execute" => executeCall[d].pc = "execute")
      BY <1>1, <1>3 DEF Holds
    <2>3. ControlInv'
      BY <1>1, <1>3, <2>2 DEF ControlInv, SecondAdmin, Claimed
    <2> QED BY <2>1, <2>3
  <1>4. ASSUME NEW status \in {"executed", "failed"},
               privRequest' = [privRequest EXCEPT ![r].status = status],
               executeCall' = [executeCall EXCEPT ![c] = NoCall]
        PROVE  PrivilegedInv'
    <2>1. PrivilegedTypeOK'
      <3>1. privRequest' \in [PrivRequests -> PrivRows]
        BY <1>1, <1>4, StatusKeepsType
      <3> QED BY <1>1, <1>4, <3>1, NoCallType DEF PrivRows
    <2>2. \A d \in ExecuteCalls, s \in PrivRequests :
             Holds(d, s)' => Holds(d, s) /\ executeCall'[d] = executeCall[d] /\ s # r
      BY <1>1, <1>2, <1>4, NoCallType DEF Holds
    <2>3. /\ privRequest'[r].status = status
          /\ \A s \in PrivRequests \ {r} : privRequest'[s] = privRequest[s]
          /\ \A s \in PrivRequests : /\ privRequest'[s].initiator = privRequest[s].initiator
                                     /\ privRequest'[s].approver = privRequest[s].approver
                                     /\ privRequest'[s].payload = privRequest[s].payload
      BY <1>1, <1>4
    <2>4. \A s \in PrivRequests : SecondAdmin(privRequest[s])'
      BY <1>1, <1>2, <2>3 DEF ControlInv, SecondAdmin, Claimed
    <2>5. \A s \in PrivRequests :
             effects'[s] = 1 => /\ privRequest'[s].status \in Claimed
                                /\ privRequest'[s].payload \notin openDiscrepancies'
      BY <1>1, <2>3 DEF ControlInv, Claimed
    <2>6. \A d \in ExecuteCalls, s \in PrivRequests : Holds(d, s)' =>
             /\ privRequest'[s].status = "executing"
             /\ executeCall'[d].pc = "execute" => effects'[s] = 0
             /\ \A e \in ExecuteCalls : Holds(e, s)' => e = d
      BY <1>1, <2>2, <2>3 DEF ControlInv
    <2>7. \A s, t \in PrivRequests :
             /\ effects'[s] = 1 /\ effects'[t] = 1
             /\ privRequest'[s].payload = privRequest'[t].payload
             /\ privRequest'[s].payload # ConfigChange
             => s = t
      BY <1>1, <2>3 DEF ControlInv
    <2>8. \A s \in PrivRequests : effects'[s] \in {0, 1}
      BY <1>1 DEF ControlInv
    <2>9. ControlInv'
      BY <2>4, <2>5, <2>6, <2>7, <2>8 DEF ControlInv, Claimed
    <2> QED BY <2>1, <2>9
  <1> QED BY <1>3, <1>4 DEF RecordOutcome

LEMMA PrivilegedNextInv == PrivilegedInv /\ [PrivilegedNext]_privilegedVars => PrivilegedInv'
  <1> SUFFICES ASSUME PrivilegedInv, [PrivilegedNext]_privilegedVars PROVE PrivilegedInv'
    OBVIOUS
  <1>1. ASSUME NEW c \in ExecuteCalls, NEW r \in PrivRequests, NEW by \in Admins,
               ReadRequest(c, r, by)
        PROVE  PrivilegedInv'
    BY <1>1, LettingGoKeepsPrivilegedInv DEF ReadRequest
  <1>2. ASSUME NEW c \in ExecuteCalls, CallLost(c) PROVE PrivilegedInv'
    BY <1>2, LettingGoKeepsPrivilegedInv, NoCallType DEF CallLost
  <1>3. CASE UNCHANGED privilegedVars
    BY <1>3 DEF privilegedVars, PrivilegedInv, PrivilegedTypeOK, ControlInv, SecondAdmin, Claimed,
                Holds
  <1> QED BY <1>1, <1>2, <1>3, CreateKeepsPrivilegedInv, ApproveKeepsPrivilegedInv, RevokeKeepsPrivilegedInv, ExpiryKeepsPrivilegedInv,
             ClaimKeepsPrivilegedInv, ExecutorKeepsPrivilegedInv, RecordKeepsPrivilegedInv DEF PrivilegedNext

(* Every effect of a privileged action was approved by a second admin and   *)
(* happened once, and every discrepancy was resolved by one request, for    *)
(* any admins, requests, discrepancies and overlapping calls.               *)
THEOREM DualControlHolds == PrivilegedSpec => []DualControl
  <1>1. PrivilegedSpec => []PrivilegedInv
    BY PrivilegedInitInv, PrivilegedNextInv, PTL DEF PrivilegedSpec
  <1>2. PrivilegedInv => DualControl
    BY DEF PrivilegedInv, PrivilegedTypeOK, ControlInv, SecondAdmin, DualControl, Claimed
  <1> QED BY <1>1, <1>2, PTL

-------------------------------------------------------------------------------
(* Optimistic pool operations of the web client (PoolOperations).           *)

(* What a fetch under way would put the query back to when cancelled is     *)
(* bound by the property as well.                                           *)
RevertIsTransient ==
    (\A o \in Ops : ~Mutating(o)) /\ ~fetch.revert.invalid => fetch.revert.data \subseteq served

(* A fetch under way carries only what the API has served: together with    *)
(* the property, what every step preserves.                                 *)
PoolOpInv ==
    PoolOpTypeOK /\ fetch.data \subseteq served /\ OptimismIsTransient /\ RevertIsTransient

FetchType == [pc : {"idle", "sent", "answered"}, data : SUBSET Ops,
              revert : [data : SUBSET Ops, invalid : BOOLEAN]]

LEMMA PoolOpInitInv == PoolOpInit => PoolOpInv
  BY DEF PoolOpInit, PoolOpInv, PoolOpTypeOK, OptimismIsTransient, RevertIsTransient, NoFetch, Fresh

(* Invalidation marks the query until it is fetched again.                  *)
LEMMA InvalidateKeepsPoolOpInv ==
    ASSUME PoolOpInv, Invalidate, PoolOpTypeOK', UNCHANGED served
    PROVE  PoolOpInv'
  BY DEF PoolOpInv, PoolOpTypeOK, Invalidate, NewFetch, OptimismIsTransient, RevertIsTransient

(* While a mutation is under way any figure may be shown.                   *)
LEMMA MutatingKeepsPoolOpInv ==
    ASSUME PoolOpInv, PoolOpTypeOK', NEW o \in Ops, Mutating(o)',
           UNCHANGED <<fetch, served>>
    PROVE  PoolOpInv'
  BY DEF PoolOpInv, OptimismIsTransient, RevertIsTransient

(* A step between two points at which no mutation is under way, or between  *)
(* two at which one is, leaves what is shown alone or reverts to it.        *)
LEMMA ElsewhereKeepsPoolOpInv ==
    ASSUME PoolOpInv, PoolOpTypeOK', UNCHANGED served,
           query' \in {query, fetch.revert}, fetch' \in {NoFetch, fetch},
           \A o \in Ops : Mutating(o) => Mutating(o)'
    PROVE  PoolOpInv'
  BY DEF PoolOpInv, OptimismIsTransient, RevertIsTransient, NoFetch, Fresh

(* What a hook's place and snapshot are; the cached query and its fetch. *)
HookSteps == {"idle", "cancelled", "request", "success", "error", "rolled back", "built",
              "signed", "submitted", "complete", "reconciling", "done"}

Figures == SUBSET Ops

HookType == [pc : HookSteps, snapshot : Figures]

LEMMA HookMoves ==
    ASSUME operation \in [Ops -> HookType], NEW o \in Ops,
           NEW pc \in HookSteps, At(o, pc)
    PROVE  /\ operation' \in [Ops -> HookType]
           /\ operation'[o].pc = pc
           /\ \A p \in Ops : p # o => operation'[p] = operation[p]
  BY DEF At, HookType

LEMMA SnapshotMoves ==
    ASSUME operation \in [Ops -> HookType], NEW o \in Ops, NEW pc \in HookSteps,
           NEW data \in Figures,
           operation' = [operation EXCEPT ![o].pc = pc, ![o].snapshot = data]
    PROVE  operation' \in [Ops -> HookType] /\ operation'[o].pc = pc
  BY DEF HookType

LEMMA SetDataType ==
    ASSUME NEW data \in SUBSET Ops, SetData(data)
    PROVE  query' \in [data : SUBSET Ops, invalid : BOOLEAN]
  BY DEF SetData, Fresh

LEMMA PoolOpTypeFromParts ==
    ASSUME PoolOpTypeOK, operation' \in [Ops -> HookType],
           query' \in [data : SUBSET Ops, invalid : BOOLEAN],
           fetch' \in FetchType,
           pending' \subseteq Ops, UNCHANGED <<chain, served>>
    PROVE  PoolOpTypeOK'
  BY DEF PoolOpTypeOK, HookType, HookSteps, Figures, FetchType

LEMMA PoolOpParts ==
    ASSUME PoolOpTypeOK
    PROVE  /\ operation \in [Ops -> HookType]
           /\ query \in [data : SUBSET Ops, invalid : BOOLEAN]
           /\ fetch \in FetchType
           /\ pending \subseteq Ops
  BY DEF PoolOpTypeOK, HookType, HookSteps, Figures, FetchType

LEMMA InvalidateType ==
    ASSUME PoolOpTypeOK, Invalidate
    PROVE  /\ query' \in [data : SUBSET Ops, invalid : BOOLEAN]
           /\ fetch' \in FetchType
  <1>1. query' \in [data : SUBSET Ops, invalid : BOOLEAN]
    BY PoolOpParts DEF Invalidate
  <1> QED BY <1>1 DEF Invalidate, NewFetch, FetchType

LEMMA MutationKeepsPoolOpInv ==
    ASSUME PoolOpInv, NEW o \in Ops,
           OnMutate(o) \/ MutationFn(o) \/ OnError(o) \/ OnSettled(o)
    PROVE  PoolOpInv'
  <1>0. PoolOpTypeOK
    BY DEF PoolOpInv
  <1>1. CASE OnMutate(o)
    <2>1. /\ operation' = [operation EXCEPT ![o].pc = "request", ![o].snapshot = query.data]
          /\ query' = [data |-> query.data \cup {o}, invalid |-> FALSE]
          /\ UNCHANGED <<fetch, pending, chain, served>>
      BY <1>1 DEF OnMutate, SetData, Fresh
    <2>a. /\ "request" \in HookSteps /\ query.data \in Figures /\ operation \in [Ops -> HookType]
      BY <1>0, PoolOpParts DEF HookSteps, Figures
    <2>2. operation' \in [Ops -> HookType] /\ operation'[o].pc = "request"
      BY <2>1, <2>a, SnapshotMoves
    <2>3. query' \in [data : SUBSET Ops, invalid : BOOLEAN]
      BY <1>0, <2>1, PoolOpParts
    <2>4. PoolOpTypeOK'
      BY <1>0, <2>1, <2>2, <2>3, PoolOpParts, PoolOpTypeFromParts
    <2>5. Mutating(o)'
      BY <2>2 DEF Mutating
    <2> QED BY <2>1, <2>4, <2>5, MutatingKeepsPoolOpInv
  <1>2. CASE MutationFn(o)
    <2>1. PICK pc \in {"success", "error"} : At(o, pc)
      BY <1>2 DEF MutationFn
    <2>2. UNCHANGED <<query, fetch, chain, served>> /\ pending' \subseteq Ops
      BY <1>0, <1>2, PoolOpParts DEF MutationFn
    <2>3. operation' \in [Ops -> HookType] /\ operation'[o].pc = pc
      BY <1>0, <2>1, PoolOpParts, HookMoves DEF HookSteps
    <2>4. PoolOpTypeOK'
      BY <1>0, <2>2, <2>3, PoolOpParts, PoolOpTypeFromParts
    <2>5. Mutating(o)'
      BY <2>3 DEF Mutating
    <2> QED BY <2>2, <2>4, <2>5, MutatingKeepsPoolOpInv
  <1>3. CASE OnError(o)
    <2>1. /\ At(o, "rolled back") /\ UNCHANGED <<fetch, pending, chain, served>>
          /\ query' = [data |-> operation[o].snapshot, invalid |-> FALSE]
      BY <1>3 DEF OnError, SetData, Fresh
    <2>2. operation' \in [Ops -> HookType] /\ operation'[o].pc = "rolled back"
      BY <1>0, <2>1, PoolOpParts, HookMoves DEF HookSteps
    <2>3. query' \in [data : SUBSET Ops, invalid : BOOLEAN]
      BY <1>0, <2>1, PoolOpParts DEF HookType, Figures
    <2>4. PoolOpTypeOK'
      BY <1>0, <2>1, <2>2, <2>3, PoolOpParts, PoolOpTypeFromParts
    <2>5. Mutating(o)'
      BY <2>2 DEF Mutating
    <2> QED BY <2>1, <2>4, <2>5, MutatingKeepsPoolOpInv
  <1>4. CASE OnSettled(o)
    <2>1. PICK pc \in {"built", "complete", "done"} : At(o, pc)
      BY <1>4 DEF OnSettled
    <2>2. Invalidate /\ UNCHANGED <<pending, chain, served>>
      BY <1>4 DEF OnSettled
    <2>3. operation' \in [Ops -> HookType]
      BY <1>0, <2>1, PoolOpParts, HookMoves DEF HookSteps
    <2>4. PoolOpTypeOK'
      BY <1>0, <2>2, <2>3, PoolOpParts, InvalidateType, PoolOpTypeFromParts
    <2> QED BY <2>2, <2>4, InvalidateKeepsPoolOpInv
  <1> QED BY <1>1, <1>2, <1>3, <1>4

LEMMA HookKeepsPoolOpInv ==
    ASSUME PoolOpInv, NEW o \in Ops,
           \/ StartOperation(o) \/ SignTransaction(o) \/ SubmitPoolTransaction(o)
           \/ WaitForConfirmation(o)
    PROVE  PoolOpInv'
  <1>0. PoolOpTypeOK
    BY DEF PoolOpInv
  <1>1. PICK pc \in {"cancelled", "signed", "done", "submitted", "complete"} : At(o, pc)
    BY DEF StartOperation, SignTransaction, SubmitPoolTransaction, WaitForConfirmation
  <1>2. operation[o].pc \in {"idle", "built", "signed", "submitted"}
    BY DEF StartOperation, SignTransaction, SubmitPoolTransaction, WaitForConfirmation
  <1>3. /\ operation' \in [Ops -> HookType]
        /\ \A p \in Ops : p # o => operation'[p] = operation[p]
    <2>1. pc \in HookSteps
      BY DEF HookSteps
    <2>2. operation \in [Ops -> HookType]
      BY <1>0, PoolOpParts
    <2> QED BY <1>1, <2>1, <2>2, HookMoves
  <1>4. /\ UNCHANGED <<chain, served>> /\ fetch' \in {NoFetch, fetch}
        /\ query' \in {query, fetch.revert}
        /\ pending' \in {pending, pending \cup {o}}
    BY DEF StartOperation, SignTransaction, SubmitPoolTransaction, WaitForConfirmation
  <1>5. fetch' \in FetchType /\ pending' \subseteq Ops
    <2>1. NoFetch \in FetchType
      BY DEF NoFetch, FetchType, Fresh
    <2> QED BY <1>0, <1>4, <2>1, PoolOpParts
  <1>6. query' \in [data : SUBSET Ops, invalid : BOOLEAN]
    BY <1>0, <1>4, PoolOpParts DEF FetchType
  <1>7. PoolOpTypeOK'
    BY <1>0, <1>3, <1>4, <1>5, <1>6, PoolOpParts, PoolOpTypeFromParts
  <1>8. \A p \in Ops : Mutating(p) => Mutating(p)'
    BY <1>2, <1>3 DEF Mutating
  <1> QED BY <1>4, <1>7, <1>8, ElsewhereKeepsPoolOpInv

LEMMA ReconciliationKeepsPoolOpInv ==
    ASSUME PoolOpInv, NEW o \in Ops, CompleteTransaction(o) \/ Reconciled(o)
    PROVE  PoolOpInv'
  <1>0. PoolOpTypeOK
    BY DEF PoolOpInv
  <1>1. PICK pc \in {"reconciling", "done"} : At(o, pc)
    BY DEF CompleteTransaction, Reconciled
  <1>2. /\ operation[o].pc \in {"complete", "reconciling"} /\ UNCHANGED <<pending, chain, served>>
    BY DEF CompleteTransaction, Reconciled
  <1>3. /\ operation' \in [Ops -> HookType]
        /\ \A p \in Ops : p # o => operation'[p] = operation[p]
    <2>1. pc \in HookSteps
      BY DEF HookSteps
    <2>2. operation \in [Ops -> HookType]
      BY <1>0, PoolOpParts
    <2> QED BY <1>1, <2>1, <2>2, HookMoves
  <1>4. CASE Invalidate
    <2>1. PoolOpTypeOK'
      BY <1>0, <1>2, <1>3, <1>4, PoolOpParts, InvalidateType, PoolOpTypeFromParts
    <2> QED BY <1>2, <1>4, <2>1, InvalidateKeepsPoolOpInv
  <1>5. CASE UNCHANGED <<query, fetch>>
    <2>1. PoolOpTypeOK'
      BY <1>0, <1>2, <1>3, <1>5, PoolOpParts, PoolOpTypeFromParts
    <2>2. \A p \in Ops : Mutating(p) => Mutating(p)'
      BY <1>2, <1>3 DEF Mutating
    <2> QED BY <1>2, <1>5, <2>1, <2>2, ElsewhereKeepsPoolOpInv
  <1> QED BY <1>4, <1>5 DEF CompleteTransaction, Reconciled

LEMMA OutsideKeepsPoolOpInv ==
    ASSUME PoolOpInv, Refetch \/ FetchIsServed \/ FetchEnds \/ (\E o \in Ops : NetworkStep(o))
    PROVE  PoolOpInv'
  <1>0. PoolOpTypeOK /\ query \in [data : SUBSET Ops, invalid : BOOLEAN] 
        /\ fetch.data \in SUBSET Ops /\ fetch \in FetchType
    BY PoolOpParts DEF PoolOpInv, FetchType
  <1>1. CASE Refetch
    BY <1>1 DEF PoolOpInv, PoolOpTypeOK, Refetch, NewFetch, OptimismIsTransient, RevertIsTransient,
                Mutating
  <1>2. CASE FetchIsServed
    <2>1. /\ fetch' \in FetchType /\ fetch'.revert = fetch.revert /\ fetch'.data = served
          /\ UNCHANGED <<operation, query, pending, chain, served>>
      BY <1>0, <1>2 DEF FetchIsServed, FetchType, PoolOpTypeOK
    <2>2. PoolOpTypeOK'
      BY <1>0, <2>1 DEF PoolOpTypeOK, FetchType
    <2> QED BY <2>1, <2>2 DEF PoolOpInv, OptimismIsTransient, RevertIsTransient, Mutating
  <1>3. CASE FetchEnds
    <2>1. /\ UNCHANGED <<operation, pending, chain, served>> /\ fetch' = NoFetch
          /\ \/ query' = [data |-> fetch.data, invalid |-> FALSE]
             \/ UNCHANGED query
      BY <1>3 DEF FetchEnds, SetData, Fresh
    <2>2. query' \in [data : SUBSET Ops, invalid : BOOLEAN]
      BY <1>0, <1>3, SetDataType DEF FetchEnds
    <2>3. PoolOpTypeOK' /\ fetch'.data = {} /\ fetch'.revert.data = {}
      BY <1>0, <2>1, <2>2 DEF NoFetch, Fresh, PoolOpTypeOK
    <2>4. CASE UNCHANGED query
      BY <2>1, <2>3, <2>4 DEF PoolOpInv, OptimismIsTransient, RevertIsTransient, Mutating
    <2>5. CASE query' = [data |-> fetch.data, invalid |-> FALSE]
      <3>1. query'.data \subseteq served'
        BY <2>1, <2>5 DEF PoolOpInv
      <3> QED BY <2>3, <3>1 DEF PoolOpInv, OptimismIsTransient, RevertIsTransient
    <2> QED BY <2>1, <2>4, <2>5
  <1>4. ASSUME NEW o \in Ops, NetworkStep(o) PROVE PoolOpInv'
    <2>1. served \subseteq served' /\ UNCHANGED <<operation, query, fetch>>
      BY <1>4 DEF NetworkStep
    <2>2. PoolOpTypeOK'
      BY <1>0, <1>4 DEF NetworkStep, PoolOpTypeOK
    <2> QED BY <2>1, <2>2 DEF PoolOpInv, OptimismIsTransient, RevertIsTransient, Mutating
  <1> QED BY <1>1, <1>2, <1>3, <1>4

LEMMA PoolOpNextInv == PoolOpInv /\ [PoolOpNext]_poolOpVars => PoolOpInv'
  <1> SUFFICES ASSUME PoolOpInv, [PoolOpNext]_poolOpVars PROVE PoolOpInv'
    OBVIOUS
  <1>1. CASE UNCHANGED poolOpVars
    BY <1>1 DEF poolOpVars, PoolOpInv, PoolOpTypeOK, OptimismIsTransient, RevertIsTransient, Mutating
  <1> QED BY <1>1, MutationKeepsPoolOpInv, HookKeepsPoolOpInv, ReconciliationKeepsPoolOpInv, OutsideKeepsPoolOpInv
          DEF PoolOpNext

(* However many operations overlap, an optimistic figure the server has not *)
(* confirmed is shown only while a mutation is under way or a fetch is due. *)
THEOREM OptimismAlwaysTransient == PoolOpSpec => []OptimismIsTransient
  <1>1. PoolOpSpec => []PoolOpInv
    BY PoolOpInitInv, PoolOpNextInv, PTL DEF PoolOpSpec
  <1> QED BY <1>1, PTL DEF PoolOpInv

-------------------------------------------------------------------------------
(* services/keyRotationService.ts (KeyRotation).                            *)

RotationRecord == [label : Keys, under : Keys \cup {LocalKey}]

BatchRecord ==
    [status : {"none", "checked", "pending", "in_progress", "completed", "failed", "rolled_back"},
     oldKey : Keys \cup {LocalKey}, newKey : Keys \cup {LocalKey}, failed : BOOLEAN,
     last : BOOLEAN, verified : BOOLEAN]

RunRecord ==
    [pc : {"idle", "read", "scan", "rotate", "end"}, batch : Batches \cup {NoBatch},
     offset : 0..1, todo : Seq(PiiRecords), size : Nat, failed : BOOLEAN]

(* What is known of a run of executeRotation: its batch has been inserted,  *)
(* it skips at most one record, and a page it has worked through has        *)
(* counted a failure.                                                       *)
RunIsSound(run) ==
    run.pc # "idle" =>
        /\ run.batch \in Batches /\ IsInserted(run.batch)
        /\ run.pc = "rotate" => run.todo # <<>> \/ run.failed
        /\ run.pc = "end" => rotationBatch[run.batch].failed

(* Some batch moves records to the key. *)
IsTarget(key) == \E c \in Batches : IsInserted(c) /\ rotationBatch[c].newKey = key

OneLeft(key) ==
    \A r, s \in PiiRecords : piiFields[r].label = key /\ piiFields[s].label = key => r = s

(* The inductive invariant: with a KMS a record's label says what it is     *)
(* wrapped under, the keys of an inserted batch are ids of keys, runs are   *)
(* sound, and after a completed batch at most one record is left with its   *)
(* old key unless a batch moves records to that key.                        *)
RotationInv ==
    /\ piiFields \in [PiiRecords -> RotationRecord]
    /\ kms => \A r \in PiiRecords : piiFields[r].label = piiFields[r].under
    /\ rotationBatch \in [Batches -> BatchRecord]
    /\ \A b \in Batches : IsInserted(b) => rotationBatch[b].newKey \in Keys
    /\ rotationRun \in [Runs -> RunRecord]
    /\ \A x \in Runs : RunIsSound(rotationRun[x])
    /\ \A b \in Batches :
          rotationBatch[b].status = "completed" /\ ~IsTarget(rotationBatch[b].oldKey)
             => OneLeft(rotationBatch[b].oldKey)

(* The query of a page finds every record that is still labelled with the   *)
(* key: nothing after the first `offset` of them, nothing on the page.  *)
LEMMA EmptyPageLeavesOne ==
    ASSUME NEW key, NEW offset \in 0..1
    PROVE  Page(key, offset) \in Seq(PiiRecords) /\ (Page(key, offset) = <<>> => OneLeft(key))
<1> DEFINE N == NRecords
           V == Seq(PiiRecords)
           one(n, s) == IF piiFields[n].label = key THEN Append(s, n) ELSE s
           step == [x \in (1..N) \X V |-> one(x[1], x[2])]
           P(t) == t = [n \in 0..N |->
                          IF n = 0 THEN <<>>
                          ELSE IF piiFields[n].label = key THEN Append(t[n - 1], n) ELSE t[n - 1]]
           T == CHOOSE t : P(t)
           end(s) == IF Len(s) < offset + PageSize THEN Len(s) ELSE offset + PageSize
<1>1. N \in Nat /\ <<>> \in V /\ 1..N = PiiRecords
  BY RotationAssumption DEF PiiRecords
<1>2. Page(key, offset) = SubSeq(T[N], offset + 1, end(T[N]))
  BY DEF Page
<1>3. ASSUME NEW n \in 1..N, NEW s \in V PROVE one(n, s) \in V
  <2>1. n \in PiiRecords
    BY <1>1
  <2>2. Append(s, n) \in V
    BY <2>1
  <2> QED BY <2>2
<1>4. \A n \in 1..N, s \in V : step[<<n, s>>] = one(n, s)
  OBVIOUS
<1> HIDE DEF step, one, N, V
<1>5. PICK g \in [0..N -> V] : g[0] = <<>> /\ \A i \in 1..N : g[i] = step[<<i, g[i - 1]>>]
  <2> DEFINE e == <<>>
  <2>1. N \in Nat /\ e \in V /\ Steps(step, V, N)
    BY <1>1, <1>3, <1>4 DEF Steps
  <2> HIDE DEF e, P
  <2>2. \E g : Unfolds(g, V, e, N, step)
    BY <2>1, RecursiveFunction
  <2> QED BY <2>2 DEF e, Unfolds
<1>6. P(g)
  <2>1. ASSUME NEW i \in 1..N PROVE g[i] = one(i, g[i - 1])
    <3>1. i - 1 \in 0..N
      BY <1>1
    <3>2. g[i - 1] \in V
      BY <3>1
    <3> QED BY <1>4, <1>5, <3>2
  <2>2. g = [n \in 0..N |-> g[n]]
    OBVIOUS
  <2>3. \A n \in 0..N : g[n] = IF n = 0 THEN <<>> ELSE one(n, g[n - 1])
    BY <1>5, <2>1
  <2>4. g = [n \in 0..N |-> IF n = 0 THEN <<>> ELSE one(n, g[n - 1])]
    BY <2>2, <2>3
  <2> QED BY <2>4 DEF one
<1>7. P(T)
  BY <1>6
<1> HIDE DEF T
<1>8. T = [n \in 0..N |-> IF n = 0 THEN <<>> ELSE one(n, T[n - 1])]
  BY <1>7 DEF one
<1> HIDE DEF P
<1>9. \A n \in 0..N : T[n] = IF n = 0 THEN <<>> ELSE one(n, T[n - 1])
  BY <1>8
<1> DEFINE Found(n) == /\ T[n] \in V
                       /\ \A r \in 1..n : piiFields[r].label = key => \E i \in 1..Len(T[n]) : T[n][i] = r
<1>10. \A n \in 0..N : Found(n)
  <2> DEFINE S == {n \in 0..N : Found(n)}
  <2>1. 0 \in S
    <3>1. 0 \in 0..N
      BY <1>1
    <3>2. T[0] = <<>>
      BY <1>9, <3>1
    <3>3. T[0] \in V /\ \A r \in 1..0 : FALSE
      BY <1>1, <3>2
    <3> QED BY <3>1, <3>3
  <2>2. ASSUME NEW n \in 1..N, n - 1 \in S PROVE n \in S
    <3> DEFINE s == T[n - 1]
    <3>1. T[n] = one(n, s) /\ s \in V /\ n \in 0..N
      BY <1>1, <1>9, <2>2
    <3>2. \A r \in 1..(n - 1) : piiFields[r].label = key => \E i \in 1..Len(s) : s[i] = r
      BY <2>2
    <3>3. T[n] \in V
      BY <1>3, <3>1
    <3>4. ASSUME NEW r \in 1..n, piiFields[r].label = key
          PROVE  \E i \in 1..Len(T[n]) : T[n][i] = r
      <4> HIDE DEF s
      <4>1. Len(s) \in Nat
        BY <3>1 DEF V
      <4>2. CASE piiFields[n].label = key
        <5>1. T[n] = Append(s, n)
          BY <3>1, <4>2 DEF one
        <5>2. /\ Len(T[n]) = Len(s) + 1 /\ T[n][Len(s) + 1] = n
              /\ \A i \in 1..Len(s) : T[n][i] = s[i]
          BY <3>1, <5>1 DEF V
        <5>3. CASE r = n
          BY <4>1, <5>2, <5>3
        <5>4. CASE r # n
          <6>1. PICK i \in 1..Len(s) : s[i] = r
            BY <3>2, <3>4, <5>4
          <6> QED BY <4>1, <5>2, <6>1
        <5> QED BY <5>3, <5>4
      <4>3. CASE piiFields[n].label # key
        <5>1. T[n] = s /\ r \in 1..(n - 1)
          BY <3>1, <3>4, <4>3 DEF one
        <5> QED BY <3>2, <3>4, <5>1
      <4> QED BY <4>2, <4>3
    <3> QED BY <3>1, <3>3, <3>4
  <2> HIDE DEF S
  <2>3. \A n \in 0..N : n \in S
    BY <1>1, <2>1, <2>2, UpTo
  <2> QED BY <2>3 DEF S
<1> DEFINE s == T[N]
           m == end(s)
<1>11. Found(N)
  BY <1>1, <1>10
<1>12. s \in Seq(PiiRecords) /\ Len(s) \in Nat
  BY <1>11 DEF V
<1>13. PageSize \in Nat /\ PageSize >= 1
  BY RotationAssumption
<1>14. m \in Int /\ m <= Len(s) /\ Page(key, offset) = SubSeq(s, offset + 1, m)
  BY <1>2, <1>12, <1>13
<1>15. Len(s) > offset => m >= offset + 1
  BY <1>12, <1>13
<1> HIDE DEF m
<1>16. Page(key, offset) \in Seq(PiiRecords)
  <2> HIDE DEF s
  <2> QED BY <1>12, <1>14
<1>17. ASSUME Page(key, offset) = <<>> PROVE Len(s) <= offset
  <2> SUFFICES ASSUME Len(s) > offset PROVE FALSE
    BY <1>12
  <2>1. m \in offset + 1..Len(s)
    BY <1>12, <1>14, <1>15
  <2> HIDE DEF s
  <2>2. Len(SubSeq(s, offset + 1, m)) = m - offset
    BY <1>12, <2>1
  <2>3. SubSeq(s, offset + 1, m) = <<>>
    BY <1>14, <1>17
  <2> QED BY <2>1, <2>2, <2>3
<1>18. ASSUME Page(key, offset) = <<>>, NEW r \in PiiRecords, piiFields[r].label = key
      PROVE  Len(s) = 1 /\ s[1] = r
  <2>1. piiFields[r].label = key /\ r \in 1..N
    BY <1>1, <1>18
  <2>2. PICK i \in 1..Len(s) : s[i] = r
    BY <1>11, <2>1
  <2>3. Len(s) <= offset
    BY <1>17, <1>18
  <2> DEFINE l == Len(s)
  <2> HIDE DEF l
  <2>4. l \in Nat /\ l <= offset /\ i \in 1..l /\ offset <= 1
    BY <1>12, <2>3 DEF l
  <2>5. l = 1 /\ i = 1
    BY <2>4
  <2> QED BY <2>2, <2>5 DEF l
<1>19. Page(key, offset) = <<>> => OneLeft(key)
  BY <1>18 DEF OneLeft
<1> QED
  BY <1>16, <1>19

(* What a step may do to the batches. *)
BatchesKept ==
    /\ rotationBatch' \in [Batches -> BatchRecord]
    /\ \A b \in Batches :
          /\ IsInserted(b) => /\ rotationBatch'[b].status \notin {"none", "checked"}
                              /\ rotationBatch'[b].newKey = rotationBatch[b].newKey
          /\ rotationBatch[b].failed => rotationBatch'[b].failed
          /\ rotationBatch'[b].status \notin {"none", "checked"} => rotationBatch'[b].newKey \in Keys
          /\ rotationBatch'[b].status = "completed" /\ ~IsTarget(rotationBatch'[b].oldKey)
                => OneLeft(rotationBatch'[b].oldKey)

(* What is known of a run after a step. *)
RunOK(run) ==
    /\ run \in RunRecord
    /\ run.pc # "idle" =>
          /\ run.batch \in Batches /\ rotationBatch'[run.batch].status \notin {"none", "checked"}
          /\ run.pc = "rotate" => run.todo # <<>> \/ run.failed
          /\ run.pc = "end" => rotationBatch'[run.batch].failed

(* A batch that is given another record. *)
LEMMA BatchUpdated ==
    ASSUME RotationInv, NEW b \in Batches, NEW c \in BatchRecord,
           rotationBatch' = [rotationBatch EXCEPT ![b] = c],
           IsInserted(b) => /\ c.status \notin {"none", "checked"}
                            /\ c.newKey = rotationBatch[b].newKey
                            /\ c.oldKey = rotationBatch[b].oldKey,
           rotationBatch[b].failed => c.failed,
           c.status \notin {"none", "checked"} => c.newKey \in Keys,
           c.status = "completed" => /\ IsInserted(b)
                                     /\ OneLeft(c.oldKey) \/ rotationBatch[b].status = "completed"
    PROVE  BatchesKept
<1>1. /\ rotationBatch' \in [Batches -> BatchRecord] /\ rotationBatch'[b] = c
      /\ \A d \in Batches : d # b => rotationBatch'[d] = rotationBatch[d]
  BY DEF RotationInv
<1>2. ASSUME NEW d \in Batches
      PROVE  /\ IsInserted(d) => /\ rotationBatch'[d].status \notin {"none", "checked"}
                                 /\ rotationBatch'[d].newKey = rotationBatch[d].newKey
             /\ rotationBatch[d].failed => rotationBatch'[d].failed
             /\ rotationBatch'[d].status \notin {"none", "checked"} => rotationBatch'[d].newKey \in Keys
             /\ rotationBatch'[d].status = "completed" /\ ~IsTarget(rotationBatch'[d].oldKey)
                   => OneLeft(rotationBatch'[d].oldKey)
  <2>1. CASE d = b
    BY <1>1, <2>1 DEF RotationInv
  <2>2. CASE d # b
    BY <1>1, <2>2 DEF RotationInv, IsInserted
  <2> QED BY <2>1, <2>2
<1> QED
  BY <1>1, <1>2 DEF BatchesKept

LEMMA BatchesUnchanged ==
    ASSUME RotationInv, rotationBatch' = rotationBatch
    PROVE  BatchesKept
BY DEF RotationInv, BatchesKept, IsInserted

(* A batch whose status becomes s, and nothing else. *)
LEMMA StatusSet ==
    ASSUME RotationInv, NEW b \in Batches, NEW s,
           rotationBatch' = [rotationBatch EXCEPT ![b].status = s],
           \/ ~IsInserted(b) /\ s = "checked"
           \/ IsInserted(b) /\ s \in {"in_progress", "failed", "rolled_back"}
           \/ IsInserted(b) /\ s = "completed" /\ OneLeft(rotationBatch[b].oldKey)
    PROVE  BatchesKept
<1> DEFINE c == [rotationBatch[b] EXCEPT !.status = s]
<1>1. rotationBatch \in [Batches -> BatchRecord] /\ rotationBatch[b] \in BatchRecord
  BY DEF RotationInv
<1>2. rotationBatch' = [rotationBatch EXCEPT ![b] = c]
  BY <1>1
<1>3. s \in {"checked", "in_progress", "completed", "failed", "rolled_back"}
  OBVIOUS
<1>4. c \in BatchRecord /\ c.status = s /\ c.failed = rotationBatch[b].failed
      /\ c.newKey = rotationBatch[b].newKey /\ c.oldKey = rotationBatch[b].oldKey
  BY <1>1, <1>3 DEF BatchRecord
<1> HIDE DEF c
<1>5. s # "checked" => IsInserted(b) /\ c.newKey \in Keys
  BY <1>4 DEF RotationInv
<1>6. s = "completed" => IsInserted(b) /\ OneLeft(rotationBatch[b].oldKey)
  OBVIOUS
<1>7. IsInserted(b) => s # "checked" /\ s # "none"
  OBVIOUS
<1> QED
  BY <1>2, <1>4, <1>5, <1>6, <1>7, BatchUpdated

(* The other runs, when one is given another record. *)
LEMMA RunsKept ==
    ASSUME RotationInv, BatchesKept, NEW x \in Runs, NEW q, RunOK(q),
           rotationRun' = [rotationRun EXCEPT ![x] = q]
    PROVE  rotationRun' \in [Runs -> RunRecord] /\ \A y \in Runs : RunOK(rotationRun'[y])
<1>1. /\ rotationRun \in [Runs -> RunRecord] /\ q \in RunRecord
  BY DEF RotationInv, RunOK
<1>2. /\ rotationRun' \in [Runs -> RunRecord] /\ rotationRun'[x] = q
      /\ \A y \in Runs : y # x => rotationRun'[y] = rotationRun[y]
  BY <1>1
<1>3. ASSUME NEW y \in Runs PROVE RunOK(rotationRun[y])
  BY <1>1 DEF RotationInv, BatchesKept, RunOK, RunIsSound
<1> QED
  BY <1>2, <1>3

LEMMA RunsUnchanged ==
    ASSUME RotationInv, BatchesKept, rotationRun' = rotationRun
    PROVE  rotationRun' \in [Runs -> RunRecord] /\ \A y \in Runs : RunOK(rotationRun'[y])
<1>1. ASSUME NEW y \in Runs PROVE RunOK(rotationRun[y])
  BY DEF RotationInv, BatchesKept, RunOK, RunIsSound
<1> QED
  BY <1>1 DEF RotationInv

LEMMA RotationInvParts ==
    ASSUME RotationInv, BatchesKept, kms' = kms, rotationRun' \in [Runs -> RunRecord],
           \A y \in Runs : RunOK(rotationRun'[y]),
           \/ piiFields' = piiFields
           \/ \E r \in PiiRecords, key \in Keys : IsTarget(key) /\ piiFields' = Rewrapped(r, key)
    PROVE  RotationInv'
<1>1. /\ piiFields' \in [PiiRecords -> RotationRecord]
      /\ kms => \A r \in PiiRecords : piiFields'[r].label = piiFields'[r].under
      /\ \A r \in PiiRecords : piiFields'[r].label = piiFields[r].label \/ IsTarget(piiFields'[r].label)
  <2>1. CASE piiFields' = piiFields
    BY <2>1 DEF RotationInv
  <2>2. ASSUME NEW r \in PiiRecords, NEW key \in Keys, IsTarget(key), piiFields' = Rewrapped(r, key)
        PROVE  /\ piiFields' \in [PiiRecords -> RotationRecord]
               /\ kms => \A s \in PiiRecords : piiFields'[s].label = piiFields'[s].under
               /\ \A s \in PiiRecords : piiFields'[s].label = piiFields[s].label \/ IsTarget(piiFields'[s].label)
    <3> DEFINE c == Wrapped(key)
    <3>1. c \in RotationRecord /\ c.label = key /\ (kms => c.under = key)
      BY DEF RotationRecord, Wrapped
    <3>2. piiFields' = [piiFields EXCEPT ![r] = c]
      BY <2>2 DEF Rewrapped
    <3> HIDE DEF c
    <3>3. /\ piiFields' \in [PiiRecords -> RotationRecord]
          /\ \A s \in PiiRecords : piiFields'[s] = IF s = r THEN c ELSE piiFields[s]
      BY <3>1, <3>2 DEF RotationInv
    <3>4. ASSUME NEW s \in PiiRecords
          PROVE  /\ kms => piiFields'[s].label = piiFields'[s].under
                 /\ piiFields'[s].label = piiFields[s].label \/ IsTarget(piiFields'[s].label)
      BY <2>2, <3>1, <3>3 DEF RotationInv
    <3> QED BY <3>3, <3>4
  <2> QED BY <2>1, <2>2
<1>4. \A x \in Runs : RunIsSound(rotationRun[x])'
  BY DEF RunOK, RunIsSound, IsInserted
<1>5. \A b \in Batches : IsInserted(b)' => rotationBatch'[b].newKey \in Keys
  BY DEF BatchesKept, IsInserted
<1>6. ASSUME NEW b \in Batches, rotationBatch'[b].status = "completed", ~IsTarget(rotationBatch[b].oldKey)'
      PROVE  OneLeft(rotationBatch[b].oldKey)'
  <2> DEFINE key == rotationBatch'[b].oldKey
  <2>1. ~IsTarget(key)
    <3> SUFFICES ASSUME IsTarget(key) PROVE FALSE
      OBVIOUS
    <3>1. \E c \in Batches : IsInserted(c) /\ rotationBatch[c].newKey = rotationBatch'[b].oldKey
      BY DEF IsTarget
    <3>2. \E c \in Batches : IsInserted(c)' /\ rotationBatch'[c].newKey = rotationBatch'[b].oldKey
      BY <3>1 DEF BatchesKept, IsInserted
    <3> QED BY <1>6, <3>2 DEF IsTarget
  <2>2. OneLeft(key)
    BY <1>6, <2>1 DEF BatchesKept
  <2>3. \A r, s \in PiiRecords : piiFields'[r].label = key /\ piiFields'[s].label = key => r = s
    BY <1>1, <2>1, <2>2 DEF OneLeft
  <2> QED BY <2>3 DEF OneLeft, PiiRecords
<1>7. kms' => \A r \in PiiRecords : piiFields'[r].label = piiFields'[r].under
  BY <1>1
<1> QED
  BY <1>1, <1>4, <1>5, <1>6, <1>7 DEF RotationInv, BatchesKept, PiiRecords, RotationRecord

LEMMA NoRunOK == RunOK(NoRun)
<1> DEFINE n == 0
           e == <<>>
<1>1. n \in 0..1 /\ n \in Nat /\ e \in Seq(PiiRecords)
  OBVIOUS
<1>2. NoRun = [pc |-> "idle", batch |-> NoBatch, offset |-> n, todo |-> e, size |-> n,
               failed |-> FALSE]
  BY DEF NoRun
<1> HIDE DEF n, e
<1>3. NoRun \in RunRecord /\ NoRun.pc = "idle"
  BY <1>1, <1>2 DEF RunRecord
<1> QED
  BY <1>3 DEF RunOK

(* A run that starts, or goes on with the next page, or ends. *)
LEMMA NewRunOK ==
    ASSUME NEW b \in Batches, NEW pc \in {"read", "end"},
           rotationBatch'[b].status \notin {"none", "checked"}, pc = "end" => rotationBatch'[b].failed
    PROVE  RunOK([NoRun EXCEPT !.pc = pc, !.batch = b])
<1> DEFINE q == [NoRun EXCEPT !.pc = pc, !.batch = b]
<1>1. NoRun \in RunRecord
  BY NoRunOK DEF RunOK
<1>2. q \in RunRecord /\ q.pc = pc /\ q.batch = b
  BY <1>1 DEF RunRecord
<1> HIDE DEF q
<1>3. RunOK(q)
  BY <1>2 DEF RunOK
<1> QED
  BY <1>3 DEF q

(* startRotation, resumeRotation, verifyRotation and rollbackRotation. *)
LEMMA OperatorKeepsRotationInv ==
    ASSUME RotationInv, NEW b \in Batches,
           \/ StartRotation(b) \/ VerifyRotation(b) \/ RollbackRotation(b)
           \/ \E x \in Runs : ResumeRotation(b, x) \/ \E old, new \in Keys : InsertBatch(b, x, old, new)
    PROVE  RotationInv'
<1>1. piiFields' = piiFields /\ kms' = kms
  BY DEF StartRotation, VerifyRotation, RollbackRotation, ResumeRotation, InsertBatch
<1>2. rotationBatch \in [Batches -> BatchRecord] /\ rotationBatch[b] \in BatchRecord
  BY DEF RotationInv
<1>3. CASE StartRotation(b) \/ RollbackRotation(b)
  <2>1. BatchesKept /\ rotationRun' = rotationRun
    BY <1>3, StatusSet DEF StartRotation, RollbackRotation, IsInserted
  <2> QED BY <1>1, <2>1, RunsUnchanged, RotationInvParts
<1>4. CASE VerifyRotation(b)
  <2> DEFINE v == \A r \in PiiRecords : rotationRows[b][r] = "rotated"
                                           => piiFields[r].under = Wrapped(rotationBatch[b].newKey).under
             c == [rotationBatch[b] EXCEPT !.verified = v]
  <2>1. IsInserted(b) /\ rotationBatch' = [rotationBatch EXCEPT ![b].verified = v] /\ rotationRun' = rotationRun
    BY <1>4 DEF VerifyRotation, IsInserted
  <2>2. v \in BOOLEAN
    OBVIOUS
  <2> HIDE DEF v
  <2>3. c \in BatchRecord /\ c.status = rotationBatch[b].status /\ c.failed = rotationBatch[b].failed
        /\ c.newKey = rotationBatch[b].newKey /\ c.oldKey = rotationBatch[b].oldKey
    BY <1>2, <2>2 DEF BatchRecord
  <2>4. rotationBatch' = [rotationBatch EXCEPT ![b] = c]
    BY <1>2, <2>1
  <2> HIDE DEF c
  <2>5. rotationBatch[b].newKey \in Keys /\ c.status \notin {"none", "checked"}
    BY <2>1, <2>3 DEF RotationInv, IsInserted
  <2>6. BatchesKept
    BY <2>1, <2>3, <2>4, <2>5, BatchUpdated
  <2> QED BY <1>1, <2>1, <2>6, RunsUnchanged, RotationInvParts
<1>5. ASSUME NEW x \in Runs, rotationRun' = Spawned(x, b), BatchesKept,
             rotationBatch'[b].status \notin {"none", "checked"}
      PROVE  RotationInv'
  <2> DEFINE q == [NoRun EXCEPT !.pc = "read", !.batch = b]
  <2>1. RunOK(q)
    BY <1>5, NewRunOK
  <2>2. rotationRun' = [rotationRun EXCEPT ![x] = q]
    BY <1>5 DEF Spawned
  <2> HIDE DEF q
  <2> QED BY <1>1, <1>5, <2>1, <2>2, RunsKept, RotationInvParts
<1>6. ASSUME NEW x \in Runs, ResumeRotation(b, x) PROVE RotationInv'
  <2>1. IsInserted(b) /\ rotationBatch' = [rotationBatch EXCEPT ![b].status = "in_progress"]
        /\ rotationRun' = Spawned(x, b)
    BY <1>6 DEF ResumeRotation, IsInserted
  <2>2. BatchesKept
    BY <2>1, StatusSet
  <2>3. rotationBatch'[b].status \notin {"none", "checked"}
    BY <2>1, <2>2 DEF BatchesKept
  <2> QED BY <1>5, <2>1, <2>2, <2>3
<1>7. ASSUME NEW x \in Runs, NEW old \in Keys, NEW new \in Keys, InsertBatch(b, x, old, new)
      PROVE  RotationInv'
  <2> DEFINE c == [rotationBatch[b] EXCEPT !.status = "pending", !.oldKey = old, !.newKey = new]
  <2>1. ~IsInserted(b) /\ rotationRun' = Spawned(x, b) /\ rotationBatch' = [rotationBatch EXCEPT ![b] = c]
    BY <1>2, <1>7 DEF InsertBatch, IsInserted
  <2>2. c \in BatchRecord /\ c.status = "pending" /\ c.failed = rotationBatch[b].failed /\ c.newKey = new
    BY <1>2 DEF BatchRecord
  <2> HIDE DEF c
  <2>3. BatchesKept
    BY <2>1, <2>2, BatchUpdated
  <2>4. rotationBatch'[b].status \notin {"none", "checked"}
    BY <1>2, <2>1, <2>2
  <2> QED BY <1>5, <2>1, <2>3, <2>4
<1> QED
  BY <1>3, <1>4, <1>6, <1>7

(* executeRotation. *)
LEMMA RunKeepsRotationInv ==
    ASSUME RotationInv, NEW x \in Runs,
           \/ ReadBatch(x) \/ ScanRecords(x) \/ RotateRecord(x) \/ EndPage(x) \/ EndRotation(x)
           \/ RunLost(x)
    PROVE  RotationInv'
<1> DEFINE run == rotationRun[x]
           b == run.batch
<1>1. /\ rotationRun \in [Runs -> RunRecord] /\ run \in RunRecord /\ RunIsSound(run)
      /\ rotationBatch \in [Batches -> BatchRecord]
  BY DEF RotationInv
<1>2. run.pc # "idle"
  BY DEF ReadBatch, ScanRecords, RotateRecord, EndPage, EndRotation, RunLost
<1>3. b \in Batches /\ IsInserted(b) /\ rotationBatch[b] \in BatchRecord
      /\ rotationBatch[b].newKey \in Keys /\ IsTarget(rotationBatch[b].newKey)
  BY <1>1, <1>2 DEF RunIsSound, RotationInv, IsTarget
<1>11. kms' = kms
  BY DEF ReadBatch, ScanRecords, RotateRecord, EndPage, EndRotation, RunLost
<1>4. ASSUME NEW q, RunOK(q), BatchesKept, rotationRun' = [rotationRun EXCEPT ![x] = q], piiFields' = piiFields
      PROVE  RotationInv'
  BY <1>4, <1>11, RunsKept, RotationInvParts
<1>5. CASE ReadBatch(x)
  <2> DEFINE o == Offset(b)
             q == [run EXCEPT !.pc = "scan", !.offset = o]
  <2>1. o \in 0..1
    BY DEF Offset
  <2>2. /\ rotationRun' = [rotationRun EXCEPT ![x] = q] /\ piiFields' = piiFields
        /\ rotationBatch' = [rotationBatch EXCEPT ![b].status = "in_progress"]
    BY <1>1, <1>5 DEF ReadBatch
  <2>3. BatchesKept
    BY <1>3, <2>2, StatusSet
  <2> HIDE DEF o
  <2>5. q \in RunRecord /\ q.pc = "scan" /\ q.batch = b
    BY <1>1, <2>1 DEF RunRecord
  <2> HIDE DEF q
  <2>6. RunOK(q)
    BY <1>3, <2>3, <2>5 DEF RunOK, BatchesKept
  <2> QED BY <1>4, <2>2, <2>3, <2>6
<1>6. CASE ScanRecords(x)
  <2> DEFINE page == Page(rotationBatch[b].oldKey, run.offset)
             n == Len(page)
             q == [run EXCEPT !.pc = "rotate", !.todo = page, !.size = n]
  <2>1. run.pc = "scan" /\ run.offset \in 0..1 /\ piiFields' = piiFields
    BY <1>1, <1>6 DEF ScanRecords, RunRecord
  <2>2. page \in Seq(PiiRecords) /\ (page = <<>> => OneLeft(rotationBatch[b].oldKey))
    BY <2>1, EmptyPageLeavesOne
  <2>3. CASE page = <<>>
    <3>1. /\ rotationBatch' = [rotationBatch EXCEPT ![b].status = "completed"]
          /\ rotationRun' = [rotationRun EXCEPT ![x] = NoRun]
      BY <1>6, <2>3 DEF ScanRecords
    <3>2. BatchesKept
      BY <1>3, <2>2, <2>3, <3>1, StatusSet
    <3> QED BY <1>4, <2>1, <3>1, <3>2, NoRunOK
  <2>4. CASE page # <<>>
    <3>1. rotationRun' = [rotationRun EXCEPT ![x] = q] /\ rotationBatch' = rotationBatch
      BY <1>1, <1>6, <2>4 DEF ScanRecords
    <3>2. BatchesKept
      BY <3>1, BatchesUnchanged
    <3>3. n \in Nat
      BY <2>2
    <3> HIDE DEF page, n
    <3>4. q \in RunRecord /\ q.pc = "rotate" /\ q.batch = b /\ q.todo = page
      BY <1>1, <2>2, <3>3 DEF RunRecord
    <3> HIDE DEF q
    <3>5. RunOK(q)
      BY <1>3, <2>1, <2>4, <3>2, <3>4 DEF RunOK, BatchesKept
    <3> QED BY <1>4, <2>1, <3>1, <3>2, <3>5
  <2> QED BY <2>3, <2>4
<1>7. CASE RotateRecord(x)
  <2> DEFINE t == Tail(run.todo)
             q == [run EXCEPT !.todo = t, !.failed = TRUE]
  <2>1. /\ run.pc = "rotate" /\ run.todo # <<>> /\ run.todo \in Seq(PiiRecords)
        /\ rotationBatch' = rotationBatch
    BY <1>1, <1>7 DEF RotateRecord, RunRecord
  <2>2. rotationRun' = [rotationRun EXCEPT ![x] = q]
    BY <1>1, <1>7 DEF RotateRecord
  <2>3. piiFields' = piiFields \/ piiFields' = Rewrapped(Head(run.todo), rotationBatch[b].newKey)
    BY <1>7 DEF RotateRecord
  <2>4. t \in Seq(PiiRecords) /\ Head(run.todo) \in PiiRecords
    BY <2>1
  <2>5. BatchesKept
    BY <2>1, BatchesUnchanged
  <2> HIDE DEF t
  <2>6. q \in RunRecord /\ q.pc = run.pc /\ q.batch = b /\ q.failed = TRUE
    BY <1>1, <2>4 DEF RunRecord
  <2> HIDE DEF q
  <2>7. RunOK(q)
    BY <1>3, <2>1, <2>5, <2>6 DEF RunOK, BatchesKept
  <2>8. rotationRun' \in [Runs -> RunRecord] /\ \A y \in Runs : RunOK(rotationRun'[y])
    BY <2>2, <2>5, <2>7, RunsKept
  <2> QED BY <1>3, <1>11, <2>3, <2>4, <2>5, <2>8, RotationInvParts
<1>8. CASE EndPage(x)
  <2> DEFINE f == rotationBatch[b].failed \/ run.failed
             c == [rotationBatch[b] EXCEPT !.last = TRUE, !.failed = f]
             pc == IF run.size = PageSize THEN "read" ELSE "end"
             q == [NoRun EXCEPT !.pc = pc, !.batch = b]
  <2>1. run.failed /\ f = TRUE
    BY <1>1, <1>2, <1>8 DEF EndPage, RunIsSound
  <2>2. /\ rotationRun' = [rotationRun EXCEPT ![x] = q] /\ piiFields' = piiFields
        /\ rotationBatch' = [rotationBatch EXCEPT ![b] = c]
    BY <1>1, <1>3, <1>8 DEF EndPage
  <2>3. pc \in {"read", "end"}
    OBVIOUS
  <2> HIDE DEF f, pc
  <2>4. c \in BatchRecord /\ c.status = rotationBatch[b].status /\ c.failed = TRUE
        /\ c.newKey = rotationBatch[b].newKey /\ c.oldKey = rotationBatch[b].oldKey
    BY <1>3, <2>1 DEF BatchRecord
  <2> HIDE DEF c
  <2>5. BatchesKept
    BY <1>3, <2>2, <2>4, BatchUpdated DEF IsInserted
  <2>6. rotationBatch'[b] = c
    BY <1>1, <1>3, <2>2
  <2>7. RunOK(q)
    BY <1>3, <2>3, <2>4, <2>6, NewRunOK DEF IsInserted
  <2> QED BY <1>4, <2>2, <2>5, <2>7
<1>9. CASE EndRotation(x)
  <2>1. rotationBatch[b].failed
    BY <1>1, <1>2, <1>9 DEF EndRotation, RunIsSound
  <2>2. /\ rotationBatch' = [rotationBatch EXCEPT ![b].status = "failed"] /\ piiFields' = piiFields
        /\ rotationRun' = [rotationRun EXCEPT ![x] = NoRun]
    BY <1>9, <2>1 DEF EndRotation
  <2>3. BatchesKept
    BY <1>3, <2>2, StatusSet
  <2> QED BY <1>4, <2>2, <2>3, NoRunOK
<1>10. CASE RunLost(x)
  <2>1. rotationBatch' = rotationBatch /\ piiFields' = piiFields /\ rotationRun' = [rotationRun EXCEPT ![x] = NoRun]
    BY <1>10 DEF RunLost
  <2> QED BY <1>4, <2>1, BatchesUnchanged, NoRunOK
<1> QED
  BY <1>5, <1>6, <1>7, <1>8, <1>9, <1>10

LEMMA RotationInitInv == RotationInit => RotationInv
<1> SUFFICES ASSUME RotationInit PROVE RotationInv
  OBVIOUS
<1>1. Unstarted \in BatchRecord /\ Unstarted.status = "none"
  BY DEF Unstarted, BatchRecord
<1>2. NoRun \in RunRecord /\ NoRun.pc = "idle"
  <2>1. NoRun.pc = "idle"
    BY DEF NoRun
  <2> QED BY <2>1, NoRunOK DEF RunOK
<1>3. \A key \in Keys : Wrapped(key) \in RotationRecord /\ (kms => Wrapped(key).label = Wrapped(key).under)
  BY DEF RotationRecord, Wrapped
<1>4. PICK key \in Keys : piiFields = [r \in PiiRecords |-> Wrapped(key)]
  BY DEF RotationInit
<1>5. /\ piiFields \in [PiiRecords -> RotationRecord]
      /\ kms => \A r \in PiiRecords : piiFields[r].label = piiFields[r].under
  BY <1>3, <1>4
<1> QED
  BY <1>1, <1>2, <1>5 DEF RotationInit, RotationInv, RunIsSound, IsInserted

LEMMA RotationNextInv == RotationInv /\ [RotationNext]_rotationVars => RotationInv'
<1> SUFFICES ASSUME RotationInv, [RotationNext]_rotationVars PROVE RotationInv'
  OBVIOUS
<1>1. CASE RotationNext
  BY <1>1, OperatorKeepsRotationInv, RunKeepsRotationInv DEF RotationNext
<1>2. CASE UNCHANGED rotationVars
  <2>1. /\ rotationBatch' = rotationBatch /\ rotationRun' = rotationRun /\ piiFields' = piiFields
        /\ kms' = kms
    BY <1>2 DEF rotationVars
  <2> QED BY <2>1, BatchesUnchanged, RunsUnchanged, RotationInvParts
<1> QED
  BY <1>1, <1>2

(* In every reachable state labels and wrapping agree if a KMS wraps, runs  *)
(* work on inserted batches and have counted the failures of the pages they *)
(* have worked through, and a completed batch leaves at most one record     *)
(* with its old key unless some batch moves records to that key.            *)
THEOREM RotationInvHolds == RotationSpec => []RotationInv
BY RotationInitInv, RotationNextInv, PTL DEF RotationSpec

(* A batch that is completed leaves at most one record labelled with its    *)
(* old key, and with a KMS at most one wrapped under it, whatever runs      *)
(* overlap, fail or are lost and however often it is resumed, provided no   *)
(* batch moves records to that key; executeRotation's "completed".          *)
THEOREM CompletedAlwaysLeavesOne == RotationSpec => []CompletedLeavesOne
<1>1. RotationInv => CompletedLeavesOne
  <2> SUFFICES ASSUME RotationInv, NEW b \in Batches, rotationBatch[b].status = "completed",
                      \A c \in Batches : IsInserted(c) => rotationBatch[c].newKey # rotationBatch[b].oldKey
               PROVE  /\ Cardinality({r \in PiiRecords : piiFields[r].label = rotationBatch[b].oldKey}) <= 1
                      /\ kms => Cardinality({r \in PiiRecords : piiFields[r].under = rotationBatch[b].oldKey}) <= 1
    BY DEF CompletedLeavesOne
  <2> DEFINE old == rotationBatch[b].oldKey
             left == {r \in PiiRecords : piiFields[r].label = old}
  <2>1. \A r, s \in left : r = s
    BY DEF RotationInv, OneLeft, IsTarget
  <2>3. ASSUME NEW r \in left PROVE Cardinality(left) = 1
    <3> HIDE DEF left
    <3>1. left = {r}
      BY <2>1
    <3> QED BY <3>1, FS_Singleton
  <2>4. Cardinality(left) <= 1
    <3> HIDE DEF left
    <3>1. left = {} => Cardinality(left) = 0
      BY FS_EmptySet
    <3> QED BY <2>3, <3>1
  <2>5. kms => {r \in PiiRecords : piiFields[r].under = old} = left
    BY DEF RotationInv
  <2> QED BY <2>4, <2>5
<1> QED
  BY <1>1, RotationInvHolds, PTL

-------------------------------------------------------------------------------
(* The background jobs of MCJobs: the types of their tables and runs.       *)

LEMMA NoteInitInv == NoteInit => NoteTypeOK
  BY NoteAssumption DEF NoteInit, NoteTypeOK, Nothing, NoteStatuses

LEMMA ListedTyped == NoteTypeOK => Listed \in [Notes -> NoteStatuses] /\ Newest \subseteq Notes
  BY DEF NoteTypeOK, Listed, Newest, Stored, NoteStatuses

LEMMA NoteNextInv == ASSUME NoteTypeOK, NoteNext PROVE NoteTypeOK'
<1> USE NoteAssumption DEF NoteTypeOK
<1>0. Nothing \in [Notes -> NoteStatuses]
  BY DEF Nothing, NoteStatuses
<1>1. ASSUME NEW n \in Notes, NEW p \in ApiProcesses, CreateNotification(n, p) PROVE NoteTypeOK'
  BY <1>1 DEF CreateNotification, NoteStatuses
<1>2. ASSUME NEW n \in Notes, DeleteOldNotifications(n) PROVE NoteTypeOK'
  BY <1>2 DEF DeleteOldNotifications, NoteStatuses
<1>3. ASSUME NEW p \in ApiProcesses, ConnectStream(p) PROVE NoteTypeOK'
  BY <1>3, ListedTyped DEF ConnectStream
<1>4. CASE SubscribeStream
  BY <1>4 DEF SubscribeStream
<1>5. CASE StreamEnds
  BY <1>5 DEF StreamEnds
<1>6. CASE PollList
  BY <1>0, <1>6 DEF PollList, NewListFetch
<1>7. CASE ListIsServed
  BY <1>7, ListedTyped DEF ListIsServed
<1>8. CASE ListArrives
  BY <1>0, <1>8 DEF ListArrives
<1>9. CASE ListFetchFails
  BY <1>0, <1>9 DEF ListFetchFails
<1>10. ASSUME NEW ids \in {Notes} \cup {{n} : n \in Notes}, StartMarkRead(ids) PROVE NoteTypeOK'
  BY <1>10 DEF StartMarkRead
<1>11. CASE MarkRead
  BY <1>11 DEF MarkRead, NoteStatuses
<1>12. CASE MarkReadSucceeds
  BY <1>0, <1>12 DEF MarkReadSucceeds, NewListFetch
<1> QED
  BY <1>1, <1>2, <1>3, <1>4, <1>5, <1>6, <1>7, <1>8, <1>9, <1>10, <1>11, <1>12 DEF NoteNext

-------------------------------------------------------------------------------
Chunk == [loans : SUBSET DueLoans, current : BOOLEAN]
LoanStates == {"current", "window", "due", "partly", "liquidated", "defaulted", "repaid"}
CheckRecord == [pc : {"idle", "gate", "fetch", "submit", "release"}, todo : Seq(DueLoans),
                ready : SUBSET Chunk]

(* What a run works on are loans of the contract. *)
CheckerInv == CheckerTypeOK /\ checkRun \in [CheckRuns -> CheckRecord]

LEMMA CheckerInitInv == CheckerInit => CheckerInv
<1> SUFFICES ASSUME CheckerInit PROVE CheckerInv
  OBVIOUS
<1>1. checkRun \in [CheckRuns -> CheckRecord]
  BY DEF CheckerInit, CheckRecord, NoCheck
<1>2. \A x \in CheckRuns :
         /\ checkRun[x].pc \in {"idle", "gate", "fetch", "submit", "release"}
         /\ checkRun[x].todo \in Seq(DueLoans)
         /\ checkRun[x].ready \subseteq [loans : SUBSET DueLoans, current : BOOLEAN]
  BY <1>1 DEF CheckRecord, Chunk
<1>3. dueLoan \in [DueLoans -> LoanStates]
      /\ lockValue \in [CheckerProcesses -> CheckRuns \cup {NoHolder}]
  BY DEF CheckerInit, LoanStates
<1>4. checkerFaults \in 0..MaxCheckerFaults /\ operatorRuns \in 0..MaxOperatorRuns
  <2>1. checkerFaults = 0 /\ operatorRuns = 0
    BY DEF CheckerInit
  <2> QED BY <2>1, CheckerAssumption
<1>5. checkerLock \in CheckRuns \cup {NoHolder} /\ closingIndexed \subseteq ClosingEvents
      /\ checkSubmitted \subseteq DueLoans /\ suspectRange \in BOOLEAN
  BY DEF CheckerInit
<1> QED
  BY <1>1, <1>2, <1>3, <1>4, <1>5 DEF CheckerInv, CheckerTypeOK, LoanStates

LEMMA OverdueTyped == OverdueLoanIds \in Seq(DueLoans)
<1> DEFINE S == {l \in DueLoans : dueLoan[l] # "current" /\ l \notin closingIndexed}
<1>1. NLoans \in Nat /\ S \in SUBSET (1..NLoans)
  BY CheckerAssumption DEF DueLoans
<1>2. S \subseteq DueLoans /\ OverdueLoanIds = OrderByLimit(S, NLoans, MaxLoansPerRun)
  BY DEF OverdueLoanIds
<1> HIDE DEF S
<1>3. OrderByLimit(S, NLoans, MaxLoansPerRun) \in Seq(S)
  BY <1>1, SelectionTyped
<1> QED
  BY <1>2, <1>3

(* What an action leaves of the invariant once the run is typed. *)
LEMMA CheckerParts ==
    ASSUME CheckerInv, checkRun' \in [CheckRuns -> CheckRecord],
           checkerLock' \in CheckRuns \cup {NoHolder},
           lockValue' \in [CheckerProcesses -> CheckRuns \cup {NoHolder}],
           dueLoan' \in [DueLoans -> LoanStates],
           closingIndexed' \subseteq ClosingEvents', checkSubmitted' \subseteq DueLoans,
           suspectRange' \in BOOLEAN,
           checkerFaults' \in 0..MaxCheckerFaults, operatorRuns' \in 0..MaxOperatorRuns
    PROVE  CheckerInv'
  BY DEF CheckerInv, CheckerTypeOK, CheckRecord, Chunk, LoanStates

LEMMA CheckerNextInv == ASSUME CheckerInv, CheckerNext PROVE CheckerInv'
<1> USE CheckerAssumption
<1>0. /\ checkRun \in [CheckRuns -> CheckRecord]
      /\ checkerLock \in CheckRuns \cup {NoHolder}
      /\ lockValue \in [CheckerProcesses -> CheckRuns \cup {NoHolder}]
      /\ dueLoan \in [DueLoans -> LoanStates]
      /\ closingIndexed \subseteq ClosingEvents /\ checkSubmitted \subseteq DueLoans
      /\ suspectRange \in BOOLEAN
      /\ checkerFaults \in 0..MaxCheckerFaults /\ operatorRuns \in 0..MaxOperatorRuns
  BY DEF CheckerInv, CheckerTypeOK, LoanStates
<1>1. dueLoan' = dueLoan => ClosingEvents' = ClosingEvents
  BY DEF ClosingEvents
<1>2. ASSUME NEW x \in CheckRuns PROVE ProcessOf(x) \in CheckerProcesses
  BY DEF CheckRuns, ProcessOf
<1>3. Fault => checkerFaults' \in 0..MaxCheckerFaults
  BY <1>0 DEF Fault
<1>4. NoCheck \in CheckRecord
  BY DEF NoCheck, CheckRecord
<1>5. ASSUME NEW x \in CheckRuns, NEW pc \in {"idle", "gate", "fetch", "submit", "release"},
             AtCheck(x, pc)
      PROVE  checkRun' \in [CheckRuns -> CheckRecord]
  BY <1>0, <1>5 DEF AtCheck, CheckRecord
<1>6. ASSUME NEW x \in CheckRuns, AcquireLock(x) PROVE CheckerInv'
  BY <1>0, <1>1, <1>2, <1>5, <1>6, CheckerParts DEF AcquireLock, loanVars
<1>7. ASSUME NEW x \in CheckRuns, RunStep(x) PROVE CheckerInv'
  <2>1. CASE CheckLedgerRanges(x)
    <3>1. checkRun' \in [CheckRuns -> CheckRecord]
      BY <1>5, <2>1 DEF CheckLedgerRanges
    <3> QED BY <1>0, <1>1, <1>3, <2>1, <3>1, CheckerParts DEF CheckLedgerRanges, loanVars
  <2>2. CASE FetchTargets(x)
    <3>1. PICK ids \in {OverdueLoanIds} \cup {<<l>> : l \in DueLoans} :
             checkRun' = [checkRun EXCEPT ![x].pc = "submit", ![x].todo = ids]
      BY <2>2 DEF FetchTargets
    <3>2. ids \in Seq(DueLoans)
      <4>1. \A l \in DueLoans : <<l>> \in Seq(DueLoans)
        OBVIOUS
      <4> QED BY <4>1, OverdueTyped
    <3>3. checkRun' \in [CheckRuns -> CheckRecord]
      BY <1>0, <3>1, <3>2 DEF CheckRecord
    <3> QED BY <1>0, <1>1, <2>2, <3>3, CheckerParts DEF FetchTargets, loanVars
  <2>3. CASE PrepareBatch(x)
    <3> DEFINE todo == checkRun[x].todo
               n == IF Len(todo) < CheckBatchSize THEN Len(todo) ELSE CheckBatchSize
               batch == [loans |-> {todo[i] : i \in 1..n}, current |-> TRUE]
               rest == SubSeq(todo, n + 1, Len(todo))
    <3>1. todo \in Seq(DueLoans) /\ n \in Nat /\ n <= Len(todo)
          /\ checkRun[x].ready \in SUBSET Chunk
      BY <1>0 DEF CheckRecord
    <3>2. checkRun' = [checkRun EXCEPT ![x].todo = rest, ![x].ready = @ \cup {batch}]
      BY <2>3 DEF PrepareBatch
    <3>3. rest \in Seq(DueLoans) /\ batch \in Chunk
      <4> HIDE DEF todo, n
      <4> QED BY <3>1 DEF Chunk
    <3> HIDE DEF rest, batch
    <3>4. checkRun' \in [CheckRuns -> CheckRecord]
      BY <1>0, <3>1, <3>2, <3>3 DEF CheckRecord
    <3> QED BY <1>0, <1>1, <2>3, <3>4, CheckerParts DEF PrepareBatch, loanVars
  <2>4. CASE SendBatch(x)
    <3>1. PICK batch \in checkRun[x].ready :
             /\ checkRun' = [checkRun EXCEPT ![x].ready = @ \ {batch}]
             /\ \/ /\ checkSubmitted' \in {batch.loans, checkSubmitted}
                   /\ UNCHANGED checkerFaults
                \/ Fault /\ UNCHANGED checkSubmitted
             /\ UNCHANGED <<checkerLock, lockValue, loanVars, suspectRange, operatorRuns>>
      BY <2>4 DEF SendBatch
    <3>2. batch \in Chunk /\ checkRun[x].ready \in SUBSET Chunk
      BY <1>0 DEF CheckRecord
    <3>3. checkRun' \in [CheckRuns -> CheckRecord]
      BY <1>0, <3>1, <3>2 DEF CheckRecord
    <3>4. checkSubmitted' \subseteq DueLoans
      BY <1>0, <3>1, <3>2 DEF Chunk
    <3> QED BY <1>0, <1>1, <1>3, <3>1, <3>3, <3>4, CheckerParts DEF loanVars
  <2>5. CASE EndRun(x)
    BY <1>0, <1>1, <1>3, <1>5, <2>5, CheckerParts DEF EndRun, loanVars
  <2>6. CASE ReleaseLock(x)
    <3>1. checkRun' \in [CheckRuns -> CheckRecord]
      BY <1>0, <1>4, <2>6 DEF ReleaseLock
    <3> QED BY <1>0, <1>1, <1>2, <1>3, <2>6, <3>1, CheckerParts DEF ReleaseLock, loanVars
  <2> QED BY <1>7, <2>1, <2>2, <2>3, <2>4, <2>5, <2>6 DEF RunStep
<1>8. ASSUME NEW p \in CheckerProcesses, ProcessRestarts(p) PROVE CheckerInv'
  <2>1. checkRun' \in [CheckRuns -> CheckRecord]
    BY <1>0, <1>4, <1>8 DEF ProcessRestarts
  <2> QED BY <1>0, <1>1, <1>3, <1>8, <2>1, CheckerParts DEF ProcessRestarts, loanVars
<1>9. ASSUME NEW l \in DueLoans, TermPasses(l) \/ WindowPasses(l) \/ LoanIsServed(l)
      PROVE  CheckerInv'
  <2>1. dueLoan[l] \in {"current", "window", "due"}
    BY <1>9 DEF TermPasses, WindowPasses, LoanIsServed
  <2>2. PICK state \in {"window", "due", "repaid", "partly", "liquidated"} :
           dueLoan' = [dueLoan EXCEPT ![l] = state]
    BY <1>9 DEF TermPasses, WindowPasses, LoanIsServed
  <2>3. dueLoan' \in [DueLoans -> LoanStates]
    BY <1>0, <2>2 DEF LoanStates
  <2>4. closingIndexed' = closingIndexed
    BY <1>9 DEF TermPasses, WindowPasses, LoanIsServed
  <2>5. closingIndexed' \subseteq ClosingEvents'
    BY <1>0, <2>1, <2>2, <2>4 DEF ClosingEvents
  <2> QED BY <1>0, <1>9, <2>3, <2>5, CheckerParts DEF TermPasses, WindowPasses, LoanIsServed
<1>10. CASE LockExpires
  BY <1>0, <1>1, <1>10, CheckerParts DEF LockExpires, loanVars
<1>11. CASE ContractChecksDefaults
  <2>0. PICK S \in SUBSET DueLoans :
           dueLoan' = [l \in DueLoans |-> IF l \in S THEN "defaulted" ELSE dueLoan[l]]
    <3>1. PICK partly \in SUBSET {l \in checkSubmitted : dueLoan[l] = "partly"} :
             dueLoan' = [l \in DueLoans |->
                           IF l \in {k \in checkSubmitted : dueLoan[k] = "due"} \cup partly
                           THEN "defaulted" ELSE dueLoan[l]]
      BY <1>11 DEF ContractChecksDefaults
    <3>2. {k \in checkSubmitted : dueLoan[k] = "due"} \cup partly \in SUBSET DueLoans
      BY <1>0
    <3> QED BY <3>1, <3>2
  <2>1. closingIndexed' \subseteq ClosingEvents'
    BY <1>0, <1>11, <2>0 DEF ContractChecksDefaults, ClosingEvents
  <2>2. dueLoan' \in [DueLoans -> LoanStates]
    BY <1>0, <2>0 DEF LoanStates
  <2>3. checkRun' \in [CheckRuns -> CheckRecord]
    <3>1. checkRun' = [x \in CheckRuns |->
                         [checkRun[x] EXCEPT !.ready = {[b EXCEPT !.current = FALSE] : b \in @}]]
      BY <1>11 DEF ContractChecksDefaults
    <3>2. ASSUME NEW x \in CheckRuns
          PROVE  [checkRun[x] EXCEPT !.ready = {[b EXCEPT !.current = FALSE] : b \in @}]
                   \in CheckRecord
      <4>1. checkRun[x] \in CheckRecord /\ checkRun[x].ready \in SUBSET Chunk
        BY <1>0 DEF CheckRecord
      <4>2. \A b \in Chunk : [b EXCEPT !.current = FALSE] \in Chunk
        BY DEF Chunk
      <4>3. {[b EXCEPT !.current = FALSE] : b \in checkRun[x].ready} \in SUBSET Chunk
        BY <4>1, <4>2
      <4> QED BY <4>1, <4>3 DEF CheckRecord
    <3> QED BY <3>1, <3>2
  <2> QED BY <1>0, <1>11, <2>1, <2>2, <2>3, CheckerParts DEF ContractChecksDefaults
<1>12. CASE EventsAreIndexed
  <2>1. ClosingEvents' = ClosingEvents
    BY <1>12 DEF EventsAreIndexed, ClosingEvents
  <2> QED BY <1>0, <1>12, <2>1, CheckerParts DEF EventsAreIndexed
<1>13. CASE GapAppears
  BY <1>0, <1>1, <1>3, <1>13, CheckerParts DEF GapAppears, loanVars
<1> QED
  BY <1>6, <1>7, <1>8, <1>9, <1>10, <1>11, <1>12, <1>13 DEF CheckerNext

JobsInv == CheckerInv /\ NoteTypeOK

LEMMA JobsStutter ==
    /\ CheckerInv /\ UNCHANGED checkerVars => CheckerInv'
    /\ NoteTypeOK /\ UNCHANGED noteVars => NoteTypeOK'
<1>1. CheckerInv /\ UNCHANGED checkerVars => CheckerInv'
  BY DEF CheckerInv, CheckerTypeOK, checkerVars, ClosingEvents
<1>2. NoteTypeOK /\ UNCHANGED noteVars => NoteTypeOK'
  BY DEF NoteTypeOK, noteVars
<1> QED BY <1>1, <1>2

(* Check runs and notifications keep their types: a run only ever submits   *)
(* loans of the contract, and every loan with a closing row has been repaid *)
(* or defaulted on chain, so that no event ever hides any other loan.       *)
THEOREM JobTypesHold == Spec => []JobsTypeOK
<1>1. Init => JobsInv
  BY CheckerInitInv, NoteInitInv DEF Init, JobsInv
<1>2. JobsInv /\ [Next]_vars => JobsInv'
  <2> SUFFICES ASSUME JobsInv, [Next]_vars PROVE JobsInv'
    OBVIOUS
  <2>1. CASE UNCHANGED vars
    BY <2>1, JobsStutter DEF JobsInv, vars
  <2>2. CASE CheckerNext /\ UNCHANGED noteVars
    BY <2>2, CheckerNextInv, JobsStutter DEF JobsInv
  <2>3. CASE NoteNext /\ UNCHANGED checkerVars
    BY <2>3, NoteNextInv, JobsStutter DEF JobsInv
  <2> QED BY <2>1, <2>2, <2>3 DEF Next
<1>3. JobsInv => JobsTypeOK
  BY DEF JobsInv, CheckerInv, JobsTypeOK
<1> QED
  BY <1>1, <1>2, <1>3, PTL DEF Spec
===============================================================================
