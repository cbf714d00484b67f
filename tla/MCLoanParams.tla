----------------------------- MODULE MCLoanParams -----------------------------
(***************************************************************************)
(* LoanManager while what surrounds an open loan moves - its parameters,   *)
(* timelocked risk parameters and pauses, or the NFTs: scores, transfers,  *)
(* burns and minter authorizations - with a history variable: the change   *)
(* of each risk parameter that has been public without interruption, and   *)
(* since when.                                                             *)
(***************************************************************************)
EXTENDS MCLoanManager

VARIABLE notice

NoNotice == [value |-> 0, since |-> 0]

ParamsInit == Init /\ notice = [p \in RiskParams |-> NoNotice]

ParamsNext ==
    /\ Next
    /\ notice' = [p \in RiskParams |->
                    IF pending'[p] = pending[p] THEN notice[p]
                    ELSE IF pending'[p] = NoChange THEN NoNotice
                    ELSE [value |-> pending'[p].value, since |-> ledger]]

ParamsSpec == ParamsInit /\ [][ParamsNext]_<<vars, notice>>

(* The two windows and the pauses, or one risk parameter, move; the rest of *)
(* the configuration and the NFT contract stay put.                         *)
ParamsFocus ==
    /\ \A f \in ConfigFields \ {"grace", "window"} : config[f] = DefaultConfig[f]
    /\ \A p \in RiskParams \ {"threshold"} : risk[p] = DefaultRisk[p] /\ pending[p] = NoChange
    /\ config = DefaultConfig \/ (risk = DefaultRisk /\ pending["threshold"] = NoChange)
    /\ ~oracle
    /\ proposedAdmin = NoUser
    /\ \A u \in Users : nft[u] = [NoNft EXCEPT !.score = MaxScore]
    /\ nftProposed = NoUser /\ admin = nftAdmin
    /\ minterKeys = {nftAdmin, Manager}
    /\ loanCounter <= 1
    /\ burnThreshold = DefaultBurnThreshold /\ scoreFloor = 0
    /\ paused \/ poolPaused \/ nftPaused =>
          /\ Cardinality({x \in {1, 2, 3} : <<paused, poolPaused, nftPaused>>[x]}) = 1
          /\ risk = DefaultRisk /\ pending["threshold"] = NoChange
    /\ held = 0

(* The NFTs and the loans move; parameters, pauses and administration stay. *)
(* A second loan is only followed while the manager may call the NFT.       *)
NftLoanFocus ==
    /\ QuietParams /\ QuietAdmins
    /\ ledger < MaxLedger
    /\ burnThreshold = DefaultBurnThreshold /\ scoreFloor = 0
    /\ minterKeys \in {{nftAdmin}, {nftAdmin, Manager}} /\ Len(minterList) <= 2
    /\ Manager \notin minterKeys => loanCounter <= 1
    /\ \A u \in Users : ~nft[u].remint /\ nft[u].nextTransfer <= 2
    /\ poolBalance + outstanding \in PoolFunds
    /\ held <= MaxHeld
    /\ \A u \in Users : nft[u].history = <<>>
    /\ \A i \in LoanIds : loans[i].extensions = 0

ParamsOrNftFocus == ParamsFocus \/ NftLoanFocus

(* A risk parameter only ever takes a value that has been public, as the    *)
(* pending change, for the whole timelock: withdrawing a proposal and       *)
(* making another starts the clock again.                                   *)
RiskChangesAreAnnounced ==
    [][\A p \in RiskParams :
          risk'[p] # risk[p] =>
             /\ notice[p].value = risk'[p]
             /\ ledger >= notice[p].since + RiskTimelock]_<<vars, notice>>
==============================================================================
