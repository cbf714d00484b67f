--------------------------- MODULE MCRemittanceNft ---------------------------
(***************************************************************************)
(* RemittanceNft on small instances, with two history variables: the users *)
(* whose current NFT had a default recorded on it, whoever held it then,   *)
(* and the users whose remint was approved after their last burn.          *)
(***************************************************************************)
EXTENDS RemittanceNft, TLC

VARIABLES tainted, approvedSinceBurn

hvars == <<ledger, nftVars, tainted, approvedSinceBurn>>

UserSymmetry == Permutations(Users)

HInit == ledger = 1 /\ NftInit /\ tainted = {} /\ approvedSinceBurn = {}

Moved(from, to) ==
    /\ HasActiveNft(nft[from]) /\ ~HasActiveNft(nft'[from])
    /\ ~HasActiveNft(nft[to]) /\ HasActiveNft(nft'[to])

Lost(u) == HasActiveNft(nft[u]) /\ ~HasActiveNft(nft'[u])

HNext ==
    /\ \/ NftStep /\ UNCHANGED ledger
       \/ LedgerClose /\ UNCHANGED nftVars
    /\ tainted' =
         {u \in Users :
            /\ HasActiveNft(nft'[u])
            /\ \/ u \in tainted
               \/ HasActiveNft(nft[u]) /\ nft'[u].defaults > nft[u].defaults
               \/ \E f \in tainted : Moved(f, u)}
    /\ approvedSinceBurn' =
         {u \in approvedSinceBurn : ~Lost(u)}
            \cup {u \in Users : ~nft[u].remint /\ nft'[u].remint}

HSpec == HInit /\ [][HNext]_hvars

(* The admin keeps the pause, the hand-over, the limits and the score floor *)
(* alone; each of those calls is still taken once.                          *)
QuietNftAdmin ==
    /\ ~nftPaused /\ nftProposed = NoUser
    /\ burnThreshold = DefaultBurnThreshold /\ scoreFloor = 0

(* Behaviours about the NFTs: the minters stay as they are.                 *)
NftFocus == QuietNftAdmin /\ Len(minterList) = 1 /\ nftAdmin \in minterKeys

(* Behaviours about the minters: nobody has an NFT.                         *)
MinterFocus == QuietNftAdmin /\ nft = [u \in Users |-> NoNft] /\ ledger = 1

NftOrMinterFocus == NftFocus \/ MinterFocus

(* A default recorded on an NFT keeps its holder flagged as seized for as   *)
(* long as the NFT lives, wherever it is transferred.                       *)
DefaultSticks == \A u \in tainted : nft[u].seized

(* A burned account whose burned mark is lifted had its remint approved     *)
(* after the burn: an approval given earlier does not survive the burn.     *)
RemintsAreApproved ==
    [][\A u \in Users :
          nft[u].burned /\ ~nft'[u].burned => u \in approvedSinceBurn]_hvars
==============================================================================
