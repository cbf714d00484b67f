------------------------- MODULE RemittanceNftProofs -------------------------
(***************************************************************************)
(* Theorems about the NFT contract, for any users, scores, thresholds and  *)
(* sequence of calls: the score history explains the score, a default      *)
(* stays with the NFT it was recorded on, and a burned account is only     *)
(* reminted with an approval given after the burn.                         *)
(*                                                                         *)
(* What a call does to one record is looked at once (Allowed); a transfer  *)
(* is the only call that touches two.                                      *)
(***************************************************************************)
EXTENDS MCRemittanceNft, TLAPS

Entries == Int \X Int

NftRecord == [score : Nat \cup {NoScore}, history : Seq(Entries), seized : BOOLEAN,
              defaults : Nat, burned : BOOLEAN, remint : BOOLEAN, nextTransfer : Nat]

(* A history that ends at a score. *)
EndsAt(h, score) ==
    /\ Len(h) <= MaxHistory
    /\ \A i \in 1..(Len(h) - 1) : h[i][2] = h[i + 1][1]
    /\ h # <<>> => h[Len(h)][2] = score

(* A record on which the history explains the score, empty without an NFT. *)
Explained(r) ==
    /\ r \in NftRecord
    /\ EndsAt(r.history, r.score)
    /\ r.score = NoScore => r.history = <<>>

(* The inductive invariant. *)
NftInv ==
    /\ ledger \in Nat /\ burnThreshold \in Nat
    /\ nft \in [Users -> NftRecord]
    /\ \A u \in Users : Explained(nft[u])
    /\ tainted \subseteq Users
    /\ \A u \in tainted : HasActiveNft(nft[u]) /\ nft[u].seized
    /\ \A u \in Users : nft[u].remint => u \in approvedSinceBurn

(* What a call may make of a record: on an NFT that stays, a seizure stays  *)
(* and a new default is a seizure; losing the NFT voids an approval; and    *)
(* the burned mark goes only with an approval.                              *)
Allowed(old, new) ==
    /\ Explained(new)
    /\ HasActiveNft(old) /\ HasActiveNft(new) =>
          /\ old.seized => new.seized
          /\ new.defaults > old.defaults => new.seized
    /\ HasActiveNft(old) /\ ~HasActiveNft(new) => ~new.remint
    /\ old.burned /\ ~new.burned => old.remint

(* A step of the NFT contract. *)
NftsMove ==
    /\ nft' \in [Users -> NftRecord]
    /\ \A u \in Users : Allowed(nft[u], nft'[u])
    /\ \A f, u \in Users : Moved(f, u) => (nft[f].seized => nft'[u].seized)

------------------------------------------------------------------------------
(* Records.                                                                 *)

(* append_score_history: the new entry continues the history, and the       *)
(* oldest entry makes room for it.                                          *)
LEMMA AppendContinues ==
    ASSUME NEW h \in Seq(Entries), NEW old \in Int, NEW new \in Int, EndsAt(h, old)
    PROVE  /\ AppendScoreHistory(h, old, new) \in Seq(Entries)
           /\ EndsAt(AppendScoreHistory(h, old, new), new)
<1> DEFINE n == Len(h)
           k == AtLeast(n - (MaxHistory - 1), 0)
           s == SubSeq(h, k + 1, n)
           a == Append(s, <<old, new>>)
<1>1. n \in Nat /\ n <= MaxHistory /\ MaxHistory \in Nat /\ MaxHistory > 0
  BY ScoreAssumption DEF EndsAt
<1>2. k \in Nat /\ k <= n /\ n - k <= MaxHistory - 1
  BY <1>1 DEF AtLeast
<1> HIDE DEF k
<1>3. s \in Seq(Entries) /\ Len(s) = n - k /\ \A i \in 1..(n - k) : s[i] = h[k + i]
  BY <1>1, <1>2
<1>4. <<old, new>> \in Entries
  BY DEF Entries
<1> HIDE DEF s
<1>5. /\ a \in Seq(Entries) /\ Len(a) = n - k + 1 /\ a[n - k + 1] = <<old, new>>
      /\ \A i \in 1..(n - k) : a[i] = h[k + i]
  BY <1>1, <1>2, <1>3, <1>4
<1> HIDE DEF a
<1>6. ASSUME NEW i \in 1..(Len(a) - 1) PROVE a[i][2] = a[i + 1][1]
  <2>1. i \in 1..(n - k) /\ a[i] = h[k + i]
    BY <1>1, <1>2, <1>5
  <2>2. CASE i = n - k
    <3>1. k + i = n /\ n > 0
      BY <1>1, <1>2, <2>1, <2>2
    <3>2. h # <<>>
      BY <3>1
    <3>3. h[n][2] = old
      BY <3>2 DEF EndsAt
    <3>4. a[i + 1] = <<old, new>>
      BY <1>5, <2>2
    <3> QED
      BY <2>1, <3>1, <3>3, <3>4
  <2>3. CASE i # n - k
    <3>1. i + 1 \in 1..(n - k) /\ k + i \in 1..(n - 1) /\ (k + i) + 1 = k + (i + 1)
      BY <1>1, <1>2, <2>1, <2>3
    <3>2. a[i + 1] = h[k + (i + 1)]
      BY <1>5, <3>1
    <3>3. h[k + i][2] = h[(k + i) + 1][1]
      BY <3>1 DEF EndsAt
    <3> QED
      BY <2>1, <3>1, <3>2, <3>3
  <2> QED BY <2>2, <2>3
<1>7. Len(a) <= MaxHistory /\ a[Len(a)][2] = new
  BY <1>1, <1>2, <1>5
<1>8. AppendScoreHistory(h, old, new) = a
  BY DEF AppendScoreHistory, a, s, k
<1> QED
  BY <1>5, <1>6, <1>7, <1>8 DEF EndsAt

(* An empty history explains any score. *)
LEMMA EmptyEndsAt ==
    ASSUME NEW score
    PROVE  EndsAt(<<>>, score) /\ <<>> \in Seq(Entries)
<1>1. Len(<<>>) = 0 /\ <<>> \in Seq(Entries)
  OBVIOUS
<1> QED
  BY <1>1, ScoreAssumption DEF EndsAt

(* A new score, with its entry in the history. *)
LEMMA RescoredAllowed ==
    ASSUME NEW r, Explained(r), HasActiveNft(r), NEW new \in Nat
    PROVE  Allowed(r, Rescored(r, new))
<1> DEFINE h == AppendScoreHistory(r.history, r.score, new)
           s == Rescored(r, new)
<1>1. r \in NftRecord /\ r.history \in Seq(Entries) /\ r.score \in Nat /\ new \in Int
      /\ EndsAt(r.history, r.score)
  BY DEF Explained, HasActiveNft, NftRecord
<1>2. h \in Seq(Entries) /\ EndsAt(h, new)
  BY <1>1, AppendContinues
<1>3. s = [r EXCEPT !.score = new, !.history = h]
  BY <1>1 DEF Rescored, NftRecord
<1> HIDE DEF h, s
<1>4. s \in NftRecord
  BY <1>1, <1>2, <1>3 DEF NftRecord
<1>5. /\ s.score = new /\ s.history = h /\ s.seized = r.seized /\ s.defaults = r.defaults
      /\ s.burned = r.burned /\ s.remint = r.remint
  BY <1>1, <1>3 DEF NftRecord
<1>6. new # NoScore /\ r.defaults \in Nat
  BY <1>1 DEF NoScore, NftRecord
<1> QED
  BY <1>2, <1>4, <1>5, <1>6 DEF Allowed, Explained, HasActiveNft, s

(* A record that stays. *)
LEMMA SameAllowed ==
    ASSUME NEW r, Explained(r)
    PROVE  Allowed(r, r)
<1>1. r.defaults \in Nat
  BY DEF Explained, NftRecord
<1> QED
  BY <1>1 DEF Allowed

(* Taking the NFT away, with the keys that go with it. *)
LEMMA BurnedAllowed ==
    ASSUME NEW r, r \in NftRecord
    PROVE  Allowed(r, Burned(r)) /\ Burned(r) \in NftRecord
<1> DEFINE s == Burned(r)
<1>1. s = [r EXCEPT !.score = NoScore, !.history = <<>>, !.seized = FALSE,
                    !.remint = FALSE, !.nextTransfer = 0, !.burned = TRUE]
  BY DEF Burned
<1> HIDE DEF s
<1>2. s \in NftRecord
  BY <1>1, EmptyEndsAt DEF NftRecord
<1>3. s.score = NoScore /\ s.history = <<>> /\ s.remint = FALSE /\ s.burned = TRUE
  BY <1>1 DEF NftRecord
<1> QED
  BY <1>2, <1>3, EmptyEndsAt DEF Allowed, Explained, HasActiveNft, s

(* record_default: the NFT is flagged, or burned at the threshold. *)
LEMMA DefaultRecordedAllowed ==
    ASSUME NEW r, Explained(r)
    PROVE  Allowed(r, DefaultRecorded(r))
<1> DEFINE n == r.defaults + 1
           f == [r EXCEPT !.defaults = n, !.seized = TRUE]
<1>1. r \in NftRecord /\ n \in Nat
  BY DEF Explained, NftRecord
<1>2. f \in NftRecord
  <2> HIDE DEF n
  <2> QED BY <1>1 DEF NftRecord
<1>3. /\ f.score = r.score /\ f.history = r.history /\ f.seized = TRUE
      /\ f.remint = r.remint /\ f.burned = r.burned
  BY <1>1 DEF NftRecord
<1>4. DefaultRecorded(r) \in {r, f, Burned(f)} /\ (~HasActiveNft(r) => DefaultRecorded(r) = r)
  BY DEF DefaultRecorded
<1> HIDE DEF f
<1>5. Allowed(r, f)
  BY <1>2, <1>3 DEF Allowed, Explained, HasActiveNft
<1>6. Allowed(f, Burned(f)) /\ ~HasActiveNft(Burned(f)) /\ ~Burned(f).remint /\ Burned(f).burned
  <2>1. /\ Burned(f).score = NoScore /\ Burned(f).remint = FALSE /\ Burned(f).burned = TRUE
    BY <1>2 DEF Burned, NftRecord
  <2> QED
    BY <1>2, <2>1, BurnedAllowed DEF HasActiveNft
<1>7. Allowed(r, Burned(f))
  BY <1>6 DEF Allowed
<1> QED
  BY <1>4, <1>5, <1>7, SameAllowed

------------------------------------------------------------------------------
(* Calls.                                                                   *)

(* A call that writes one record. *)
LEMMA OneNftMoves ==
    ASSUME NftInv, NEW u \in Users, NEW r, OnlyNft(u, r), Allowed(nft[u], r)
    PROVE  NftsMove
<1>1. nft' = [nft EXCEPT ![u] = r] /\ nft \in [Users -> NftRecord] /\ r \in NftRecord
  BY DEF OnlyNft, NftInv, Allowed, Explained
<1>2. nft' \in [Users -> NftRecord] /\ nft'[u] = r /\ \A v \in Users : v # u => nft'[v] = nft[v]
  BY <1>1
<1>3. ASSUME NEW v \in Users PROVE Allowed(nft[v], nft'[v])
  <2>1. CASE v = u
    BY <1>2, <2>1
  <2>2. CASE v # u
    BY <1>2, <2>2, SameAllowed DEF NftInv
  <2> QED BY <2>1, <2>2
<1>4. ASSUME NEW f \in Users, NEW v \in Users, Moved(f, v) PROVE FALSE
  BY <1>2, <1>4 DEF Moved
<1> QED
  BY <1>2, <1>3, <1>4 DEF NftsMove

(* A step that leaves the records alone. *)
LEMMA NftsUnmoved ==
    ASSUME NftInv, nft' = nft
    PROVE  NftsMove
<1>1. \A u \in Users : Allowed(nft[u], nft'[u])
  BY SameAllowed DEF NftInv
<1>2. \A f, u \in Users : ~Moved(f, u)
  BY DEF Moved
<1> QED
  BY <1>1, <1>2 DEF NftsMove, NftInv

(* mint: the account has neither an NFT nor a history. *)
LEMMA MintMoves ==
    ASSUME NftInv, NEW u \in Users, NEW x \in InitialScores, Mint(u, x)
    PROVE  NftsMove
<1> DEFINE r == nft[u]
           n == AtMost(x, MaxScore)
           s == [r EXCEPT !.score = n]
<1>1. r \in NftRecord /\ Explained(r) /\ ~HasActiveNft(r) /\ OnlyNft(u, s)
  BY DEF NftInv, Mint
<1>2. n \in Nat /\ n # NoScore
  BY ScoreAssumption DEF AtMost, NoScore
<1> HIDE DEF r, n
<1>3. s \in NftRecord
  BY <1>1, <1>2 DEF NftRecord
<1>4. /\ s.score = n /\ s.history = r.history /\ s.seized = r.seized /\ s.defaults = r.defaults
      /\ s.remint = r.remint /\ s.burned = r.burned
  BY <1>1 DEF NftRecord
<1>5. s.history = <<>>
  BY <1>1, <1>4 DEF Explained, HasActiveNft
<1> HIDE DEF s
<1>6. Allowed(r, s)
  BY <1>1, <1>2, <1>3, <1>4, <1>5, EmptyEndsAt DEF Allowed, Explained, HasActiveNft
<1> QED
  BY <1>1, <1>6, OneNftMoves DEF r

(* admin_remint: only with an approval. *)
LEMMA AdminRemintMoves ==
    ASSUME NftInv, NEW u \in Users, NEW x \in InitialScores, AdminRemint(u, x)
    PROVE  NftsMove
<1> DEFINE r == nft[u]
           n == AtMost(x, MaxScore)
           s == [r EXCEPT !.score = n, !.burned = FALSE, !.remint = FALSE, !.seized = FALSE,
                          !.nextTransfer = 0]
<1>1. r \in NftRecord /\ Explained(r) /\ ~HasActiveNft(r) /\ r.remint /\ OnlyNft(u, s)
  BY DEF NftInv, AdminRemint
<1>2. n \in Nat /\ n # NoScore
  BY ScoreAssumption DEF AtMost, NoScore
<1> HIDE DEF r, n
<1>3. s \in NftRecord
  BY <1>1, <1>2 DEF NftRecord
<1>4. s.score = n /\ s.history = r.history
  BY <1>1 DEF NftRecord
<1>5. s.history = <<>>
  BY <1>1, <1>4 DEF Explained, HasActiveNft
<1> HIDE DEF s
<1>6. Allowed(r, s)
  BY <1>1, <1>2, <1>3, <1>4, <1>5, EmptyEndsAt DEF Allowed, Explained, HasActiveNft
<1> QED
  BY <1>1, <1>6, OneNftMoves DEF r

(* update_score, decrease_score and apply_score_delta. *)
LEMMA ScoreMoves ==
    ASSUME NftInv, NEW u \in Users,
           \/ \E n \in Repayments : UpdateScore(u, n)
           \/ \E p \in Penalties : DecreaseScore(u, p)
           \/ \E d \in Deltas : ApplyScoreDelta(u, d)
    PROVE  NftsMove
<1> DEFINE r == nft[u]
<1>1. r \in NftRecord /\ Explained(r) /\ (HasActiveNft(r) => r.score \in Nat)
  BY DEF NftInv, HasActiveNft, NftRecord
<1>2. MaxScore \in Nat /\ MinCreditScore \in Nat
  BY ScoreAssumption
<1>3. ASSUME NEW n \in Repayments, UpdateScore(u, n) PROVE NftsMove
  <2> DEFINE new == AtMost(r.score + n \div ScoreUnit, MaxScore)
  <2>1. HasActiveNft(r) /\ OnlyNft(u, Rescored(r, new)) /\ n > 0
    BY <1>3 DEF UpdateScore
  <2>2. n \in Nat /\ ScoreUnit \in Nat /\ ScoreUnit > 0
    BY <2>1, ScoreAssumption
  <2>3. n \div ScoreUnit \in Nat
    BY <2>2, SMT
  <2>4. new \in Nat
    BY <1>1, <1>2, <2>1, <2>3 DEF AtMost
  <2> HIDE DEF r, new
  <2>5. Allowed(r, Rescored(r, new))
    BY <1>1, <2>1, <2>4, RescoredAllowed
  <2> QED BY <2>1, <2>5, OneNftMoves DEF r
<1>4. ASSUME NEW p \in Penalties, DecreaseScore(u, p) PROVE NftsMove
  <2> DEFINE new == AtLeast(AtLeast(r.score - p, 0), MinCreditScore)
             s == DecreasedScore(r, p)
  <2>1. OnlyNft(u, s)
    BY <1>4 DEF DecreaseScore
  <2>2. s = IF HasActiveNft(r) /\ new # r.score THEN Rescored(r, new) ELSE r
    BY DEF DecreasedScore
  <2>3. HasActiveNft(r) => new \in Nat
    BY <1>1, <1>2, ScoreAssumption DEF AtLeast
  <2> HIDE DEF r, new, s
  <2>4. Allowed(r, s)
    BY <1>1, <2>2, <2>3, RescoredAllowed, SameAllowed
  <2> QED BY <2>1, <2>4, OneNftMoves DEF r
<1>5. ASSUME NEW d \in Deltas, ApplyScoreDelta(u, d) PROVE NftsMove
  <2> DEFINE new == AtMost(AtLeast(r.score + d, 0), MaxScore)
             s == AdjustedScore(r, d)
  <2>1. HasActiveNft(r) /\ OnlyNft(u, s)
    BY <1>5 DEF ApplyScoreDelta
  <2>2. s = IF new # r.score THEN Rescored(r, new) ELSE r
    BY DEF AdjustedScore
  <2>3. new \in Nat
    BY <1>1, <1>2, <2>1, ScoreAssumption DEF AtLeast, AtMost
  <2> HIDE DEF r, new, s
  <2>4. Allowed(r, s)
    BY <1>1, <2>1, <2>2, <2>3, RescoredAllowed, SameAllowed
  <2> QED BY <2>1, <2>4, OneNftMoves DEF r
<1> QED
  BY <1>3, <1>4, <1>5

(* seize_collateral, record_default, burn and approve_remint. *)
LEMMA FlagMoves ==
    ASSUME NftInv, NEW u \in Users,
           SeizeCollateral(u) \/ RecordDefault(u) \/ Burn(u) \/ ApproveRemint(u)
    PROVE  NftsMove
<1> DEFINE r == nft[u]
<1>1. r \in NftRecord /\ Explained(r)
  BY DEF NftInv
<1>2. CASE SeizeCollateral(u)
  <2> DEFINE s == [r EXCEPT !.seized = TRUE]
  <2>1. OnlyNft(u, s)
    BY <1>2 DEF SeizeCollateral
  <2> HIDE DEF r
  <2>2. s \in NftRecord
    BY <1>1 DEF NftRecord
  <2>3. /\ s.score = r.score /\ s.history = r.history /\ s.seized = TRUE
        /\ s.remint = r.remint /\ s.burned = r.burned
    BY <1>1 DEF NftRecord
  <2> HIDE DEF s
  <2>4. Allowed(r, s)
    BY <1>1, <2>2, <2>3 DEF Allowed, Explained, HasActiveNft
  <2> QED BY <2>1, <2>4, OneNftMoves DEF r
<1>3. CASE RecordDefault(u)
  BY <1>1, <1>3, DefaultRecordedAllowed, OneNftMoves DEF RecordDefault
<1>4. CASE Burn(u)
  BY <1>1, <1>4, BurnedAllowed, OneNftMoves DEF Burn
<1>5. CASE ApproveRemint(u)
  <2> DEFINE s == [r EXCEPT !.remint = TRUE]
  <2>1. OnlyNft(u, s)
    BY <1>5 DEF ApproveRemint
  <2> HIDE DEF r
  <2>2. s \in NftRecord
    BY <1>1 DEF NftRecord
  <2>3. /\ s.score = r.score /\ s.history = r.history /\ s.seized = r.seized
        /\ s.defaults = r.defaults /\ s.burned = r.burned /\ r.defaults \in Nat
    BY <1>1 DEF NftRecord
  <2> HIDE DEF s
  <2>4. Allowed(r, s)
    BY <1>1, <2>2, <2>3 DEF Allowed, Explained, HasActiveNft
  <2> QED BY <2>1, <2>4, OneNftMoves DEF r
<1> QED
  BY <1>2, <1>3, <1>4, <1>5

(* transfer: history, defaults and seizure go with the NFT. *)
LEMMA TransferMoves ==
    ASSUME NftInv, NEW from \in Users, NEW to \in Users, Transfer(from, to)
    PROVE  NftsMove
<1> DEFINE a == nft[from]
           b == nft[to]
           h == IF a.history # <<>> THEN a.history ELSE b.history
           d == IF a.defaults > 0 THEN a.defaults ELSE b.defaults
           z == b.seized \/ a.seized
           t == ledger + TransferCooldown
           got  == [b EXCEPT !.score = a.score, !.history = h, !.defaults = d,
                             !.seized = z, !.nextTransfer = t]
           left == [a EXCEPT !.score = NoScore, !.history = <<>>, !.defaults = 0,
                             !.seized = FALSE, !.remint = FALSE, !.nextTransfer = 0]
<1>1. /\ a \in NftRecord /\ b \in NftRecord /\ Explained(a) /\ Explained(b)
      /\ HasActiveNft(a) /\ ~HasActiveNft(b) /\ from # to
      /\ nft \in [Users -> NftRecord] /\ ledger \in Nat /\ TransferCooldown \in Nat
  BY ScoreAssumption DEF NftInv, Transfer
<1>2. nft' = [nft EXCEPT ![to] = got, ![from] = left]
  <2>1. Received(from, to) = got
    BY <1>1 DEF Received, NftRecord
  <2>2. nft' = [nft EXCEPT ![to] = Received(from, to),
                           ![from] = [@ EXCEPT !.score = NoScore, !.history = <<>>,
                                    !.defaults = 0, !.seized = FALSE,
                                    !.remint = FALSE, !.nextTransfer = 0]]
    BY DEF Transfer
  <2> HIDE DEF got
  <2> QED BY <1>1, <2>1, <2>2
<1>3. h \in Seq(Entries) /\ d \in Nat /\ z \in BOOLEAN /\ t \in Nat /\ a.score \in Nat \cup {NoScore}
  BY <1>1 DEF NftRecord
<1>4. h = a.history
  BY <1>1 DEF Explained, HasActiveNft
<1> HIDE DEF a, b, h, d, z, t
<1>5. got \in NftRecord /\ left \in NftRecord
  BY <1>1, <1>3, EmptyEndsAt DEF NftRecord
<1>6. /\ got.score = a.score /\ got.history = h /\ got.seized = z
      /\ got.burned = b.burned
  BY <1>1 DEF NftRecord
<1>7. /\ left.score = NoScore /\ left.history = <<>> /\ left.remint = FALSE
      /\ left.burned = a.burned
  BY <1>1 DEF NftRecord
<1> HIDE DEF got, left
<1>8. Allowed(b, got) /\ HasActiveNft(got)
  BY <1>1, <1>4, <1>5, <1>6 DEF Allowed, Explained, HasActiveNft
<1>9. Allowed(a, left) /\ ~HasActiveNft(left)
  BY <1>1, <1>5, <1>7, EmptyEndsAt DEF Allowed, Explained, HasActiveNft
<1>10. /\ nft' \in [Users -> NftRecord] /\ nft'[to] = got /\ nft'[from] = left
       /\ \A v \in Users : v # to /\ v # from => nft'[v] = nft[v]
  BY <1>1, <1>2, <1>5
<1>11. ASSUME NEW v \in Users PROVE Allowed(nft[v], nft'[v])
  <2>1. CASE v = to
    BY <1>8, <1>10, <2>1 DEF b
  <2>2. CASE v = from
    BY <1>9, <1>10, <2>2 DEF a
  <2>3. CASE v # to /\ v # from
    BY <1>10, <2>3, SameAllowed DEF NftInv
  <2> QED BY <2>1, <2>2, <2>3
<1>12. ASSUME NEW f \in Users, NEW v \in Users, Moved(f, v), nft[f].seized
       PROVE  nft'[v].seized
  <2>1. f = from /\ v = to
    BY <1>8, <1>9, <1>10, <1>12 DEF Moved
  <2>2. z
    BY <1>12, <2>1 DEF z, a
  <2> QED BY <1>6, <1>10, <2>1, <2>2
<1> QED
  BY <1>10, <1>11, <1>12 DEF NftsMove

(* Any step of the contract. *)
LEMMA NftStepMoves ==
    ASSUME NftInv, NftStep
    PROVE  NftsMove /\ burnThreshold' \in Nat
<1>1. CASE NftUserStep
  <2>1. NftsMove
    BY <1>1, MintMoves, AdminRemintMoves, ScoreMoves, FlagMoves, TransferMoves DEF NftUserStep
  <2>2. burnThreshold' = burnThreshold
    BY <1>1 DEF NftUserStep, Mint, AdminRemint, UpdateScore, DecreaseScore, ApplyScoreDelta,
                SeizeCollateral, RecordDefault, Burn, Transfer, ApproveRemint, OnlyNft,
                nftConfigVars
  <2> QED
    BY <2>1, <2>2 DEF NftInv
<1>2. CASE NftAdminStep
  <2>1. nft' = nft
    BY <1>2 DEF NftAdminStep, AuthorizeMinter, RevokeMinter, SetDefaultBurnThreshold,
                SetScoreFloor, SetNftPaused, ProposeNftAdmin, AcceptNftAdmin, SetNftAdmin
  <2>2. burnThreshold' \in Nat
    BY <1>2, ScoreAssumption
       DEF NftAdminStep, AuthorizeMinter, RevokeMinter, SetDefaultBurnThreshold, SetScoreFloor,
           SetNftPaused, ProposeNftAdmin, AcceptNftAdmin, SetNftAdmin, nftConfigVars, NftInv
  <2> QED
    BY <2>1, <2>2, NftsUnmoved
<1> QED
  BY <1>1, <1>2 DEF NftStep

(* Any step, with the history variables. *)
LEMMA HNextMoves ==
    ASSUME NftInv, [HNext]_hvars
    PROVE  NftsMove /\ NftInv'
<1>1. NftsMove /\ burnThreshold' \in Nat /\ ledger' \in Nat
  <2>1. CASE NftStep /\ UNCHANGED ledger
    BY <2>1, NftStepMoves DEF NftInv
  <2>2. CASE LedgerClose /\ UNCHANGED nftVars
    BY <2>2, NftsUnmoved DEF LedgerClose, nftVars, nftConfigVars, NftInv
  <2>3. CASE UNCHANGED hvars
    BY <2>3, NftsUnmoved DEF hvars, nftVars, nftConfigVars, NftInv
  <2> QED
    BY <2>1, <2>2, <2>3 DEF HNext
<1>2. CASE UNCHANGED hvars
  BY <1>1, <1>2 DEF hvars, nftVars, NftInv, NftsMove, Allowed
<1>3. CASE HNext
  <2>1. tainted' = {u \in Users :
            /\ HasActiveNft(nft'[u])
            /\ \/ u \in tainted
               \/ HasActiveNft(nft[u]) /\ nft'[u].defaults > nft[u].defaults
               \/ \E f \in tainted : Moved(f, u)}
    BY <1>3 DEF HNext
  <2>2. approvedSinceBurn' = {u \in approvedSinceBurn : ~Lost(u)}
                                \cup {u \in Users : ~nft[u].remint /\ nft'[u].remint}
    BY <1>3 DEF HNext
  <2>3. ASSUME NEW u \in tainted' PROVE HasActiveNft(nft'[u]) /\ nft'[u].seized
    <3>1. u \in Users /\ HasActiveNft(nft'[u]) /\ Allowed(nft[u], nft'[u])
      BY <1>1, <2>1, <2>3 DEF NftsMove
    <3>2. CASE u \in tainted
      BY <3>1, <3>2 DEF NftInv, Allowed
    <3>3. CASE HasActiveNft(nft[u]) /\ nft'[u].defaults > nft[u].defaults
      BY <3>1, <3>3 DEF Allowed
    <3>4. CASE \E f \in tainted : Moved(f, u)
      BY <1>1, <3>1, <3>4 DEF NftInv, NftsMove
    <3> QED
      BY <2>1, <2>3, <3>1, <3>2, <3>3, <3>4
  <2>4. ASSUME NEW u \in Users, nft'[u].remint PROVE u \in approvedSinceBurn'
    <3>1. Allowed(nft[u], nft'[u])
      BY <1>1 DEF NftsMove
    <3>2. ~Lost(u)
      BY <2>4, <3>1 DEF Lost, Allowed
    <3> QED
      BY <2>2, <2>4, <3>2 DEF NftInv
  <2>5. tainted' \subseteq Users
    BY <2>1
  <2>6. nft' \in [Users -> NftRecord] /\ \A u \in Users : Explained(nft'[u])
    BY <1>1 DEF NftsMove, Allowed
  <2>7. \A u \in tainted' : HasActiveNft(nft'[u]) /\ nft'[u].seized
    BY <2>3
  <2>8. \A u \in Users : Explained(nft[u])'
    BY <2>6 DEF Explained, EndsAt
  <2>9. \A u \in tainted' : HasActiveNft(nft[u])' /\ nft'[u].seized
    BY <2>7 DEF HasActiveNft
  <2> QED
    BY <1>1, <2>4, <2>5, <2>6, <2>8, <2>9 DEF NftInv
<1> QED
  BY <1>1, <1>2, <1>3

(* The contract starts without NFTs. *)
LEMMA InitNftInv == HInit => NftInv
<1> SUFFICES ASSUME HInit PROVE NftInv
  OBVIOUS
<1>1. nft = [u \in Users |-> NoNft] /\ tainted = {} /\ ledger = 1
      /\ burnThreshold = DefaultBurnThreshold
  BY DEF HInit, NftInit
<1>2. NoNft \in NftRecord
  BY EmptyEndsAt DEF NoNft, NftRecord
<1>3. NoNft.history = <<>> /\ NoNft.remint = FALSE
  BY DEF NoNft
<1>4. Explained(NoNft)
  BY <1>2, <1>3, EmptyEndsAt DEF Explained
<1> QED
  BY <1>1, <1>2, <1>3, <1>4, ScoreAssumption DEF NftInv

------------------------------------------------------------------------------
(* The theorems.                                                            *)

(* The inductive invariant. *)
THEOREM NftInvHolds == HSpec => []NftInv
<1>1. NftInv /\ [HNext]_hvars => NftInv'
  BY HNextMoves
<1> QED
  BY <1>1, InitNftInv, PTL DEF HSpec

(* The score history is a gapless account of the current score, through     *)
(* transfers, burns and remints and past its limit.                         *)
THEOREM HistoryAlwaysExplains == HSpec => []HistoryExplainsScore
<1>1. NftInv => HistoryExplainsScore
  BY DEF NftInv, Explained, EndsAt, HistoryExplainsScore
<1> QED
  BY <1>1, NftInvHolds, PTL

(* A recorded default keeps whoever holds the NFT flagged as seized.        *)
THEOREM DefaultsAlwaysStick == HSpec => []DefaultSticks
<1>1. NftInv => DefaultSticks
  BY DEF NftInv, DefaultSticks
<1> QED
  BY <1>1, NftInvHolds, PTL

(* A burned mark is lifted only with an approval given after the burn.      *)
THEOREM RemintsAlwaysApproved == HSpec => RemintsAreApproved
<1> DEFINE Step == \A u \in Users : nft[u].burned /\ ~nft'[u].burned => u \in approvedSinceBurn
<1>1. NftInv /\ [HNext]_hvars => Step
  <2> SUFFICES ASSUME NftInv, [HNext]_hvars, NEW u \in Users, nft[u].burned, ~nft'[u].burned
               PROVE  u \in approvedSinceBurn
    OBVIOUS
  <2>1. Allowed(nft[u], nft'[u])
    BY HNextMoves DEF NftsMove
  <2> QED
    BY <2>1 DEF Allowed, NftInv
<1> QED
  BY <1>1, NftInvHolds, PTL DEF HSpec, RemintsAreApproved
==============================================================================
