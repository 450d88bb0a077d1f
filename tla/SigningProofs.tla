--------------------------- MODULE SigningProofs ---------------------------
(***************************************************************************)
(* Agreement of threshold signing, for every set of masternodes, quorums,  *)
(* ids and messages, and any number of restarts, session timeouts,         *)
(* removals and deleted votes.  The argument: a share is only made for a   *)
(* stored vote (ShareIsBackedByStoredVote), a stored vote does not change  *)
(* until it is deleted for its age, hence a masternode that has not        *)
(* deleted it signs one message per id (OneShareVotePerId).  Recovered     *)
(* signatures of one id whose signers have such a masternode in common     *)
(* agree; a quorum's threshold above half of its size makes that so for    *)
(* two signatures of one quorum.                                           *)
(***************************************************************************)
EXTENDS Signing, FiniteSetTheorems, TLAPS

\* Shares come from members of their quorum.
MemberShares == \A s \in shareNet : s.member \in Members[s.q]

\* What is about to be signed is what the node voted for, unless the vote has
\* been deleted since.
PendingIsVoted ==
  \A n \in Nodes :
    /\ \A x \in signing[n] : x.id \notin forgotten[n] => votes[n][x.id] = x.msg
    /\ \A x \in pendingSigns[n] :
         /\ x.id \notin forgotten[n] => votes[n][x.id] = x.msg
         /\ n \in Members[x.q]

\* Nodes hold only what was pushed to the network.
HeldWasSent ==
  \A n \in Nodes : sigShares[n] \subseteq shareNet /\ incoming[n] \subseteq shareNet

\* Every recovered signature in circulation has a threshold of signers.
RecoveredHasSigners ==
  \A r \in recSigNet : Cardinality(Signers(r, shareNet)) >= Threshold

\* Nodes store and queue only recovered signatures in circulation.
StoredWasRecovered ==
  \A n \in Nodes :
    /\ pendingRecSigs[n] \subseteq recSigNet
    /\ reconstructed[n] \subseteq recSigNet
    /\ \A id \in Ids : recSigs[n][id] # NoSig => recSigs[n][id] \in recSigNet

IInv ==
  /\ TypeOK
  /\ MemberShares
  /\ OneShareVotePerId
  /\ ShareIsBackedByStoredVote
  /\ PendingIsVoted
  /\ HeldWasSent
  /\ RecoveredHasSigners
  /\ StoredWasRecovered

\* Each conjunct of IInv is kept by the steps that leave its variables alone.
LEMMA Kept ==
  ASSUME IInv
  PROVE  /\ UNCHANGED <<shareNet, votes, forgotten>> =>
              MemberShares' /\ OneShareVotePerId' /\ ShareIsBackedByStoredVote'
         /\ UNCHANGED <<signing, pendingSigns, votes, forgotten>> => PendingIsVoted'
         /\ UNCHANGED <<sigShares, incoming, shareNet>> => HeldWasSent'
         /\ UNCHANGED <<recSigNet, shareNet>> => RecoveredHasSigners'
         /\ UNCHANGED <<pendingRecSigs, reconstructed, recSigs, recSigNet>> => StoredWasRecovered'
<1>1. UNCHANGED <<shareNet, votes, forgotten>> =>
        MemberShares' /\ OneShareVotePerId' /\ ShareIsBackedByStoredVote'
  BY ONLY Zenon, IInv DEF IInv, MemberShares, OneShareVotePerId, ShareIsBackedByStoredVote
<1>2. UNCHANGED <<signing, pendingSigns, votes, forgotten>> => PendingIsVoted'
  BY ONLY IInv DEF IInv, PendingIsVoted
<1>3. UNCHANGED <<sigShares, incoming, shareNet>> => HeldWasSent'
  BY ONLY Zenon, IInv DEF IInv, HeldWasSent
<1>4. UNCHANGED <<recSigNet, shareNet>> => RecoveredHasSigners'
  BY ONLY Zenon, IInv DEF IInv, RecoveredHasSigners, Signers, SessionOf
<1>5. UNCHANGED <<pendingRecSigs, reconstructed, recSigs, recSigNet>> => StoredWasRecovered'
  BY ONLY Zenon, IInv DEF IInv, StoredWasRecovered
<1>. QED  BY ONLY Zenon, <1>1, <1>2, <1>3, <1>4, <1>5

\* The signers of r among a set of shares are finitely many, and grow with it.
LEMMA SignersMonotone ==
  ASSUME NEW S \in SUBSET Shares, NEW T \in SUBSET Shares, S \subseteq T, NEW r
  PROVE  /\ Cardinality(Signers(r, S)) <= Cardinality(Signers(r, T))
         /\ Cardinality(Signers(r, S)) \in Nat /\ Cardinality(Signers(r, T)) \in Nat
<1>1. Signers(r, T) \subseteq Nodes
  BY Zenon DEF Signers, SessionOf, Shares
<1>2. Signers(r, S) \subseteq Signers(r, T)
  BY Zenon DEF Signers, SessionOf
<1>3. IsFiniteSet(Signers(r, T))
  BY Zenon, <1>1, ConstantsAssumption, FS_Subset
<1>4. IsFiniteSet(Signers(r, S))
  BY Zenon, <1>2, <1>3, FS_Subset
<1>. QED  BY Zenon, <1>2, <1>3, <1>4, FS_Subset, FS_CardinalityType

\* The initial state satisfies the inductive invariant.
LEMMA InitInv == Init => IInv
<1>. SUFFICES ASSUME Init PROVE IInv
  OBVIOUS
<1>. USE ConstantsAssumption DEF Init
<1>1. TypeOK
  BY DEF TypeOK
<1>. QED  BY Zenon, <1>1 DEF IInv, MemberShares, OneShareVotePerId, ShareIsBackedByStoredVote,
             PendingIsVoted, HeldWasSent, RecoveredHasSigners, StoredWasRecovered

\* ProcessRecoveredSig at n keeps the parts of the invariant about what is
\* held and stored, if r is already justified by the shares in circulation.
LEMMA ProcessRecoveredSigInv ==
  ASSUME IInv, NEW n \in Nodes, NEW r \in RecSigs,
         NEW held \in SUBSET Shares, NEW queue \in SUBSET Shares,
         held \subseteq shareNet', queue \subseteq shareNet',
         shareNet' \in SUBSET Shares, shareNet \subseteq shareNet',
         Cardinality(Signers(r, shareNet')) >= Threshold,
         ProcessRecoveredSig(n, r, held, queue),
         \A m \in Nodes : /\ pendingRecSigs'[m] \subseteq pendingRecSigs[m]
                          /\ reconstructed'[m] \subseteq reconstructed[m]
  PROVE  /\ recSigs' \in [Nodes -> [Ids -> RecSigs \cup {NoSig}]]
         /\ recSigNet' \subseteq RecSigs
         /\ sigShares' \in [Nodes -> SUBSET Shares]
         /\ incoming' \in [Nodes -> SUBSET Shares]
         /\ HeldWasSent' /\ RecoveredHasSigners' /\ StoredWasRecovered'
<1>. USE DEF IInv
<1>1. TypeOK /\ HeldWasSent /\ StoredWasRecovered /\ RecoveredHasSigners
  OBVIOUS
<1>2. SessionOf(r, held) \subseteq held /\ SessionOf(r, queue) \subseteq queue
  BY Zenon DEF SessionOf
<1>3. r.id \in Ids
  BY Zenon DEF RecSigs
<1>. DEFINE id == r.id
            h == IF recSigs[n][id] = NoSig THEN held \ SessionOf(r, held) ELSE held
            w == IF recSigs[n][id] = NoSig THEN queue \ SessionOf(r, queue) ELSE queue
            v == IF recSigs[n][id] = NoSig THEN r ELSE recSigs[n][id]
<1>4. /\ sigShares' = [sigShares EXCEPT ![n] = h]
      /\ incoming' = [incoming EXCEPT ![n] = w]
      /\ recSigs' = [recSigs EXCEPT ![n] = [@ EXCEPT ![id] = v]]
      /\ recSigNet \subseteq recSigNet' /\ recSigNet' \subseteq recSigNet \cup {r}
      /\ v = r => r \in recSigNet'
  <2>1. CASE recSigs[n][id] = NoSig
    BY Zenon, <2>1 DEF ProcessRecoveredSig
  <2>2. CASE recSigs[n][id] # NoSig
    <3>1. /\ sigShares' = [sigShares EXCEPT ![n] = held]
          /\ incoming' = [incoming EXCEPT ![n] = queue]
          /\ recSigs' = recSigs /\ recSigNet' = recSigNet
      BY Zenon, <2>2 DEF ProcessRecoveredSig
    <3>2. recSigs[n] = [recSigs[n] EXCEPT ![id] = recSigs[n][id]]
      BY Zenon, <1>1, <1>3 DEF TypeOK
    <3>3. recSigs = [recSigs EXCEPT ![n] = recSigs[n]]
      BY Zenon, <1>1 DEF TypeOK
    <3>4. v = r => r \in recSigNet
      BY Zenon, <1>1, <1>3, <2>2 DEF StoredWasRecovered
    <3>. QED  BY Zenon, <2>2, <3>1, <3>2, <3>3, <3>4
  <2>. QED  BY Zenon, <2>1, <2>2
<1>5. h \subseteq held /\ w \subseteq queue /\ v \in RecSigs /\ id \in Ids
      /\ v \in recSigNet'
  BY Zenon, <1>1, <1>2, <1>3, <1>4 DEF TypeOK, StoredWasRecovered
<1>. HIDE DEF h, w, v, id
<1>6. /\ recSigs' \in [Nodes -> [Ids -> RecSigs \cup {NoSig}]]
      /\ recSigNet' \subseteq RecSigs
      /\ sigShares' \in [Nodes -> SUBSET Shares]
      /\ incoming' \in [Nodes -> SUBSET Shares]
      /\ HeldWasSent'
  BY Zenon, <1>1, <1>4, <1>5 DEF TypeOK, HeldWasSent
<1>7. RecoveredHasSigners'
  <2>. SUFFICES ASSUME NEW x \in recSigNet' PROVE Cardinality(Signers(x, shareNet')) >= Threshold
    BY Zenon DEF RecoveredHasSigners
  <2>1. CASE x = r
    BY Zenon, <2>1
  <2>2. CASE x \in recSigNet
    <3>1. Cardinality(Signers(x, shareNet)) >= Threshold
      BY Zenon, <1>1, <2>2 DEF RecoveredHasSigners
    <3>2. shareNet \in SUBSET Shares
      BY Zenon, <1>1 DEF TypeOK
    <3>. QED  BY <3>1, <3>2, SignersMonotone, ConstantsAssumption
  <2>. QED  BY Zenon, <1>4, <2>1, <2>2
<1>8. StoredWasRecovered'
  BY Zenon, <1>1, <1>4, <1>5 DEF TypeOK, StoredWasRecovered
<1>. QED  BY Zenon, <1>6, <1>7, <1>8

\* The same for ProcessSigShare, whose share s joins those in circulation.
LEMMA ProcessSigShareInv ==
  ASSUME IInv, NEW n \in Nodes, NEW s \in Shares, NEW queue \in SUBSET Shares,
         queue \subseteq shareNet, ProcessSigShare(n, s, queue),
         UNCHANGED <<pendingRecSigs, reconstructed>>
  PROVE  /\ shareNet' \subseteq Shares /\ shareNet \subseteq shareNet'
         /\ shareNet' \subseteq shareNet \cup {s}
         /\ recSigs' \in [Nodes -> [Ids -> RecSigs \cup {NoSig}]]
         /\ recSigNet' \subseteq RecSigs
         /\ sigShares' \in [Nodes -> SUBSET Shares]
         /\ incoming' \in [Nodes -> SUBSET Shares]
         /\ HeldWasSent' /\ RecoveredHasSigners' /\ StoredWasRecovered'
<1>. DEFINE r    == [q |-> s.q, id |-> s.id, msg |-> s.msg]
            held == sigShares[n] \cup {s}
            add  == recSigs[n][s.id] = NoSig /\ s \notin sigShares[n]
<1>1. TypeOK /\ HeldWasSent /\ StoredWasRecovered /\ RecoveredHasSigners
  BY Zenon DEF IInv
<1>2. shareNet' \in SUBSET Shares /\ shareNet \subseteq shareNet'
      /\ shareNet' \subseteq shareNet \cup {s}
  BY Zenon, <1>1 DEF ProcessSigShare, TypeOK
<1>3. r \in RecSigs /\ held \in SUBSET Shares
  BY Zenon, <1>1 DEF RecSigs, Shares, TypeOK
<1>4. \A m \in Nodes : /\ pendingRecSigs'[m] \subseteq pendingRecSigs[m]
                       /\ reconstructed'[m] \subseteq reconstructed[m]
  BY Zenon
<1>5. CASE add /\ Cardinality(Signers(r, held)) >= Threshold
  <2>1. ProcessRecoveredSig(n, r, held, queue)
    BY Zenon, <1>5 DEF ProcessSigShare
  <2>2. held \subseteq shareNet'
    BY Zenon, <1>1, <1>5 DEF ProcessSigShare, HeldWasSent
  <2>3. Cardinality(Signers(r, shareNet')) >= Threshold
    <3>1. Cardinality(Signers(r, held)) <= Cardinality(Signers(r, shareNet'))
          /\ Cardinality(Signers(r, held)) \in Nat
          /\ Cardinality(Signers(r, shareNet')) \in Nat
      BY Zenon, <1>2, <1>3, <2>2, SignersMonotone
    <3>. QED  BY <3>1, <1>5, ConstantsAssumption
  <2>. HIDE DEF r, held
  <2>. QED  BY Zenon, <1>2, <1>3, <1>4, <2>1, <2>2, <2>3, ProcessRecoveredSigInv
<1>6. CASE ~(add /\ Cardinality(Signers(r, held)) >= Threshold)
  <2>1. /\ sigShares' = [sigShares EXCEPT ![n] = IF add THEN held ELSE @]
        /\ incoming' = [incoming EXCEPT ![n] = queue]
        /\ UNCHANGED <<recSigs, recSigNet>>
        /\ shareNet' = IF add THEN shareNet \cup {s} ELSE shareNet
    BY Zenon, <1>6 DEF ProcessSigShare
  <2>2. /\ sigShares' \in [Nodes -> SUBSET Shares]
        /\ incoming' \in [Nodes -> SUBSET Shares]
        /\ recSigs' \in [Nodes -> [Ids -> RecSigs \cup {NoSig}]]
        /\ recSigNet' \subseteq RecSigs
    BY Zenon, <1>1, <1>3, <2>1 DEF TypeOK
  <2>3. HeldWasSent'
    BY Zenon, <1>1, <2>1 DEF TypeOK, HeldWasSent
  <2>4. RecoveredHasSigners'
    <3>. SUFFICES ASSUME NEW x \in recSigNet PROVE Cardinality(Signers(x, shareNet')) >= Threshold
      BY Zenon, <2>1 DEF RecoveredHasSigners
    <3>1. Cardinality(Signers(x, shareNet)) >= Threshold
      BY Zenon, <1>1 DEF RecoveredHasSigners
    <3>2. shareNet \in SUBSET Shares
      BY Zenon, <1>1 DEF TypeOK
    <3>. QED  BY <3>1, <3>2, <1>2, SignersMonotone, ConstantsAssumption
  <2>5. StoredWasRecovered'
    BY Zenon, <1>1, <2>1 DEF StoredWasRecovered
  <2>. QED  BY Zenon, <1>2, <2>2, <2>3, <2>4, <2>5
<1>. QED  BY Zenon, <1>5, <1>6

\* A call of AsyncSignIfMember writes a vote that contradicts no share, since
\* a node without a vote on an id in use has no share for it.
LEMMA AsyncSignInv ==
  ASSUME IInv, NEW n \in Nodes, NEW id \in Ids, NEW msg \in Msgs, NEW re \in ReSign,
         AsyncSignIfMember(n, id, msg, re)
  PROVE  IInv'
<1>. USE ConstantsAssumption DEF IInv, AsyncSignIfMember, db, memory, network, ages
<1>1. TypeOK'
  BY DEF TypeOK
<1>2. \A m \in Nodes, i \in Ids : votes[m][i] # NoMsg => votes'[m][i] = votes[m][i]
  BY Zenon DEF TypeOK
<1>3. votes'[n][id] = msg
  BY Zenon DEF TypeOK
<1>4. ShareIsBackedByStoredVote'
  <2>. SUFFICES ASSUME NEW s \in shareNet, s.id \notin forgotten[s.member]
                PROVE  votes'[s.member][s.id] = s.msg
    BY Zenon DEF ShareIsBackedByStoredVote
  <2>1. s.member \in Nodes /\ s.id \in Ids /\ s.msg \in Msgs
    BY Zenon DEF TypeOK, Shares
  <2>2. votes[s.member][s.id] = s.msg
    BY Zenon DEF ShareIsBackedByStoredVote
  <2>. QED  BY <1>2, <2>1, <2>2
<1>5. PendingIsVoted'
  <2>. SUFFICES ASSUME NEW m \in Nodes
                PROVE  /\ \A x \in signing'[m] :
                            x.id \notin forgotten[m] => votes'[m][x.id] = x.msg
                       /\ \A x \in pendingSigns[m] :
                            /\ x.id \notin forgotten[m] => votes'[m][x.id] = x.msg
                            /\ m \in Members[x.q]
    BY DEF PendingIsVoted
  <2>1. ASSUME NEW x \in signing[m], x.id \notin forgotten[m] PROVE votes'[m][x.id] = x.msg
    <3>1. x.id \in Ids /\ x.msg \in Msgs
      BY DEF TypeOK
    <3>. QED  BY <3>1, <1>2, <2>1 DEF PendingIsVoted
  <2>2. ASSUME NEW x \in pendingSigns[m]
        PROVE  /\ x.id \notin forgotten[m] => votes'[m][x.id] = x.msg
               /\ m \in Members[x.q]
    <3>1. x.id \in Ids /\ x.msg \in Msgs
      BY DEF TypeOK, RecSigs
    <3>. QED  BY <3>1, <1>2 DEF PendingIsVoted
  <2>3. signing'[m] \subseteq signing[m] \cup (IF m = n THEN {[id |-> id, msg |-> msg]} ELSE {})
    BY Zenon DEF TypeOK
  <2>. QED  BY <1>3, <2>1, <2>2, <2>3
<1>6. MemberShares' /\ OneShareVotePerId'
  BY Zenon DEF MemberShares, OneShareVotePerId
<1>7. HeldWasSent' /\ StoredWasRecovered'
  BY Zenon DEF HeldWasSent, StoredWasRecovered
<1>8. RecoveredHasSigners'
  BY Zenon DEF RecoveredHasSigners
<1>. QED  BY Zenon, <1>1, <1>4, <1>5, <1>6, <1>7, <1>8

\* Selecting the quorum keeps the request tied to the vote.
LEMMA SelectQuorumInv ==
  ASSUME IInv, NEW n \in Nodes, NEW req \in signing[n], SelectQuorumForSigning(n, req)
  PROVE  IInv'
<1>. USE ConstantsAssumption DEF IInv, db, network, ages
<1>. DEFINE q == Select[tip[n]][req.id]
            p == [q |-> q, id |-> req.id, msg |-> req.msg]
<1>1. req.id \in Ids /\ req.msg \in Msgs /\ tip[n] \in Tips
  BY DEF TypeOK
<1>2. q \in Quorums \cup {NoQuorum}
  <2>1. Select \in [Tips -> [Ids -> Quorums \cup {NoQuorum}]]
    BY Zenon, ConstantsAssumption
  <2>2. Select[tip[n]] \in [Ids -> Quorums \cup {NoQuorum}]
    BY ONLY Zenon, <1>1, <2>1
  <2>. QED  BY ONLY Zenon, <1>1, <2>2
<1>3. /\ signing' = [signing EXCEPT ![n] = @ \ {req}]
      /\ pendingSigns' = [pendingSigns EXCEPT ![n] =
                            IF q # NoQuorum /\ n \in Members[q] THEN @ \cup {p} ELSE @]
      /\ UNCHANGED <<tip, votes, recSigs, incoming, sigShares, pendingRecSigs, reconstructed,
                     shareNet, recSigNet, aged, forgotten, faults>>
  <2>1. pendingSigns = [pendingSigns EXCEPT ![n] = @]
    BY Zenon DEF TypeOK
  <2>. QED  BY Zenon, <2>1 DEF SelectQuorumForSigning
<1>4. q # NoQuorum => p \in RecSigs
  BY Zenon, <1>1, <1>2 DEF RecSigs
<1>5. TypeOK'
  BY Zenon, <1>3, <1>4 DEF TypeOK
<1>6. PendingIsVoted'
  <2>1. TypeOK /\ PendingIsVoted
    OBVIOUS
  <2>2. q # NoQuorum /\ n \in Members[q] =>
          /\ p.id \notin forgotten[n] => votes[n][p.id] = p.msg
          /\ n \in Members[p.q]
    BY ONLY Zenon, <1>1, <2>1, n \in Nodes, req \in signing[n] DEF PendingIsVoted
  <2>. HIDE DEF p, q
  <2>. QED  BY ONLY <1>3, <2>1, <2>2, n \in Nodes DEF PendingIsVoted, TypeOK
<1>7. /\ MemberShares' /\ OneShareVotePerId' /\ ShareIsBackedByStoredVote'
      /\ HeldWasSent' /\ StoredWasRecovered' /\ RecoveredHasSigners'
  BY Zenon, <1>3 DEF MemberShares, OneShareVotePerId, ShareIsBackedByStoredVote, HeldWasSent,
     StoredWasRecovered, RecoveredHasSigners
<1>. QED  BY Zenon, <1>5, <1>6, <1>7

\* A new share of n agrees with all earlier shares of n on the id: all of
\* them carry the stored vote.
LEMMA SignInv ==
  ASSUME IInv, NEW n \in Nodes, NEW p \in pendingSigns[n], Sign(n, p)
  PROVE  IInv'
<1>. USE ConstantsAssumption
<1>. DEFINE s == [q |-> p.q, id |-> p.id, msg |-> p.msg, member |-> n]
<1>1. /\ pendingSigns' = [pendingSigns EXCEPT ![n] = @ \ {p}]
      /\ ProcessSigShare(n, s, incoming[n])
      /\ UNCHANGED <<tip, votes, signing, pendingRecSigs, reconstructed, aged, forgotten,
                     faults>>
  BY Zenon DEF Sign, ages
<1>2. TypeOK /\ HeldWasSent
  BY Zenon DEF IInv
<1>3. p \in RecSigs /\ s \in Shares
  BY <1>2 DEF TypeOK, RecSigs, Shares
<1>4. incoming[n] \in SUBSET Shares /\ incoming[n] \subseteq shareNet
  BY Zenon, <1>2 DEF TypeOK, HeldWasSent
<1>5. (p.id \notin forgotten[n] => votes[n][p.id] = p.msg) /\ n \in Members[p.q]
  BY Zenon DEF IInv, PendingIsVoted
<1>. HIDE DEF s
<1>6. /\ shareNet' \subseteq Shares /\ shareNet \subseteq shareNet'
      /\ shareNet' \subseteq shareNet \cup {s}
      /\ recSigs' \in [Nodes -> [Ids -> RecSigs \cup {NoSig}]]
      /\ recSigNet' \subseteq RecSigs
      /\ sigShares' \in [Nodes -> SUBSET Shares]
      /\ incoming' \in [Nodes -> SUBSET Shares]
      /\ HeldWasSent' /\ RecoveredHasSigners' /\ StoredWasRecovered'
  BY Zenon, <1>1, <1>3, <1>4, ProcessSigShareInv
<1>7. TypeOK'
  BY Zenon, <1>1, <1>2, <1>6 DEF TypeOK
<1>8. MemberShares'
  BY <1>5, <1>6 DEF IInv, MemberShares, s
<1>9. ShareIsBackedByStoredVote'
  <2>1. ShareIsBackedByStoredVote
    BY Zenon DEF IInv
  <2>2. s.id = p.id /\ s.msg = p.msg /\ s.member = n
    BY Zenon DEF s
  <2>. QED  BY ONLY Zenon, <1>1, <1>5, <1>6, <2>1, <2>2 DEF ShareIsBackedByStoredVote
<1>10. OneShareVotePerId'
  <2>1. \A t \in shareNet :
          t.member = n /\ t.id = p.id /\ p.id \notin forgotten[n] => t.msg = p.msg
    BY Zenon, <1>5 DEF IInv, ShareIsBackedByStoredVote
  <2>2. s.member = n /\ s.id = p.id /\ s.msg = p.msg
    BY Zenon DEF s
  <2>. QED  BY Zenon, <1>1, <1>6, <2>1, <2>2 DEF IInv, OneShareVotePerId
<1>11. PendingIsVoted'
  BY Zenon, <1>1, <1>2 DEF IInv, PendingIsVoted, TypeOK
<1>. QED  BY Zenon, <1>6, <1>7, <1>8, <1>9, <1>10, <1>11 DEF IInv

\* Processing a received share adds no share that was not already sent.
LEMMA ProcessPendingSigSharesInv ==
  ASSUME IInv, NEW n \in Nodes, NEW s \in incoming[n], ProcessPendingSigShares(n, s)
  PROVE  IInv'
<1>. USE ConstantsAssumption
<1>1. /\ ProcessSigShare(n, s, incoming[n] \ {s})
      /\ UNCHANGED <<tip, votes, signing, pendingSigns, pendingRecSigs, reconstructed, aged, forgotten,
                     faults>>
  BY Zenon DEF ProcessPendingSigShares, ages
<1>2. TypeOK /\ HeldWasSent
  BY Zenon DEF IInv
<1>3. /\ s \in Shares /\ s \in shareNet
      /\ incoming[n] \ {s} \in SUBSET Shares /\ incoming[n] \ {s} \subseteq shareNet
  BY Zenon, <1>2 DEF TypeOK, HeldWasSent
<1>4. /\ shareNet' \subseteq Shares /\ shareNet \subseteq shareNet'
      /\ shareNet' \subseteq shareNet \cup {s}
      /\ recSigs' \in [Nodes -> [Ids -> RecSigs \cup {NoSig}]]
      /\ recSigNet' \subseteq RecSigs
      /\ sigShares' \in [Nodes -> SUBSET Shares]
      /\ incoming' \in [Nodes -> SUBSET Shares]
      /\ HeldWasSent' /\ RecoveredHasSigners' /\ StoredWasRecovered'
  BY Zenon, <1>1, <1>3, ProcessSigShareInv
<1>5. shareNet' = shareNet
  BY ONLY Zenon, <1>3, <1>4
<1>6. TypeOK'
  BY Zenon, <1>1, <1>2, <1>4 DEF TypeOK
<1>7. MemberShares' /\ OneShareVotePerId' /\ ShareIsBackedByStoredVote'
  BY Zenon, <1>1, <1>5 DEF IInv, MemberShares, OneShareVotePerId, ShareIsBackedByStoredVote
<1>8. PendingIsVoted'
  BY Zenon, <1>1 DEF IInv, PendingIsVoted
<1>. QED  BY Zenon, <1>4, <1>6, <1>7, <1>8 DEF IInv

\* A received recovered signature was recovered from a threshold of shares.
LEMMA ReceivedRecoveredSigInv ==
  ASSUME IInv, NEW n \in Nodes, NEW r \in recSigNet,
         \/ ProcessRecoveredSig(n, r, sigShares[n], incoming[n])
         \/ UNCHANGED <<recSigs, incoming, sigShares, recSigNet>>,
         UNCHANGED <<tip, votes, signing, pendingSigns, shareNet, aged, forgotten, faults>>,
         pendingRecSigs' \in [Nodes -> SUBSET RecSigs],
         reconstructed' \in [Nodes -> SUBSET RecSigs],
         \A m \in Nodes : /\ pendingRecSigs'[m] \subseteq pendingRecSigs[m]
                          /\ reconstructed'[m] \subseteq reconstructed[m]
  PROVE  IInv'
<1>2. TypeOK /\ HeldWasSent /\ RecoveredHasSigners /\ StoredWasRecovered
  BY Zenon DEF IInv
<1>3. /\ r \in RecSigs
      /\ sigShares[n] \in SUBSET Shares /\ incoming[n] \in SUBSET Shares
      /\ sigShares[n] \subseteq shareNet' /\ incoming[n] \subseteq shareNet'
      /\ shareNet' \in SUBSET Shares /\ shareNet \subseteq shareNet'
  BY Zenon, <1>2 DEF TypeOK, HeldWasSent
<1>4. Cardinality(Signers(r, shareNet')) >= Threshold
  BY Zenon, <1>2 DEF RecoveredHasSigners
<1>5. /\ recSigs' \in [Nodes -> [Ids -> RecSigs \cup {NoSig}]]
      /\ recSigNet' \subseteq RecSigs
      /\ sigShares' \in [Nodes -> SUBSET Shares]
      /\ incoming' \in [Nodes -> SUBSET Shares]
      /\ HeldWasSent' /\ RecoveredHasSigners' /\ StoredWasRecovered'
  <2>1. CASE ProcessRecoveredSig(n, r, sigShares[n], incoming[n])
    BY Zenon, <1>3, <1>4, <2>1, ProcessRecoveredSigInv
  <2>2. CASE UNCHANGED <<recSigs, incoming, sigShares, recSigNet>>
    <3>2. HeldWasSent' /\ RecoveredHasSigners'
      BY Zenon, <1>2, <2>2 DEF HeldWasSent, RecoveredHasSigners
    <3>3. StoredWasRecovered'
      BY Zenon, <1>2, <2>2 DEF StoredWasRecovered
    <3>. QED  BY Zenon, <1>2, <2>2, <3>2, <3>3 DEF TypeOK
  <2>. QED  BY Zenon, <2>1, <2>2
<1>6. TypeOK'
  BY Zenon, <1>2, <1>5 DEF TypeOK
<1>7. MemberShares' /\ OneShareVotePerId' /\ ShareIsBackedByStoredVote'
  BY Zenon DEF IInv, MemberShares, OneShareVotePerId, ShareIsBackedByStoredVote
<1>8. PendingIsVoted'
  BY Zenon DEF IInv, PendingIsVoted
<1>. QED  BY Zenon, <1>5, <1>6, <1>7, <1>8 DEF IInv

\* One from a peer, whose quorum is looked up again.
LEMMA ProcessPendingRecoveredSigsInv ==
  ASSUME IInv, NEW n \in Nodes, NEW r \in pendingRecSigs[n],
         ProcessPendingRecoveredSigs(n, r)
  PROVE  IInv'
<1>1. /\ pendingRecSigs' = [pendingRecSigs EXCEPT ![n] = @ \ {r}]
      /\ UNCHANGED <<tip, votes, signing, pendingSigns, reconstructed, shareNet,
                     aged, forgotten, faults>>
      /\ \/ ProcessRecoveredSig(n, r, sigShares[n], incoming[n])
         \/ UNCHANGED <<recSigs, incoming, sigShares, recSigNet>>
  BY Zenon DEF ProcessPendingRecoveredSigs, ages
<1>2. TypeOK /\ r \in recSigNet
  BY Zenon DEF IInv, StoredWasRecovered
<1>3. /\ pendingRecSigs' \in [Nodes -> SUBSET RecSigs]
      /\ reconstructed' \in [Nodes -> SUBSET RecSigs]
      /\ \A m \in Nodes : /\ pendingRecSigs'[m] \subseteq pendingRecSigs[m]
                          /\ reconstructed'[m] \subseteq reconstructed[m]
  BY ONLY Zenon, <1>1, <1>2, n \in Nodes DEF TypeOK
<1>. QED  BY Zenon, <1>1, <1>2, <1>3, ReceivedRecoveredSigInv

\* One that InstantSend reconstructed.
LEMMA ProcessPendingReconstructedInv ==
  ASSUME IInv, NEW n \in Nodes, NEW r \in reconstructed[n],
         ProcessPendingReconstructedRecoveredSigs(n, r)
  PROVE  IInv'
<1>1. /\ reconstructed' = [reconstructed EXCEPT ![n] = @ \ {r}]
      /\ UNCHANGED <<tip, votes, signing, pendingSigns, pendingRecSigs, shareNet,
                     aged, forgotten, faults>>
      /\ ProcessRecoveredSig(n, r, sigShares[n], incoming[n])
  BY Zenon DEF ProcessPendingReconstructedRecoveredSigs, ages
<1>2. TypeOK /\ r \in recSigNet
  BY Zenon DEF IInv, StoredWasRecovered
<1>3. /\ pendingRecSigs' \in [Nodes -> SUBSET RecSigs]
      /\ reconstructed' \in [Nodes -> SUBSET RecSigs]
      /\ \A m \in Nodes : /\ pendingRecSigs'[m] \subseteq pendingRecSigs[m]
                          /\ reconstructed'[m] \subseteq reconstructed[m]
  BY ONLY Zenon, <1>1, <1>2, n \in Nodes DEF TypeOK
<1>. QED  BY Zenon, <1>1, <1>2, <1>3, ReceivedRecoveredSigInv

\* Steps that sign and recover nothing.
LEMMA OtherStepsInv ==
  ASSUME IInv, NEW n \in Nodes,
         \/ \E s \in shareNet : ProcessMessageBatchedSigShares(n, s)
         \/ \E r \in recSigNet : ProcessMessageRecoveredSig(n, r)
         \/ \E r \in recSigNet : PushReconstructedRecoveredSig(n, r)
         \/ \E r \in RecSigs : RemoveSigSharesForSession(n, r)
         \/ \E id \in Ids : RemoveRecoveredSig(n, id)
         \/ \E id \in Ids : Age(n, id)
         \/ NewTip(n)
         \/ Restart(n)
  PROVE  IInv'
<1>. USE ConstantsAssumption
<1>0. TypeOK /\ HeldWasSent /\ StoredWasRecovered /\ PendingIsVoted
  BY Zenon DEF IInv
<1>1. CASE \E s \in shareNet : ProcessMessageBatchedSigShares(n, s)
  <2>. PICK s \in shareNet : ProcessMessageBatchedSigShares(n, s)
    BY Zenon, <1>1
  <2>1. /\ incoming' = [incoming EXCEPT ![n] = @ \cup {s}]
        /\ UNCHANGED <<tip, votes, recSigs, signing, pendingSigns, sigShares, pendingRecSigs, reconstructed,
                       shareNet, recSigNet, aged, forgotten, faults>>
    BY Zenon DEF ProcessMessageBatchedSigShares, db, network, ages
  <2>2. TypeOK'
    BY ONLY Zenon, <1>0, <2>1, s \in shareNet, n \in Nodes DEF TypeOK
  <2>3. HeldWasSent'
    BY ONLY Zenon, <1>0, <2>1, s \in shareNet, n \in Nodes DEF HeldWasSent, TypeOK
  <2>. QED  BY Zenon, <2>1, <2>2, <2>3, Kept DEF IInv
<1>2. CASE \E r \in recSigNet : ProcessMessageRecoveredSig(n, r)
  <2>. PICK r \in recSigNet : ProcessMessageRecoveredSig(n, r)
    BY Zenon, <1>2
  <2>1. /\ pendingRecSigs' = [pendingRecSigs EXCEPT ![n] = @ \cup {r}]
        /\ UNCHANGED <<tip, votes, recSigs, signing, pendingSigns, incoming, sigShares,
                       reconstructed, shareNet, recSigNet, aged, forgotten, faults>>
    BY Zenon DEF ProcessMessageRecoveredSig, db, network, ages
  <2>2. TypeOK'
    BY ONLY Zenon, <1>0, <2>1, r \in recSigNet, n \in Nodes DEF TypeOK
  <2>3. StoredWasRecovered'
    BY ONLY Zenon, <1>0, <2>1, r \in recSigNet, n \in Nodes DEF StoredWasRecovered, TypeOK
  <2>. QED  BY Zenon, <2>1, <2>2, <2>3, Kept DEF IInv
<1>3. CASE \E r \in RecSigs : RemoveSigSharesForSession(n, r)
  <2>. PICK r \in RecSigs : RemoveSigSharesForSession(n, r)
    BY Zenon, <1>3
  <2>1. /\ faults < MaxFaults /\ faults' = faults + 1
        /\ sigShares' = [sigShares EXCEPT ![n] = @ \ SessionOf(r, @)]
        /\ incoming' = [incoming EXCEPT ![n] = @ \ SessionOf(r, @)]
        /\ UNCHANGED <<tip, votes, recSigs, signing, pendingSigns, pendingRecSigs, reconstructed,
                       shareNet, recSigNet, aged, forgotten>>
    BY Zenon DEF RemoveSigSharesForSession, db, network, ages
  <2>2. TypeOK'
    <3>1. faults' \in 0..MaxFaults
      BY ONLY ConstantsAssumption, <1>0, <2>1 DEF TypeOK
    <3>2. /\ sigShares' \in [Nodes -> SUBSET Shares]
          /\ incoming' \in [Nodes -> SUBSET Shares]
      BY ONLY Zenon, <1>0, <2>1, n \in Nodes DEF TypeOK
    <3>. QED  BY ONLY Zenon, <1>0, <2>1, <3>1, <3>2 DEF TypeOK
  <2>3. HeldWasSent'
    BY ONLY Zenon, <1>0, <2>1, n \in Nodes DEF HeldWasSent, TypeOK
  <2>. QED  BY Zenon, <2>1, <2>2, <2>3, Kept DEF IInv
<1>4. CASE \E id \in Ids : RemoveRecoveredSig(n, id)
  <2>. PICK id \in Ids : RemoveRecoveredSig(n, id)
    BY Zenon, <1>4
  <2>1. /\ faults < MaxFaults /\ faults' = faults + 1
        /\ recSigs' = [recSigs EXCEPT ![n][id] = NoSig]
        /\ UNCHANGED <<tip, votes, signing, pendingSigns, incoming, sigShares, pendingRecSigs, reconstructed,
                       shareNet, recSigNet, aged, forgotten>>
    BY Zenon DEF RemoveRecoveredSig, memory, network, ages
  <2>2. TypeOK'
    BY ONLY ConstantsAssumption, <1>0, <2>1, n \in Nodes, id \in Ids DEF TypeOK
  <2>3. StoredWasRecovered'
    BY ONLY Zenon, <1>0, <2>1, n \in Nodes, id \in Ids DEF StoredWasRecovered, TypeOK
  <2>. QED  BY Zenon, <2>1, <2>2, <2>3, Kept DEF IInv
<1>5. CASE NewTip(n)
  <2>1. /\ tip[n] + 1 \in Tips /\ tip' = [tip EXCEPT ![n] = @ + 1]
        /\ UNCHANGED <<votes, recSigs, signing, pendingSigns, incoming, sigShares,
                       pendingRecSigs, reconstructed, shareNet, recSigNet, aged, forgotten,
                       faults>>
    BY Zenon, <1>5 DEF NewTip, db, memory, network, ages
  <2>2. TypeOK'
    BY ONLY Zenon, <1>0, <2>1, n \in Nodes DEF TypeOK
  <2>. QED  BY Zenon, <2>1, <2>2, Kept DEF IInv
<1>6. CASE Restart(n)
  <2>1. /\ faults < MaxFaults /\ faults' = faults + 1
        /\ signing' = [signing EXCEPT ![n] = {}]
        /\ pendingSigns' = [pendingSigns EXCEPT ![n] = {}]
        /\ incoming' = [incoming EXCEPT ![n] = {}]
        /\ sigShares' = [sigShares EXCEPT ![n] = {}]
        /\ pendingRecSigs' = [pendingRecSigs EXCEPT ![n] = {}]
        /\ reconstructed' = [reconstructed EXCEPT ![n] = {}]
        /\ UNCHANGED <<tip, votes, recSigs, shareNet, recSigNet, aged, forgotten>>
    BY Zenon, <1>6 DEF Restart, db, network, ages
  <2>2. TypeOK'
    BY ONLY ConstantsAssumption, <1>0, <2>1, n \in Nodes DEF TypeOK
  <2>3. PendingIsVoted'
    BY ONLY Zenon, <1>0, <2>1, n \in Nodes DEF PendingIsVoted, TypeOK
  <2>4. HeldWasSent'
    BY ONLY Zenon, <1>0, <2>1, n \in Nodes DEF HeldWasSent, TypeOK
  <2>5. StoredWasRecovered'
    BY ONLY Zenon, <1>0, <2>1, n \in Nodes DEF StoredWasRecovered, TypeOK
  <2>. QED  BY Zenon, <2>1, <2>2, <2>3, <2>4, <2>5, Kept DEF IInv
<1>7. CASE \E r \in recSigNet : PushReconstructedRecoveredSig(n, r)
  <2>. PICK r \in recSigNet : PushReconstructedRecoveredSig(n, r)
    BY Zenon, <1>7
  <2>1. /\ reconstructed' = [reconstructed EXCEPT ![n] = @ \cup {r}]
        /\ UNCHANGED <<tip, votes, recSigs, signing, pendingSigns, incoming, sigShares,
                       pendingRecSigs, shareNet, recSigNet, aged, forgotten, faults>>
    BY Zenon DEF PushReconstructedRecoveredSig, db, network, ages
  <2>2. TypeOK'
    BY ONLY Zenon, <1>0, <2>1, r \in recSigNet, n \in Nodes DEF TypeOK
  <2>3. StoredWasRecovered'
    BY ONLY Zenon, <1>0, <2>1, r \in recSigNet, n \in Nodes DEF StoredWasRecovered, TypeOK
  <2>. QED  BY Zenon, <2>1, <2>2, <2>3, Kept DEF IInv
<1>8. CASE \E id \in Ids : Age(n, id)
  <2>. PICK id \in Ids : Age(n, id)
    BY Zenon, <1>8
  <2>1. /\ faults < MaxFaults /\ faults' = faults + 1
        /\ aged' = [aged EXCEPT ![n] = @ \cup {id}]
        /\ UNCHANGED <<tip, votes, recSigs, signing, pendingSigns, incoming, sigShares,
                       pendingRecSigs, reconstructed, shareNet, recSigNet, forgotten>>
    BY Zenon DEF Age, db, memory, network, ages
  <2>2. TypeOK'
    BY ONLY ConstantsAssumption, <1>0, <2>1, n \in Nodes, id \in Ids DEF TypeOK
  <2>. QED  BY Zenon, <2>1, <2>2, Kept DEF IInv
<1>. QED  BY Zenon, <1>1, <1>2, <1>3, <1>4, <1>5, <1>6, <1>7, <1>8

\* The votes that are deleted are those of ids that the node has then forgotten.
LEMMA CleanupInv ==
  ASSUME IInv, NEW n \in Nodes, CleanupOldVotes(n)
  PROVE  IInv'
<1>1. /\ votes' = [votes EXCEPT ![n] = [id \in Ids |-> IF id \in aged[n] THEN NoMsg ELSE @[id]]]
      /\ aged' = [aged EXCEPT ![n] = {}]
      /\ forgotten' = [forgotten EXCEPT ![n] = @ \cup aged[n]]
      /\ UNCHANGED <<tip, recSigs, signing, pendingSigns, incoming, sigShares, pendingRecSigs,
                     reconstructed, shareNet, recSigNet, faults>>
  BY Zenon DEF CleanupOldVotes, memory, network, ages
<1>2. TypeOK /\ PendingIsVoted /\ ShareIsBackedByStoredVote /\ MemberShares /\ OneShareVotePerId
  BY Zenon DEF IInv
<1>3. TypeOK'
  BY ONLY Zenon, <1>1, <1>2, n \in Nodes DEF TypeOK
<1>4. \A m \in Nodes : /\ forgotten[m] \subseteq forgotten'[m]
                       /\ \A i \in Ids \ forgotten'[m] : votes'[m][i] = votes[m][i]
  BY ONLY Zenon, <1>1, <1>2, n \in Nodes DEF TypeOK
<1>5. \A m \in Nodes :
        /\ \A x \in signing[m] : x.id \in Ids
        /\ \A x \in pendingSigns[m] : x.id \in Ids
  BY ONLY <1>2 DEF TypeOK, RecSigs
<1>6. \A s \in shareNet : s.id \in Ids /\ s.member \in Nodes
  BY ONLY Zenon, <1>2 DEF TypeOK, Shares
<1>7. ShareIsBackedByStoredVote'
  BY ONLY <1>1, <1>2, <1>4, <1>6 DEF ShareIsBackedByStoredVote
<1>8. PendingIsVoted'
  <2>1. signing' = signing /\ pendingSigns' = pendingSigns
    BY ONLY Zenon, <1>1
  <2>. QED  BY ONLY <1>2, <1>4, <1>5, <2>1 DEF PendingIsVoted
<1>9. MemberShares' /\ OneShareVotePerId'
  <2>1. MemberShares'
    BY ONLY Zenon, <1>1, <1>2 DEF MemberShares
  <2>2. shareNet' = shareNet /\ OneShareVotePerId
    BY ONLY Zenon, <1>1, <1>2
  <2>3. OneShareVotePerId'
    BY ONLY <1>4, <1>6, <2>2 DEF OneShareVotePerId
  <2>. QED  BY ONLY Zenon, <2>1, <2>3
<1>. QED  BY Zenon, <1>1, <1>3, <1>7, <1>8, <1>9, Kept DEF IInv

\* Every step keeps the inductive invariant.
LEMMA NextInv == IInv /\ [Next]_vars => IInv'
<1>. SUFFICES ASSUME IInv, [Next]_vars PROVE IInv'
  OBVIOUS
<1>1. CASE UNCHANGED vars
  BY <1>1 DEF vars, db, memory, network, ages, IInv, TypeOK, MemberShares,
    OneShareVotePerId, ShareIsBackedByStoredVote, PendingIsVoted, HeldWasSent,
    RecoveredHasSigners, StoredWasRecovered
<1>3. CASE \E n \in Nodes : NodeStep(n)
  <2>. PICK n \in Nodes : NodeStep(n)
    BY Zenon, <1>3
  <2>1. CASE \E id \in Ids, msg \in Msgs, r \in ReSign : AsyncSignIfMember(n, id, msg, r)
    BY Zenon, <2>1, AsyncSignInv
  <2>2. CASE \E req \in signing[n] : SelectQuorumForSigning(n, req)
    BY Zenon, <2>2, SelectQuorumInv
  <2>3. CASE \E p \in pendingSigns[n] : Sign(n, p)
    BY Zenon, <2>3, SignInv
  <2>4. CASE \E s \in incoming[n] : ProcessPendingSigShares(n, s)
    BY Zenon, <2>4, ProcessPendingSigSharesInv
  <2>5. CASE \E r \in pendingRecSigs[n] : ProcessPendingRecoveredSigs(n, r)
    BY Zenon, <2>5, ProcessPendingRecoveredSigsInv
  <2>6. CASE CleanupOldVotes(n)
    BY Zenon, <2>6, CleanupInv
  <2>7. CASE \E r \in reconstructed[n] : ProcessPendingReconstructedRecoveredSigs(n, r)
    BY Zenon, <2>7, ProcessPendingReconstructedInv
  <2>. QED  BY Zenon, <2>1, <2>2, <2>3, <2>4, <2>5, <2>6, <2>7, OtherStepsInv DEF NodeStep
<1>. QED  BY Zenon, <1>1, <1>3 DEF Next

\* The inductive invariant holds in every reachable state.
THEOREM Invariance == Spec => []IInv
  BY InitInv, NextInv, PTL DEF Spec

\* All variables keep their types.
THEOREM TypeCorrect == Spec => []TypeOK
<1>1. IInv => TypeOK
  BY Zenon DEF IInv
<1>. QED  BY <1>1, Invariance, PTL

\* A masternode never has shares of two messages of one id in circulation,
\* across restarts, re-signing and rotation, until CleanupOldVotes deletes its
\* vote: AsyncSignIfMember's vote check and the write of the vote ahead of the
\* share suffice.
THEOREM OneShareVote == Spec => []OneShareVotePerId
<1>1. IInv => OneShareVotePerId
  BY Zenon DEF IInv
<1>. QED  BY <1>1, Invariance, PTL

\* The vote behind a share is in the database until CleanupOldVotes deletes it.
THEOREM SharesAreBacked == Spec => []ShareIsBackedByStoredVote
<1>1. IInv => ShareIsBackedByStoredVote
  BY Zenon DEF IInv
<1>. QED  BY <1>1, Invariance, PTL

\* What a node stores was recovered from a threshold of members.
THEOREM StoredFromThreshold == Spec => []RecoveredFromThreshold
<1>1. IInv => RecoveredFromThreshold
  BY Zenon DEF IInv, StoredWasRecovered, RecoveredHasSigners, RecoveredFromThreshold
<1>. QED  BY <1>1, Invariance, PTL

\* A stored vote is only ever deleted, and only recsigsmaxage after it was
\* written.
THEOREM VotesAreFinal == Spec => VoteNeverChanges
<1>1. IInv /\ [Next]_vars =>
        [\A n \in Nodes, id \in Ids :
           votes[n][id] # NoMsg =>
             \/ votes'[n][id] = votes[n][id]
             \/ votes'[n][id] = NoMsg /\ id \in aged[n]]_vars
  <2>. SUFFICES ASSUME IInv, Next, NEW m \in Nodes, NEW i \in Ids, votes[m][i] # NoMsg
                PROVE  \/ votes'[m][i] = votes[m][i]
                       \/ votes'[m][i] = NoMsg /\ i \in aged[m]
    BY Zenon DEF vars, db
  <2>1. votes \in [Nodes -> [Ids -> Msgs \cup {NoMsg}]]
    BY Zenon DEF IInv, TypeOK
  <2>2. ASSUME NEW n \in Nodes, NEW id \in Ids, NEW msg \in Msgs, NEW r \in ReSign,
               AsyncSignIfMember(n, id, msg, r)
        PROVE  votes'[m][i] = votes[m][i]
    BY Zenon, <2>1, <2>2 DEF AsyncSignIfMember
  <2>3. ASSUME NEW n \in Nodes, CleanupOldVotes(n)
        PROVE  \/ votes'[m][i] = votes[m][i]
               \/ votes'[m][i] = NoMsg /\ i \in aged[m]
    BY Zenon, <2>1, <2>3 DEF CleanupOldVotes
  <2>4. \/ \E n \in Nodes, id \in Ids, msg \in Msgs, r \in ReSign :
              AsyncSignIfMember(n, id, msg, r)
        \/ \E n \in Nodes : CleanupOldVotes(n)
        \/ votes' = votes
    BY Zenon DEF Next, NodeStep, db, SelectQuorumForSigning, Sign, ProcessMessageBatchedSigShares,
       ProcessPendingSigShares, ProcessMessageRecoveredSig, ProcessPendingRecoveredSigs,
       PushReconstructedRecoveredSig, ProcessPendingReconstructedRecoveredSigs,
       RemoveSigSharesForSession, RemoveRecoveredSig, NewTip, Restart, Age
  <2>. QED  BY Zenon, <2>2, <2>3, <2>4
<1>. QED  BY <1>1, Invariance, PTL DEF Spec, VoteNeverChanges

\* Recovered signatures of one id whose signers share a masternode that
\* remembers its vote have the same message.
LEMMA Agreement ==
  ASSUME IInv
  PROVE  NoConflictingRecoveredSigs
<1>. SUFFICES ASSUME NEW r1 \in recSigNet, NEW r2 \in recSigNet, r1.id = r2.id,
                     Meet(r1.q, r2.q, r1.id)
              PROVE  r1.msg = r2.msg
  BY Zenon DEF NoConflictingRecoveredSigs
<1>. DEFINE S(r) == Signers(r, shareNet)
<1>2. S(r1) \in SUBSET Members[r1.q] /\ S(r2) \in SUBSET Members[r2.q]
  BY Zenon DEF IInv, MemberShares, Signers, SessionOf
<1>3. Cardinality(S(r1)) >= Threshold /\ Cardinality(S(r2)) >= Threshold
  BY Zenon DEF IInv, RecoveredHasSigners
<1>4. PICK m \in S(r1) \cap S(r2) : r1.id \notin forgotten[m]
  <2>. HIDE DEF S
  <2>. QED  BY Zenon, <1>2, <1>3 DEF Meet
<1>5. PICK s \in shareNet : s.member = m /\ s.id = r1.id /\ s.msg = r1.msg
  BY Zenon, <1>4 DEF Signers, SessionOf
<1>6. PICK t \in shareNet : t.member = m /\ t.id = r2.id /\ t.msg = r2.msg
  BY Zenon, <1>4 DEF Signers, SessionOf
<1>. QED  BY Zenon, <1>4, <1>5, <1>6 DEF IInv, OneShareVotePerId

\* Whatever quorums are selected for an id, recovered signatures of two messages
\* exist only where the signers have no masternode in common that remembers its
\* vote: the vote check of AsyncSignIfMember and the vote written ahead of the
\* share are enough for that, across restarts, timeouts and rotation.
THEOREM RecoveredSigsAgree == Spec => []NoConflictingRecoveredSigs
<1>1. IInv => NoConflictingRecoveredSigs
  BY Zenon, Agreement
<1>. QED  BY <1>1, Invariance, PTL

\* The members of a quorum that have deleted their vote on an id.
Forgetful(q, id) == {n \in Members[q] : id \in forgotten[n]}

\* Two recovering sets of one quorum have at least 2 * Threshold - size members
\* in common; when fewer have deleted their vote, one remembers it.
LEMMA MajorityMeets ==
  ASSUME NEW q \in Quorums, NEW id \in Ids,
         Cardinality(Forgetful(q, id)) < 2 * Threshold - Cardinality(Members[q])
  PROVE  Meet(q, q, id)
<1>. SUFFICES ASSUME NEW S \in SUBSET Members[q], NEW T \in SUBSET Members[q],
                     Cardinality(S) >= Threshold, Cardinality(T) >= Threshold,
                     \A n \in S \cap T : id \in forgotten[n]
              PROVE  FALSE
  BY Zenon DEF Meet
<1>1. IsFiniteSet(Members[q])
  BY Zenon, ConstantsAssumption, FS_Subset
<1>2. IsFiniteSet(S) /\ IsFiniteSet(T) /\ IsFiniteSet(S \cup T) /\ IsFiniteSet(S \cap T)
  BY Zenon, <1>1, FS_Subset
<1>3. Cardinality(S \cup T) = Cardinality(S) + Cardinality(T) - Cardinality(S \cap T)
  BY Zenon, <1>2, FS_Union
<1>4. Cardinality(S \cup T) <= Cardinality(Members[q])
  BY Zenon, <1>1, FS_Subset
<1>5. S \cap T \subseteq Forgetful(q, id) /\ IsFiniteSet(Forgetful(q, id))
  <2>1. S \cap T \subseteq Forgetful(q, id) /\ Forgetful(q, id) \subseteq Members[q]
    BY Zenon DEF Forgetful
  <2>. QED  BY Zenon, <1>1, <2>1, FS_Subset
<1>6. Cardinality(S \cap T) <= Cardinality(Forgetful(q, id))
  BY Zenon, <1>5, FS_Subset
<1>7. /\ Cardinality(S) \in Nat /\ Cardinality(T) \in Nat /\ Cardinality(S \cap T) \in Nat
      /\ Cardinality(Members[q]) \in Nat /\ Cardinality(Forgetful(q, id)) \in Nat
  BY Zenon, <1>1, <1>2, <1>5, FS_CardinalityType
<1>. QED  BY ONLY <1>3, <1>4, <1>6, <1>7, ConstantsAssumption,
             Cardinality(S) >= Threshold, Cardinality(T) >= Threshold,
             Cardinality(Forgetful(q, id)) < 2 * Threshold - Cardinality(Members[q])

\* A quorum has recovered signatures of one message per id while fewer than
\* 2 * Threshold - size of its members have deleted their vote.
QuorumDecidesOnce ==
  \A r1, r2 \in recSigNet :
    /\ r1.q = r2.q /\ r1.id = r2.id
    /\ Cardinality(Forgetful(r1.q, r1.id)) < 2 * Threshold - Cardinality(Members[r1.q])
    => r1.msg = r2.msg

\* With the parameters of chainparams.cpp (threshold 30 of 50, 240 of 400, 340
\* of 400) a quorum signs one message per id until 10, 80 or 280 of its members
\* have deleted their vote on the id.
THEOREM QuorumsDecideOnce == Spec => []QuorumDecidesOnce
<1>1. IInv => QuorumDecidesOnce
  <2>. SUFFICES ASSUME IInv, NEW r1 \in recSigNet, NEW r2 \in recSigNet,
                       r1.q = r2.q, r1.id = r2.id,
                       Cardinality(Forgetful(r1.q, r1.id))
                         < 2 * Threshold - Cardinality(Members[r1.q])
                PROVE  r1.msg = r2.msg
    BY Zenon DEF QuorumDecidesOnce
  <2>1. r1.q \in Quorums /\ r1.id \in Ids
    BY Zenon DEF IInv, TypeOK, RecSigs
  <2>2. Meet(r1.q, r2.q, r1.id)
    BY Zenon, <2>1, MajorityMeets
  <2>. QED  BY Zenon, <2>2, Agreement DEF NoConflictingRecoveredSigs
<1>. QED  BY <1>1, Invariance, PTL

\* In particular as long as no vote on the id has been deleted.
LEMMA RememberedAgree ==
  ASSUME IInv
  PROVE  \A r1, r2 \in recSigNet :
           /\ r1.q = r2.q /\ r1.id = r2.id
           /\ \A n \in Nodes : r1.id \notin forgotten[n]
           => r1.msg = r2.msg
<1>. SUFFICES ASSUME NEW r1 \in recSigNet, NEW r2 \in recSigNet, r1.q = r2.q, r1.id = r2.id,
                     \A n \in Nodes : r1.id \notin forgotten[n]
              PROVE  r1.msg = r2.msg
  BY Zenon
<1>1. r1.q \in Quorums /\ r1.id \in Ids
  BY Zenon DEF IInv, TypeOK, RecSigs
<1>2. Members[r1.q] \subseteq Nodes
  BY Zenon, <1>1, ConstantsAssumption
<1>3. Forgetful(r1.q, r1.id) = {}
  BY Zenon, <1>2 DEF Forgetful
<1>4. Cardinality(Forgetful(r1.q, r1.id)) = 0 /\ Cardinality(Members[r1.q]) \in Nat
  BY Zenon, <1>2, <1>3, ConstantsAssumption, FS_EmptySet, FS_Subset, FS_CardinalityType
<1>5. Cardinality(Forgetful(r1.q, r1.id)) < 2 * Threshold - Cardinality(Members[r1.q])
  BY <1>1, <1>4, ConstantsAssumption, MajorityAssumption
<1>6. Meet(r1.q, r2.q, r1.id)
  BY Zenon, <1>1, <1>5, MajorityMeets
<1>. QED  BY Zenon, <1>6, Agreement DEF NoConflictingRecoveredSigs

\* A step stores and announces one recovered signature of an id the node has
\* none for, removes one, deletes votes, or leaves all that alone.
LEMMA SignatureSteps ==
  ASSUME IInv, [Next]_vars
  PROVE  \/ UNCHANGED <<recSigs, recSigNet, forgotten>>
         \/ \E n \in Nodes, r \in RecSigs :
              /\ recSigs[n][r.id] = NoSig
              /\ recSigs' = [recSigs EXCEPT ![n][r.id] = r]
              /\ recSigNet' = recSigNet \cup {r}
              /\ forgotten' = forgotten
         \/ \E n \in Nodes, id \in Ids :
              /\ recSigs' = [recSigs EXCEPT ![n][id] = NoSig]
              /\ recSigNet' = recSigNet /\ forgotten' = forgotten
         \/ \E n \in Nodes :
              /\ forgotten' = [forgotten EXCEPT ![n] = @ \cup aged[n]]
              /\ recSigs' = recSigs /\ recSigNet' = recSigNet
<1>. DEFINE Stored == \E n \in Nodes, r \in RecSigs :
                        /\ recSigs[n][r.id] = NoSig
                        /\ recSigs' = [recSigs EXCEPT ![n][r.id] = r]
                        /\ recSigNet' = recSigNet \cup {r}
                        /\ forgotten' = forgotten
            Same == recSigs' = recSigs /\ recSigNet' = recSigNet /\ forgotten' = forgotten
<1>1. ASSUME NEW n \in Nodes, NEW r \in RecSigs, NEW held, NEW queue,
             ProcessRecoveredSig(n, r, held, queue), forgotten' = forgotten
      PROVE  Stored \/ Same
  BY ONLY Zenon, <1>1, r \in RecSigs, n \in Nodes DEF ProcessRecoveredSig
<1>. HIDE DEF Stored
<1>2. ASSUME NEW n \in Nodes, NEW s \in Shares, NEW queue, ProcessSigShare(n, s, queue),
             forgotten' = forgotten
      PROVE  Stored \/ Same
  <2>. DEFINE r == [q |-> s.q, id |-> s.id, msg |-> s.msg]
              held == sigShares[n] \cup {s}
  <2>1. r \in RecSigs
    BY Zenon DEF RecSigs, Shares
  <2>2. ProcessRecoveredSig(n, r, held, queue) \/ Same
    BY ONLY Zenon, <1>2 DEF ProcessSigShare
  <2>. HIDE DEF r, held
  <2>. QED  BY Zenon, <1>1, <1>2, <2>1, <2>2
<1>3. ASSUME NEW n \in Nodes, NEW p \in pendingSigns[n], Sign(n, p)
      PROVE  Stored \/ Same
  <2>. DEFINE s == [q |-> p.q, id |-> p.id, msg |-> p.msg, member |-> n]
  <2>1. p \in RecSigs
    BY Zenon DEF IInv, TypeOK
  <2>2. s \in Shares
    BY ONLY Zenon, <2>1, n \in Nodes DEF RecSigs, Shares
  <2>3. ProcessSigShare(n, s, incoming[n]) /\ forgotten' = forgotten
    BY ONLY Zenon, <1>3 DEF Sign, ages
  <2>. HIDE DEF s
  <2>. QED  BY Zenon, <1>2, <2>2, <2>3
<1>4. ASSUME NEW n \in Nodes, NEW s \in incoming[n], ProcessPendingSigShares(n, s)
      PROVE  Stored \/ Same
  <2>1. s \in Shares
    BY Zenon DEF IInv, TypeOK
  <2>2. ProcessSigShare(n, s, incoming[n] \ {s}) /\ forgotten' = forgotten
    BY ONLY Zenon, <1>4 DEF ProcessPendingSigShares, ages
  <2>. QED  BY Zenon, <1>2, <2>1, <2>2
<1>5. ASSUME NEW n \in Nodes, NEW r \in pendingRecSigs[n], ProcessPendingRecoveredSigs(n, r)
      PROVE  Stored \/ Same
  <2>1. r \in RecSigs
    BY Zenon DEF IInv, TypeOK
  <2>2. /\ ProcessRecoveredSig(n, r, sigShares[n], incoming[n]) \/ Same
        /\ forgotten' = forgotten
    BY ONLY Zenon, <1>5 DEF ProcessPendingRecoveredSigs, ages
  <2>. QED  BY Zenon, <1>1, <2>1, <2>2
<1>6. ASSUME NEW n \in Nodes, NEW r \in reconstructed[n],
             ProcessPendingReconstructedRecoveredSigs(n, r)
      PROVE  Stored \/ Same
  <2>1. r \in RecSigs
    BY Zenon DEF IInv, TypeOK
  <2>2. ProcessRecoveredSig(n, r, sigShares[n], incoming[n]) /\ forgotten' = forgotten
    BY ONLY Zenon, <1>6 DEF ProcessPendingReconstructedRecoveredSigs, ages
  <2>. QED  BY Zenon, <1>1, <2>1, <2>2
<1>. DEFINE Removed == \E n \in Nodes, id \in Ids :
                         /\ recSigs' = [recSigs EXCEPT ![n][id] = NoSig]
                         /\ recSigNet' = recSigNet /\ forgotten' = forgotten
            Deleted == \E n \in Nodes :
                         /\ forgotten' = [forgotten EXCEPT ![n] = @ \cup aged[n]]
                         /\ recSigs' = recSigs /\ recSigNet' = recSigNet
<1>7. ASSUME NEW n \in Nodes, NEW id \in Ids, RemoveRecoveredSig(n, id)
      PROVE  Removed
  BY ONLY Zenon, <1>7, n \in Nodes, id \in Ids DEF RemoveRecoveredSig, network, ages
<1>8. ASSUME NEW n \in Nodes, CleanupOldVotes(n)
      PROVE  Deleted
  BY ONLY Zenon, <1>8, n \in Nodes DEF CleanupOldVotes, network
<1>9. \/ \E n \in Nodes : \E p \in pendingSigns[n] : Sign(n, p)
      \/ \E n \in Nodes : \E s \in incoming[n] : ProcessPendingSigShares(n, s)
      \/ \E n \in Nodes : \E r \in pendingRecSigs[n] : ProcessPendingRecoveredSigs(n, r)
      \/ \E n \in Nodes : \E r \in reconstructed[n] :
           ProcessPendingReconstructedRecoveredSigs(n, r)
      \/ \E n \in Nodes, id \in Ids : RemoveRecoveredSig(n, id)
      \/ \E n \in Nodes : CleanupOldVotes(n)
      \/ Same
  <2>1. \A n \in Nodes : \A id, msg, a : AsyncSignIfMember(n, id, msg, a) => Same
    BY Zenon DEF AsyncSignIfMember, network, ages
  <2>2. \A n \in Nodes : \A x : SelectQuorumForSigning(n, x) \/ ProcessMessageBatchedSigShares(n, x)
                             \/ ProcessMessageRecoveredSig(n, x)
                             \/ PushReconstructedRecoveredSig(n, x) => Same
    BY DEF SelectQuorumForSigning, ProcessMessageBatchedSigShares, ProcessMessageRecoveredSig,
           PushReconstructedRecoveredSig, db, network, ages
  <2>3. \A n \in Nodes : \A x : RemoveSigSharesForSession(n, x) \/ Age(n, x) \/ NewTip(n)
                             \/ Restart(n) => Same
    BY Zenon DEF RemoveSigSharesForSession, Age, NewTip, Restart, db, network, ages
  <2>4. UNCHANGED vars => Same
    BY Zenon DEF vars, db, network, ages
  <2>. HIDE DEF Same
  <2>. QED  BY ONLY Zenon, [Next]_vars, <2>1, <2>2, <2>3, <2>4 DEF Next, NodeStep
<1>. HIDE DEF Removed, Deleted, Same
<1>10. Stored \/ Same \/ Removed \/ Deleted
  BY ONLY Zenon, <1>3, <1>4, <1>5, <1>6, <1>7, <1>8, <1>9
<1>. QED  BY ONLY Zenon, <1>10 DEF Stored, Removed, Deleted, Same

\* The signing protocol implements the service, in which every quorum decides an
\* id once until a vote on it is deleted: an id is decided when its first
\* signature is announced, and no later signature of the quorum decides anew.
THEOREM SigningImplementsService == Spec => ImplementsService
<1>. DEFINE D == [q \in Quorums |-> [id \in Ids |->
                    {r.msg : r \in {x \in recSigNet : x.q = q /\ x.id = id}}]]
            K == [n \in Nodes |-> [id \in Ids |->
                    IF recSigs[n][id] = NoSig THEN {} ELSE {recSigs[n][id].msg}]]
            L == {id \in Ids : \E n \in Nodes : id \in forgotten[n]}
            Agreed == \A r1, r2 \in recSigNet :
                        /\ r1.q = r2.q /\ r1.id = r2.id
                        /\ \A n \in Nodes : r1.id \notin forgotten[n]
                        => r1.msg = r2.msg
<1>0. (IInv => Agreed)'
  <2>1. IInv => Agreed
    BY Zenon, RememberedAgree
  <2>. QED  BY <2>1, PTL
<1>1. Init => Service!Init
  <2>. SUFFICES ASSUME Init PROVE Service!Init
    OBVIOUS
  <2>1. /\ recSigNet = {} /\ recSigs = [n \in Nodes |-> [i \in Ids |-> NoSig]]
        /\ forgotten = [n \in Nodes |-> {}]
    BY Zenon DEF Init
  <2>2. D = [q \in Quorums |-> [id \in Ids |-> {}]]
    <3>1. \A q \in Quorums, id \in Ids :
            {r.msg : r \in {x \in recSigNet : x.q = q /\ x.id = id}} = {}
      BY ONLY Zenon, <2>1
    <3>. QED  BY ONLY Zenon, <3>1
  <2>3. K = [n \in Nodes |-> [id \in Ids |-> {}]]
    <3>1. \A n \in Nodes, id \in Ids : recSigs[n][id] = NoSig
      BY ONLY Zenon, <2>1
    <3>. QED  BY ONLY Zenon, <3>1
  <2>4. L = {}
    BY ONLY Zenon, <2>1
  <2>. QED  BY ONLY Zenon, <2>2, <2>3, <2>4 DEF Service!Init
<1>2. ASSUME IInv, IInv', [Next]_vars
      PROVE  [Service!Next]_(Service!serviceVars)
  <2>1. /\ recSigs \in [Nodes -> [Ids -> RecSigs \cup {NoSig}]] /\ recSigNet \subseteq RecSigs
        /\ recSigs' \in [Nodes -> [Ids -> RecSigs \cup {NoSig}]] /\ recSigNet' \subseteq RecSigs
        /\ forgotten \in [Nodes -> SUBSET Ids] /\ aged \in [Nodes -> SUBSET Ids]
    BY Zenon, <1>2 DEF IInv, TypeOK
  <2>0. /\ \A n \in Nodes, id \in Ids : recSigs[n][id] # NoSig => recSigs[n][id].msg \in Msgs
        /\ \A n \in Nodes, id \in Ids : recSigs'[n][id] # NoSig => recSigs'[n][id].msg \in Msgs
    BY ONLY Zenon, <2>1 DEF RecSigs
  <2>2. Agreed'
    BY Zenon, <1>0, <1>2
  <2>3. CASE UNCHANGED <<recSigs, recSigNet, forgotten>>
    BY Zenon, <2>3 DEF Service!serviceVars
  <2>4. ASSUME NEW n \in Nodes, NEW r \in RecSigs, recSigs[n][r.id] = NoSig,
               recSigs' = [recSigs EXCEPT ![n][r.id] = r], recSigNet' = recSigNet \cup {r},
               forgotten' = forgotten
        PROVE  Service!Next
    <3>1. r.q \in Quorums /\ r.id \in Ids /\ r.msg \in Msgs /\ r # NoSig
      BY Zenon, ConstantsAssumption DEF RecSigs
    <3>2. K[n][r.id] = {}
      BY Zenon, <2>4, <3>1
    <3>3. D[r.q][r.id] \subseteq {r.msg} \/ r.id \in L
      <4>. SUFFICES ASSUME r.id \notin L PROVE D[r.q][r.id] \subseteq {r.msg}
        BY Zenon
      <4>1. \A x \in recSigNet : x.q = r.q /\ x.id = r.id => x.msg = r.msg
        BY Zenon, <2>2, <2>4, <3>1
      <4>. QED  BY ONLY Zenon, <3>1, <4>1
    <3>4. \A q \in Quorums, id \in Ids :
            D'[q][id] = IF q = r.q /\ id = r.id THEN D[r.q][r.id] \cup {r.msg} ELSE D[q][id]
      <4>1. ASSUME NEW q \in Quorums, NEW id \in Ids, q = r.q /\ id = r.id
            PROVE  D'[q][id] = D[r.q][r.id] \cup {r.msg}
        BY ONLY Zenon, <2>4, <4>1, q \in Quorums, id \in Ids
      <4>2. ASSUME NEW q \in Quorums, NEW id \in Ids, ~(q = r.q /\ id = r.id)
            PROVE  D'[q][id] = D[q][id]
        BY ONLY Zenon, <2>4, <4>2, q \in Quorums, id \in Ids
      <4>. HIDE DEF D
      <4>. QED  BY ONLY Zenon, <4>1, <4>2
    <3>5. D' = [D EXCEPT ![r.q][r.id] = @ \cup {r.msg}]
      <4>1. D' \in [Quorums -> [Ids -> SUBSET Msgs]] /\ D \in [Quorums -> [Ids -> SUBSET Msgs]]
        <5>1. /\ \A x \in recSigNet : x.msg \in Msgs
              /\ \A x \in recSigNet' : x.msg \in Msgs
          BY ONLY Zenon, <2>1 DEF RecSigs
        <5>. QED  BY ONLY Zenon, <5>1
      <4>. HIDE DEF D
      <4>2. D[r.q][r.id] \cup {r.msg} \in SUBSET Msgs
        BY ONLY Zenon, <3>1, <4>1
      <4>3. D' = [D EXCEPT ![r.q][r.id] = D[r.q][r.id] \cup {r.msg}]
        <5>1. PICK f, g, v : f = D /\ g = D' /\ v = D[r.q][r.id] \cup {r.msg}
          BY ONLY Zenon
        <5>2. /\ f \in [Quorums -> [Ids -> SUBSET Msgs]] /\ g \in [Quorums -> [Ids -> SUBSET Msgs]]
              /\ v \in SUBSET Msgs
              /\ \A q \in Quorums, id \in Ids :
                   g[q][id] = IF q = r.q /\ id = r.id THEN v ELSE f[q][id]
          BY ONLY Zenon, <3>4, <4>1, <4>2, <5>1
        <5>3. g = [f EXCEPT ![r.q][r.id] = v]
          <6>1. r.q \in Quorums /\ r.id \in Ids
            BY ONLY Zenon, <3>1
          <6>2. g[r.q] = [f[r.q] EXCEPT ![r.id] = v]
            BY ONLY <5>2, <6>1
          <6>3. \A q \in Quorums \ {r.q} : g[q] = f[q]
            BY ONLY <5>2, <6>1
          <6>. QED  BY ONLY <5>2, <6>1, <6>2, <6>3
        <5>. QED  BY ONLY Zenon, <5>1, <5>3
      <4>. QED  BY ONLY Zenon, <4>3
    <3>6. K' = [K EXCEPT ![n][r.id] = {r.msg}]
      <4>1. \A m \in Nodes, id \in Ids :
              recSigs'[m][id] = IF m = n /\ id = r.id THEN r ELSE recSigs[m][id]
        BY ONLY Zenon, <2>1, <2>4, <3>1
      <4>2. \A m \in Nodes, i \in Ids :
              K'[m][i] = IF m = n /\ i = r.id THEN {r.msg} ELSE K[m][i]
        <5>1. ASSUME NEW m \in Nodes, NEW i \in Ids, m = n /\ i = r.id
              PROVE  K'[m][i] = {r.msg}
          <6>1. recSigs'[m][i] = r
            BY ONLY Zenon, <4>1, <5>1
          <6>. QED  BY ONLY Zenon, <3>1, <6>1, m \in Nodes, i \in Ids
        <5>2. ASSUME NEW m \in Nodes, NEW i \in Ids, ~(m = n /\ i = r.id)
              PROVE  K'[m][i] = K[m][i]
          <6>1. recSigs'[m][i] = recSigs[m][i]
            BY ONLY Zenon, <4>1, <5>2
          <6>. QED  BY ONLY Zenon, <6>1, m \in Nodes, i \in Ids
        <5>. HIDE DEF K
        <5>. QED  BY ONLY Zenon, <5>1, <5>2
      <4>3. K' \in [Nodes -> [Ids -> SUBSET Msgs]] /\ K \in [Nodes -> [Ids -> SUBSET Msgs]]
        BY ONLY Zenon, <2>0
      <4>. HIDE DEF K
      <4>. QED  BY ONLY <3>1, <4>2, <4>3, n \in Nodes
    <3>7. Service!Learn(n, r.q, r.id, r.msg)
      <4>. HIDE DEF D, K, L
      <4>0. L' = L
        BY ONLY Zenon, <2>4 DEF L
      <4>1. /\ K[n][r.id] = {} /\ (D[r.q][r.id] \subseteq {r.msg} \/ r.id \in L)
            /\ D' = [D EXCEPT ![r.q][r.id] = @ \cup {r.msg}]
            /\ K' = [K EXCEPT ![n][r.id] = {r.msg}] /\ L' = L
        BY Zenon, <3>2, <3>3, <3>5, <3>6, <4>0
      <4>. USE DEF D, K, L
      <4>. QED  BY ONLY <4>1, Zenon DEF Service!Learn
    <3>. QED  BY Zenon, <3>1, <3>7 DEF Service!Next
  <2>5. ASSUME NEW n \in Nodes, NEW id \in Ids,
               recSigs' = [recSigs EXCEPT ![n][id] = NoSig], recSigNet' = recSigNet,
               forgotten' = forgotten
        PROVE  Service!Next
    <3>1. K' = [K EXCEPT ![n][id] = {}]
      <4>1. \A m \in Nodes, i \in Ids :
              recSigs'[m][i] = IF m = n /\ i = id THEN NoSig ELSE recSigs[m][i]
        BY ONLY Zenon, <2>1, <2>5
      <4>2. \A m \in Nodes, i \in Ids :
              K'[m][i] = IF m = n /\ i = id THEN {} ELSE K[m][i]
        BY ONLY Zenon, <4>1
      <4>3. K' \in [Nodes -> [Ids -> SUBSET Msgs]] /\ K \in [Nodes -> [Ids -> SUBSET Msgs]]
        BY ONLY Zenon, <2>0
      <4>. HIDE DEF K
      <4>. QED  BY ONLY <4>2, <4>3, n \in Nodes, id \in Ids
    <3>2. Service!Forget(n, id)
      BY Zenon, <2>5, <3>1 DEF Service!Forget
    <3>. QED  BY Zenon, <3>2 DEF Service!Next
  <2>6. ASSUME NEW n \in Nodes, forgotten' = [forgotten EXCEPT ![n] = @ \cup aged[n]],
               recSigs' = recSigs, recSigNet' = recSigNet
        PROVE  Service!Next
    <3>1. aged[n] \in SUBSET Ids
      BY Zenon, <2>1
    <3>2. L' = L \cup aged[n]
      <4>1. \A m \in Nodes : forgotten'[m] = IF m = n THEN forgotten[m] \cup aged[n] ELSE forgotten[m]
        BY ONLY Zenon, <2>1, <2>6
      <4>2. L' = {id \in Ids : \E m \in Nodes : id \in forgotten'[m]}
        BY ONLY Zenon
      <4>3. ASSUME NEW id \in Ids
            PROVE  (\E m \in Nodes : id \in forgotten'[m])
                     <=> (\E m \in Nodes : id \in forgotten[m]) \/ id \in aged[n]
        BY ONLY Zenon, <4>1, n \in Nodes
      <4>. QED  BY ONLY Zenon, <3>1, <4>2, <4>3
    <3>3. PICK old \in SUBSET Ids : old = aged[n]
      BY ONLY Zenon, <3>1
    <3>4. Service!Lose(old)
      BY Zenon, <2>6, <3>2, <3>3 DEF Service!Lose
    <3>. QED  BY Zenon, <3>4 DEF Service!Next
  <2>. QED  BY Zenon, <1>2, <2>3, <2>4, <2>5, <2>6, SignatureSteps
<1>. QED  BY <1>1, <1>2, Invariance, PTL DEF Spec, ImplementsService, Service!Spec

============================================================================
