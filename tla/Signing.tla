------------------------------ MODULE Signing ------------------------------
(***************************************************************************)
(* Threshold signing among the masternodes of a long-living quorum:        *)
(* CSigningManager (votes, recovered signatures, the persistent            *)
(* CRecoveredSigsDb) together with the part of CSigSharesManager that      *)
(* creates, collects and recovers signature shares.                        *)
(*                                                                         *)
(* One masternode has two kinds of state.  What is written through         *)
(* CRecoveredSigsDb (votes, recSigs) survives a restart of the process;    *)
(* everything else is memory and is lost.  The network is the set of all   *)
(* shares and recovered signatures that were ever pushed to peers: a       *)
(* message may arrive late, twice, out of order or never.                  *)
(***************************************************************************)
EXTENDS Integers, FiniteSets

CONSTANTS
  Nodes,        \* masternodes (proTxHash)
  Quorums,      \* quorum hashes of one LLMQ type
  Members,      \* Members[q]: the valid members of quorum q
  Threshold,    \* llmqParams.threshold: shares needed to recover
  Ids,          \* request ids
  Msgs,         \* message hashes
  Tips,         \* heights of the active chain of a node, 0..n
  Active,       \* Active[h]: quorums that IsQuorumActive accepts at tip h
  Select,       \* Select[h][id]: SelectQuorumForSigning at tip h
  IslockNodes,  \* bound: the nodes that ISLOCK messages reach
  ReSign,       \* values of the allowReSign argument callers use
  MaxFaults,    \* bound: restarts, sessions dropped by CSigSharesManager::Cleanup,
                \* recovered signatures removed and votes that age, together
  NoMsg, NoQuorum, NoSig

Shares  == [q : Quorums, id : Ids, msg : Msgs, member : Nodes]
RecSigs == [q : Quorums, id : Ids, msg : Msgs]

ASSUME ConstantsAssumption ==
  /\ IsFiniteSet(Nodes)
  /\ Threshold \in Nat
  /\ MaxFaults \in Nat
  /\ Tips \subseteq Nat
  /\ 0 \in Tips
  /\ ReSign \subseteq BOOLEAN
  /\ NoMsg \notin Msgs /\ NoQuorum \notin Quorums /\ NoSig \notin RecSigs
  /\ Members \in [Quorums -> SUBSET Nodes]
  /\ Active \in [Tips -> SUBSET Quorums]
  /\ Select \in [Tips -> [Ids -> Quorums \cup {NoQuorum}]]

\* The parameters of chainparams.cpp: 30 of 50, 240 of 400, 340 of 400.
ASSUME MajorityAssumption ==
  \A q \in Quorums : 2 * Threshold > Cardinality(Members[q])

VARIABLES
  tip,            \* chainActive.Height() of a node
  votes,          \* db rs_v: the message a node voted for, by id
  recSigs,        \* db rs_r: the recovered signature a node stores, by id
  signing,        \* AsyncSignIfMember calls between the vote and the quorum selection
  pendingSigns,   \* CSigSharesManager::pendingSigns
  incoming,       \* pendingIncomingSigShares of all peers of a node
  sigShares,      \* verified shares a node holds
  pendingRecSigs, \* pendingRecoveredSigs of all peers of a node
  reconstructed,  \* pendingReconstructedRecoveredSigs
  shareNet,       \* every share ever pushed to a peer
  recSigNet,      \* every recovered signature ever announced to a peer
  aged,           \* ids whose vote at a node was written recsigsmaxage ago
  forgotten,      \* history: ids whose vote a node has deleted
  faults          \* how many of what MaxFaults bounds have happened

db      == <<votes, recSigs>>
memory  == <<signing, pendingSigns, incoming, sigShares, pendingRecSigs, reconstructed>>
network == <<shareNet, recSigNet>>
ages    == <<aged, forgotten>>
vars    == <<tip, db, memory, network, ages, faults>>

Init ==
  /\ tip = [n \in Nodes |-> 0]
  /\ votes = [n \in Nodes |-> [i \in Ids |-> NoMsg]]
  /\ recSigs = [n \in Nodes |-> [i \in Ids |-> NoSig]]
  /\ signing = [n \in Nodes |-> {}]
  /\ pendingSigns = [n \in Nodes |-> {}]
  /\ incoming = [n \in Nodes |-> {}]
  /\ sigShares = [n \in Nodes |-> {}]
  /\ pendingRecSigs = [n \in Nodes |-> {}]
  /\ reconstructed = [n \in Nodes |-> {}]
  /\ shareNet = {} /\ recSigNet = {}
  /\ aged = [n \in Nodes |-> {}]
  /\ forgotten = [n \in Nodes |-> {}]
  /\ faults = 0

(***************************************************************************)
(* Requests.  AsyncSignIfMember runs in the caller's thread: the scheduler *)
(* (ChainLocks) or a message/validation thread (InstantSend).  The vote is *)
(* written under CSigningManager::cs; the quorum is selected afterwards,   *)
(* from whatever the tip is by then.  A call that returns early changes    *)
(* nothing and is a stuttering step.                                       *)
(***************************************************************************)
\* Mutant: the stored vote is not compared with the new message.
AsyncSignIfMember_NoVoteCheck(n, id, msg, allowReSign) ==
  /\ recSigs[n][id] = NoSig
  /\ votes' = [votes EXCEPT ![n][id] = msg]
  /\ signing' = [signing EXCEPT ![n] = @ \cup {[id |-> id, msg |-> msg]}]
  /\ UNCHANGED <<tip, recSigs, pendingSigns, incoming, sigShares,
                 pendingRecSigs, reconstructed, network, ages, faults>>

\* Mutant: WriteVoteForId is forgotten.
AsyncSignIfMember_NoVoteWritten(n, id, msg, allowReSign) ==
  /\ votes[n][id] # NoMsg => votes[n][id] = msg /\ allowReSign
  /\ recSigs[n][id] = NoSig
  /\ signing' = [signing EXCEPT ![n] = @ \cup {[id |-> id, msg |-> msg]}]
  /\ UNCHANGED <<tip, db, pendingSigns, incoming, sigShares,
                 pendingRecSigs, reconstructed, network, ages, faults>>

AsyncSignIfMember(n, id, msg, allowReSign) ==
  /\ votes[n][id] # NoMsg => votes[n][id] = msg /\ allowReSign
  /\ recSigs[n][id] = NoSig
  /\ votes' = [votes EXCEPT ![n][id] = msg]
  /\ signing' = [signing EXCEPT ![n] = @ \cup {[id |-> id, msg |-> msg]}]
  /\ UNCHANGED <<tip, recSigs, pendingSigns, incoming, sigShares,
                 pendingRecSigs, reconstructed, network, ages, faults>>

\* The rest of AsyncSignIfMember: the call is dropped, its vote kept, when
\* there is no quorum at this height or the node is no member of it.
SelectQuorumForSigning(n, req) ==
  /\ req \in signing[n]
  /\ signing' = [signing EXCEPT ![n] = @ \ {req}]
  /\ LET q == Select[tip[n]][req.id] IN
       IF q # NoQuorum /\ n \in Members[q]
         THEN pendingSigns' = [pendingSigns EXCEPT ![n] =
                @ \cup {[q |-> q, id |-> req.id, msg |-> req.msg]}]
         ELSE UNCHANGED pendingSigns
  /\ UNCHANGED <<tip, db, incoming, sigShares, pendingRecSigs, reconstructed,
                 network, ages, faults>>

(***************************************************************************)
(* The "sigshares" worker thread.  It is the only thread that adds shares  *)
(* and writes recovered signatures.                                        *)
(***************************************************************************)
SessionOf(r, shares) ==
  {s \in shares : s.q = r.q /\ s.id = r.id /\ s.msg = r.msg}

\* The keys of a session in SigShareMap: CountForSignHash counts members.
Signers(r, shares) == {s.member : s \in SessionOf(r, shares)}

\* Mutant: the signature is stored and the session dropped, but not announced.
ProcessRecoveredSig_NotAnnounced(n, r, held, queue) ==
  /\ recSigs' = [recSigs EXCEPT ![n][r.id] = IF @ = NoSig THEN r ELSE @]
  /\ sigShares' = [sigShares EXCEPT ![n] = held \ SessionOf(r, held)]
  /\ incoming' = [incoming EXCEPT ![n] = queue \ SessionOf(r, queue)]
  /\ UNCHANGED recSigNet

\* ProcessRecoveredSig for a verified r at node n, which then holds the
\* shares held and the unprocessed shares queue: store it unless the id has
\* one, announce it, and let CSigSharesManager::HandleNewRecoveredSig drop
\* the session.
ProcessRecoveredSig(n, r, held, queue) ==
  IF recSigs[n][r.id] # NoSig
    THEN /\ sigShares' = [sigShares EXCEPT ![n] = held]
         /\ incoming' = [incoming EXCEPT ![n] = queue]
         /\ UNCHANGED <<recSigs, recSigNet>>
    ELSE /\ recSigs' = [recSigs EXCEPT ![n][r.id] = r]
         /\ recSigNet' = recSigNet \cup {r}
         /\ sigShares' = [sigShares EXCEPT ![n] = held \ SessionOf(r, held)]
         /\ incoming' = [incoming EXCEPT ![n] = queue \ SessionOf(r, queue)]

\* Mutant: one share too few is enough.
ProcessSigShare_OffByOne(n, s, queue) ==
  LET r    == [q |-> s.q, id |-> s.id, msg |-> s.msg]
      held == sigShares[n] \cup {s}
      add  == recSigs[n][s.id] = NoSig /\ s \notin sigShares[n]
  IN  /\ shareNet' = IF add THEN shareNet \cup {s} ELSE shareNet
      /\ IF add /\ Cardinality(Signers(r, held)) + 1 >= Threshold
           THEN ProcessRecoveredSig(n, r, held, queue)
           ELSE /\ sigShares' = [sigShares EXCEPT ![n] = IF add THEN held ELSE @]
                /\ incoming' = [incoming EXCEPT ![n] = queue]
                /\ UNCHANGED <<recSigs, recSigNet>>

\* ProcessSigShare followed by TryRecoverSig, which counts the shares of
\* the session of s against the threshold.
ProcessSigShare(n, s, queue) ==
  LET r    == [q |-> s.q, id |-> s.id, msg |-> s.msg]
      held == sigShares[n] \cup {s}
      add  == recSigs[n][s.id] = NoSig /\ s \notin sigShares[n]
  IN  /\ shareNet' = IF add THEN shareNet \cup {s} ELSE shareNet
      /\ IF add /\ Cardinality(Signers(r, held)) >= Threshold
           THEN ProcessRecoveredSig(n, r, held, queue)
           ELSE /\ sigShares' = [sigShares EXCEPT ![n] = IF add THEN held ELSE @]
                /\ incoming' = [incoming EXCEPT ![n] = queue]
                /\ UNCHANGED <<recSigs, recSigNet>>

\* SignPendingSigShares: sign with the node's key share and process the
\* result like any other share.
Sign(n, p) ==
  /\ p \in pendingSigns[n]
  /\ pendingSigns' = [pendingSigns EXCEPT ![n] = @ \ {p}]
  /\ ProcessSigShare(n, [q |-> p.q, id |-> p.id, msg |-> p.msg, member |-> n],
                     incoming[n])
  /\ UNCHANGED <<tip, votes, signing, pendingRecSigs, reconstructed, ages, faults>>

\* A QBSIGSHARES message with share s reaches member n.
ProcessMessageBatchedSigShares(n, s) ==
  /\ s \in shareNet \ (sigShares[n] \cup incoming[n])
  /\ s.q \in Active[tip[n]] /\ n \in Members[s.q]
  /\ recSigs[n][s.id] = NoSig
  /\ incoming' = [incoming EXCEPT ![n] = @ \cup {s}]
  /\ UNCHANGED <<tip, db, signing, pendingSigns, sigShares, pendingRecSigs,
                 reconstructed, network, ages, faults>>

\* The worker takes a verified share from the queue.
ProcessPendingSigShares(n, s) ==
  /\ s \in incoming[n]
  /\ ProcessSigShare(n, s, incoming[n] \ {s})
  /\ UNCHANGED <<tip, votes, signing, pendingSigns, pendingRecSigs,
                 reconstructed, ages, faults>>

\* CSigSharesManager::Cleanup drops a session that saw no share for
\* SESSION_NEW_SHARES_TIMEOUT seconds or whose quorum became inactive.
RemoveSigSharesForSession(n, r) ==
  /\ faults < MaxFaults
  /\ SessionOf(r, sigShares[n]) # {}
  /\ faults' = faults + 1
  /\ sigShares' = [sigShares EXCEPT ![n] = @ \ SessionOf(r, @)]
  /\ incoming' = [incoming EXCEPT ![n] = @ \ SessionOf(r, @)]
  /\ UNCHANGED <<tip, db, signing, pendingSigns, pendingRecSigs,
                 reconstructed, network, ages>>

\* A QSIGREC message is queued; its quorum must be active by then.
ProcessMessageRecoveredSig(n, r) ==
  /\ r \in recSigNet \ pendingRecSigs[n]
  /\ r.q \in Active[tip[n]]
  /\ recSigs[n][r.id] # r
  /\ pendingRecSigs' = [pendingRecSigs EXCEPT ![n] = @ \cup {r}]
  /\ UNCHANGED <<tip, db, signing, pendingSigns, incoming, sigShares,
                 reconstructed, network, ages, faults>>

\* The worker takes it from the queue, unless its quorum aged out meanwhile.
ProcessPendingRecoveredSigs(n, r) ==
  /\ r \in pendingRecSigs[n]
  /\ pendingRecSigs' = [pendingRecSigs EXCEPT ![n] = @ \ {r}]
  /\ IF r.q \in Active[tip[n]]
       THEN ProcessRecoveredSig(n, r, sigShares[n], incoming[n])
       ELSE UNCHANGED <<recSigs, incoming, sigShares, recSigNet>>
  /\ UNCHANGED <<tip, votes, signing, pendingSigns, reconstructed, shareNet,
                 ages, faults>>

\* InstantSend verified an ISLOCK against an active quorum and passes the
\* recovered signature in it on.
PushReconstructedRecoveredSig(n, r) ==
  /\ n \in IslockNodes
  /\ r \in recSigNet \ reconstructed[n]
  /\ r.q \in Active[tip[n]]
  /\ recSigs[n][r.id] = NoSig
  /\ reconstructed' = [reconstructed EXCEPT ![n] = @ \cup {r}]
  /\ UNCHANGED <<tip, db, signing, pendingSigns, incoming, sigShares,
                 pendingRecSigs, network, ages, faults>>

\* The worker takes it from its queue whatever became of the quorum.
ProcessPendingReconstructedRecoveredSigs(n, r) ==
  /\ r \in reconstructed[n]
  /\ reconstructed' = [reconstructed EXCEPT ![n] = @ \ {r}]
  /\ ProcessRecoveredSig(n, r, sigShares[n], incoming[n])
  /\ UNCHANGED <<tip, votes, signing, pendingSigns, pendingRecSigs, shareNet,
                 ages, faults>>

\* RemoveRecoveredSig (InstantSend, once a transaction is confirmed) and
\* CleanupOldRecoveredSigs.  The vote on the id stays.
RemoveRecoveredSig(n, id) ==
  /\ faults < MaxFaults
  /\ recSigs[n][id] # NoSig
  /\ faults' = faults + 1
  /\ recSigs' = [recSigs EXCEPT ![n][id] = NoSig]
  /\ UNCHANGED <<tip, votes, memory, network, ages>>

\* Mutant: every vote is forgotten, whatever its age.
CleanupOldVotes_AnyAge(n) ==
  /\ \E id \in Ids : votes[n][id] # NoMsg
  /\ votes' = [votes EXCEPT ![n] = [id \in Ids |-> NoMsg]]
  /\ aged' = [aged EXCEPT ![n] = {}]
  /\ forgotten' = [forgotten EXCEPT ![n] = @ \cup {id \in Ids : votes[n][id] # NoMsg}]
  /\ UNCHANGED <<tip, recSigs, memory, network, faults>>

\* CleanupOldVotes forgets the votes that were written recsigsmaxage ago.  The
\* node may then be asked to sign for the id again.
CleanupOldVotes(n) ==
  /\ aged[n] # {}
  /\ votes' = [votes EXCEPT ![n] =
       [id \in Ids |-> IF id \in aged[n] THEN NoMsg ELSE @[id]]]
  /\ aged' = [aged EXCEPT ![n] = {}]
  /\ forgotten' = [forgotten EXCEPT ![n] = @ \cup aged[n]]
  /\ UNCHANGED <<tip, recSigs, memory, network, faults>>

(***************************************************************************)
(* Environment.                                                            *)
(***************************************************************************)
NewTip(n) ==
  /\ tip[n] + 1 \in Tips
  /\ tip' = [tip EXCEPT ![n] = @ + 1]
  /\ UNCHANGED <<db, memory, network, ages, faults>>

\* recsigsmaxage (a week) passes after the vote was written: its time key is
\* that of the first request, re-signing does not renew it.
Age(n, id) ==
  /\ votes[n][id] # NoMsg
  /\ id \notin aged[n]
  /\ faults < MaxFaults
  /\ faults' = faults + 1
  /\ aged' = [aged EXCEPT ![n] = @ \cup {id}]
  /\ UNCHANGED <<tip, db, memory, network, forgotten>>

\* The process stops at any point and starts again from its database.
Restart(n) ==
  /\ faults < MaxFaults
  /\ faults' = faults + 1
  /\ signing' = [signing EXCEPT ![n] = {}]
  /\ pendingSigns' = [pendingSigns EXCEPT ![n] = {}]
  /\ incoming' = [incoming EXCEPT ![n] = {}]
  /\ sigShares' = [sigShares EXCEPT ![n] = {}]
  /\ pendingRecSigs' = [pendingRecSigs EXCEPT ![n] = {}]
  /\ reconstructed' = [reconstructed EXCEPT ![n] = {}]
  /\ UNCHANGED <<tip, db, network, ages>>

NodeStep(n) ==
  \/ \E id \in Ids, msg \in Msgs, r \in ReSign : AsyncSignIfMember(n, id, msg, r)
  \/ \E req \in signing[n] : SelectQuorumForSigning(n, req)
  \/ \E p \in pendingSigns[n] : Sign(n, p)
  \/ \E s \in shareNet : ProcessMessageBatchedSigShares(n, s)
  \/ \E s \in incoming[n] : ProcessPendingSigShares(n, s)
  \/ \E r \in recSigNet : ProcessMessageRecoveredSig(n, r)
  \/ \E r \in pendingRecSigs[n] : ProcessPendingRecoveredSigs(n, r)
  \/ \E r \in recSigNet : PushReconstructedRecoveredSig(n, r)
  \/ \E r \in reconstructed[n] : ProcessPendingReconstructedRecoveredSigs(n, r)
  \/ \E r \in RecSigs : RemoveSigSharesForSession(n, r)
  \/ \E id \in Ids : RemoveRecoveredSig(n, id)
  \/ CleanupOldVotes(n)
  \/ \E id \in Ids : Age(n, id)
  \/ NewTip(n)
  \/ Restart(n)

Next == \E n \in Nodes : NodeStep(n)

Spec == Init /\ [][Next]_vars

\* The worker thread loops for ever, callers' threads finish their call and
\* what a peer keeps holding is eventually announced, requested and sent.
Fairness ==
  \A n \in Nodes :
    /\ \A req \in [id : Ids, msg : Msgs] :
         WF_vars(SelectQuorumForSigning(n, req))
    /\ \A p \in RecSigs : WF_vars(Sign(n, p))
    /\ \A s \in Shares : WF_vars((\E m \in Nodes : s \in sigShares[m])
                                 /\ ProcessMessageBatchedSigShares(n, s))
    /\ \A s \in Shares : WF_vars(ProcessPendingSigShares(n, s))
    /\ \A r \in RecSigs : WF_vars((\E m \in Nodes : recSigs[m][r.id] = r)
                                  /\ ProcessMessageRecoveredSig(n, r))
    /\ \A r \in RecSigs : WF_vars(ProcessPendingRecoveredSigs(n, r))
    /\ \A r \in RecSigs : WF_vars(ProcessPendingReconstructedRecoveredSigs(n, r))

FairSpec == Spec /\ Fairness

-----------------------------------------------------------------------------
(* Correctness. *)

\* Any set of members of q and any of p that can recover a signature share a
\* masternode that has not forgotten its vote on id.
Meet(q, p, id) ==
  \A S \in SUBSET Members[q], T \in SUBSET Members[p] :
    Cardinality(S) >= Threshold /\ Cardinality(T) >= Threshold
      => \E n \in S \cap T : id \notin forgotten[n]

\* Types of all variables.
TypeOK ==
  /\ tip \in [Nodes -> Tips]
  /\ votes \in [Nodes -> [Ids -> Msgs \cup {NoMsg}]]
  /\ recSigs \in [Nodes -> [Ids -> RecSigs \cup {NoSig}]]
  /\ signing \in [Nodes -> SUBSET [id : Ids, msg : Msgs]]
  /\ pendingSigns \in [Nodes -> SUBSET RecSigs]
  /\ incoming \in [Nodes -> SUBSET Shares]
  /\ sigShares \in [Nodes -> SUBSET Shares]
  /\ pendingRecSigs \in [Nodes -> SUBSET RecSigs]
  /\ shareNet \subseteq Shares
  /\ recSigNet \subseteq RecSigs
  /\ reconstructed \in [Nodes -> SUBSET RecSigs]
  /\ aged \in [Nodes -> SUBSET Ids]
  /\ forgotten \in [Nodes -> SUBSET Ids]
  /\ faults \in 0..MaxFaults

\* Two recovered signatures of one id for different messages exist only when
\* their quorums can be recovered from sets of members of which no common one
\* remembers its vote: what is true of the comments at ProcessRecoveredSig ("a
\* majority is only possible on one quorum and one msgHash per id") and at
\* AsyncSignIfMember, and what ChainLocks and InstantSend build on.
NoConflictingRecoveredSigs ==
  \A r1, r2 \in recSigNet :
    r1.id = r2.id /\ r1.msg # r2.msg => ~Meet(r1.q, r2.q, r1.id)

\* A masternode never has shares of two messages of one id in circulation,
\* whatever its restarts, re-signing and changes of the selected quorum, unless
\* CleanupOldVotes has deleted its vote on the id.
OneShareVotePerId ==
  \A s, t \in shareNet :
    s.member = t.member /\ s.id = t.id /\ s.id \notin forgotten[s.member]
      => s.msg = t.msg

\* A share never leaves the node before the vote that justifies it is in the
\* database, so that a restart cannot forget it; only CleanupOldVotes does.
ShareIsBackedByStoredVote ==
  \A s \in shareNet :
    s.id \notin forgotten[s.member] => votes[s.member][s.id] = s.msg

\* A stored vote is never replaced by a vote for another message, and it is
\* forgotten only recsigsmaxage after it was written.
VoteNeverChanges ==
  [][\A n \in Nodes, id \in Ids :
       votes[n][id] # NoMsg =>
         \/ votes'[n][id] = votes[n][id]
         \/ votes'[n][id] = NoMsg /\ id \in aged[n]]_vars

\* Whatever recovered signature a node stores was produced from shares of a
\* threshold of members of its quorum.
RecoveredFromThreshold ==
  \A n \in Nodes, id \in Ids :
    recSigs[n][id] # NoSig =>
      Cardinality(Signers(recSigs[n][id], shareNet)) >= Threshold

\* Once a threshold of the members of the selected quorum voted for one
\* message, every node eventually stores a recovered signature, unless a node
\* restarts, a session times out, the signature is removed or the vote deleted: neither the
\* order of shares, nor the drop of a session at recovery, nor a recovered
\* signature that overtakes the shares leaves a node without it.
ThresholdVoteIsRecovered ==
  \A id \in Ids, msg \in Msgs, q \in Quorums :
    (Cardinality({n \in Members[q] : votes[n][id] = msg}) >= Threshold)
      ~> \/ \A n \in Nodes : recSigs[n][id] # NoSig
         \/ faults > 0

\* The refinement mapping: what was ever announced is decided, what a node
\* stores is what it knows, an id is lost once a node has forgotten its vote.
Service == INSTANCE SigningService WITH
  decided <- [q \in Quorums |-> [id \in Ids |->
                {r.msg : r \in {x \in recSigNet : x.q = q /\ x.id = id}}]],
  known   <- [n \in Nodes |-> [id \in Ids |->
                IF recSigs[n][id] = NoSig THEN {} ELSE {recSigs[n][id].msg}]],
  lost    <- {id \in Ids : \E n \in Nodes : id \in forgotten[n]}

\* Whatever order shares, signatures, timeouts, removals and restarts come in,
\* what the callers of HasRecoveredSigForId and GetRecoveredSigById see of the
\* nodes together is the service in which each quorum decides an id once and
\* for all.
ImplementsService == Service!Spec
============================================================================
