--------------------------- MODULE SigningService --------------------------
(***************************************************************************)
(* What CSigningManager promises ChainLocks and InstantSend: a quorum      *)
(* decides at most one message per id, for good, as long as no node has    *)
(* deleted its vote on the id, and a node that has a recovered signature   *)
(* has one for a decided message.  A node may forget a signature and learn *)
(* it again.                                                               *)
(***************************************************************************)
CONSTANTS Nodes, Quorums, Ids, Msgs

VARIABLES
  decided,   \* decided[q][id]: the messages with a recovered signature of quorum q
  known,     \* known[n][id]: what HasRecoveredSigForId and GetRecoveredSigById tell n
  lost       \* ids on which a vote was deleted for its age

serviceVars == <<decided, known, lost>>

Init ==
  /\ decided = [q \in Quorums |-> [id \in Ids |-> {}]]
  /\ known = [n \in Nodes |-> [id \in Ids |-> {}]]
  /\ lost = {}

\* A signature of q is recovered at n, or reaches n from the node that recovered it.
Learn(n, q, id, msg) ==
  /\ known[n][id] = {}
  /\ decided[q][id] \subseteq {msg} \/ id \in lost
  /\ decided' = [decided EXCEPT ![q][id] = @ \cup {msg}]
  /\ known' = [known EXCEPT ![n][id] = {msg}]
  /\ UNCHANGED lost

\* RemoveRecoveredSig and CleanupOldRecoveredSigs.
Forget(n, id) ==
  /\ known' = [known EXCEPT ![n][id] = {}]
  /\ UNCHANGED <<decided, lost>>

\* CleanupOldVotes.
Lose(old) ==
  /\ lost' = lost \cup old
  /\ UNCHANGED <<decided, known>>

Next ==
  \/ \E n \in Nodes, q \in Quorums, id \in Ids, msg \in Msgs : Learn(n, q, id, msg)
  \/ \E n \in Nodes, id \in Ids : Forget(n, id)
  \/ \E old \in SUBSET Ids : Lose(old)

Spec == Init /\ [][Next]_serviceVars
============================================================================
