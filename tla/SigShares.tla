----------------------------- MODULE SigShares -----------------------------
(***************************************************************************)
(* The exchange of signature shares between the members of a quorum:       *)
(* announcements, requests and batches of CSigSharesManager, for one       *)
(* signing session (one signHash).  The share of a member is named by the  *)
(* member.  Connections are ordered and reliable until they break.         *)
(***************************************************************************)
EXTENDS Integers, FiniteSets, Sequences

CONSTANTS
  Nodes,           \* the masternodes of the quorum
  Topologies,      \* which pairs may be connected, see CLLMQUtils::GetQuorumConnections
  SignersIn,       \* SignersIn[t]: those that are asked to sign in topology t
  Threshold,       \* shares needed to recover the signature
  MaxRequests,     \* maxRequestsForNode
  NoSession, NoRequest,
  MaxFaults        \* MaxFaults[t]: connections and sessions lost in topology t

\* CSigSharesNodeState::Session.  A session id 0 stands for -1, "none".
SessionType ==
  [send : Nat, recv : Nat,
   announced : SUBSET Nodes, requested : SUBSET Nodes, knows : SUBSET Nodes]

\* An entry of sigSharesRequested, and whether it has timed out.
RequestType == [peer : Nodes, late : BOOLEAN]

ASSUME SharesAssumption ==
  /\ IsFiniteSet(Nodes)
  /\ NoSession \notin SessionType /\ NoRequest \notin RequestType \cup Nodes
  /\ \A L \in Topologies : \A l \in L : \E n, p \in Nodes : n # p /\ l = {n, p}
  /\ SignersIn \in [Topologies -> SUBSET Nodes]
  /\ Threshold \in Nat \ {0} /\ MaxRequests \in Nat \ {0}
  /\ MaxFaults \in [Topologies -> Nat]

VARIABLES
  node,        \* node[n]: what cs of n's CSigSharesManager guards, see NodeType
  channel,     \* channel[n][p]: messages from n on their way to p
  links,       \* pairs of connected nodes
  lost,        \* pairs that lost their connection
  faults,
  asked        \* the signers asked since something was last lost

vars == <<node, channel, links, lost, faults, asked>>

NodeType ==
  [sigShares  : SUBSET Nodes,
   toAnnounce : SUBSET Nodes,                                \* sigSharesToAnnounce
   sessions   : [Nodes -> SessionType \cup {NoSession}],     \* of nodeStates
   waiting    : [Nodes -> SUBSET Nodes],                     \* requestedSigShares
   from       : [Nodes -> RequestType \cup {NoRequest}],      \* sigSharesRequested
   incoming   : [Nodes -> SUBSET Nodes],                     \* pendingIncomingSigShares
   pending    : BOOLEAN,                                     \* in pendingSigns
   voted      : BOOLEAN,                                     \* HasVotedForId
   recovered  : BOOLEAN]                                     \* HasRecoveredSigForSession

MessageType ==
  [kind : {"ann", "inv", "get", "shares"}, id : Nat \ {0}, shares : SUBSET Nodes]

NewSession == [send |-> 0, recv |-> 0, announced |-> {}, requested |-> {}, knows |-> {}]

Init ==
  /\ node = [n \in Nodes |->
       [sigShares |-> {}, toAnnounce |-> {}, sessions |-> [p \in Nodes |-> NoSession],
        waiting |-> [p \in Nodes |-> {}], from |-> [m \in Nodes |-> NoRequest],
        incoming |-> [p \in Nodes |-> {}],
        pending |-> FALSE, voted |-> FALSE, recovered |-> FALSE]]
  /\ channel = [n \in Nodes |-> [p \in Nodes |-> <<>>]]
  /\ links \in Topologies /\ lost = {}
  /\ faults = 0 /\ asked = {}

Topology == links \cup lost
Signers == SignersIn[Topology]

\* GetMasternodeQuorumNodes.
Peers(n) == {p \in Nodes \ {n} : {n, p} \in links}

-----------------------------------------------------------------------------
(* Operations on the state of one node. *)

GetOrCreateSession(x) == IF x = NoSession THEN NewSession ELSE x

\* RemoveSigSharesForSession.
RemoveSession(s) ==
  [s EXCEPT !.sigShares = {}, !.toAnnounce = {},
            !.sessions = [p \in Nodes |-> NoSession],
            !.waiting = [p \in Nodes |-> {}], !.from = [m \in Nodes |-> NoRequest],
            !.incoming = [p \in Nodes |-> {}]]

\* The own share is pushed to all peers as if they had requested it.
PushToPeers(n, s) ==
  [p \in Nodes |->
     IF p \in Peers(n) THEN [GetOrCreateSession(s.sessions[p]) EXCEPT !.requested = @ \cup {n},
                                                                      !.knows = @ \cup {n}]
                       ELSE s.sessions[p]]

\* Mutant: only the own share is announced.
AddSigShare_OwnOnly(n, s, m) ==
  [s EXCEPT !.sigShares = @ \cup {m}, !.toAnnounce = IF m = n THEN @ \cup {m} ELSE @,
            !.sessions = IF m = n THEN PushToPeers(n, s) ELSE @]

AddSigShare(n, s, m) ==
  [s EXCEPT !.sigShares = @ \cup {m}, !.toAnnounce = @ \cup {m},
            !.sessions = IF m = n THEN PushToPeers(n, s) ELSE @]

\* ProcessSigShare of m's share at n.  TryRecoverSig ends in
\* ProcessRecoveredSig, whose listener removes the session.
ProcessSigShare(n, s, m) ==
  IF s.recovered \/ m \in s.sigShares THEN s
  ELSE IF Cardinality(s.sigShares \cup {m}) < Threshold THEN AddSigShare(n, s, m)
  ELSE [RemoveSession(s) EXCEPT !.recovered = TRUE]

ForceReAnnouncement(s) ==
  [s EXCEPT !.toAnnounce = @ \cup s.sigShares,
            !.sessions = [p \in Nodes |->
               IF @[p] = NoSession THEN NoSession
                                   ELSE [@[p] EXCEPT !.knows = {}, !.send = 0]]]

\* Mutant: the timeout of the previous request is not awaited.
Requestable_NoWait(s, m) ==
  {p \in Nodes :
     /\ ~s.recovered /\ m \notin s.sigShares
     /\ s.sessions[p] # NoSession /\ m \in s.sessions[p].announced
     /\ s.from[m] = NoRequest \/ s.from[m].peer # p}

\* CollectSigSharesToRequest: share m is requested from req[m].  The nodes are
\* visited in random order, so any that announced the share may be the one; it
\* goes unrequested only if all of them have too many requests pending.
Requestable(s, m) ==
  {p \in Nodes :
     /\ ~s.recovered /\ m \notin s.sigShares
     /\ s.sessions[p] # NoSession /\ m \in s.sessions[p].announced
     /\ s.from[m] = NoRequest \/ (s.from[m].late /\ s.from[m].peer # p)}

RequestsOf(p, req) == {m \in DOMAIN req : req[m] = p}

Requests(s) ==
  {req \in [{m \in Nodes : Requestable(s, m) # {}} -> Nodes \cup {NoRequest}] :
     /\ \A m \in DOMAIN req :
          \/ req[m] \in Requestable(s, m)
          \/ /\ req[m] = NoRequest
             /\ \A p \in Requestable(s, m) :
                  Cardinality(s.waiting[p] \cup RequestsOf(p, req)) >= MaxRequests
     /\ \A p \in Nodes : RequestsOf(p, req) # {} =>
          Cardinality(s.waiting[p] \cup RequestsOf(p, req)) <= MaxRequests}

\* CollectSigSharesToSend and CollectSigSharesToAnnounce, for the peer p.
ToSend(s, p) ==
  IF s.recovered \/ s.sessions[p] = NoSession THEN {}
  ELSE s.sessions[p].requested \cap s.sigShares

ToAnnounce(n, s, p) ==
  IF p \in Peers(n)
    THEN (s.toAnnounce \cap s.sigShares) \ GetOrCreateSession(s.sessions[p]).knows
    ELSE {}

\* nextSendSessionId++.  Ids are compared only for equality, so an id that
\* nobody remembers is as good as a new one.
NextSessionId(n, p) ==
  LET known == {channel[n][p][i].id : i \in 1..Len(channel[n][p])}
                 \cup {GetOrCreateSession(node[p].sessions[n]).recv}
  IN  CHOOSE i \in 1..(Cardinality(known) + 1) : i \notin known

\* A message about the shares S, if there are any.
About(kind, id, S) ==
  IF S = {} THEN <<>> ELSE <<[kind |-> kind, id |-> id, shares |-> S]>>

\* The messages SendMessages has for p, in the order it pushes them.
Outgoing(n, s, p, req) ==
  LET old  == GetOrCreateSession(s.sessions[p]).send
      id   == IF old = 0 THEN NextSessionId(n, p) ELSE old
      body == About("get", id, RequestsOf(p, req)) \o About("shares", id, ToSend(s, p))
                \o About("inv", id, ToAnnounce(n, s, p))
  IN  IF body # <<>> /\ old = 0
        THEN <<[kind |-> "ann", id |-> id, shares |-> {}]>> \o body ELSE body

\* What SendMessages leaves of the session with p.
AfterSend(n, s, p, req) ==
  LET x   == GetOrCreateSession(s.sessions[p])
      out == Outgoing(n, s, p, req)
  IN  IF s.sessions[p] = NoSession
           /\ ~(p \in Peers(n) /\ s.toAnnounce \cap s.sigShares # {})
        THEN NoSession
        ELSE [x EXCEPT
                !.send = IF out = <<>> THEN @ ELSE out[1].id,
                !.announced = IF s.recovered THEN @
                              ELSE @ \ (s.sigShares \cup RequestsOf(p, req)),
                !.requested = IF s.recovered THEN @ ELSE {},
                !.knows = @ \cup ToAnnounce(n, s, p)]

-----------------------------------------------------------------------------
(* The actions. *)

\* One pass of SendMessages that finds something to do.
SendMessages(n) ==
  LET s == node[n] IN
  /\ \/ s.toAnnounce # {}
     \/ \E p \in Nodes :
          s.sessions[p] # NoSession
            /\ (s.sessions[p].announced \cup s.sessions[p].requested # {})
  /\ \E req \in Requests(s) :
    /\ node' = [node EXCEPT ![n] =
         [s EXCEPT !.sessions = [p \in Nodes |-> AfterSend(n, s, p, req)],
                   !.toAnnounce = {},
                   !.waiting = [p \in Nodes |-> @[p] \cup RequestsOf(p, req)],
                   !.from = [m \in Nodes |->
                      IF m \in DOMAIN req /\ req[m] # NoRequest
                        THEN [peer |-> req[m], late |-> FALSE] ELSE @[m]]]]
    /\ channel' = [channel EXCEPT ![n] = [p \in Nodes |->
         IF p \in Peers(n) THEN @[p] \o Outgoing(n, s, p, req) ELSE @[p]]]
    /\ <<node', channel'>> # <<node, channel>>
    /\ UNCHANGED <<links, lost, faults, asked>>

\* What n does with a message of p.  Messages of a session id that n does not
\* know are ignored.
Handle(s, p, msg) ==
  LET x == GetOrCreateSession(s.sessions[p])
      known == s.sessions[p] # NoSession /\ x.recv = msg.id
  IN  CASE msg.kind = "ann" ->
             [s EXCEPT !.sessions[p] = [x EXCEPT !.recv = msg.id]]
        [] msg.kind = "inv" /\ known /\ ~s.recovered ->
             [s EXCEPT !.sessions[p] = [x EXCEPT !.announced = @ \cup msg.shares,
                                                 !.knows = @ \cup msg.shares]]
        [] msg.kind = "get" /\ known /\ ~s.recovered ->
             [s EXCEPT !.sessions[p] = [x EXCEPT !.requested = @ \cup msg.shares,
                                                 !.knows = @ \cup msg.shares]]
        [] msg.kind = "shares" /\ known ->
             [s EXCEPT !.waiting[p] = @ \ msg.shares,
                       !.incoming[p] = IF s.recovered THEN @
                                       ELSE @ \cup (msg.shares \ s.sigShares)]
        [] OTHER -> s

Receive(n, p) ==
  /\ channel[p][n] # <<>>
  /\ node' = [node EXCEPT ![n] = Handle(@, p, Head(channel[p][n]))]
  /\ channel' = [channel EXCEPT ![p][n] = Tail(@)]
  /\ UNCHANGED <<links, lost, faults, asked>>

\* ProcessPendingSigShares, one share at a time.
ProcessPending(n, p, m) ==
  LET s == node[n] IN
  /\ m \in s.incoming[p]
  /\ node' = [node EXCEPT ![n] = ProcessSigShare(n, [s EXCEPT !.incoming[p] = @ \ {m}], m)]
  /\ UNCHANGED <<channel, links, lost, faults, asked>>

\* AsyncSignIfMember and AsyncSign; a node that voted signs only again.  Bound:
\* a caller asks once, and once more after something was lost.
AsyncSignIfMember(n, allowReSign) ==
  /\ n \in Signers /\ ~node[n].recovered /\ ~node[n].pending
  /\ node[n].voted => allowReSign
  /\ n \notin asked
  /\ node' = [node EXCEPT ![n] =
       [(IF allowReSign THEN ForceReAnnouncement(@) ELSE @)
          EXCEPT !.voted = TRUE, !.pending = TRUE]]
  /\ asked' = asked \cup {n}
  /\ UNCHANGED <<channel, links, lost, faults>>

\* SignPendingSigShares.
Sign(n) ==
  /\ node[n].pending
  /\ node' = [node EXCEPT ![n] = ProcessSigShare(n, [@ EXCEPT !.pending = FALSE], n)]
  /\ UNCHANGED <<channel, links, lost, faults, asked>>

\* SIG_SHARE_REQUEST_TIMEOUT passes for a request.
RequestTimeout(n, m) ==
  LET r == node[n].from[m] IN
  /\ r # NoRequest /\ ~r.late
  /\ node' = [node EXCEPT ![n].from[m].late = TRUE, ![n].waiting[r.peer] = @ \ {m}]
  /\ UNCHANGED <<channel, links, lost, faults, asked>>

\* Cleanup: SESSION_NEW_SHARES_TIMEOUT passes without a new share.
SessionTimeout(n) ==
  /\ faults < MaxFaults[Topology]
  /\ node[n].sigShares # {}
  /\ node' = [node EXCEPT ![n] = RemoveSession(@)]
  /\ faults' = faults + 1 /\ asked' = {}
  /\ UNCHANGED <<channel, links, lost>>

\* A recovered signature relayed by a peer (CSigningManager) ends the session.
ReceiveRecoveredSig(n) ==
  /\ ~node[n].recovered
  /\ \E p \in Peers(n) : node[p].recovered
  /\ node' = [node EXCEPT ![n] = [RemoveSession(@) EXCEPT !.recovered = TRUE]]
  /\ UNCHANGED <<channel, links, lost, faults, asked>>

Disconnect(n, p) ==
  /\ faults < MaxFaults[Topology]
  /\ {n, p} \in links
  /\ links' = links \ {{n, p}} /\ lost' = lost \cup {{n, p}}
  /\ channel' = [channel EXCEPT ![n][p] = <<>>, ![p][n] = <<>>]
  /\ faults' = faults + 1 /\ asked' = {}
  /\ UNCHANGED node

ForgottenNode(s, p) == s.sessions[p] = NoSession /\ s.waiting[p] = {} /\ s.incoming[p] = {}

\* Cleanup: the node state of a peer that is gone; what was requested from it
\* may be requested from others at once.
CleanupNode(n, p) ==
  LET s == node[n] IN
  /\ p \notin Peers(n) /\ ~ForgottenNode(s, p)
  /\ node' = [node EXCEPT ![n] =
       [s EXCEPT !.sessions[p] = NoSession, !.waiting[p] = {}, !.incoming[p] = {},
                 !.from = [m \in Nodes |-> IF m \in s.waiting[p] THEN NoRequest ELSE @[m]]]]
  /\ UNCHANGED <<channel, links, lost, faults, asked>>

\* A new connection has a new NodeId, hence a node state of its own.
Reconnect(n, p) ==
  /\ {n, p} \in lost
  /\ ForgottenNode(node[n], p) /\ ForgottenNode(node[p], n)
  /\ links' = links \cup {{n, p}} /\ lost' = lost \ {{n, p}} /\ asked' = {}
  /\ UNCHANGED <<node, channel, faults>>

\* The worker thread (WorkThreadMain), apart from SendMessages.
Work(n) ==
  \/ Sign(n)
  \/ \E p \in Nodes : CleanupNode(n, p) \/ \E m \in Nodes : ProcessPending(n, p, m)
  \/ \E m \in Nodes : RequestTimeout(n, m)

ReceiveAny(n) == ReceiveRecoveredSig(n) \/ \E p \in Nodes : Receive(n, p)

Next ==
  \E n \in Nodes :
    \/ \E allowReSign \in BOOLEAN : AsyncSignIfMember(n, allowReSign)
    \/ Work(n)
    \/ SendMessages(n)
    \/ ReceiveAny(n)
    \/ SessionTimeout(n)
    \/ \E p \in Nodes : Disconnect(n, p) \/ Reconnect(n, p)

Spec == Init /\ [][Next]_vars

\* The worker and the message handler of a node loop for ever, and connections
\* are made again.
FairSpec ==
  /\ Spec
  /\ \A n \in Nodes : WF_vars(Work(n)) /\ WF_vars(SendMessages(n)) /\ WF_vars(ReceiveAny(n))
  /\ WF_vars(\E n, p \in Nodes : Reconnect(n, p))

-----------------------------------------------------------------------------
(* Correctness. *)

\* Types of all variables.  No message carries the id of "no session": every
\* inventory, request or batch was preceded by an announcement.
TypeOK ==
  /\ node \in [Nodes -> NodeType]
  /\ channel \in [Nodes -> [Nodes -> Seq(MessageType)]]
  /\ Topology \in Topologies
  /\ faults \in 0..MaxFaults[Topology]
  /\ asked \subseteq Signers

\* "don't request it from other nodes until a timeout happens": a request that
\* is being waited for is the one sigSharesRequested tells of, so that a share
\* is never awaited from two peers, whatever timeouts, lost connections and
\* removed sessions did to the two maps.
OneRequestAtATime ==
  \A n, p, m \in Nodes :
    m \in node[n].waiting[p] =>
      node[n].from[m] = [peer |-> p, late |-> FALSE]

Served(n) == node[n].recovered \/ Signers \subseteq node[n].sigShares

\* Once all signers were asked, every member gets all shares or the recovered
\* signature, over relays, with requests that time out and peers that dropped
\* the session.  After a connection or a session was lost it is enough that
\* every signer is asked once more, as the recovered signature spreads from
\* the first member that has enough shares.
SharesReachEveryone ==
  (asked = Signers) ~> ((\A n \in UNION Topology : Served(n)) \/ asked # Signers)
============================================================================
