-------------------------- MODULE SigSharesProofs --------------------------
(***************************************************************************)
(* The exchange of signature shares for every quorum, topology, threshold  *)
(* and request limit: session ids are announced before they are used, and  *)
(* a share is awaited from one peer at a time.                             *)
(***************************************************************************)
EXTENDS SigShares, FiniteSetTheorems, TLAPS

\* OneRequestAtATime, of one node.
Awaited(s) ==
  \A p, m \in Nodes : m \in s.waiting[p] => s.from[m] = [peer |-> p, late |-> FALSE]

\* No more requests are pending at a peer than maxRequestsForNode.
Limited(s) == \A p \in Nodes : Cardinality(s.waiting[p]) <= MaxRequests

Good(s) == s \in NodeType /\ Awaited(s) /\ Limited(s)

-----------------------------------------------------------------------------
(* The operations on the state of one node.                                *)

LEMMA SessionFacts ==
  ASSUME NEW x \in SessionType \cup {NoSession}
  PROVE  GetOrCreateSession(x) \in SessionType
BY Zenon DEF GetOrCreateSession, NewSession, SessionType

LEMMA SessionUpdates ==
  ASSUME NEW x \in SessionType, NEW S \in SUBSET Nodes
  PROVE  /\ [x EXCEPT !.requested = @ \cup S, !.knows = @ \cup S] \in SessionType
         /\ [x EXCEPT !.announced = @ \cup S, !.knows = @ \cup S] \in SessionType
         /\ [x EXCEPT !.knows = {}, !.send = 0] \in SessionType
         /\ \A id \in Nat : [x EXCEPT !.recv = id] \in SessionType
BY Zenon DEF SessionType

\* What is not touched stays good.
LEMMA GoodSame ==
  ASSUME NEW s, Good(s), NEW t \in NodeType, t.waiting = s.waiting, t.from = s.from
  PROVE  Good(t)
BY Zenon DEF Good, Awaited, Limited

LEMMA GoodEmpty ==
  ASSUME NEW t \in NodeType, t.waiting = [p \in Nodes |-> {}]
  PROVE  Good(t)
<1>1. \A p \in Nodes : t.waiting[p] = {}  OBVIOUS
<1>2. Cardinality({}) = 0 /\ MaxRequests \in Nat  BY Zenon, FS_EmptySet, SharesAssumption
<1>. QED  BY <1>1, <1>2 DEF Good, Awaited, Limited

LEMMA RemoveSessionGood ==
  ASSUME NEW s \in NodeType
  PROVE  RemoveSession(s) \in NodeType /\ Good(RemoveSession(s))
         /\ Good([RemoveSession(s) EXCEPT !.recovered = TRUE])
<1>. DEFINE t == RemoveSession(s)
            u == [t EXCEPT !.recovered = TRUE]
<1>1. t \in NodeType /\ t.waiting = [p \in Nodes |-> {}]
  BY Zenon DEF RemoveSession, NodeType
<1>. HIDE DEF t
<1>2. u \in NodeType /\ u.waiting = t.waiting  BY Zenon, <1>1 DEF NodeType
<1>. HIDE DEF u
<1>. QED  BY Zenon, <1>1, <1>2, GoodEmpty DEF t, u

LEMMA ProcessSigShareGood ==
  ASSUME NEW n \in Nodes, NEW s, Good(s), NEW m \in Nodes
  PROVE  Good(ProcessSigShare(n, s, m))
<1>. DEFINE sessions == IF m = n THEN PushToPeers(n, s) ELSE s.sessions
            t == [s EXCEPT !.sigShares = @ \cup {m}, !.toAnnounce = @ \cup {m},
                           !.sessions = sessions]
<1>0. s \in NodeType  BY Zenon DEF Good
<1>1. PushToPeers(n, s) \in [Nodes -> SessionType \cup {NoSession}]
  <2>. SUFFICES ASSUME NEW p \in Nodes
                PROVE  PushToPeers(n, s)[p] \in SessionType \cup {NoSession}
    BY Zenon DEF PushToPeers
  <2>1. s.sessions[p] \in SessionType \cup {NoSession}  BY Zenon, <1>0 DEF NodeType
  <2>2. [GetOrCreateSession(s.sessions[p]) EXCEPT !.requested = @ \cup {n},
                                                  !.knows = @ \cup {n}] \in SessionType
    BY Zenon, <2>1, SessionFacts, SessionUpdates, {n} \in SUBSET Nodes
  <2>. QED  BY Zenon, <2>1, <2>2 DEF PushToPeers
<1>2. sessions \in [Nodes -> SessionType \cup {NoSession}]
  BY Zenon, <1>0, <1>1 DEF NodeType
<1>3. AddSigShare(n, s, m) = t  BY Zenon DEF AddSigShare
<1>. HIDE DEF sessions
<1>4. t \in NodeType /\ t.waiting = s.waiting /\ t.from = s.from
  BY Zenon, <1>0, <1>2 DEF NodeType
<1>. HIDE DEF t
<1>5. Good(AddSigShare(n, s, m))  BY Zenon, <1>3, <1>4, GoodSame
<1>. QED  BY Zenon, <1>0, <1>5, RemoveSessionGood DEF ProcessSigShare

LEMMA ForceReAnnouncementGood ==
  ASSUME NEW s, Good(s)
  PROVE  Good(ForceReAnnouncement(s))
<1>. DEFINE sessions == [p \in Nodes |->
               IF s.sessions[p] = NoSession THEN NoSession
                                   ELSE [s.sessions[p] EXCEPT !.knows = {}, !.send = 0]]
            t == [s EXCEPT !.toAnnounce = @ \cup s.sigShares, !.sessions = sessions]
<1>0. s \in NodeType  BY Zenon DEF Good
<1>1. ForceReAnnouncement(s) = t  BY Zenon DEF ForceReAnnouncement
<1>2. sessions \in [Nodes -> SessionType \cup {NoSession}]
  <2>. SUFFICES ASSUME NEW p \in Nodes PROVE sessions[p] \in SessionType \cup {NoSession}
    OBVIOUS
  <2>1. s.sessions[p] \in SessionType \cup {NoSession}  BY Zenon, <1>0 DEF NodeType
  <2>. QED  BY Zenon, <2>1, SessionUpdates
<1>. HIDE DEF sessions
<1>3. t \in NodeType /\ t.waiting = s.waiting /\ t.from = s.from
  BY Zenon, <1>0, <1>2 DEF NodeType
<1>. QED  BY Zenon, <1>1, <1>3, GoodSame

\* Fewer requests are awaited, and the entries of the others are kept.
LEMMA GoodShrunk ==
  ASSUME NEW s, Good(s), NEW t \in NodeType,
         \A p \in Nodes : t.waiting[p] \subseteq s.waiting[p],
         \A p, m \in Nodes : m \in t.waiting[p] => t.from[m] = s.from[m]
  PROVE  Good(t)
<1>1. Awaited(t)  BY Zenon DEF Good, Awaited
<1>2. ASSUME NEW p \in Nodes PROVE Cardinality(t.waiting[p]) <= MaxRequests
  <2>1. s.waiting[p] \subseteq Nodes  BY Zenon DEF Good, NodeType
  <2>2. IsFiniteSet(s.waiting[p])  BY Zenon, <2>1, FS_Subset, SharesAssumption
  <2>3. /\ IsFiniteSet(t.waiting[p])
        /\ Cardinality(t.waiting[p]) <= Cardinality(s.waiting[p])
    BY Zenon, <2>2, FS_Subset
  <2>4. /\ Cardinality(t.waiting[p]) \in Nat /\ Cardinality(s.waiting[p]) \in Nat
        /\ Cardinality(s.waiting[p]) <= MaxRequests /\ MaxRequests \in Nat
    BY Zenon, <2>2, <2>3, FS_CardinalityType, SharesAssumption DEF Good, Limited
  <2>. QED  BY <2>3, <2>4
<1>. QED  BY Zenon, <1>1, <1>2 DEF Good, Limited

LEMMA SetSessionGood ==
  ASSUME NEW s, Good(s), NEW p \in Nodes, NEW y \in SessionType
  PROVE  Good([s EXCEPT !.sessions[p] = y])
<1>. DEFINE t == [s EXCEPT !.sessions[p] = y]
<1>1. s \in NodeType  BY Zenon DEF Good
<1>2. t \in NodeType /\ t.waiting = s.waiting /\ t.from = s.from
  BY Zenon, <1>1 DEF NodeType
<1>. HIDE DEF t
<1>3. Good(t)  BY Zenon, <1>2, GoodSame
<1>. QED  BY Zenon, <1>3 DEF t

LEMMA HandleGood ==
  ASSUME NEW s, Good(s), NEW p \in Nodes, NEW msg \in MessageType
  PROVE  Good(Handle(s, p, msg))
<1>. DEFINE x == GetOrCreateSession(s.sessions[p])
            known == s.sessions[p] # NoSession /\ x.recv = msg.id
            rest == IF s.recovered THEN s.incoming[p]
                    ELSE s.incoming[p] \cup (msg.shares \ s.sigShares)
            ann == [s EXCEPT !.sessions[p] = [x EXCEPT !.recv = msg.id]]
            inv == [s EXCEPT !.sessions[p] = [x EXCEPT !.announced = @ \cup msg.shares,
                                                       !.knows = @ \cup msg.shares]]
            get == [s EXCEPT !.sessions[p] = [x EXCEPT !.requested = @ \cup msg.shares,
                                                       !.knows = @ \cup msg.shares]]
            batch == [s EXCEPT !.waiting[p] = @ \ msg.shares, !.incoming[p] = rest]
<1>0. s \in NodeType  BY Zenon DEF Good
<1>1. x \in SessionType /\ msg.shares \in SUBSET Nodes /\ msg.id \in Nat
  <2>1. s.sessions[p] \in SessionType \cup {NoSession}  BY Zenon, <1>0 DEF NodeType
  <2>. QED  BY Zenon, <2>1, SessionFacts DEF MessageType
<1>2. Handle(s, p, msg) =
        CASE msg.kind = "ann" -> ann
          [] msg.kind = "inv" /\ known /\ ~s.recovered -> inv
          [] msg.kind = "get" /\ known /\ ~s.recovered -> get
          [] msg.kind = "shares" /\ known -> batch
          [] OTHER -> s
  BY Zenon DEF Handle
<1>3. Good(batch)
  <2>1. rest \in SUBSET Nodes  BY Zenon, <1>0, <1>1 DEF NodeType
  <2>. HIDE DEF rest
  <2>2. /\ batch \in NodeType /\ batch.from = s.from
        /\ batch.waiting = [s.waiting EXCEPT ![p] = @ \ msg.shares]
    BY Zenon, <1>0, <1>1, <2>1 DEF NodeType
  <2>3. s.waiting \in [Nodes -> SUBSET Nodes]  BY Zenon, <1>0 DEF NodeType
  <2>. HIDE DEF batch
  <2>. QED  BY Zenon, <2>2, <2>3, GoodShrunk
<1>4. Good(ann) /\ Good(inv) /\ Good(get)
  <2>. HIDE DEF x
  <2>. QED  BY Zenon, <1>1, SetSessionGood, SessionUpdates
<1>. HIDE DEF known, ann, inv, get, batch
<1>. QED  BY Zenon, <1>2, <1>3, <1>4

LEMMA RequestTimeoutGood ==
  ASSUME NEW s, Good(s), NEW m \in Nodes, NEW r, r = s.from[m], r # NoRequest
  PROVE  Good([s EXCEPT !.from[m].late = TRUE, !.waiting[r.peer] = @ \ {m}])
<1>. DEFINE from == [s.from EXCEPT ![m] = [r EXCEPT !.late = TRUE]]
            waiting == [s.waiting EXCEPT ![r.peer] = @ \ {m}]
            t == [s EXCEPT !.from[m].late = TRUE, !.waiting[r.peer] = @ \ {m}]
<1>0. s \in NodeType /\ s.from \in [Nodes -> RequestType \cup {NoRequest}]
      /\ s.waiting \in [Nodes -> SUBSET Nodes]
  BY Zenon DEF Good, NodeType
<1>1. r \in RequestType /\ r.peer \in Nodes  BY Zenon, <1>0 DEF RequestType
<1>2. [r EXCEPT !.late = TRUE] \in RequestType  BY Zenon, <1>1 DEF RequestType
<1>3. from \in [Nodes -> RequestType \cup {NoRequest}] /\ waiting \in [Nodes -> SUBSET Nodes]
  BY Zenon, <1>0, <1>1, <1>2
<1>4. t = [s EXCEPT !.from = from, !.waiting = waiting]
  BY Zenon, <1>0 DEF NodeType
<1>5. \A p \in Nodes : waiting[p] \subseteq s.waiting[p] /\ (m \in waiting[p] => p # r.peer)
  BY Zenon, <1>0, <1>1
<1>6. \A p, q \in Nodes : q \in waiting[p] => from[q] = s.from[q]
  <2>. SUFFICES ASSUME NEW p \in Nodes, m \in waiting[p] PROVE FALSE
    BY Zenon, <1>0
  <2>1. s.from[m] = [peer |-> p, late |-> FALSE]  BY Zenon, <1>5 DEF Good, Awaited
  <2>. QED  BY <1>5, <2>1
<1>. HIDE DEF from, waiting
<1>7. t \in NodeType /\ t.from = from /\ t.waiting = waiting
  BY Zenon, <1>0, <1>3, <1>4 DEF NodeType
<1>. HIDE DEF t
<1>8. Good(t)  BY Zenon, <1>5, <1>6, <1>7, GoodShrunk
<1>. QED  BY Zenon, <1>8 DEF t

LEMMA CleanupNodeGood ==
  ASSUME NEW s, Good(s), NEW p \in Nodes
  PROVE  Good([s EXCEPT !.sessions[p] = NoSession, !.waiting[p] = {}, !.incoming[p] = {},
                 !.from = [m \in Nodes |-> IF m \in s.waiting[p] THEN NoRequest ELSE @[m]]])
<1>. DEFINE from == [m \in Nodes |-> IF m \in s.waiting[p] THEN NoRequest ELSE s.from[m]]
            waiting == [s.waiting EXCEPT ![p] = {}]
            t == [s EXCEPT !.sessions[p] = NoSession, !.waiting[p] = {}, !.incoming[p] = {},
                    !.from = [m \in Nodes |-> IF m \in s.waiting[p] THEN NoRequest ELSE @[m]]]
<1>0. s \in NodeType /\ s.from \in [Nodes -> RequestType \cup {NoRequest}]
      /\ s.waiting \in [Nodes -> SUBSET Nodes]
  BY Zenon DEF Good, NodeType
<1>1. from \in [Nodes -> RequestType \cup {NoRequest}] /\ waiting \in [Nodes -> SUBSET Nodes]
  BY Zenon, <1>0
<1>2. t = [s EXCEPT !.sessions[p] = NoSession, !.waiting = waiting, !.incoming[p] = {},
                    !.from = from]
  BY Zenon, <1>0 DEF NodeType
<1>3. \A q \in Nodes : waiting[q] \subseteq s.waiting[q] /\ waiting[p] = {}
  BY Zenon, <1>0
<1>4. \A q, m \in Nodes : m \in waiting[q] => from[m] = s.from[m]
  <2>. SUFFICES ASSUME NEW q \in Nodes, NEW m \in Nodes, m \in waiting[q], m \in s.waiting[p]
                PROVE  FALSE
    OBVIOUS
  <2>1. q # p /\ m \in s.waiting[q]  BY Zenon, <1>3
  <2>2. [peer |-> p, late |-> FALSE] = [peer |-> q, late |-> FALSE]
    BY Zenon, <2>1 DEF Good, Awaited
  <2>. QED  BY Zenon, <2>1, <2>2
<1>. HIDE DEF from, waiting
<1>5. t \in NodeType /\ t.from = from /\ t.waiting = waiting
  BY Zenon, <1>0, <1>1, <1>2 DEF NodeType
<1>. HIDE DEF t
<1>6. Good(t)  BY Zenon, <1>3, <1>4, <1>5, GoodShrunk
<1>. QED  BY Zenon, <1>6 DEF t

-----------------------------------------------------------------------------
(* SendMessages.                                                           *)

\* There is an id that the receiver does not remember.
LEMMA NextSessionIdFact ==
  ASSUME channel \in [Nodes -> [Nodes -> Seq(MessageType)]], NEW n \in Nodes, NEW p \in Nodes
  PROVE  NextSessionId(n, p) \in Nat \ {0}
<1>. DEFINE q == channel[n][p]
            ids == {q[i].id : i \in 1..Len(q)}
            known == ids \cup {GetOrCreateSession(node[p].sessions[n]).recv}
<1>1. q \in Seq(MessageType) /\ Len(q) \in Nat  OBVIOUS
<1>2. IsFiniteSet(1..Len(q))  BY <1>1, FS_Interval
<1>3. IsFiniteSet(ids)
  <2>. DEFINE f == [i \in 1..Len(q) |-> q[i].id]
  <2>. HIDE DEF q
  <2>1. f \in Surjection(1..Len(q), ids)  BY Zenon DEF Surjection
  <2>. QED  BY <1>2, <2>1, FS_Surjection
<1>. HIDE DEF ids
<1>4. IsFiniteSet(known) /\ Cardinality(known) \in Nat
  BY Zenon, <1>3, FS_AddElement, FS_CardinalityType
<1>5. NextSessionId(n, p) = CHOOSE i \in 1..(Cardinality(known) + 1) : i \notin known
  BY Zenon DEF NextSessionId, ids
<1>. HIDE DEF known
<1>6. \E i \in 1..(Cardinality(known) + 1) : i \notin known
  <2>. SUFFICES ASSUME 1..(Cardinality(known) + 1) \subseteq known PROVE FALSE
    OBVIOUS
  <2>1. Cardinality(1..(Cardinality(known) + 1)) = Cardinality(known) + 1
    BY <1>4, FS_Interval
  <2>2. Cardinality(1..(Cardinality(known) + 1)) <= Cardinality(known)
    BY Zenon, <1>4, FS_Subset
  <2>. QED  BY <1>4, <2>1, <2>2
<1>7. NextSessionId(n, p) \in 1..(Cardinality(known) + 1)  BY Zenon, <1>5, <1>6
<1>. QED  BY <1>4, <1>7

LEMMA AboutFact ==
  ASSUME NEW kind \in {"get", "shares", "inv"}, NEW id \in Nat \ {0}, NEW S \in SUBSET Nodes
  PROVE  About(kind, id, S) \in Seq(MessageType)
<1>1. [kind |-> kind, id |-> id, shares |-> S] \in MessageType  BY Zenon DEF MessageType
<1>. QED  BY <1>1 DEF About

\* Every message carries an announced id, and the id the session keeps.
LEMMA OutgoingFact ==
  ASSUME channel \in [Nodes -> [Nodes -> Seq(MessageType)]], NEW n \in Nodes, NEW p \in Nodes,
         NEW s \in NodeType, NEW req, RequestsOf(p, req) \subseteq Nodes
  PROVE  Outgoing(n, s, p, req) \in Seq(MessageType)
<1>. DEFINE old  == GetOrCreateSession(s.sessions[p]).send
            id   == IF old = 0 THEN NextSessionId(n, p) ELSE old
            body == About("get", id, RequestsOf(p, req)) \o About("shares", id, ToSend(s, p))
                      \o About("inv", id, ToAnnounce(n, s, p))
            ann  == [kind |-> "ann", id |-> id, shares |-> {}]
<1>1. old \in Nat
  <2>1. s.sessions[p] \in SessionType \cup {NoSession}  BY Zenon DEF NodeType
  <2>. QED  BY Zenon, <2>1, SessionFacts DEF SessionType
<1>2. id \in Nat \ {0}  BY Zenon, <1>1, NextSessionIdFact
<1>3. ToSend(s, p) \subseteq Nodes /\ ToAnnounce(n, s, p) \subseteq Nodes
  BY Zenon DEF ToSend, ToAnnounce, NodeType
<1>4. Outgoing(n, s, p, req) = IF body # <<>> /\ old = 0 THEN <<ann>> \o body ELSE body
  BY Zenon DEF Outgoing
<1>. HIDE DEF old, id
<1>5. body \in Seq(MessageType)  BY <1>2, <1>3, AboutFact
<1>6. ann \in MessageType  BY Zenon, <1>2 DEF MessageType
<1>. HIDE DEF body, ann
<1>. QED  BY <1>4, <1>5, <1>6

LEMMA AfterSendFact ==
  ASSUME channel \in [Nodes -> [Nodes -> Seq(MessageType)]], NEW n \in Nodes, NEW p \in Nodes,
         NEW s \in NodeType, NEW req, RequestsOf(p, req) \subseteq Nodes
  PROVE  AfterSend(n, s, p, req) \in SessionType \cup {NoSession}
<1>. DEFINE x == GetOrCreateSession(s.sessions[p])
            out == Outgoing(n, s, p, req)
            send == IF out = <<>> THEN x.send ELSE out[1].id
            announced == IF s.recovered THEN x.announced
                         ELSE x.announced \ (s.sigShares \cup RequestsOf(p, req))
            requested == IF s.recovered THEN x.requested ELSE {}
            knows == x.knows \cup ToAnnounce(n, s, p)
            y == [x EXCEPT !.send = send, !.announced = announced,
                           !.requested = requested, !.knows = knows]
<1>1. AfterSend(n, s, p, req) = NoSession \/ AfterSend(n, s, p, req) = y
  BY Zenon DEF AfterSend
<1>2. x \in SessionType
  <2>1. s.sessions[p] \in SessionType \cup {NoSession}  BY Zenon DEF NodeType
  <2>. QED  BY Zenon, <2>1, SessionFacts
<1>3. out \in Seq(MessageType)  BY Zenon, OutgoingFact
<1>4. ToAnnounce(n, s, p) \subseteq Nodes
  BY Zenon DEF ToAnnounce, NodeType
<1>. HIDE DEF x, out
<1>5. x.send \in Nat /\ (out # <<>> => out[1].id \in Nat)
  <2>1. out # <<>> => out[1] \in MessageType  BY <1>3
  <2>. QED  BY Zenon, <1>2, <2>1 DEF SessionType, MessageType
<1>6. /\ send \in Nat /\ announced \in SUBSET Nodes /\ requested \in SUBSET Nodes
      /\ knows \in SUBSET Nodes
  BY Zenon, <1>2, <1>4, <1>5 DEF SessionType
<1>. HIDE DEF send, announced, requested, knows
<1>7. y \in SessionType  BY Zenon, <1>2, <1>6 DEF SessionType
<1>. QED  BY Zenon, <1>1, <1>7

\* A request is made only for a share that is awaited from nobody.
LEMMA SendGood ==
  ASSUME channel \in [Nodes -> [Nodes -> Seq(MessageType)]], NEW n \in Nodes,
         NEW s, Good(s), NEW req \in Requests(s)
  PROVE  /\ \A p \in Nodes : RequestsOf(p, req) \subseteq Nodes
         /\ Good([s EXCEPT !.sessions = [p \in Nodes |-> AfterSend(n, s, p, req)],
                    !.toAnnounce = {},
                    !.waiting = [p \in Nodes |-> @[p] \cup RequestsOf(p, req)],
                    !.from = [m \in Nodes |->
                       IF m \in DOMAIN req /\ req[m] # NoRequest
                         THEN [peer |-> req[m], late |-> FALSE] ELSE @[m]]])
<1>. DEFINE sessions == [p \in Nodes |-> AfterSend(n, s, p, req)]
            waiting == [p \in Nodes |-> s.waiting[p] \cup RequestsOf(p, req)]
            from == [m \in Nodes |-> IF m \in DOMAIN req /\ req[m] # NoRequest
                                       THEN [peer |-> req[m], late |-> FALSE] ELSE s.from[m]]
            t == [s EXCEPT !.sessions = sessions, !.toAnnounce = {},
                           !.waiting = waiting, !.from = from]
<1>0. s \in NodeType /\ s.from \in [Nodes -> RequestType \cup {NoRequest}]
      /\ s.waiting \in [Nodes -> SUBSET Nodes]
  BY Zenon DEF Good, NodeType
<1>1. /\ DOMAIN req \subseteq Nodes
      /\ \A m \in DOMAIN req : req[m] = NoRequest \/ req[m] \in Requestable(s, m)
      /\ \A p \in Nodes : RequestsOf(p, req) # {} =>
           Cardinality(s.waiting[p] \cup RequestsOf(p, req)) <= MaxRequests
  BY Zenon DEF Requests
<1>2. \A p \in Nodes : RequestsOf(p, req) \subseteq Nodes  BY Zenon, <1>1 DEF RequestsOf
<1>3. ASSUME NEW m \in DOMAIN req, req[m] # NoRequest
      PROVE  /\ [peer |-> req[m], late |-> FALSE] \in RequestType
             /\ \A p \in Nodes : m \notin s.waiting[p]
  <2>1. req[m] \in Requestable(s, m) /\ m \in Nodes  BY Zenon, <1>1, <1>3
  <2>2. req[m] \in Nodes /\ (s.from[m] = NoRequest \/ s.from[m].late)
    BY Zenon, <2>1 DEF Requestable
  <2>3. ASSUME NEW p \in Nodes, m \in s.waiting[p] PROVE FALSE
    <3>1. s.from[m] = [peer |-> p, late |-> FALSE]  BY Zenon, <2>1, <2>3 DEF Good, Awaited
    <3>2. s.from[m] \in RequestType  BY <3>1 DEF RequestType
    <3>3. s.from[m] # NoRequest  BY Zenon, <3>2, SharesAssumption
    <3>4. ~s.from[m].late
      <4>1. [peer |-> p, late |-> FALSE].late = FALSE  OBVIOUS
      <4>. QED  BY ONLY <3>1, <4>1, Zenon
    <3>. QED  BY ONLY <2>2, <3>3, <3>4, Zenon
  <2>. QED  BY Zenon, <2>2, <2>3 DEF RequestType
<1>4. /\ sessions \in [Nodes -> SessionType \cup {NoSession}]
      /\ waiting \in [Nodes -> SUBSET Nodes]
      /\ from \in [Nodes -> RequestType \cup {NoRequest}]
  <2>1. \A p \in Nodes : AfterSend(n, s, p, req) \in SessionType \cup {NoSession}
    BY Zenon, <1>0, <1>2, AfterSendFact
  <2>. QED  BY Zenon, <1>0, <1>2, <1>3, <2>1
<1>5. ASSUME NEW p \in Nodes, NEW m \in Nodes, m \in waiting[p]
      PROVE  from[m] = [peer |-> p, late |-> FALSE]
  <2>1. CASE m \in s.waiting[p]
    <3>1. ~(m \in DOMAIN req /\ req[m] # NoRequest)  BY Zenon, <1>3, <2>1
    <3>. QED  BY Zenon, <2>1, <3>1 DEF Good, Awaited
  <2>2. CASE m \in RequestsOf(p, req)
    <3>1. m \in DOMAIN req /\ req[m] = p  BY Zenon, <2>2 DEF RequestsOf
    <3>. QED  BY Zenon, <3>1, SharesAssumption
  <2>. QED  BY Zenon, <1>5, <2>1, <2>2
<1>6. ASSUME NEW p \in Nodes PROVE Cardinality(waiting[p]) <= MaxRequests
  <2>1. CASE RequestsOf(p, req) = {}
    <3>1. waiting[p] = s.waiting[p]  BY Zenon, <2>1
    <3>. QED  BY Zenon, <3>1 DEF Good, Limited
  <2>2. CASE RequestsOf(p, req) # {}
    BY Zenon, <1>1, <2>2
  <2>. QED  BY Zenon, <2>1, <2>2
<1>. HIDE DEF sessions, waiting, from
<1>7. t \in NodeType /\ t.from = from /\ t.waiting = waiting
  BY Zenon, <1>0, <1>4 DEF NodeType
<1>. HIDE DEF t
<1>8. Good(t)  BY Zenon, <1>5, <1>6, <1>7 DEF Good, Awaited, Limited
<1>. QED  BY Zenon, <1>2, <1>8 DEF t, sessions, waiting, from

-----------------------------------------------------------------------------
(* The induction.                                                          *)

SharesInv ==
  /\ node \in [Nodes -> NodeType] /\ \A n \in Nodes : Good(node[n])
  /\ channel \in [Nodes -> [Nodes -> Seq(MessageType)]]

\* Only the node n changes.
LEMMA OneNode ==
  ASSUME SharesInv, NEW n \in Nodes, NEW t, Good(t), node' = [node EXCEPT ![n] = t],
         channel' \in [Nodes -> [Nodes -> Seq(MessageType)]]
  PROVE  SharesInv'
<1>1. t \in NodeType  BY Zenon DEF Good
<1>2. node' \in [Nodes -> NodeType]  BY Zenon, <1>1 DEF SharesInv
<1>3. \A q \in Nodes : Good(node'[q])  BY Zenon DEF SharesInv
<1>. QED  BY Zenon, <1>2, <1>3 DEF SharesInv

LEMMA SharesInitInv ==
  ASSUME Init
  PROVE  SharesInv
<1>. DEFINE s0 == [sigShares |-> {}, toAnnounce |-> {}, sessions |-> [p \in Nodes |-> NoSession],
        waiting |-> [p \in Nodes |-> {}], from |-> [m \in Nodes |-> NoRequest],
        incoming |-> [p \in Nodes |-> {}],
        pending |-> FALSE, voted |-> FALSE, recovered |-> FALSE]
<1>1. s0 \in NodeType /\ s0.waiting = [p \in Nodes |-> {}]  BY Zenon DEF NodeType
<1>2. node = [n \in Nodes |-> s0]  BY Zenon DEF Init
<1>. HIDE DEF s0
<1>3. Good(s0)  BY Zenon, <1>1, GoodEmpty
<1>4. channel \in [Nodes -> [Nodes -> Seq(MessageType)]]  BY DEF Init
<1>. QED  BY Zenon, <1>1, <1>2, <1>3, <1>4 DEF SharesInv

LEMMA SharesNextInv ==
  ASSUME SharesInv, [Next]_vars
  PROVE  SharesInv'
<1>0. /\ node \in [Nodes -> NodeType] /\ \A n \in Nodes : Good(node[n])
      /\ channel \in [Nodes -> [Nodes -> Seq(MessageType)]]
  BY Zenon DEF SharesInv
<1>1. ASSUME NEW n \in Nodes, NEW allowReSign \in BOOLEAN, AsyncSignIfMember(n, allowReSign)
      PROVE  SharesInv'
  <2>. DEFINE s == IF allowReSign THEN ForceReAnnouncement(node[n]) ELSE node[n]
              t == [s EXCEPT !.voted = TRUE, !.pending = TRUE]
  <2>1. node' = [node EXCEPT ![n] = t] /\ channel' = channel
    BY Zenon, <1>1 DEF AsyncSignIfMember
  <2>2. Good(s)  BY Zenon, <1>0, ForceReAnnouncementGood
  <2>. HIDE DEF s
  <2>3. t \in NodeType /\ t.waiting = s.waiting /\ t.from = s.from
    BY Zenon, <2>2 DEF Good, NodeType
  <2>. HIDE DEF t
  <2>4. Good(t)  BY Zenon, <2>2, <2>3, GoodSame
  <2>. QED  BY Zenon, <1>0, <2>1, <2>4, OneNode
<1>2. ASSUME NEW n \in Nodes, Sign(n) PROVE SharesInv'
  <2>. DEFINE s == [node[n] EXCEPT !.pending = FALSE]
  <2>1. node' = [node EXCEPT ![n] = ProcessSigShare(n, s, n)] /\ channel' = channel
    BY Zenon, <1>2 DEF Sign
  <2>2. node[n] \in NodeType /\ Good(node[n])  BY Zenon, <1>0
  <2>3. s \in NodeType /\ s.waiting = node[n].waiting /\ s.from = node[n].from
    BY Zenon, <2>2 DEF NodeType
  <2>. HIDE DEF s
  <2>4. Good(ProcessSigShare(n, s, n))  BY Zenon, <2>2, <2>3, GoodSame, ProcessSigShareGood
  <2>. QED  BY Zenon, <1>0, <2>1, <2>4, OneNode
<1>3. ASSUME NEW n \in Nodes, NEW p \in Nodes, NEW m \in Nodes, ProcessPending(n, p, m)
      PROVE  SharesInv'
  <2>. DEFINE s == [node[n] EXCEPT !.incoming[p] = @ \ {m}]
  <2>1. node' = [node EXCEPT ![n] = ProcessSigShare(n, s, m)] /\ channel' = channel
    BY <1>3, Zenon DEF ProcessPending
  <2>2. node[n] \in NodeType /\ Good(node[n])  BY Zenon, <1>0
  <2>3. s \in NodeType /\ s.waiting = node[n].waiting /\ s.from = node[n].from
    BY Zenon, <2>2 DEF NodeType
  <2>. HIDE DEF s
  <2>4. Good(ProcessSigShare(n, s, m))  BY Zenon, <2>2, <2>3, GoodSame, ProcessSigShareGood
  <2>. QED  BY Zenon, <1>0, <2>1, <2>4, OneNode
<1>4. ASSUME NEW n \in Nodes, NEW p \in Nodes, CleanupNode(n, p) PROVE SharesInv'
  <2>. DEFINE t == [node[n] EXCEPT
                 !.sessions[p] = NoSession, !.waiting[p] = {}, !.incoming[p] = {},
                 !.from = [m \in Nodes |-> IF m \in node[n].waiting[p] THEN NoRequest ELSE @[m]]]
  <2>1. node' = [node EXCEPT ![n] = t] /\ channel' = channel
    BY <1>4, Zenon DEF CleanupNode
  <2>2. Good(t)  BY Zenon, <1>0, CleanupNodeGood
  <2>. HIDE DEF t
  <2>. QED  BY Zenon, <1>0, <2>1, <2>2, OneNode
<1>5. ASSUME NEW n \in Nodes, NEW m \in Nodes, RequestTimeout(n, m) PROVE SharesInv'
  <2>. DEFINE s == node[n]
              r == s.from[m]
              t == [s EXCEPT !.from[m].late = TRUE, !.waiting[r.peer] = @ \ {m}]
  <2>1. r # NoRequest /\ channel' = channel
        /\ node' = [node EXCEPT ![n].from[m].late = TRUE, ![n].waiting[r.peer] = @ \ {m}]
    BY Zenon, <1>5 DEF RequestTimeout
  <2>2. node' = [node EXCEPT ![n] = t]  BY Zenon, <1>0, <2>1
  <2>3. Good(t)
    <3>. HIDE DEF s, r
    <3>. QED  BY Zenon, <1>0, <2>1, RequestTimeoutGood DEF s, r
  <2>. HIDE DEF t
  <2>. QED  BY Zenon, <1>0, <2>1, <2>2, <2>3, OneNode
<1>6. ASSUME NEW n \in Nodes, SendMessages(n) PROVE SharesInv'
  <2>. DEFINE s == node[n]
  <2>1. PICK req \in Requests(s) :
          /\ node' = [node EXCEPT ![n] =
               [s EXCEPT !.sessions = [p \in Nodes |-> AfterSend(n, s, p, req)],
                   !.toAnnounce = {},
                   !.waiting = [p \in Nodes |-> @[p] \cup RequestsOf(p, req)],
                   !.from = [m \in Nodes |->
                      IF m \in DOMAIN req /\ req[m] # NoRequest
                        THEN [peer |-> req[m], late |-> FALSE] ELSE @[m]]]]
          /\ channel' = [channel EXCEPT ![n] = [p \in Nodes |->
               IF p \in Peers(n) THEN channel[n][p] \o Outgoing(n, s, p, req) ELSE channel[n][p]]]
    BY <1>6, Zenon DEF SendMessages
  <2>. DEFINE t == [s EXCEPT !.sessions = [p \in Nodes |-> AfterSend(n, s, p, req)],
                   !.toAnnounce = {},
                   !.waiting = [p \in Nodes |-> @[p] \cup RequestsOf(p, req)],
                   !.from = [m \in Nodes |->
                      IF m \in DOMAIN req /\ req[m] # NoRequest
                        THEN [peer |-> req[m], late |-> FALSE] ELSE @[m]]]
  <2>2. Good(s) /\ s \in NodeType  BY Zenon, <1>0
  <2>. HIDE DEF s
  <2>3. Good(t) /\ \A p \in Nodes : RequestsOf(p, req) \subseteq Nodes
    BY ZenonT(40), <1>0, <2>2, SendGood
  <2>4. channel' \in [Nodes -> [Nodes -> Seq(MessageType)]]
    <3>1. \A p \in Nodes : Outgoing(n, s, p, req) \in Seq(MessageType)
      BY Zenon, <1>0, <2>2, <2>3, OutgoingFact
    <3>2. \A p \in Nodes : channel[n][p] \o Outgoing(n, s, p, req) \in Seq(MessageType)
      BY <1>0, <3>1
    <3>3. [p \in Nodes |-> IF p \in Peers(n) THEN channel[n][p] \o Outgoing(n, s, p, req)
                                              ELSE channel[n][p]] \in [Nodes -> Seq(MessageType)]
      BY Zenon, <1>0, <3>2
    <3>. QED  BY Zenon, <1>0, <2>1, <3>3
  <2>5. node' = [node EXCEPT ![n] = t]  BY Zenon, <2>1
  <2>. HIDE DEF t
  <2>. QED  BY Zenon, <2>3, <2>4, <2>5, OneNode
<1>7. ASSUME NEW n \in Nodes, ReceiveRecoveredSig(n) PROVE SharesInv'
  BY Zenon, <1>0, <1>7, RemoveSessionGood, OneNode DEF ReceiveRecoveredSig
<1>8. ASSUME NEW n \in Nodes, NEW p \in Nodes, Receive(n, p) PROVE SharesInv'
  <2>. DEFINE msg == Head(channel[p][n])
  <2>1. /\ channel[p][n] # <<>> /\ node' = [node EXCEPT ![n] = Handle(node[n], p, msg)]
        /\ channel' = [channel EXCEPT ![p][n] = Tail(@)]
    BY Zenon, <1>8 DEF Receive
  <2>2. msg \in MessageType /\ Tail(channel[p][n]) \in Seq(MessageType)
    BY <1>0, <2>1
  <2>. HIDE DEF msg
  <2>3. channel' \in [Nodes -> [Nodes -> Seq(MessageType)]]  BY Zenon, <1>0, <2>1, <2>2
  <2>. QED  BY Zenon, <1>0, <2>1, <2>2, <2>3, HandleGood, OneNode
<1>9. ASSUME NEW n \in Nodes, SessionTimeout(n) PROVE SharesInv'
  BY Zenon, <1>0, <1>9, RemoveSessionGood, OneNode DEF SessionTimeout
<1>10. ASSUME NEW n \in Nodes, NEW p \in Nodes, Disconnect(n, p) \/ Reconnect(n, p)
       PROVE  SharesInv'
  <2>1. node' = node  BY Zenon, <1>10 DEF Disconnect, Reconnect
  <2>2. <<>> \in Seq(MessageType)  OBVIOUS
  <2>3. channel' \in [Nodes -> [Nodes -> Seq(MessageType)]]
    <3>. DEFINE c == [channel EXCEPT ![n][p] = <<>>]
    <3>1. c \in [Nodes -> [Nodes -> Seq(MessageType)]]  BY Zenon, <1>0, <2>2
    <3>2. [c EXCEPT ![p][n] = <<>>] \in [Nodes -> [Nodes -> Seq(MessageType)]]
      <4>. HIDE DEF c
      <4>. QED  BY Zenon, <2>2, <3>1
    <3>3. channel' = channel \/ channel' = [c EXCEPT ![p][n] = <<>>]
      BY Zenon, <1>10 DEF Disconnect, Reconnect
    <3>. QED  BY Zenon, <1>0, <3>2, <3>3
  <2>. QED  BY Zenon, <1>0, <2>1, <2>3 DEF SharesInv
<1>11. CASE UNCHANGED vars  BY Zenon, <1>11 DEF vars, SharesInv
<1>. QED
  BY Zenon, <1>1, <1>2, <1>3, <1>4, <1>5, <1>6, <1>7, <1>8, <1>9, <1>10, <1>11 DEF Next, Work,
     ReceiveAny

\* Types, a limit on the requests of each peer, and where each is awaited from.
THEOREM SharesInvariance == Spec => []SharesInv
<1>. QED  BY SharesInitInv, SharesNextInv, PTL DEF Spec

\* Session ids: every inventory, request and batch carries the id of a session
\* that was announced before, never the -1 a session starts with, and nothing
\* but shares of members is kept or sent.
THEOREM SharesTypeCorrect == Spec => []TypeOK
<1>. DEFINE Counts == /\ Topology \in Topologies
                      /\ faults \in 0..MaxFaults[Topology] /\ asked \subseteq Signers
<1>1. Init => Counts
  <2>. SUFFICES ASSUME Init PROVE Counts  OBVIOUS
  <2>1. Topology = links /\ links \in Topologies  BY Zenon DEF Init, Topology
  <2>. QED  BY <2>1, SharesAssumption DEF Init
<1>2. Counts /\ [Next]_vars => Counts'
  <2>. SUFFICES ASSUME Counts, [Next]_vars PROVE Counts'  OBVIOUS
  <2>1. Topology' = Topology
    BY ZenonT(40) DEF Next, vars, Topology, AsyncSignIfMember, Work, Sign, CleanupNode, ProcessPending,
           RequestTimeout, SendMessages, ReceiveAny, ReceiveRecoveredSig, Receive,
           SessionTimeout, Disconnect, Reconnect
  <2>2. Signers' = Signers  BY Zenon, <2>1 DEF Signers
  <2>3. MaxFaults[Topology] \in Nat  BY Zenon, SharesAssumption
  <2>4. faults' = faults \/ (faults < MaxFaults[Topology] /\ faults' = faults + 1)
    BY ZenonT(40) DEF Next, vars, AsyncSignIfMember, Work, Sign, CleanupNode, ProcessPending,
           RequestTimeout, SendMessages, ReceiveAny, ReceiveRecoveredSig, Receive,
           SessionTimeout, Disconnect, Reconnect
  <2>5. asked' = asked \/ asked' = {} \/ \E n \in Signers : asked' = asked \cup {n}
    BY ZenonT(40) DEF Next, vars, AsyncSignIfMember, Work, Sign, CleanupNode, ProcessPending,
           RequestTimeout, SendMessages, ReceiveAny, ReceiveRecoveredSig, Receive,
           SessionTimeout, Disconnect, Reconnect
  <2>. QED  BY <2>1, <2>2, <2>3, <2>4, <2>5
<1>3. SharesInv /\ Counts => TypeOK  BY Zenon DEF SharesInv, TypeOK
<1>. HIDE DEF Counts
<1>. QED  BY <1>1, <1>2, <1>3, SharesInvariance, PTL DEF Spec

\* A share is never awaited from two peers, for any quorum and topology and
\* however requests time out, connections break and sessions are dropped.
THEOREM RequestsAreSingle == Spec => []OneRequestAtATime
<1>1. SharesInv => OneRequestAtATime
  BY Zenon DEF SharesInv, Good, Awaited, OneRequestAtATime
<1>. QED  BY <1>1, SharesInvariance, PTL

\* No peer is asked for more shares at a time than maxRequestsForNode.
THEOREM RequestsAreLimited ==
  Spec => [](\A n, p \in Nodes : Cardinality(node[n].waiting[p]) <= MaxRequests)
<1>1. SharesInv => \A n, p \in Nodes : Cardinality(node[n].waiting[p]) <= MaxRequests
  BY Zenon DEF SharesInv, Good, Limited
<1>. QED  BY <1>1, SharesInvariance, PTL
============================================================================
