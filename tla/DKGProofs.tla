----------------------------- MODULE DKGProofs -----------------------------
(***************************************************************************)
(* Proofs about DKG, for every set of members, size of a quorum that is    *)
(* above half of them, set of faulty members and number of untimely phases.*)
(* The second part has the invariant of the behaviours in which the phases *)
(* are long enough, and the steps of the phases: they are entered and their*)
(* start functions run.  DKGTimelyProofs goes on with the messages.        *)
(***************************************************************************)
EXTENDS DKG, FiniteSetTheorems, TLAPS

Contributions == [vvec : Keys, sk : Keys]

\* A session's fields have their types and it holds the contributions to verify.
SessionOK(s) ==
  /\ s \in Session
  /\ \A m \in s.unverified : \E c \in s.contributions : c.from = m

\* c's key and share are those of the contributions in d, if d has them all.
Fits(d, c) == HasVvecs(d, c.valid) => c.key = QuorumVvec(d, c.valid) /\ c.share = c.key

\* A member begins a session at the start and after a reorganisation only.
RoundInv ==
  \A n \in Members :
    /\ round[n] <= untimely + 1
    /\ phase[n] = Initialized /\ stage[n] # Initialized => round[n] <= untimely

TypeInv == DkgTypeOK /\ RoundInv /\ \A n \in Members : SessionOK(session[n])

-----------------------------------------------------------------------------
(* What a step of a member does to its session and its database.           *)

\* The messages of a kind are those of the type.
LEMMA KindIsType ==
  ASSUME NEW x \in Message
  PROVE  /\ x.from \in Members
         /\ x.kind = Contribute => x \in Contribution
         /\ x.kind = Complain => x \in Complaint
         /\ x.kind = Justify => x \in Justification
         /\ x.kind = Commit => x \in Commitment
BY DEF Message, Contribution, Complaint, Justification, Commitment, Contribute, Complain,
       Justify, Commit

LEMMA FirstOfSender ==
  ASSUME NEW s, SessionOK(s), NEW m \in s.unverified
  PROVE  FirstOf(s.contributions, m).round \in Nat
<1>1. FirstOf(s.contributions, m) \in s.contributions
  BY Zenon DEF SessionOK, FirstOf
<1>. QED
  BY Zenon, <1>1 DEF SessionOK, Session, Contribution

\* VerifyPendingContributions leaves a session and a database.
LEMMA VerifyPendingType ==
  ASSUME NEW n \in Members, NEW s, SessionOK(s), NEW d \in Contributions
  PROVE  /\ SessionOK(VerifyPendingContributions(n, s))
         /\ VerifyPendingContributions(n, s).valid = s.valid
         /\ WriteVerified(n, s, d) \in Contributions
         /\ WriteVerified(n, s, d).vvec = d.vvec
<1>1. Verified(s) \subseteq Members /\ s \in Session /\ Verified(s) \subseteq s.unverified
  BY Zenon DEF Verified, SessionOK, Session
<1> DEFINE w == s.weComplain \cup (Verified(s) \ Fitting(n, s))
           v == VerifyPendingContributions(n, s)
           k == [m \in Members |-> IF m \in Fitting(n, s)
                                   THEN FirstOf(s.contributions, m).round ELSE d.sk[m]]
<1>2. w \in SUBSET Members
  BY Zenon, <1>1 DEF Session
<1>3. v = [s EXCEPT !.unverified = {}, !.weComplain = w]
  BY Zenon DEF VerifyPendingContributions
<1>4. v \in Session /\ v.unverified = {} /\ v.valid = s.valid
  <2> HIDE DEF w, v
  <2>. QED
    BY Zenon, <1>1, <1>2, <1>3 DEF Session
<1>5. k \in Keys
  <2>1. Fitting(n, s) \subseteq s.unverified
    BY Zenon, <1>1 DEF Fitting
  <2>. QED
    BY Zenon, <2>1, FirstOfSender DEF Keys, Contributions
<1>6. WriteVerified(n, s, d) = [d EXCEPT !.sk = k]
  BY Zenon DEF WriteVerified
<1>. HIDE DEF k, v
<1>. QED
  BY Zenon, <1>4, <1>5, <1>6 DEF SessionOK, Contributions, v

\* A step of n that replaces its session by s and its stored contributions by d.
Moves(n, s, d) ==
  /\ SessionOK(s) /\ d \in Contributions
  /\ session' = [session EXCEPT ![n] = s]
  /\ db' = [db EXCEPT ![n] = d]

LEMMA SameDatabase ==
  ASSUME TypeInv, NEW n \in Members, NEW s, SessionOK(s), UNCHANGED db,
         session' = [session EXCEPT ![n] = s]
  PROVE  Moves(n, s, db[n])
<1>1. db[n] \in Contributions /\ db = [db EXCEPT ![n] = db[n]]
  BY Zenon DEF TypeInv, DkgTypeOK, Contributions
<1>. QED
  BY Zenon, <1>1 DEF Moves

\* ReceiveMessage for a contribution keeps the accepted commitments.
LEMMA ReceiveContributionEffect ==
  ASSUME TypeInv, NEW n \in Members, NEW c \in Contribution, ReceiveContribution(n, c)
  PROVE  \E s, d : Moves(n, s, d) /\ s.valid = session[n].valid
<1> DEFINE s == session[n]
           stored == [s EXCEPT !.contributions = @ \cup {c}]
           vvec == [db[n] EXCEPT !.vvec[c.from] = c.round]
           queued == [stored EXCEPT !.unverified = @ \cup {c.from}]
<1>1. SessionOK(s) /\ s \in Session /\ c.from \in Members /\ c.round \in Nat
  BY Zenon DEF TypeInv, SessionOK, Contribution
<1>2. SessionOK(stored) /\ stored.valid = s.valid /\ stored.contributions = s.contributions \cup {c}
      /\ stored.bad \subseteq Members /\ stored.weComplain \subseteq Members
  <2> HIDE DEF s
  <2>. QED
    BY Zenon, <1>1 DEF SessionOK, Session
<1>3. SessionOK(queued) /\ queued.valid = s.valid
  <2> HIDE DEF s
  <2>1. stored \in Session /\ \A m \in stored.unverified : \E x \in stored.contributions : x.from = m
    BY Zenon, <1>2 DEF SessionOK
  <2> HIDE DEF stored
  <2>. QED
    BY <1>1, <1>2, <2>1 DEF SessionOK, Session
<1>4. vvec \in Contributions
  <2>1. db[n] \in Contributions
    BY Zenon DEF TypeInv, DkgTypeOK, Contributions
  <2>. QED
    BY Zenon, <1>1, <2>1 DEF Contributions, Keys
<1>5. CASE session' = [session EXCEPT ![n] = [stored EXCEPT !.bad = @ \cup {c.from}]] /\ UNCHANGED db
  <2> DEFINE t == [stored EXCEPT !.bad = @ \cup {c.from}]
  <2>1. SessionOK(t) /\ t.valid = s.valid
    <3> HIDE DEF stored, s
    <3>. QED
      BY ZenonT(40), <1>1, <1>2 DEF SessionOK, Session
  <2> HIDE DEF t
  <2>2. session' = [session EXCEPT ![n] = t]
    BY Zenon, <1>5 DEF t
  <2>3. Moves(n, t, db[n])
    BY Zenon, <1>5, <2>1, <2>2, SameDatabase
  <2>. QED
    BY Zenon, <2>1, <2>3
<1>6. CASE /\ session' = [session EXCEPT ![n] = [stored EXCEPT !.weComplain = @ \cup {c.from}]]
           /\ db' = [db EXCEPT ![n] = vvec]
  <2> DEFINE t == [stored EXCEPT !.weComplain = @ \cup {c.from}]
  <2>1. SessionOK(t) /\ t.valid = s.valid
    <3> HIDE DEF stored, s
    <3>. QED
      BY ZenonT(40), <1>1, <1>2 DEF SessionOK, Session
  <2>2. Moves(n, t, vvec)
    BY Zenon, <1>4, <1>6, <2>1 DEF Moves
  <2>. QED
    BY Zenon, <2>1, <2>2
<1>7. CASE session' = [session EXCEPT ![n] = queued] /\ db' = [db EXCEPT ![n] = vvec]
  BY Zenon, <1>3, <1>4, <1>7 DEF Moves
<1>8. CASE /\ session' = [session EXCEPT ![n] = VerifyPendingContributions(n, queued)]
           /\ db' = [db EXCEPT ![n] = WriteVerified(n, queued, vvec)]
  <2> DEFINE v == VerifyPendingContributions(n, queued)
             w == WriteVerified(n, queued, vvec)
  <2> HIDE DEF queued, vvec
  <2>1. SessionOK(v) /\ v.valid = queued.valid /\ w \in Contributions
    BY Zenon, <1>3, <1>4, VerifyPendingType
  <2> HIDE DEF v, w
  <2>2. Moves(n, v, w)
    BY Zenon, <1>8, <2>1 DEF Moves, v, w
  <2>. QED
    BY Zenon, <1>3, <2>1, <2>2
<1>. QED
  BY Zenon, <1>5, <1>6, <1>7, <1>8 DEF ReceiveContribution

\* ReceiveMessage for a complaint keeps the accepted commitments and the database.
LEMMA ReceiveComplaintEffect ==
  ASSUME TypeInv, NEW n \in Members, NEW c \in Complaint, ReceiveComplaint(n, c)
  PROVE  \E s : Moves(n, s, db[n]) /\ s.valid = session[n].valid
<1> DEFINE s == session[n]
           stored == [s EXCEPT !.complaints = @ \cup {c}]
           bv == [m \in Members |-> IF m \in c.bad THEN stored.badVotes[m] \cup {c.from}
                                    ELSE stored.badVotes[m]]
           cf == [m \in Members |-> IF m \in c.for THEN stored.complaintsFrom[m] \cup {c.from}
                                    ELSE stored.complaintsFrom[m]]
           t1 == [stored EXCEPT !.bad = @ \cup {c.from}]
           t2 == [stored EXCEPT !.badVotes = bv, !.complaintsFrom = cf]
<1>1. SessionOK(s) /\ s \in Session /\ c.from \in Members
  BY Zenon DEF TypeInv, SessionOK, Complaint
<1>2. /\ SessionOK(stored) /\ stored \in Session /\ stored.valid = s.valid
      /\ stored.bad \subseteq Members /\ stored.badVotes \in [Members -> SUBSET Members]
      /\ stored.complaintsFrom \in [Members -> SUBSET Members]
  <2> HIDE DEF s
  <2>. QED
    BY Zenon, <1>1 DEF SessionOK, Session
<1>3. bv \in [Members -> SUBSET Members] /\ cf \in [Members -> SUBSET Members]
  <2> HIDE DEF stored
  <2>. QED
    BY Zenon, <1>1, <1>2
<1> HIDE DEF s, stored, bv, cf
<1>4. SessionOK(t1) /\ t1.valid = s.valid
  BY Zenon, <1>1, <1>2 DEF SessionOK, Session
<1>5. SessionOK(t2) /\ t2.valid = s.valid
  BY Zenon, <1>2, <1>3 DEF SessionOK, Session
<1>6. \E t \in {t1, t2} : session' = [session EXCEPT ![n] = t]
  BY Zenon DEF ReceiveComplaint, s, stored, bv, cf
<1>7. UNCHANGED db
  BY Zenon DEF ReceiveComplaint
<1> HIDE DEF t1, t2
<1>. QED
  BY Zenon, <1>4, <1>5, <1>6, <1>7, SameDatabase DEF s

\* ReceiveMessage for a justification keeps the accepted commitments and the
\* verification vectors.
LEMMA ReceiveJustificationEffect ==
  ASSUME TypeInv, NEW n \in Members, NEW j \in Justification, ReceiveJustification(n, j)
  PROVE  \E s, d : Moves(n, s, d) /\ s.valid = session[n].valid /\ d.vvec = db[n].vvec
<1> DEFINE s == session[n]
           stored == [s EXCEPT !.justifications = @ \cup {j}]
           marked == [stored EXCEPT !.bad = @ \cup {j.from}]
           right == {m \in j.for \ j.lies : FirstOf(s.contributions, j.from).round = j.round}
           base == IF right = j.for THEN stored ELSE marked
           cleared == [base EXCEPT !.complaintsFrom[j.from] = @ \ right,
                                   !.weComplain = @ \ (IF n \in right THEN {j.from} ELSE {})]
<1>1. SessionOK(s) /\ s \in Session /\ j.from \in Members /\ j.round \in Nat
  BY Zenon DEF TypeInv, SessionOK, Justification
<1>2. /\ SessionOK(stored) /\ stored \in Session /\ stored.valid = s.valid
      /\ stored.bad \subseteq Members
  <2> HIDE DEF s
  <2>. QED
    BY Zenon, <1>1 DEF SessionOK, Session
<1>3. SessionOK(marked) /\ marked \in Session /\ marked.valid = s.valid
  <2> HIDE DEF s, stored
  <2>. QED
    BY Zenon, <1>1, <1>2 DEF SessionOK, Session
<1>4. SessionOK(cleared) /\ cleared.valid = s.valid
  <2> DEFINE cf == [base.complaintsFrom EXCEPT ![j.from] = @ \ right]
             wc == base.weComplain \ (IF n \in right THEN {j.from} ELSE {})
  <2>1. SessionOK(base) /\ base \in Session /\ base.valid = s.valid
    <3> HIDE DEF stored, marked, right
    <3>. QED
      BY Zenon, <1>2, <1>3
  <2>2. cleared = [base EXCEPT !.complaintsFrom = cf, !.weComplain = wc]
    <3> HIDE DEF base, right
    <3>. QED
      OBVIOUS
  <2>3. cf \in [Members -> SUBSET Members] /\ wc \in SUBSET Members
    <3> HIDE DEF base, right
    <3>. QED
      BY Zenon, <1>1, <2>1 DEF Session
  <2> HIDE DEF base, cf, wc, cleared, s
  <2>. QED
    BY Zenon, <2>1, <2>2, <2>3 DEF SessionOK, Session
<1> DEFINE d == [db[n] EXCEPT !.sk[j.from] = j.round]
<1>5. d \in Contributions /\ d.vvec = db[n].vvec
  <2>1. db[n] \in Contributions
    BY Zenon DEF TypeInv, DkgTypeOK, Contributions
  <2>. QED
    BY Zenon, <1>1, <2>1 DEF Contributions, Keys
<1>6. CASE UNCHANGED db
  <2>1. \E t \in {stored, marked, cleared} : session' = [session EXCEPT ![n] = t]
    BY Zenon DEF ReceiveJustification
  <2> HIDE DEF stored, marked, cleared
  <2>2. PICK t \in {stored, marked, cleared} : session' = [session EXCEPT ![n] = t]
    BY Zenon, <2>1
  <2>3. SessionOK(t) /\ t.valid = s.valid
    BY Zenon, <1>2, <1>3, <1>4
  <2>4. Moves(n, t, db[n])
    BY Zenon, <1>6, <2>2, <2>3, SameDatabase
  <2>. QED
    BY Zenon, <2>3, <2>4
<1>7. CASE db' = [db EXCEPT ![n] = d] /\ session' = [session EXCEPT ![n] = cleared]
  <2> HIDE DEF cleared, d
  <2>1. Moves(n, cleared, d)
    BY Zenon, <1>4, <1>5, <1>7 DEF Moves
  <2>. QED
    BY Zenon, <1>4, <1>5, <2>1
<1>8. \/ UNCHANGED db
      \/ db' = [db EXCEPT ![n] = d] /\ session' = [session EXCEPT ![n] = cleared]
  BY Zenon DEF ReceiveJustification
<1>. QED
  BY Zenon, <1>6, <1>7, <1>8

\* ReceiveMessage for a premature commitment accepts one that fits what is stored, and
\* announces it.
LEMMA ReceiveCommitmentEffect ==
  ASSUME TypeInv, NEW n \in Members, NEW c \in Commitment, ReceiveCommitment(n, c)
  PROVE  \E s : /\ Moves(n, s, db[n])
                /\ \/ s.valid = session[n].valid
                   \/ s.valid = session[n].valid \cup {c} /\ Fits(db[n], c) /\ c \in net'
<1> DEFINE s == session[n]
           accepted == HasVvecs(db[n], c.valid) =>
                         c.key = QuorumVvec(db[n], c.valid) /\ c.share = c.key
           val == IF accepted THEN s.valid \cup {c} ELSE s.valid
           com == s.commitments \cup {c}
           t == [s EXCEPT !.commitments = com, !.valid = val]
<1>1. SessionOK(s) /\ s \in Session
  BY Zenon DEF TypeInv, SessionOK
<1>2. com \in SUBSET Commitment /\ val \in SUBSET Commitment
  BY Zenon, <1>1 DEF Session
<1>3. SessionOK(t) /\ t.valid = val
  <2> HIDE DEF s, com, val
  <2>. QED
    BY Zenon, <1>1, <1>2 DEF SessionOK, Session
<1>4. session' = [session EXCEPT ![n] = t] /\ UNCHANGED db /\ (accepted => c \in net')
  <2>1. session \in [Members -> Session]
    BY Zenon DEF TypeInv, DkgTypeOK
  <2>. QED
    BY Zenon, <2>1 DEF ReceiveCommitment
<1>5. accepted => Fits(db[n], c)
  BY Zenon DEF Fits
<1>6. Moves(n, t, db[n])
  <2> HIDE DEF t
  <2>. QED
    BY Zenon, <1>3, <1>4, SameDatabase
<1> HIDE DEF t, accepted
<1>. QED
  BY Zenon, <1>3, <1>4, <1>5, <1>6

\* A message is processed in its phase: it may be announced, and only a contribution
\* changes the verification vectors and only a fitting commitment the accepted ones.
LEMMA ProcessEffect ==
  ASSUME TypeInv, NEW n \in Members, NEW x \in net \cup pending[n], ProcessPendingMessage(n, x)
  PROVE  /\ x \in Message /\ net' \in {net, net \cup {x}}
         /\ pending' = [pending EXCEPT ![n] = @ \ {x}]
         /\ UNCHANGED threadVars
         /\ \E s, d :
              /\ Moves(n, s, d)
              /\ stage[n] = Contribute \/ d.vvec = db[n].vvec
              /\ \/ s.valid = session[n].valid
                 \/ /\ s.valid = session[n].valid \cup {x} /\ stage[n] = Commit
                    /\ x.kind = Commit /\ Fits(db[n], x) /\ x \in net'
<1>1. x \in Message
  BY Zenon DEF TypeInv, DkgTypeOK
<1>2. net' \in {net, net \cup {x}}
  BY Zenon DEF ProcessPendingMessage, ReceiveContribution, ReceiveComplaint, ReceiveJustification,
     ReceiveCommitment
<1>3. pending' = [pending EXCEPT ![n] = @ \ {x}] /\ UNCHANGED threadVars /\ stage[n] = x.kind
  BY Zenon DEF ProcessPendingMessage
<1>4. CASE x.kind = Contribute /\ ReceiveContribution(n, x)
  BY Zenon, <1>1, <1>2, <1>3, <1>4, KindIsType, ReceiveContributionEffect
<1>5. CASE x.kind = Complain /\ ReceiveComplaint(n, x)
  BY Zenon, <1>1, <1>2, <1>3, <1>5, KindIsType, ReceiveComplaintEffect
<1>6. CASE x.kind = Justify /\ ReceiveJustification(n, x)
  BY Zenon, <1>1, <1>2, <1>3, <1>6, KindIsType, ReceiveJustificationEffect
<1>7. CASE x.kind = Commit /\ ReceiveCommitment(n, x)
  BY Zenon, <1>1, <1>2, <1>3, <1>7, KindIsType, ReceiveCommitmentEffect
<1>. QED
  BY Zenon, <1>4, <1>5, <1>6, <1>7 DEF ProcessPendingMessage

\* The messages a start function puts into the member's queue: premature commitments
\* only in their phase, at most one, and the member's own.
NewMessages(n, new) ==
  /\ new \in SUBSET Message
  /\ \A x \in new : x.kind = Commit => stage[n] = Commit /\ x.from = n
  /\ \A x, y \in new : x = y

LEMMA StartContributeEffect ==
  ASSUME TypeInv, NEW n \in Members, StartContribute(n)
  PROVE  \E s, d, new : /\ Moves(n, s, d) /\ NewMessages(n, new)
                        /\ s.valid = session[n].valid /\ d.vvec = db[n].vvec
                        /\ pending' = [pending EXCEPT ![n] = @ \cup new]
<1>1. Moves(n, session[n], db[n])
  <2>1. session' = [session EXCEPT ![n] = session[n]] /\ SessionOK(session[n]) /\ UNCHANGED db
    BY Zenon DEF StartContribute, TypeInv, DkgTypeOK
  <2>. QED
    BY Zenon, <2>1, SameDatabase
<1>2. \E new : NewMessages(n, new) /\ pending' = [pending EXCEPT ![n] = @ \cup new]
  <2>1. CASE UNCHANGED pending
    <3>1. NewMessages(n, {}) /\ pending' = [pending EXCEPT ![n] = @ \cup {}]
      BY Zenon, <2>1 DEF NewMessages, TypeInv, DkgTypeOK
    <3>. QED
      BY Zenon, <3>1
  <2>2. CASE ~UNCHANGED pending
    <3>1. PICK lies \in Lies(n, Members \ {n}) :
            pending' = [pending EXCEPT ![n] = @ \cup
              {[kind |-> Contribute, from |-> n, round |-> round[n], lies |-> lies]}]
      BY Zenon, <2>2 DEF StartContribute
    <3> DEFINE x == [kind |-> Contribute, from |-> n, round |-> round[n], lies |-> lies]
    <3>2. x \in Message /\ x.kind # Commit
      BY DEF Message, Contribution, TypeInv, DkgTypeOK, Lies, Contribute, Commit
    <3> HIDE DEF x
    <3>3. NewMessages(n, {x})
      BY Zenon, <3>2 DEF NewMessages
    <3>. QED
      BY Zenon, <3>1, <3>3 DEF x
  <2>. QED
    BY Zenon, <2>1, <2>2
<1>. QED
  BY Zenon, <1>1, <1>2

LEMMA StartComplainEffect ==
  ASSUME TypeInv, NEW n \in Members, StartComplain(n)
  PROVE  \E s, d, new : /\ Moves(n, s, d) /\ NewMessages(n, new)
                        /\ s.valid = session[n].valid /\ d.vvec = db[n].vvec
                        /\ pending' = [pending EXCEPT ![n] = @ \cup new]
<1> DEFINE s == session[n]
           verified == VerifyPendingContributions(n, s)
           silent == {m \in Members : SentBy(s.contributions, m) = {}}
           bad == s.bad \cup silent
           for == verified.weComplain \ bad
           x == [kind |-> Complain, from |-> n, round |-> round[n], bad |-> bad, for |-> for]
           t == [verified EXCEPT !.bad = bad]
           d == WriteVerified(n, s, db[n])
           new == IF bad \cup for = {} THEN {} ELSE {x}
<1>1. SessionOK(s) /\ db[n] \in Contributions /\ round[n] \in Nat
  BY DEF TypeInv, DkgTypeOK, Contributions
<1>2. SessionOK(verified) /\ verified.valid = s.valid /\ d \in Contributions /\ d.vvec = db[n].vvec
  <2> HIDE DEF s
  <2>. QED
    BY Zenon, <1>1, VerifyPendingType
<1>3. bad \in SUBSET Members /\ for \in SUBSET Members
  <2> HIDE DEF verified
  <2>. QED
    BY Zenon, <1>1, <1>2 DEF SessionOK, Session
<1>4. x \in Message /\ x.kind # Commit
  <2> HIDE DEF bad, for
  <2>. QED
    BY <1>1, <1>3 DEF Message, Complaint, Complain, Commit
<1>5. NewMessages(n, new)
  <2> HIDE DEF x, bad, for
  <2>. QED
    BY Zenon, <1>4 DEF NewMessages
<1>6. SessionOK(t) /\ t.valid = s.valid
  <2> HIDE DEF verified, bad, s
  <2>. QED
    BY Zenon, <1>2, <1>3 DEF SessionOK, Session
<1>7. /\ session' = [session EXCEPT ![n] = t] /\ db' = [db EXCEPT ![n] = d]
      /\ pending' = [pending EXCEPT ![n] = @ \cup new]
  BY Zenon DEF StartComplain
<1> HIDE DEF t, d, new
<1>8. Moves(n, t, d)
  BY Zenon, <1>2, <1>6, <1>7 DEF Moves
<1>. QED
  BY Zenon, <1>2, <1>5, <1>6, <1>7, <1>8

\* Marking members as bad changes nothing else.
LEMMA MarkBad ==
  ASSUME TypeInv, NEW n \in Members, NEW bad \in SUBSET Members, UNCHANGED db,
         session' = [session EXCEPT ![n].bad = bad]
  PROVE  \E s : Moves(n, s, db[n]) /\ s.valid = session[n].valid
<1> DEFINE s == session[n]
           t == [s EXCEPT !.bad = bad]
<1>1. SessionOK(s)
  BY Zenon DEF TypeInv
<1>2. SessionOK(t) /\ t.valid = s.valid
  <2> HIDE DEF s
  <2>. QED
    BY Zenon, <1>1 DEF SessionOK, Session
<1>3. session' = [session EXCEPT ![n] = t]
  OBVIOUS
<1> HIDE DEF t
<1>. QED
  BY Zenon, <1>2, <1>3, SameDatabase

LEMMA StartJustifyEffect ==
  ASSUME TypeInv, NEW n \in Members, StartJustify(n)
  PROVE  \E s, d, new : /\ Moves(n, s, d) /\ NewMessages(n, new)
                        /\ s.valid = session[n].valid /\ d.vvec = db[n].vvec
                        /\ pending' = [pending EXCEPT ![n] = @ \cup new]
<1> DEFINE s == session[n]
           voted == {m \in Members : Cardinality(s.badVotes[m]) >= BadVotes}
           twice == {m \in Members : Cardinality(SentBy(s.complaints, m)) > 1}
           bad == s.bad \cup voted \cup twice
           for == {m \in Members \ bad : \E c \in SentBy(s.complaints, m) : n \in c.for}
<1>1. bad \in SUBSET Members /\ for \in SUBSET Members /\ round[n] \in Nat
  BY DEF TypeInv, DkgTypeOK, Session
<1>2. \E t : Moves(n, t, db[n]) /\ t.valid = session[n].valid
  <2>1. session' = [session EXCEPT ![n].bad = bad] /\ UNCHANGED db
    BY Zenon DEF StartJustify
  <2> HIDE DEF bad
  <2>. QED
    BY Zenon, <1>1, <2>1, MarkBad
<1>3. \E new : NewMessages(n, new) /\ pending' = [pending EXCEPT ![n] = @ \cup new]
  <2>1. CASE UNCHANGED pending
    <3>1. NewMessages(n, {}) /\ pending' = [pending EXCEPT ![n] = @ \cup {}]
      BY Zenon, <2>1 DEF NewMessages, TypeInv, DkgTypeOK
    <3>. QED
      BY Zenon, <3>1
  <2>2. CASE ~UNCHANGED pending
    <3>1. PICK lies \in Lies(n, for \ {n}) :
            pending' = [pending EXCEPT ![n] = @ \cup
              {[kind |-> Justify, from |-> n, round |-> round[n], for |-> for, lies |-> lies]}]
      BY Zenon, <2>2 DEF StartJustify
    <3> DEFINE x == [kind |-> Justify, from |-> n, round |-> round[n], for |-> for, lies |-> lies]
    <3>2. x \in Message /\ x.kind # Commit
      <4>1. lies \in SUBSET Members
        BY Zenon, <1>1 DEF Lies
      <4> HIDE DEF for
      <4>. QED
        BY <1>1, <4>1 DEF Message, Justification, Justify, Commit
    <3> HIDE DEF x
    <3>3. NewMessages(n, {x})
      BY Zenon, <3>2 DEF NewMessages
    <3>. QED
      BY Zenon, <3>1, <3>3 DEF x
  <2>. QED
    BY Zenon, <2>1, <2>2
<1>. QED
  BY Zenon, <1>2, <1>3

LEMMA StartCommitEffect ==
  ASSUME TypeInv, NEW n \in Members, StartCommit(n)
  PROVE  \E s, d, new : /\ Moves(n, s, d) /\ NewMessages(n, new)
                        /\ s.valid = session[n].valid /\ d.vvec = db[n].vvec
                        /\ pending' = [pending EXCEPT ![n] = @ \cup new]
<1> DEFINE s == session[n]
           bad == s.bad \cup {m \in Members : s.complaintsFrom[m] # {}}
           valid == Members \ bad
           x == [kind |-> Commit, from |-> n, valid |-> valid,
                 key |-> QuorumVvec(db[n], valid), share |-> SkShare(db[n], valid)]
<1>1. bad \in SUBSET Members /\ valid \in SUBSET Members /\ stage[n] = Commit
  BY Zenon DEF TypeInv, DkgTypeOK, Session, StartCommit
<1>2. \E t : Moves(n, t, db[n]) /\ t.valid = session[n].valid
  <2>1. session' = [session EXCEPT ![n].bad = bad] /\ UNCHANGED db
    BY Zenon DEF StartCommit
  <2> HIDE DEF bad
  <2>. QED
    BY Zenon, <1>1, <2>1, MarkBad
<1>3. x \in Message /\ x.from = n
  <2>1. db[n].vvec \in Keys /\ db[n].sk \in Keys
    BY Zenon DEF TypeInv, DkgTypeOK
  <2>2. QuorumVvec(db[n], valid) \in Keys /\ SkShare(db[n], valid) \in Keys
    BY Zenon, <2>1 DEF Keys, QuorumVvec, SkShare
  <2> HIDE DEF valid
  <2>. QED
    BY Zenon, <1>1, <2>2 DEF Message, Commitment
<1>4. \E new \in {{}, {x}} : pending' = [pending EXCEPT ![n] = @ \cup new]
  <2>1. CASE UNCHANGED pending
    <3>1. pending' = [pending EXCEPT ![n] = @ \cup {}]
      BY Zenon, <2>1 DEF TypeInv, DkgTypeOK
    <3>. QED
      BY Zenon, <3>1
  <2>2. CASE ~UNCHANGED pending
    <3>1. pending' = [pending EXCEPT ![n] = @ \cup {x}]
      BY Zenon, <2>2 DEF StartCommit
    <3> HIDE DEF x
    <3>. QED
      BY Zenon, <3>1
  <2>. QED
    BY Zenon, <2>1, <2>2
<1> HIDE DEF x
<1>5. \A new \in {{}, {x}} : NewMessages(n, new)
  BY Zenon, <1>1, <1>3 DEF NewMessages
<1>. QED
  BY Zenon, <1>2, <1>4, <1>5

LEMMA StartPhaseEffect ==
  ASSUME TypeInv, NEW n \in Members, StartPhase(n)
  PROVE  /\ ~started[n] /\ started' = [started EXCEPT ![n] = TRUE]
         /\ UNCHANGED <<faulty, phase, stage, round, net, minable, untimely>>
         /\ \E s, d, new : /\ Moves(n, s, d) /\ NewMessages(n, new)
                           /\ s.valid = session[n].valid /\ d.vvec = db[n].vvec
                           /\ pending' = [pending EXCEPT ![n] = @ \cup new]
BY Zenon, StartContributeEffect, StartComplainEffect, StartJustifyEffect, StartCommitEffect
   DEF StartPhase

-----------------------------------------------------------------------------
(* Types.                                                                  *)

LEMMA EmptySessionOK == SessionOK(EmptySession) /\ EmptySession.valid = {}
BY Zenon DEF SessionOK, EmptySession, Session

LEMMA TypeInvInit == Init => TypeInv
<1> SUFFICES ASSUME Init PROVE TypeInv
  OBVIOUS
<1>1. DkgTypeOK
  <2>1. EmptySession \in Session
    BY Zenon, EmptySessionOK DEF SessionOK
  <2>. QED
    BY <2>1, DkgAssumption DEF Init, DkgTypeOK, Keys, Waiting, Initialized, Finalize, Idle
<1>2. RoundInv
  BY DEF Init, RoundInv
<1>3. \A n \in Members : SessionOK(session[n])
  BY Zenon, EmptySessionOK DEF Init
<1>. QED
  BY Zenon, <1>1, <1>2, <1>3 DEF TypeInv

\* Sessions and databases keep their types when one member moves.
LEMMA MovesType ==
  ASSUME TypeInv, NEW n \in Members, NEW s, NEW d, Moves(n, s, d)
  PROVE  /\ session' \in [Members -> Session]
         /\ db' \in [Members -> [vvec : Keys, sk : Keys]]
         /\ \A m \in Members : SessionOK(session'[m])
<1>1. s \in Session /\ session \in [Members -> Session] /\ db \in [Members -> Contributions]
  BY Zenon DEF Moves, SessionOK, TypeInv, DkgTypeOK, Contributions
<1>2. session' \in [Members -> Session] /\ db' \in [Members -> Contributions]
  BY Zenon, <1>1 DEF Moves
<1>3. \A m \in Members : session'[m] = IF m = n THEN s ELSE session[m]
  BY Zenon, <1>1 DEF Moves
<1>. QED
  BY Zenon, <1>2, <1>3 DEF Moves, TypeInv, Contributions

\* The thread's variables other than minable.
LEMMA ThreadType ==
  ASSUME TypeInv, NEW n \in Members, NextPhase(n) \/ Abort(n) \/ HandleDKGRound(n)
                                     \/ UpdatedBlockTip(n) \/ Rewind(n)
  PROVE  /\ phase' \in [Members -> Initialized..Idle]
         /\ stage' \in [Members -> Waiting..Finalize]
         /\ started' \in [Members -> BOOLEAN]
         /\ round' \in [Members -> 0..(1 + MaxUntimely)]
         /\ untimely' \in 0..MaxUntimely
         /\ RoundInv'
<1> USE DkgAssumption DEF TypeInv, DkgTypeOK, RoundInv, Waiting, Initialized, Finalize, Commit, Idle
<1>1. CASE NextPhase(n)
  BY <1>1 DEF NextPhase
<1>2. CASE Abort(n)
  BY <1>2 DEF Abort
<1>3. CASE HandleDKGRound(n)
  BY <1>3 DEF HandleDKGRound
<1>4. CASE UpdatedBlockTip(n)
  BY <1>4 DEF UpdatedBlockTip
<1>5. CASE Rewind(n)
  BY <1>5 DEF Rewind
<1>. QED
  BY Zenon, <1>1, <1>2, <1>3, <1>4, <1>5

\* FinalizeCommitments makes final commitments of the accepted ones.
LEMMA FinalizeType ==
  ASSUME TypeInv, NEW n \in Members, NextPhase(n)
  PROVE  minable' \in [Members -> SUBSET FinalCommitment]
<1>1. minable \in [Members -> SUBSET FinalCommitment]
  BY Zenon DEF TypeInv, DkgTypeOK
<1>2. CASE UNCHANGED minable
  BY Zenon, <1>1, <1>2
<1>3. CASE ~UNCHANGED minable
  <2>1. PICK first \in [Majorities(n) -> session[n].valid] :
          minable' = [minable EXCEPT ![n] = @ \cup
                        {FinalCommitmentOf(n, first[V]) : V \in Majorities(n)}]
    BY Zenon, <1>3 DEF NextPhase
  <2>2. \A c \in session[n].valid : FinalCommitmentOf(n, c) \in FinalCommitment
    <3> SUFFICES ASSUME NEW c \in session[n].valid
                 PROVE  FinalCommitmentOf(n, c) \in FinalCommitment
      OBVIOUS
    <3>1. session[n].valid \subseteq Commitment
      BY Zenon DEF TypeInv, SessionOK, Session
    <3> DEFINE signers == {x.from : x \in {y \in WithValid(n, c.valid) : y.key = c.key}}
    <3>2. signers \in SUBSET Members
      BY Zenon, <3>1 DEF WithValid, Commitment
    <3>3. c.valid \in SUBSET Members /\ c.key \in Keys
      BY Zenon, <3>1 DEF Commitment
    <3> DEFINE checked == HasVvecs(db[n], c.valid)
    <3>4. checked \in BOOLEAN
      BY Zenon DEF HasVvecs
    <3> HIDE DEF signers, checked
    <3>5. [valid |-> c.valid, key |-> c.key, checked |-> checked, signers |-> signers]
            \in FinalCommitment
      BY Zenon, <3>2, <3>3, <3>4 DEF FinalCommitment
    <3>. QED
      BY Zenon, <3>5 DEF FinalCommitmentOf, signers, checked
  <2> DEFINE F == {FinalCommitmentOf(n, first[V]) : V \in Majorities(n)}
  <2>3. F \in SUBSET FinalCommitment
    BY Zenon, <2>2
  <2> HIDE DEF F
  <2>4. minable' = [minable EXCEPT ![n] = @ \cup F]
    BY Zenon, <2>1 DEF F
  <2>. QED
    BY Zenon, <1>1, <2>3, <2>4
<1>. QED
  BY Zenon, <1>2, <1>3

LEMMA TypeInvNext == TypeInv /\ [Next]_vars => TypeInv'
<1> SUFFICES ASSUME TypeInv, [Next]_vars PROVE TypeInv'
  OBVIOUS
<1>1. ASSUME NEW n \in Members, UpdatedBlockTip(n) \/ Rewind(n) \/ Abort(n) PROVE TypeInv'
  <2>1. UNCHANGED <<faulty, session, pending, net, db, minable>>
    BY Zenon, <1>1 DEF UpdatedBlockTip, Rewind, Abort
  <2>. QED
    BY Zenon, <1>1, <2>1, ThreadType DEF TypeInv, DkgTypeOK
<1>2. ASSUME NEW n \in Members, HandleDKGRound(n) PROVE TypeInv'
  <2>1. UNCHANGED <<faulty, net, db, minable>>
    BY Zenon, <1>2 DEF HandleDKGRound
  <2>2. session' = [session EXCEPT ![n] = EmptySession] /\ UNCHANGED db
    BY Zenon, <1>2 DEF HandleDKGRound
  <2>3. Moves(n, EmptySession, db[n])
    BY Zenon, <2>2, EmptySessionOK, SameDatabase
  <2>4. /\ session' \in [Members -> Session]
        /\ \A m \in Members : SessionOK(session'[m])
    BY Zenon, <2>3, MovesType
  <2>5. pending' \in [Members -> SUBSET Message]
    BY Zenon, <1>2 DEF HandleDKGRound, TypeInv, DkgTypeOK
  <2>. QED
    BY Zenon, <1>2, <2>1, <2>4, <2>5, ThreadType DEF TypeInv, DkgTypeOK
<1>3. ASSUME NEW n \in Members, NextPhase(n) PROVE TypeInv'
  <2>1. UNCHANGED <<faulty, session, pending, net, db>>
    BY Zenon, <1>3 DEF NextPhase
  <2>. QED
    BY Zenon, <1>3, <2>1, ThreadType, FinalizeType DEF TypeInv, DkgTypeOK
<1>4. ASSUME NEW n \in Members, StartPhase(n) PROVE TypeInv'
  <2>1. /\ started' = [started EXCEPT ![n] = TRUE]
        /\ UNCHANGED <<faulty, phase, stage, round, net, minable, untimely>>
    BY Zenon, <1>4, StartPhaseEffect
  <2>2. PICK s, d, new : /\ Moves(n, s, d) /\ NewMessages(n, new)
                         /\ pending' = [pending EXCEPT ![n] = @ \cup new]
    BY <1>4, StartPhaseEffect
  <2>3. pending' \in [Members -> SUBSET Message]
    BY Zenon, <2>2 DEF NewMessages, TypeInv, DkgTypeOK
  <2>4. started' \in [Members -> BOOLEAN]
    BY Zenon, <2>1 DEF TypeInv, DkgTypeOK
  <2>5. RoundInv'
    BY Zenon, <2>1 DEF TypeInv, RoundInv
  <2>6. /\ session' \in [Members -> Session]
        /\ db' \in [Members -> [vvec : Keys, sk : Keys]]
        /\ \A m \in Members : SessionOK(session'[m])
    BY Zenon, <2>2, MovesType
  <2>. QED
    BY Zenon, <2>1, <2>3, <2>4, <2>5, <2>6 DEF TypeInv, DkgTypeOK
<1>5. ASSUME NEW n \in Members, NEW x \in net \cup pending[n], ProcessPendingMessage(n, x)
      PROVE  TypeInv'
  <2>1. /\ x \in Message /\ net' \in {net, net \cup {x}}
        /\ pending' = [pending EXCEPT ![n] = @ \ {x}]
        /\ UNCHANGED threadVars
    BY Zenon, <1>5, ProcessEffect
  <2>2. PICK s, d : Moves(n, s, d)
    BY Zenon, <1>5, ProcessEffect
  <2>3. pending' \in [Members -> SUBSET Message] /\ net' \subseteq Message
    BY Zenon, <2>1 DEF TypeInv, DkgTypeOK
  <2>4. RoundInv'
    BY Zenon, <2>1 DEF TypeInv, RoundInv, threadVars
  <2>5. /\ session' \in [Members -> Session]
        /\ db' \in [Members -> [vvec : Keys, sk : Keys]]
        /\ \A m \in Members : SessionOK(session'[m])
    BY Zenon, <2>2, MovesType
  <2>. QED
    BY Zenon, <2>1, <2>3, <2>4, <2>5 DEF TypeInv, DkgTypeOK, threadVars
<1>6. CASE UNCHANGED vars
  BY Zenon, <1>6 DEF vars, TypeInv, DkgTypeOK, RoundInv
<1>. QED
  BY Zenon, <1>1, <1>2, <1>3, <1>4, <1>5, <1>6 DEF Next, PhaseThread, RoundOver

\* The variables have their types; a member begins at most one session more than there
\* were phases undone or cut short.
THEOREM DkgTypeCorrect == Spec => []DkgTypeOK
<1>1. TypeInv => DkgTypeOK
  BY Zenon DEF TypeInv
<1>. QED
  BY <1>1, TypeInvInit, TypeInvNext, PTL DEF Spec

-----------------------------------------------------------------------------
(* Accepted and final commitments.                                         *)

\* A key fits as long as the verification vectors are the same.
LEMMA FitsByVvec ==
  ASSUME NEW d, NEW e, d.vvec = e.vvec, NEW c, Fits(d, c)
  PROVE  Fits(e, c)
BY Zenon DEF Fits, HasVvecs, QuorumVvec

\* The premature commitments n has accepted are announced and fit what n stored.
Accepted(n) ==
  /\ session[n].valid \subseteq net
  /\ session[n].valid # {} => stage[n] \in {Waiting, Commit, Finalize}
  /\ \A x \in session[n].valid : Fits(db[n], x)

\* q has announced a premature commitment for f's members and key.
Signed(q, f) ==
  \E x \in net : x.kind = Commit /\ x.from = q /\ x.valid = f.valid /\ x.key = f.key

\* What is left of a session in its final commitments once a new one has begun.
Backed(f) ==
  /\ f.checked => Cardinality(f.signers) >= MinSize
  /\ \A q \in f.signers : Signed(q, f)

FinalInv == \A n \in Members : Accepted(n) /\ \A f \in minable[n] : Backed(f)

\* Messages are never taken back.
LEMMA BackedStays ==
  ASSUME NEW f, Backed(f), net \subseteq net'
  PROVE  Backed(f)'
BY Zenon DEF Backed, Signed

\* What n has accepted depends on its own session, vectors and stage only.
LEMMA OwnState ==
  ASSUME NEW n \in Members, Accepted(n),
         session'[n].valid = session[n].valid, db'[n].vvec = db[n].vvec,
         net \subseteq net', stage'[n] = stage[n]
  PROVE  Accepted(n)'
<1>1. \A x \in session[n].valid : Fits(db'[n], x)
  BY Zenon, FitsByVvec DEF Accepted
<1>2. \A x \in session'[n].valid : Fits(db[n], x)'
  BY Zenon, <1>1 DEF Fits, HasVvecs, QuorumVvec
<1>. QED
  BY Zenon, <1>2 DEF Accepted

\* A member that processes a message.
LEMMA ProcessAccepted ==
  ASSUME TypeInv, NEW n \in Members, Accepted(n),
         NEW x \in net \cup pending[n], ProcessPendingMessage(n, x)
  PROVE  Accepted(n)'
<1>1. net \subseteq net' /\ UNCHANGED stage
  BY Zenon, ProcessEffect DEF threadVars
<1>2. PICK s, d :
        /\ Moves(n, s, d)
        /\ stage[n] = Contribute \/ d.vvec = db[n].vvec
        /\ \/ s.valid = session[n].valid
           \/ /\ s.valid = session[n].valid \cup {x} /\ stage[n] = Commit
              /\ x.kind = Commit /\ Fits(db[n], x) /\ x \in net'
  BY Zenon, ProcessEffect
<1>3. session'[n] = s /\ db'[n] = d
  BY Zenon, <1>2 DEF Moves, TypeInv, DkgTypeOK
<1>4. CASE stage[n] = Contribute
  <2>1. session[n].valid = {} /\ s.valid = {}
    BY <1>2, <1>4 DEF Accepted, Contribute, Waiting, Commit, Finalize
  <2>. QED
    BY Zenon, <1>3, <2>1 DEF Accepted
<1>5. CASE stage[n] # Contribute
  <2>1. d.vvec = db[n].vvec
    BY Zenon, <1>2, <1>5
  <2>2. \A y \in s.valid : Fits(db[n], y)
    BY Zenon, <1>2 DEF Accepted
  <2>3. \A y \in s.valid : Fits(d, y)
    BY Zenon, <2>1, <2>2, FitsByVvec
  <2>4. s.valid \subseteq net'
    BY Zenon, <1>1, <1>2 DEF Accepted
  <2>5. s.valid # {} => stage'[n] \in {Waiting, Commit, Finalize}
    BY Zenon, <1>1, <1>2 DEF Accepted
  <2>6. \A y \in session'[n].valid : Fits(db[n], y)'
    BY <1>3, <2>3 DEF Fits, HasVvecs, QuorumVvec
  <2>. QED
    BY Zenon, <1>3, <2>4, <2>5, <2>6 DEF Accepted
<1>. QED
  BY Zenon, <1>4, <1>5

\* As many signers as commitments, since those of one member that fit are the same, also
\* if it has committed again.
LEMMA CountSigners ==
  ASSUME NEW W \in SUBSET Commitment,
         \A x, y \in W : x.valid = y.valid /\ x.key = y.key /\ x.share = y.share
  PROVE  Cardinality({x.from : x \in W}) = Cardinality(W)
<1> DEFINE T == {x.from : x \in W}
           g == [x \in W |-> x.from]
<1>1. T \subseteq Members
  BY Zenon DEF Commitment
<1>2. \A x, y \in W : x.from = y.from => x = y
  BY DEF Commitment
<1>3. IsFiniteSet(T)
  BY Zenon, <1>1, DkgAssumption, FS_Subset
<1>4. g \in Injection(W, T) /\ g \in Surjection(W, T)
  BY Zenon, <1>2 DEF Injection, Surjection, IsInjective
<1>. QED
  BY Zenon, <1>1, <1>3, <1>4, FS_Injection

\* FinalizeCommitments makes final commitments that are backed: if the member can verify
\* the premature ones it has accepted, there are none with another key to skip.
LEMMA FinalIsBacked ==
  ASSUME TypeInv, NEW n \in Members, Accepted(n), NEW first \in session[n].valid,
         Cardinality(WithValid(n, first.valid)) >= MinSize
  PROVE  Backed(FinalCommitmentOf(n, first))
<1> DEFINE f == FinalCommitmentOf(n, first)
           W == WithValid(n, first.valid)
           K == {x \in W : x.key = first.key}
<1>1. /\ f.valid = first.valid /\ f.key = first.key /\ f.signers = {c.from : c \in K}
      /\ f.checked = HasVvecs(db[n], first.valid)
  BY Zenon DEF FinalCommitmentOf
<1>2. \A x \in W : x \in session[n].valid /\ x.valid = first.valid
  BY Zenon DEF WithValid
<1>3. session[n].valid \subseteq Commitment
  BY Zenon DEF TypeInv, SessionOK, Session
<1>4. ASSUME NEW q \in f.signers PROVE Signed(q, f)
  <2>1. PICK x \in K : x.from = q
    BY Zenon, <1>1
  <2>2. x \in net /\ x.kind = Commit /\ x.valid = first.valid /\ x.key = first.key
    BY Zenon, <1>2, <1>3 DEF Accepted, Commitment
  <2> HIDE DEF f, K
  <2>. QED
    BY Zenon, <1>1, <2>1, <2>2 DEF Signed
<1>5. ASSUME HasVvecs(db[n], first.valid) PROVE Cardinality(f.signers) >= MinSize
  <2>1. \A x \in W : x.key = QuorumVvec(db[n], first.valid) /\ x.share = x.key
    BY Zenon, <1>2, <1>5 DEF Accepted, Fits
  <2>2. first \in W
    BY Zenon DEF WithValid
  <2>3. K = W
    BY Zenon, <2>1, <2>2
  <2>4. f.signers = {c.from : c \in W}
    BY Zenon, <1>1, <2>3
  <2>5. W \in SUBSET Commitment
    BY Zenon, <1>2, <1>3
  <2>6. Cardinality(W) >= MinSize
    OBVIOUS
  <2> HIDE DEF W, K, f
  <2>7. \A x, y \in W : x.valid = y.valid /\ x.key = y.key /\ x.share = y.share
    BY Zenon, <1>2, <2>1
  <2>8. Cardinality({c.from : c \in W}) = Cardinality(W)
    BY Zenon, <2>5, <2>7, CountSigners
  <2>. QED
    BY Zenon, <2>4, <2>6, <2>8
<1> HIDE DEF f
<1>6. Backed(f)
  BY Zenon, <1>1, <1>4, <1>5 DEF Backed
<1>. QED
  BY Zenon, <1>6 DEF f

\* The next phase begins; the last one ends with the final commitments of the session.
LEMMA NextPhaseFinal ==
  ASSUME TypeInv, NEW n \in Members, Accepted(n), \A f \in minable[n] : Backed(f), NextPhase(n)
  PROVE  Accepted(n)' /\ \A f \in minable'[n] : Backed(f)
<1>1. /\ UNCHANGED <<session, db, net>> /\ stage'[n] = stage[n] + 1
      /\ stage[n] \in Initialized..Commit
  BY DEF NextPhase, TypeInv, DkgTypeOK, Initialized, Commit, Finalize
<1>2. Accepted(n)'
  BY <1>1 DEF Accepted, Waiting, Initialized, Commit, Finalize, Fits, HasVvecs, QuorumVvec
<1>3. CASE stage[n] # Commit
  BY Zenon, <1>2, <1>3 DEF NextPhase
<1>4. CASE stage[n] = Commit
  <2>1. PICK first \in [Majorities(n) -> session[n].valid] :
          /\ \A V \in Majorities(n) : first[V].valid = V
          /\ minable' = [minable EXCEPT ![n] = @ \cup
                           {FinalCommitmentOf(n, first[V]) : V \in Majorities(n)}]
    <3>1. \E first \in {f \in [Majorities(n) -> session[n].valid] :
                           \A V \in Majorities(n) : f[V].valid = V} :
            minable' = [minable EXCEPT ![n] = @ \cup
                          {FinalCommitmentOf(n, first[V]) : V \in Majorities(n)}]
      BY ONLY <1>4, NextPhase(n) DEF NextPhase, Commit
    <3>. QED
      BY ONLY <3>1, Zenon
  <2>2. minable'[n] = minable[n] \cup {FinalCommitmentOf(n, first[V]) : V \in Majorities(n)}
    BY Zenon, <2>1 DEF TypeInv, DkgTypeOK
  <2>3. ASSUME NEW V \in Majorities(n) PROVE Backed(FinalCommitmentOf(n, first[V]))
    <3>1. /\ first[V] \in session[n].valid /\ first[V].valid = V
          /\ Cardinality(WithValid(n, V)) >= MinSize
      BY Zenon, <2>1 DEF Majorities
    <3>. QED
      BY Zenon, <3>1, FinalIsBacked
  <2>. QED
    BY Zenon, <1>2, <2>2, <2>3
<1>. QED
  BY Zenon, <1>3, <1>4

LEMMA FinalInvNext == TypeInv /\ FinalInv /\ [Next]_vars => FinalInv'
<1> SUFFICES ASSUME TypeInv, FinalInv, [Next]_vars, NEW m \in Members
             PROVE  net \subseteq net' /\ Accepted(m)' /\ \A f \in minable'[m] : Backed(f)
  BY Zenon, BackedStays DEF FinalInv
<1>0. Accepted(m) /\ \A f \in minable[m] : Backed(f)
  BY Zenon DEF FinalInv
<1>t. /\ session \in [Members -> Session] /\ db \in [Members -> [vvec : Keys, sk : Keys]]
      /\ stage \in [Members -> Waiting..Finalize]
      /\ minable \in [Members -> SUBSET FinalCommitment]
  BY Zenon DEF TypeInv, DkgTypeOK
<1> DEFINE Goal == net \subseteq net' /\ Accepted(m)' /\ \A f \in minable'[m] : Backed(f)
<1>1. ASSUME NEW n \in Members, UpdatedBlockTip(n) \/ Rewind(n) PROVE Goal
  <2>1. UNCHANGED <<session, db, net, stage, minable>>
    BY Zenon, <1>1 DEF UpdatedBlockTip, Rewind
  <2>. QED
    BY Zenon, <1>0, <2>1, OwnState
<1>2. ASSUME NEW n \in Members, Abort(n) PROVE Goal
  <2>1. UNCHANGED <<session, db, net, minable>> /\ stage' = [stage EXCEPT ![n] = Waiting]
    BY Zenon, <1>2 DEF Abort
  <2>2. CASE m # n
    BY Zenon, <1>0, <1>t, <2>1, <2>2, OwnState
  <2>3. CASE m = n
    <3>1. stage'[m] = Waiting
      BY Zenon, <1>t, <2>1, <2>3
    <3>2. Accepted(m)'
      BY Zenon, <1>0, <2>1, <3>1 DEF Accepted, Fits, HasVvecs, QuorumVvec
    <3>. QED
      BY Zenon, <1>0, <2>1, <3>2
  <2>. QED
    BY Zenon, <2>2, <2>3
<1>3. ASSUME NEW n \in Members, HandleDKGRound(n) PROVE Goal
  <2>1. /\ UNCHANGED <<db, net, minable>> /\ stage' = [stage EXCEPT ![n] = Initialized]
        /\ session' = [session EXCEPT ![n] = EmptySession]
    BY Zenon, <1>3 DEF HandleDKGRound
  <2>2. CASE m # n
    BY Zenon, <1>0, <1>t, <2>1, <2>2, OwnState
  <2>3. CASE m = n
    <3>1. session'[m].valid = {}
      BY Zenon, <1>t, <2>1, <2>3, EmptySessionOK
    <3>. QED
      BY Zenon, <1>0, <2>1, <3>1 DEF Accepted
  <2>. QED
    BY Zenon, <2>2, <2>3
<1>4. ASSUME NEW n \in Members, NextPhase(n) PROVE Goal
  <2>1. UNCHANGED <<session, db, net>> /\ stage' = [stage EXCEPT ![n] = @ + 1]
    BY Zenon, <1>4 DEF NextPhase
  <2>2. CASE m = n
    BY Zenon, <1>0, <1>4, <2>1, <2>2, NextPhaseFinal
  <2>3. CASE m # n
    <3>1. minable'[m] = minable[m]
      BY Zenon, <1>4, <1>t, <2>3 DEF NextPhase
    <3>. QED
      BY Zenon, <1>0, <1>t, <2>1, <2>3, <3>1, OwnState
  <2>. QED
    BY Zenon, <2>2, <2>3
<1>5. ASSUME NEW n \in Members, StartPhase(n) PROVE Goal
  <2>1. UNCHANGED <<stage, net, minable>>
    BY Zenon, <1>5, StartPhaseEffect
  <2>2. PICK s, d : Moves(n, s, d) /\ s.valid = session[n].valid /\ d.vvec = db[n].vvec
    BY <1>5, StartPhaseEffect
  <2>3. session'[m].valid = session[m].valid /\ db'[m].vvec = db[m].vvec
    BY Zenon, <1>t, <2>2 DEF Moves
  <2>. QED
    BY Zenon, <1>0, <2>1, <2>3, OwnState
<1>6. ASSUME NEW n \in Members, NEW x \in net \cup pending[n], ProcessPendingMessage(n, x)
      PROVE  Goal
  <2>1. net \subseteq net' /\ UNCHANGED <<stage, minable>>
    BY Zenon, <1>6, ProcessEffect DEF threadVars
  <2>2. CASE m = n
    BY Zenon, <1>0, <1>6, <2>1, <2>2, ProcessAccepted
  <2>3. CASE m # n
    <3>1. PICK s, d : Moves(n, s, d)
      BY Zenon, <1>6, ProcessEffect
    <3>2. session'[m] = session[m] /\ db'[m] = db[m]
      BY Zenon, <1>t, <2>3, <3>1 DEF Moves
    <3>. QED
      BY Zenon, <1>0, <2>1, <3>2, OwnState
  <2>. QED
    BY Zenon, <2>2, <2>3
<1>7. CASE UNCHANGED vars
  <2>1. UNCHANGED <<session, db, net, stage, minable>>
    BY Zenon, <1>7 DEF vars
  <2>. QED
    BY Zenon, <1>0, <2>1, OwnState
<1>. QED
  BY Zenon, <1>1, <1>2, <1>3, <1>4, <1>5, <1>6, <1>7 DEF Next, PhaseThread, RoundOver

LEMMA DkgInvariance == Spec => [](TypeInv /\ FinalInv)
<1>1. Init => FinalInv
  <2> SUFFICES ASSUME Init PROVE FinalInv
    OBVIOUS
  <2>1. \A n \in Members : session[n].valid = {} /\ minable[n] = {}
    BY Zenon, EmptySessionOK DEF Init
  <2>. QED
    BY Zenon, <2>1 DEF FinalInv, Accepted
<1>. QED
  BY <1>1, TypeInvInit, TypeInvNext, FinalInvNext, PTL DEF Spec

-----------------------------------------------------------------------------
(* The theorems.                                                           *)

\* FinalizeCommitments hands over what minSize members signed, if the member has the
\* contributions: it counts the commitments before it skips those with another key, but
\* then there are none of those.
THEOREM FinalCommitmentsAreSigned == Spec => []FinalIsSigned
<1>1. FinalInv => FinalIsSigned
  BY Zenon DEF FinalInv, Backed, FinalIsSigned
<1>. QED
  BY <1>1, DkgInvariance, PTL

\* Members that signed two final commitments of different keys or members committed twice.
LEMMA SignersRecommitted ==
  ASSUME NEW f, NEW g, Backed(f), Backed(g), f.signers \subseteq Members,
         ~(f.valid = g.valid /\ f.key = g.key)
  PROVE  f.signers \cap g.signers \subseteq Recommitted
<1> SUFFICES ASSUME NEW q \in f.signers \cap g.signers PROVE q \in Recommitted
  OBVIOUS
<1>1. PICK x \in net : x.kind = Commit /\ x.from = q /\ x.valid = f.valid /\ x.key = f.key
  BY Zenon DEF Backed, Signed
<1>2. PICK y \in net : y.kind = Commit /\ y.from = q /\ y.valid = g.valid /\ y.key = g.key
  BY Zenon DEF Backed, Signed
<1>3. x # y /\ q \in Members
  BY Zenon, <1>1, <1>2
<1>. QED
  BY Zenon, <1>1, <1>2, <1>3 DEF Recommitted

\* Two sets of minSize members have that many in common.
LEMMA CommonMembers ==
  ASSUME NEW A \in SUBSET Members, NEW B \in SUBSET Members,
         Cardinality(A) >= MinSize, Cardinality(B) >= MinSize
  PROVE  /\ Cardinality(A \cap B) >= 2 * MinSize - Cardinality(Members)
         /\ Cardinality(A \cap B) \in Nat
<1>1. IsFiniteSet(Members) /\ MinSize \in Nat
  BY DkgAssumption
<1>2. /\ IsFiniteSet(A) /\ IsFiniteSet(B) /\ IsFiniteSet(A \cap B)
      /\ Cardinality(A \cup B) <= Cardinality(Members)
  BY ZenonT(40), <1>1, FS_Subset
<1>3. Cardinality(A \cup B) = Cardinality(A) + Cardinality(B) - Cardinality(A \cap B)
  BY Zenon, <1>2, FS_Union
<1>4. /\ Cardinality(A) \in Nat /\ Cardinality(B) \in Nat /\ Cardinality(A \cap B) \in Nat
      /\ Cardinality(Members) \in Nat
  BY Zenon, <1>1, <1>2, FS_CardinalityType
<1>. QED
  BY <1>1, <1>2, <1>3, <1>4

\* Whatever members miss or simulate, whenever their phases end and however their tips go
\* back, no two of them hand over final commitments of different keys or members, if each
\* could verify its own or has minSize signatures on it, until as many members as two sets
\* of minSize have in common have committed again in another session of the quorum.
THEOREM OneKeyPerQuorum == Spec => []OneQuorumKey
<1>1. ASSUME TypeInv, FinalInv PROVE OneQuorumKey
  <2> SUFFICES ASSUME Cardinality(Recommitted) < 2 * MinSize - Cardinality(Members),
                      NEW f \in UNION {minable[n] : n \in Members},
                      NEW g \in UNION {minable[n] : n \in Members}, Trusted(f), Trusted(g),
                      ~(f.valid = g.valid /\ f.key = g.key)
               PROVE  FALSE
    BY Zenon DEF OneQuorumKey
  <2>1. f \in FinalCommitment /\ g \in FinalCommitment
    BY Zenon, <1>1 DEF TypeInv, DkgTypeOK
  <2>2. f.signers \in SUBSET Members /\ g.signers \in SUBSET Members
    BY Zenon, <2>1 DEF FinalCommitment
  <2>3. Backed(f) /\ Backed(g)
    BY Zenon, <1>1 DEF FinalInv
  <2>4. Cardinality(f.signers) >= MinSize /\ Cardinality(g.signers) >= MinSize
    BY Zenon, <2>3 DEF Backed, Trusted
  <2>5. /\ Cardinality(f.signers \cap g.signers) >= 2 * MinSize - Cardinality(Members)
        /\ Cardinality(f.signers \cap g.signers) \in Nat
    BY Zenon, <2>2, <2>4, CommonMembers
  <2>6. f.signers \cap g.signers \subseteq Recommitted
    BY Zenon, <2>2, <2>3, SignersRecommitted
  <2>7. IsFiniteSet(Recommitted)
    BY Zenon, DkgAssumption, FS_Subset DEF Recommitted
  <2>8. /\ Cardinality(f.signers \cap g.signers) <= Cardinality(Recommitted)
        /\ Cardinality(Recommitted) \in Nat
    BY Zenon, <2>6, <2>7, FS_Subset, FS_CardinalityType
  <2>9. Cardinality(Members) \in Nat /\ MinSize \in Nat
    BY Zenon, DkgAssumption, FS_CardinalityType
  <2>. QED
    BY <2>5, <2>8, <2>9
<1>. QED
  BY <1>1, DkgInvariance, PTL

-----------------------------------------------------------------------------
(* What a session says of the members, from the messages it holds.         *)

Senders(W) == {x.from : x \in W}

\* Members without a contribution, with enough bad votes, with an answer that is wrong
\* or was not asked for, and with complaints they have not answered.
Silent(s) == Members \ Senders(s.contributions)
Voters(s, m) == Senders({x \in s.complaints : m \in x.bad})
Voted(s) == {m \in Members : Cardinality(Voters(s, m)) >= BadVotes}
Complainers(s, m) == Senders({x \in s.complaints : m \in x.for})
Unfounded(s, j) == ~(j.for \subseteq Complainers(s, j.from)) \/ j.for \cap j.lies # {}
Wrong(s) == Senders({j \in s.justifications : Unfounded(s, j)})
Unanswered(s, m) ==
  {q \in Complainers(s, m) : \A j \in s.justifications : j.from = m => q \notin j.for}
Open(s) == {m \in Members : Unanswered(s, m) # {}}

\* The bad members once the start functions up to phase k have run.
BadAfter(s, k) ==
  (IF k >= Complain THEN Silent(s) ELSE {}) \cup (IF k >= Justify THEN Voted(s) ELSE {})
  \cup Wrong(s) \cup (IF k >= Commit THEN Open(s) ELSE {})

\* A session s and stored contributions d are functions of the messages in s, whatever
\* the order they came in: but for the shares, which depend on the member.
View(s, d, k) ==
  /\ s.bad = BadAfter(s, k)
  /\ s.valid = s.commitments
  /\ \A m \in Members :
       /\ s.badVotes[m] = Voters(s, m)
       /\ (\A j \in s.justifications : j.from # m) => s.complaintsFrom[m] = Complainers(s, m)
       /\ m \notin s.bad => s.complaintsFrom[m] = Unanswered(s, m)
       /\ d.vvec[m] = IF m \in Senders(s.contributions) THEN 1 ELSE 0
       /\ d.sk[m] \in {0, 1}

\* An honest member n has the share of a contribution or complains about it, until it is
\* answered, and commits if there are enough valid members.
Shares(n, s, d, k, S) ==
  /\ \A m \in Senders(s.contributions) :
       m \in s.unverified \/ d.sk[m] = 1 \/ m \in s.weComplain
  /\ k >= Complain =>
       /\ s.unverified = {}
       /\ \A m \in s.weComplain \ s.bad : \E c \in S : c.kind = Complain /\ c.from = n /\ m \in c.for
  /\ \A j \in s.justifications : n \in j.for /\ j.from \notin s.bad => j.from \notin s.weComplain
  /\ k >= Commit => \/ Cardinality(Members \ s.bad) < MinSize
                    \/ \E c \in S : c.kind = Commit /\ c.from = n

\* An honest member h contributes, and answers the complaints of members that are not
\* bad and no others.
Answers(h, s, k, S) ==
  /\ k >= Contribute => \E x \in S : x.kind = Contribute /\ x.from = h
  /\ \A j \in S : j.kind = Justify /\ j.from = h => j.lies = {} /\ j.for \subseteq Complainers(s, h)
  /\ k >= Justify => \A q \in Complainers(s, h) :
       q \in s.bad \/ \E j \in S : j.kind = Justify /\ j.from = h /\ q \in j.for

-----------------------------------------------------------------------------
(* The inductive invariant of the behaviours in which every phase is long  *)
(* enough.                                                                 *)

\* The last phase whose start function n has run, Initialized having none.
Ran(n) == IF started[n] /\ stage[n] # Finalize THEN stage[n] ELSE stage[n] - 1

Sent == net \cup UNION {pending[n] : n \in Members}

\* The phase p is over for some member.
Over(p) == \E m \in Members : phase[m] > p

\* A thread is in the phase of its member's tip, or about to enter it with the work of
\* the one before done, or through with the session.
InStep ==
  \A n \in Members :
    /\ \/ stage[n] = phase[n]
       \/ stage[n] = phase[n] - 1 /\ (stage[n] = Waiting \/ Ran(n) = stage[n])
       \/ stage[n] = Finalize /\ phase[n] = Idle
    /\ stage[n] = Waiting => round[n] = 0 /\ session[n] = EmptySession /\ ~started[n]
    /\ stage[n] # Waiting => round[n] = 1
    /\ stage[n] \in {Initialized, Finalize} => started[n]

\* When a phase is over for one member, all have done their part and have all messages.
AllReceived ==
  \A p \in Initialized..Commit : Over(p) =>
    \A n \in Members :
      /\ Ran(n) >= p
      /\ \A x \in net \cup pending[n] : x.kind = p => x \in Received(session[n])

\* A member makes one message in a phase, in its start function, and receives messages
\* that were announced.
MessageInv ==
  /\ \A x \in Sent : Ran(x.from) >= x.kind /\ (x.kind # Commit => x.round = 1)
  /\ \A x, y \in Sent : x.from = y.from /\ x.kind = y.kind => x = y
  /\ \A n \in Members : \A x \in pending[n] : x.from = n /\ x \notin Received(session[n])
  /\ \A n \in Members : \A x \in Received(session[n]) : x \in net /\ x.kind <= stage[n]

ViewInv == \A n \in Members : View(session[n], db[n], Ran(n))

\* The key and the share of a commitment are those of the first and only round.
Ones(V) == [m \in Members |-> IF m \in V THEN 1 ELSE 0]

CommitmentsAgree ==
  \A c \in Sent : c.kind = Commit =>
    c.valid = Members \ session[c.from].bad /\ c.key = Ones(c.valid) /\ c.share = Ones(c.valid)

FinalsOf(W) ==
  IF Cardinality(W) >= MinSize
  THEN {[valid |-> c.valid, key |-> c.key, checked |-> TRUE, signers |-> Senders(W)] : c \in W}
  ELSE {}

FinalsAgree ==
  \A n \in Members :
    minable[n] = IF stage[n] = Finalize THEN FinalsOf(session[n].commitments) ELSE {}

FairComplaints == \A c \in Sent : c.kind = Complain => c.bad \cap Honest = {}
AnswerInv == \A n \in Honest : Answers(n, session[n], Ran(n), Sent)
ShareInv == \A n \in Honest : Shares(n, session[n], db[n], Ran(n), Sent)

TimelyInv ==
  /\ InStep /\ AllReceived /\ MessageInv /\ ViewInv /\ CommitmentsAgree /\ FinalsAgree
  /\ FairComplaints /\ AnswerInv /\ ShareInv

-----------------------------------------------------------------------------
(* Phases and messages.                                                    *)

LEMMA Types ==
  ASSUME TypeInv
  PROVE  /\ phase \in [Members -> Initialized..Idle]
         /\ stage \in [Members -> Waiting..Finalize]
         /\ started \in [Members -> BOOLEAN]
         /\ round \in [Members -> Nat]
         /\ session \in [Members -> Session]
         /\ pending \in [Members -> SUBSET Message] /\ net \subseteq Message
         /\ db \in [Members -> Contributions]
         /\ minable \in [Members -> SUBSET FinalCommitment]
         /\ Sent \subseteq Message
         /\ \A n \in Members : Ran(n) \in -1..Commit
<1>1. round \in [Members -> Nat]
  BY DEF TypeInv, DkgTypeOK
<1>2. /\ phase \in [Members -> Initialized..Idle]
      /\ stage \in [Members -> Waiting..Finalize]
      /\ started \in [Members -> BOOLEAN]
      /\ session \in [Members -> Session]
      /\ pending \in [Members -> SUBSET Message] /\ net \subseteq Message
      /\ db \in [Members -> Contributions]
      /\ minable \in [Members -> SUBSET FinalCommitment]
  BY Zenon DEF TypeInv, DkgTypeOK, Contributions
<1>3. Sent \subseteq Message
  BY Zenon, <1>2 DEF Sent
<1>4. \A n \in Members : Ran(n) \in -1..Commit
  BY <1>2 DEF Ran, Waiting, Finalize, Commit
<1>. QED
  BY Zenon, <1>1, <1>2, <1>3, <1>4

\* The messages of a kind in a session.
LEMMA OfKind ==
  ASSUME NEW s \in Session
  PROVE  /\ s.contributions = {x \in Received(s) : x.kind = Contribute}
         /\ s.complaints = {x \in Received(s) : x.kind = Complain}
         /\ s.justifications = {x \in Received(s) : x.kind = Justify}
         /\ s.commitments = {x \in Received(s) : x.kind = Commit}
<1>1. /\ s.contributions \subseteq Contribution /\ s.complaints \subseteq Complaint
      /\ s.justifications \subseteq Justification /\ s.commitments \subseteq Commitment
  BY Zenon DEF Session
<1>2. /\ \A y \in s.contributions : y.kind = Contribute
      /\ \A y \in s.complaints : y.kind = Complain
      /\ \A y \in s.justifications : y.kind = Justify
      /\ \A y \in s.commitments : y.kind = Commit
  BY Zenon, <1>1 DEF Contribution, Complaint, Justification, Commitment
<1>3. /\ Contribute # Complain /\ Contribute # Justify /\ Contribute # Commit
      /\ Complain # Justify /\ Complain # Commit /\ Justify # Commit
  BY DEF Contribute, Complain, Justify, Commit
<1>. QED
  BY <1>2, <1>3 DEF Received

LEMMA Kinds ==
  ASSUME NEW x \in Message
  PROVE  x.kind \in Contribute..Commit /\ x.kind \in {Contribute, Complain, Justify, Commit}
BY DEF Message, Contribution, Complaint, Justification, Commitment, Contribute, Complain,
       Justify, Commit

\* A phase some thread has left, or whose successor it has begun, is over.
LEMMA StageOver ==
  ASSUME TypeInv, InStep, NEW n \in Members, NEW p \in Nat, stage[n] > p
  PROVE  Over(p)
BY Types DEF InStep, Over, Waiting, Initialized, Finalize, Idle

\* A phase that n has not run is not over.
LEMMA NotOver ==
  ASSUME AllReceived, TypeInv, NEW n \in Members, NEW p \in Initialized..Commit, Ran(n) < p
  PROVE  ~Over(p)
<1>1. Ran(n) \in -1..Commit
  BY Zenon, Types
<1>. QED
  BY <1>1 DEF AllReceived, Initialized, Commit

\* The messages of a phase that is over are announced and every member has them.
LEMMA OverReceived ==
  ASSUME TypeInv, AllReceived, MessageInv, NEW x \in Sent, Over(x.kind)
  PROVE  x \in net /\ \A n \in Members : x \in Received(session[n])
<1>1. x \in Message /\ x.kind \in Initialized..Commit
  BY Types, Kinds DEF Contribute, Initialized, Commit
<1>2. \A n \in Members : x \notin pending[n]
  BY Zenon, <1>1 DEF AllReceived, MessageInv
<1>. QED
  BY Zenon, <1>1, <1>2 DEF AllReceived, Sent

LEMMA ReceivedAreSent ==
  ASSUME TypeInv, MessageInv, NEW n \in Members, NEW x \in Received(session[n])
  PROVE  x \in Sent /\ x \in net /\ x \in Message
BY Zenon, Types DEF MessageInv, Sent

\* Then all have the same messages of the phase.
LEMMA SameReceived ==
  ASSUME TypeInv, AllReceived, MessageInv, NEW n \in Members, NEW m \in Members
  PROVE  /\ Over(Contribute) => session[n].contributions = session[m].contributions
         /\ Over(Complain) => session[n].complaints = session[m].complaints
         /\ Over(Justify) => session[n].justifications = session[m].justifications
         /\ Over(Commit) => session[n].commitments = session[m].commitments
<1>1. ASSUME NEW a \in Members, NEW b \in Members, NEW x \in Received(session[a]), Over(x.kind)
      PROVE  x \in Received(session[b])
  BY Zenon, <1>1, ReceivedAreSent, OverReceived
<1>2. ASSUME NEW p, Over(p)
      PROVE  {x \in Received(session[n]) : x.kind = p} = {x \in Received(session[m]) : x.kind = p}
  BY Zenon, <1>1, <1>2
<1>3. session[n] \in Session /\ session[m] \in Session
  BY Zenon, Types
<1>. QED
  BY ZenonT(40), <1>2, <1>3, OfKind

\* A message n has not received is the first of its kind from its sender.
LEMMA NoneEarlier ==
  ASSUME TypeInv, MessageInv, NEW n \in Members, NEW x \in net \cup pending[n],
         x \notin Received(session[n]), NEW y \in Received(session[n]), y.kind = x.kind
  PROVE  y.from # x.from
<1>1. x \in Sent /\ y \in Sent
  BY Zenon, ReceivedAreSent DEF Sent
<1>. QED
  BY Zenon, <1>1 DEF MessageInv

-----------------------------------------------------------------------------
(* What does not change when others move.                                  *)

LEMMA RanSame ==
  ASSUME UNCHANGED <<stage, started>>, NEW n
  PROVE  Ran(n)' = Ran(n)
BY Zenon DEF Ran

LEMMA RanNextPhase ==
  ASSUME TypeInv, NEW n \in Members, NextPhase(n), NEW m \in Members
  PROVE  Ran(m)' = Ran(m) /\ stage'[m] >= stage[m]
<1>1. /\ stage[n] \in Initialized..Commit /\ started[n]
      /\ stage' = [stage EXCEPT ![n] = @ + 1]
      /\ started' = [started EXCEPT ![n] = stage[n] = Commit]
  BY Zenon DEF NextPhase
<1>2. stage \in [Members -> Waiting..Finalize] /\ started \in [Members -> BOOLEAN]
  BY Zenon, Types
<1>3. CASE m # n
  <2>1. stage'[m] = stage[m] /\ started'[m] = started[m] /\ stage[m] \in Waiting..Finalize
    BY Zenon, <1>1, <1>2, <1>3
  <2>. QED
    BY <2>1 DEF Ran, Waiting, Finalize
<1>4. CASE m = n
  <2>1. stage'[m] = stage[m] + 1 /\ (started'[m] <=> stage[m] = Commit) /\ started[m]
    BY Zenon, <1>1, <1>2, <1>4
  <2>. QED
    BY <1>1, <1>4, <2>1 DEF Ran, Initialized, Commit, Finalize
<1>. QED
  BY Zenon, <1>3, <1>4

LEMMA RanStart ==
  ASSUME TypeInv, NEW n \in Members, StartPhase(n)
  PROVE  /\ stage[n] \in Contribute..Commit /\ Ran(n) = stage[n] - 1 /\ Ran(n)' = stage[n]
         /\ \A m \in Members \ {n} : Ran(m)' = Ran(m)
<1>1. /\ ~started[n] /\ started' = [started EXCEPT ![n] = TRUE] /\ UNCHANGED stage
      /\ stage[n] \in {Contribute, Complain, Justify, Commit}
  BY Zenon DEF StartPhase, StartContribute, StartComplain, StartJustify, StartCommit
<1>2. stage \in [Members -> Waiting..Finalize] /\ started \in [Members -> BOOLEAN]
  BY Zenon, Types
<1>. QED
  BY <1>1, <1>2 DEF Ran, Contribute, Complain, Justify, Commit, Finalize

\* No member begins a second session.
LEMMA BeginsWaiting ==
  ASSUME InStep, NEW n \in Members, HandleDKGRound(n)
  PROVE  stage[n] = Waiting
BY DEF HandleDKGRound, InStep, Ran, Waiting, Initialized, Finalize, Idle

LEMMA RanBegin ==
  ASSUME TypeInv, InStep, NEW n \in Members, HandleDKGRound(n)
  PROVE  /\ Ran(n) = -1 /\ Ran(n)' = Initialized
         /\ \A m \in Members \ {n} : Ran(m)' = Ran(m)
<1>0. stage[n] = Waiting
  BY BeginsWaiting
<1>1. /\ stage[n] = Waiting /\ ~started[n] /\ started' = [started EXCEPT ![n] = TRUE]
      /\ stage' = [stage EXCEPT ![n] = Initialized]
  BY Zenon, <1>0 DEF HandleDKGRound, InStep
<1>2. stage \in [Members -> Waiting..Finalize] /\ started \in [Members -> BOOLEAN]
  BY Zenon, Types
<1>. QED
  BY <1>1, <1>2 DEF Ran, Waiting, Initialized, Finalize

\* More messages are no obstacle.
LEMMA MoreMessages ==
  ASSUME NEW n, NEW s, NEW d, NEW k, NEW S, NEW T, S \subseteq T,
         \A x \in T \ S : x.from # n
  PROVE  /\ Shares(n, s, d, k, S) => Shares(n, s, d, k, T)
         /\ Answers(n, s, k, S) => Answers(n, s, k, T)
<1>1. Shares(n, s, d, k, S) => Shares(n, s, d, k, T)
  BY Zenon DEF Shares
<1>2. Answers(n, s, k, S) => Answers(n, s, k, T)
  BY Zenon DEF Answers
<1>. QED
  BY Zenon, <1>1, <1>2

\* One member moves and it is as it should be.
LEMMA OneMoves ==
  ASSUME ViewInv, AnswerInv, ShareInv, NEW n \in Members, UNCHANGED faulty,
         \A m \in Members \ {n} : /\ session'[m] = session[m] /\ db'[m] = db[m]
                                  /\ Ran(m)' = Ran(m),
         Sent \subseteq Sent', \A x \in Sent' \ Sent : x.from = n,
         View(session'[n], db'[n], Ran(n)'),
         n \in Honest => /\ Answers(n, session'[n], Ran(n)', Sent')
                         /\ Shares(n, session'[n], db'[n], Ran(n)', Sent')
  PROVE  ViewInv' /\ AnswerInv' /\ ShareInv'
<1>1. \A m \in Members : View(session'[m], db'[m], Ran(m)')
  BY Zenon DEF ViewInv
<1>2. Honest' = Honest /\ Honest \subseteq Members
  BY Zenon DEF Honest
<1>3. ASSUME NEW m \in Honest
      PROVE  Answers(m, session'[m], Ran(m)', Sent') /\ Shares(m, session'[m], db'[m], Ran(m)', Sent')
  <2>1. CASE m = n
    BY Zenon, <2>1
  <2>2. CASE m # n
    <3>1. \A x \in Sent' \ Sent : x.from # m
      BY Zenon, <2>2
    <3>2. Answers(m, session[m], Ran(m), Sent) /\ Shares(m, session[m], db[m], Ran(m), Sent)
      BY Zenon DEF AnswerInv, ShareInv
    <3>3. /\ Answers(m, session[m], Ran(m), Sent')
          /\ Shares(m, session[m], db[m], Ran(m), Sent')
      BY Zenon, <3>1, <3>2, MoreMessages
    <3>4. session'[m] = session[m] /\ db'[m] = db[m] /\ Ran(m)' = Ran(m)
      BY Zenon, <1>2, <2>2
    <3>. QED
      BY Zenon, <3>3, <3>4
  <2>. QED
    BY Zenon, <2>1, <2>2
<1>. QED
  BY Zenon, <1>1, <1>2, <1>3 DEF ViewInv, AnswerInv, ShareInv

\* Nothing depends on having begun the session.
LEMMA BeforeContribute ==
  ASSUME NEW n, NEW s, NEW d, NEW S
  PROVE  /\ View(s, d, -1) => View(s, d, Initialized)
         /\ Shares(n, s, d, -1, S) => Shares(n, s, d, Initialized, S)
         /\ Answers(n, s, -1, S) => Answers(n, s, Initialized, S)
<1>1. /\ ~(Initialized >= Contribute) /\ ~(Initialized >= Complain)
      /\ ~(Initialized >= Justify) /\ ~(Initialized >= Commit)
  BY DEF Initialized, Contribute, Complain, Justify, Commit
<1>2. ~(-1 >= Complain) /\ ~(-1 >= Justify) /\ ~(-1 >= Commit)
  BY DEF Complain, Justify, Commit
<1>3. BadAfter(s, -1) = BadAfter(s, Initialized)
  BY Zenon, <1>1, <1>2 DEF BadAfter
<1>. QED
  BY Zenon, <1>1, <1>3 DEF View, Shares, Answers

\* Nobody moves: the tip changes, a thread goes on to the next phase or begins.
LEMMA NobodyMoves ==
  ASSUME TypeInv, TimelyInv, UNCHANGED <<faulty, session, pending, net, db>>,
         \A m \in Members : /\ Ran(m)' = Ran(m) \/ (Ran(m) = -1 /\ Ran(m)' = Initialized)
                            /\ stage'[m] >= stage[m],
         stage' \in [Members -> Waiting..Finalize]
  PROVE  /\ MessageInv' /\ ViewInv' /\ CommitmentsAgree' /\ FairComplaints' /\ AnswerInv'
         /\ ShareInv'
<1>1. Sent' = Sent /\ Honest' = Honest /\ Honest \subseteq Members
  BY Zenon DEF Sent, Honest
<1>2. ViewInv' /\ AnswerInv' /\ ShareInv'
  <2>1. ASSUME NEW m \in Members PROVE View(session[m], db[m], Ran(m)')
    <3>1. View(session[m], db[m], Ran(m))
      BY Zenon DEF TimelyInv, ViewInv
    <3>. QED
      BY Zenon, <3>1, BeforeContribute
  <2>2. ASSUME NEW m \in Honest
        PROVE  /\ Answers(m, session[m], Ran(m)', Sent)
               /\ Shares(m, session[m], db[m], Ran(m)', Sent)
    <3>1. Answers(m, session[m], Ran(m), Sent) /\ Shares(m, session[m], db[m], Ran(m), Sent)
      BY Zenon DEF TimelyInv, AnswerInv, ShareInv
    <3>. QED
      BY Zenon, <1>1, <3>1, BeforeContribute
  <2>. QED
    BY Zenon, <1>1, <2>1, <2>2 DEF ViewInv, AnswerInv, ShareInv
<1>3. CommitmentsAgree' /\ FairComplaints'
  BY Zenon, <1>1 DEF TimelyInv, CommitmentsAgree, FairComplaints
<1>4. MessageInv'
  <2>1. \A x \in Sent : x.from \in Members /\ x.kind \in Nat
    BY Types, Kinds, KindIsType DEF Contribute, Commit
  <2>2. \A n \in Members : \A x \in Received(session[n]) : x.kind \in Nat /\ x.kind <= stage'[n]
    <3> SUFFICES ASSUME NEW n \in Members, NEW x \in Received(session[n])
                 PROVE  x.kind \in Nat /\ x.kind <= stage'[n]
      OBVIOUS
    <3>1. x.kind \in Nat /\ x.kind <= stage[n]
      BY Zenon, <2>1, ReceivedAreSent DEF TimelyInv, MessageInv
    <3>2. stage[n] \in Waiting..Finalize /\ stage'[n] \in Waiting..Finalize /\ stage'[n] >= stage[n]
      BY Zenon, Types
    <3>. QED
      BY <3>1, <3>2 DEF Waiting, Finalize
  <2>3. ASSUME NEW x \in Sent PROVE Ran(x.from)' >= x.kind
    <3>1. x.kind \in Nat /\ x.from \in Members
      BY Zenon, <2>1
    <3>2. Ran(x.from) >= x.kind
      BY Zenon DEF TimelyInv, MessageInv
    <3>3. Ran(x.from) # -1
      BY <3>1, <3>2
    <3>. QED
      BY Zenon, <3>1, <3>2, <3>3
  <2>. QED
    BY Zenon, <1>1, <2>2, <2>3 DEF TimelyInv, MessageInv
<1>. QED
  BY Zenon, <1>2, <1>3, <1>4

-----------------------------------------------------------------------------
(* The tip moves on.                                                       *)

LEMMA TipKeeps ==
  ASSUME TypeInv, TimelyInv, NEW n \in Members, UpdatedBlockTip(n), Timely'
  PROVE  TimelyInv'
<1>1. untimely \in Nat
  BY DEF TypeInv, DkgTypeOK
<1>2. Settled(phase[n])
  <2>1. untimely' # untimely + 1
    BY <1>1 DEF Timely
  <2>. QED
    BY Zenon, <2>1 DEF UpdatedBlockTip
<1>3. /\ phase[n] < Idle /\ phase' = [phase EXCEPT ![n] = @ + 1]
      /\ UNCHANGED <<faulty, stage, started, round, session, pending, net, db, minable>>
  BY Zenon DEF UpdatedBlockTip
<1>4. InStep /\ AllReceived /\ FinalsAgree
  BY Zenon DEF TimelyInv
<1>5. /\ phase \in [Members -> Initialized..Idle] /\ stage \in [Members -> Waiting..Finalize]
      /\ \A m \in Members : Ran(m) \in -1..Commit
  BY Zenon, Types
<1>6. \A m \in Members : Ran(m)' = Ran(m)
  BY Zenon, <1>3, RanSame
<1>7. /\ MessageInv' /\ ViewInv' /\ CommitmentsAgree' /\ FairComplaints' /\ AnswerInv'
      /\ ShareInv'
  <2>1. \A m \in Members : stage'[m] >= stage[m]
    BY <1>3, <1>5 DEF Waiting, Finalize
  <2>. QED
    BY Zenon, <1>3, <1>5, <1>6, <2>1, NobodyMoves
<1> DEFINE p == phase[n]
<1>8. p \in Initialized..Finalize
  BY <1>3, <1>5 DEF Initialized, Finalize, Idle
\* Every member is through with the phase, or it was over before.
<1>9. \A m \in Members : Through(m, p) \/ Over(p)
  <2> SUFFICES ASSUME NEW m \in Members, ~Through(m, p) PROVE Over(p)
    OBVIOUS
  <2>1. stage[m] > p \/ phase[m] > p \/ (stage[m] = Waiting /\ phase[m] # Initialized)
    BY Zenon, <1>2 DEF Settled
  <2>2. stage[m] <= phase[m] /\ (stage[m] = Waiting => phase[m] = Initialized)
    BY <1>4, <1>5 DEF InStep, Waiting, Initialized, Finalize, Idle
  <2>3. phase[m] > p
    BY <1>5, <1>8, <2>1, <2>2 DEF Waiting, Initialized, Finalize, Idle
  <2>. QED
    BY Zenon, <2>3 DEF Over
<1>10. p \in Initialized..Commit => \A m \in Members :
         /\ Ran(m) >= p
         /\ \A x \in net \cup pending[m] : x.kind = p => x \in Received(session[m])
  <2> SUFFICES ASSUME p \in Initialized..Commit, NEW m \in Members
               PROVE  /\ Ran(m) >= p
                      /\ \A x \in net \cup pending[m] : x.kind = p => x \in Received(session[m])
    OBVIOUS
  <2>1. CASE Over(p)
    BY Zenon, <1>4, <2>1 DEF AllReceived
  <2>2. CASE Through(m, p)
    <3>1. /\ stage[m] = p /\ started[m]
          /\ \A x \in net \cup pending[m] : x.kind = p => x \in Received(session[m])
      BY Zenon, <2>2 DEF Through
    <3>2. Ran(m) >= p
      BY <3>1 DEF Ran, Initialized, Commit, Finalize
    <3>. QED
      BY Zenon, <3>1, <3>2
  <2>. QED
    BY Zenon, <1>9, <2>1, <2>2
<1>11. \A q \in Initialized..Commit : Over(q)' => Over(q) \/ q = p
  BY <1>3, <1>5 DEF Over, Initialized, Commit, Finalize, Idle
<1>12. AllReceived'
  <2> SUFFICES ASSUME NEW q \in Initialized..Commit, Over(q)', NEW m \in Members
               PROVE  /\ Ran(m) >= q
                      /\ \A x \in net \cup pending[m] : x.kind = q => x \in Received(session[m])
    BY Zenon, <1>3, <1>6 DEF AllReceived
  <2>. QED
    BY Zenon, <1>4, <1>10, <1>11 DEF AllReceived
<1>13. InStep'
  <2>1. Through(n, p)
    <3>1. ~(stage[n] > p) /\ ~(phase[n] > p) /\ ~(stage[n] = Waiting /\ phase[n] # Initialized)
      BY <1>4, <1>5 DEF InStep, Waiting, Initialized, Finalize, Idle
    <3>. QED
      BY Zenon, <1>2, <3>1 DEF Settled
  <2>2. stage[n] = phase[n] /\ started[n] /\ (Ran(n) = stage[n] \/ stage[n] = Finalize)
    BY <1>8, <2>1 DEF Through, Ran, Initialized, Finalize
  <2> SUFFICES ASSUME NEW m \in Members
               PROVE  \/ stage[m] = phase'[m]
                      \/ stage[m] = phase'[m] - 1 /\ (stage[m] = Waiting \/ Ran(m) = stage[m])
                      \/ stage[m] = Finalize /\ phase'[m] = Idle
    <3>1. ASSUME NEW m \in Members
          PROVE  /\ stage[m] = Waiting => round[m] = 0 /\ session[m] = EmptySession /\ ~started[m]
                 /\ stage[m] # Waiting => round[m] = 1
                 /\ stage[m] \in {Initialized, Finalize} => started[m]
      BY Zenon, <1>4 DEF InStep
    <3>. QED
      BY Zenon, <1>3, <1>6, <3>1 DEF InStep
  <2>3. CASE m = n
    BY <1>3, <1>5, <2>2, <2>3 DEF Initialized, Finalize, Idle
  <2>4. CASE m # n
    <3>1. phase'[m] = phase[m]
      BY Zenon, <1>3, <1>5, <2>4
    <3>. QED
      BY Zenon, <1>4, <3>1 DEF InStep
  <2>. QED
    BY Zenon, <2>3, <2>4
<1>14. FinalsAgree'
  BY Zenon, <1>3, <1>4 DEF FinalsAgree
<1>. QED
  BY Zenon, <1>7, <1>12, <1>13, <1>14 DEF TimelyInv

-----------------------------------------------------------------------------
(* A thread goes on to the next phase.                                     *)

LEMMA SameBadAfter ==
  ASSUME NEW s, NEW t, NEW k, NEW l, k >= Commit, l >= Commit,
         k \in -1..Commit, l \in -1..Commit, s.contributions = t.contributions,
         s.complaints = t.complaints, s.justifications = t.justifications
  PROVE  BadAfter(s, k) = BadAfter(t, l)
<1>1. k >= Complain /\ k >= Justify /\ l >= Complain /\ l >= Justify
  BY DEF Complain, Justify, Commit
<1>2. \A m : Voters(s, m) = Voters(t, m) /\ Complainers(s, m) = Complainers(t, m)
  BY Zenon DEF Voters, Complainers
<1>3. Silent(s) = Silent(t) /\ Voted(s) = Voted(t)
  BY <1>2 DEF Silent, Voted
<1>4. Wrong(s) = Wrong(t)
  <2>1. \A j : Unfounded(s, j) <=> Unfounded(t, j)
    BY Zenon, <1>2 DEF Unfounded
  <2>2. {j \in s.justifications : Unfounded(s, j)} = {j \in t.justifications : Unfounded(t, j)}
    BY Zenon, <2>1
  <2>. QED
    BY Zenon, <2>2 DEF Wrong
<1>5. Open(s) = Open(t)
  BY <1>2 DEF Open, Unanswered
<1>. QED
  BY Zenon, <1>1, <1>3, <1>4, <1>5 DEF BadAfter

\* Members that have run the commit phase know the same bad members.
LEMMA SameBad ==
  ASSUME TypeInv, TimelyInv, NEW n \in Members, NEW m \in Members,
         Ran(n) >= Commit, Ran(m) >= Commit
  PROVE  session[n].bad = session[m].bad
<1>1. stage[n] >= Commit /\ Ran(n) \in -1..Commit /\ Ran(m) \in -1..Commit
  BY Types DEF Ran, Waiting, Commit, Finalize
<1>2. Over(Contribute) /\ Over(Complain) /\ Over(Justify)
  <2>1. /\ stage[n] > Contribute /\ stage[n] > Complain /\ stage[n] > Justify
        /\ Contribute \in Nat /\ Complain \in Nat /\ Justify \in Nat
    BY <1>1, Types DEF Contribute, Complain, Justify, Commit, Waiting, Finalize
  <2>. QED
    BY Zenon, <2>1, StageOver DEF TimelyInv
<1>3. /\ session[n].contributions = session[m].contributions
      /\ session[n].complaints = session[m].complaints
      /\ session[n].justifications = session[m].justifications
  BY Zenon, <1>2, SameReceived DEF TimelyInv
<1>4. /\ session[n].bad = BadAfter(session[n], Ran(n))
      /\ session[m].bad = BadAfter(session[m], Ran(m))
  BY Zenon DEF TimelyInv, ViewInv, View
<1>. QED
  BY <1>1, <1>3, <1>4, SameBadAfter

\* The commitments a member has received when the commit phase is over are the same in
\* all but their sender.
LEMMA CommitmentsSame ==
  ASSUME TypeInv, TimelyInv, NEW n \in Members, NEW c \in session[n].commitments,
         NEW e \in session[n].commitments
  PROVE  c.valid = e.valid /\ c.key = e.key /\ c.share = e.share
<1>1. \A x \in session[n].commitments : x \in Sent /\ x.kind = Commit /\ x.from \in Members
  <2>1. session[n].commitments \subseteq Commitment
    BY Zenon, Types DEF Session
  <2>2. session[n].commitments \subseteq Sent
    BY Zenon, ReceivedAreSent DEF Received, TimelyInv
  <2>. QED
    BY Zenon, <2>1, <2>2 DEF Commitment
<1>2. Ran(c.from) >= Commit /\ Ran(e.from) >= Commit
  <2>1. \A x \in Sent : Ran(x.from) >= x.kind
    BY Zenon DEF TimelyInv, MessageInv
  <2>2. Ran(c.from) >= c.kind /\ Ran(e.from) >= e.kind /\ c.kind = Commit /\ e.kind = Commit
    BY Zenon, <1>1, <2>1
  <2>. QED
    BY ONLY <2>2
<1>3. session[c.from].bad = session[e.from].bad
  BY Zenon, <1>1, <1>2, SameBad
<1>4. /\ c.valid = Members \ session[c.from].bad
      /\ c.key = Ones(c.valid) /\ c.share = Ones(c.valid)
      /\ e.valid = Members \ session[e.from].bad
      /\ e.key = Ones(e.valid) /\ e.share = Ones(e.valid)
  BY Zenon, <1>1 DEF TimelyInv, CommitmentsAgree
<1>. QED
  BY Zenon, <1>3, <1>4

\* Everyone has the contributions of the valid members.
LEMMA CommitmentsVerified ==
  ASSUME TypeInv, TimelyInv, NEW n \in Members, stage[n] = Commit,
         NEW c \in session[n].commitments
  PROVE  HasVvecs(db[n], c.valid)
<1>1. c \in Sent /\ c.kind = Commit /\ c.from \in Members
  <2>1. session[n].commitments \subseteq Commitment
    BY Zenon, Types DEF Session
  <2>2. c \in Sent
    BY Zenon, ReceivedAreSent DEF Received, TimelyInv
  <2>. QED
    BY Zenon, <2>1, <2>2 DEF Commitment
<1>2. Ran(c.from) >= Commit /\ Ran(c.from) \in -1..Commit
  BY Zenon, <1>1, Types DEF TimelyInv, MessageInv
<1>3. Ran(c.from) >= Complain
  BY <1>2 DEF Commit, Complain
<1> DEFINE s == session[c.from]
<1>4. Silent(s) \subseteq s.bad
  BY Zenon, <1>1, <1>3 DEF TimelyInv, ViewInv, View, BadAfter
<1>5. s.contributions = session[n].contributions
  <2>1. stage[n] > Contribute /\ Contribute \in Nat
    BY DEF Commit, Contribute
  <2>2. Over(Contribute)
    BY Zenon, <2>1, StageOver DEF TimelyInv
  <2>. QED
    BY Zenon, <1>1, <2>2, SameReceived DEF TimelyInv
<1>6. c.valid = Members \ s.bad
  BY Zenon, <1>1 DEF TimelyInv, CommitmentsAgree
<1>7. \A m \in c.valid : m \in Members /\ m \in Senders(session[n].contributions)
  BY Zenon, <1>4, <1>5, <1>6 DEF Silent
<1>8. \A m \in c.valid : db[n].vvec[m] = 1
  BY Zenon, <1>7 DEF TimelyInv, ViewInv, View
<1>. QED
  BY <1>8 DEF HasVvecs

\* FinalizeCommitments makes one final commitment, if there are enough premature ones.
LEMMA FinalizeAgrees ==
  ASSUME TypeInv, TimelyInv, NEW n \in Members, NextPhase(n), stage[n] = Commit
  PROVE  minable'[n] = FinalsOf(session[n].commitments)
<1> DEFINE W == session[n].commitments
<1>1. PICK first \in [Majorities(n) -> session[n].valid] :
        /\ \A V \in Majorities(n) : first[V].valid = V
        /\ minable' = [minable EXCEPT ![n] = @ \cup
                         {FinalCommitmentOf(n, first[V]) : V \in Majorities(n)}]
  <2>1. \E first \in {f \in [Majorities(n) -> session[n].valid] :
                         \A V \in Majorities(n) : f[V].valid = V} :
          minable' = [minable EXCEPT ![n] = @ \cup
                        {FinalCommitmentOf(n, first[V]) : V \in Majorities(n)}]
    BY ONLY stage[n] = Commit, NextPhase(n) DEF NextPhase, Commit
  <2>. QED
    BY ONLY <2>1, Zenon
<1>2. minable'[n] = {FinalCommitmentOf(n, first[V]) : V \in Majorities(n)}
  <2>1. Commit # Finalize
    BY DEF Commit, Finalize
  <2>2. minable[n] = {}
    BY Zenon, <2>1 DEF TimelyInv, FinalsAgree
  <2>. QED
    BY Zenon, <1>1, <2>2, Types
<1>3. session[n].valid = W
  BY Zenon DEF TimelyInv, ViewInv, View
<1>4. \A c, e \in W : c.valid = e.valid /\ c.key = e.key
  BY Zenon, CommitmentsSame
<1>v. \A c \in W : HasVvecs(db[n], c.valid)
  BY Zenon, CommitmentsVerified
<1> HIDE DEF W
<1>5. \A c \in W : WithValid(n, c.valid) = W
  BY ZenonT(40), <1>3, <1>4 DEF WithValid
<1>6. \A c \in W : FinalCommitmentOf(n, c) =
        [valid |-> c.valid, key |-> c.key, checked |-> TRUE, signers |-> Senders(W)]
  <2> SUFFICES ASSUME NEW c \in W
               PROVE  FinalCommitmentOf(n, c) =
                 [valid |-> c.valid, key |-> c.key, checked |-> TRUE, signers |-> Senders(W)]
    OBVIOUS
  <2>1. {x \in WithValid(n, c.valid) : x.key = c.key} = W
    BY Zenon, <1>4, <1>5
  <2>2. HasVvecs(db[n], c.valid) = TRUE
    BY Zenon, <1>v DEF HasVvecs
  <2>. QED
    BY Zenon, <2>1, <2>2 DEF FinalCommitmentOf, Senders
<1>7. CASE Cardinality(W) >= MinSize
  <2>1. \A c \in W : c.valid \in Majorities(n)
    BY Zenon, <1>3, <1>5, <1>7 DEF Majorities
  <2>2. \A V \in Majorities(n) : first[V] \in W
    BY Zenon, <1>1, <1>3
  <2>3. \A c, e \in W : FinalCommitmentOf(n, c) = FinalCommitmentOf(n, e)
    BY Zenon, <1>4, <1>6
  <2>4. minable'[n] = {FinalCommitmentOf(n, c) : c \in W}
    BY Zenon, <1>2, <2>1, <2>2, <2>3
  <2>5. FinalsOf(W) = {FinalCommitmentOf(n, c) : c \in W}
    BY Zenon, <1>6, <1>7 DEF FinalsOf
  <2>. QED
    BY Zenon, <2>4, <2>5 DEF W
<1>8. CASE ~(Cardinality(W) >= MinSize)
  <2>1. Majorities(n) = {}
    BY Zenon, <1>3, <1>5, <1>8 DEF Majorities
  <2>. QED
    BY Zenon, <1>2, <1>8, <2>1 DEF FinalsOf, W
<1>. QED
  BY Zenon, <1>7, <1>8

LEMMA NextPhaseKeeps ==
  ASSUME TypeInv, TimelyInv, NEW n \in Members, NextPhase(n)
  PROVE  TimelyInv'
<1>1. /\ stage[n] \in Initialized..Commit /\ started[n] /\ phase[n] = stage[n] + 1
      /\ stage' = [stage EXCEPT ![n] = @ + 1]
      /\ started' = [started EXCEPT ![n] = stage[n] = Commit]
      /\ UNCHANGED <<faulty, phase, round, session, pending, net, db>>
  BY Zenon DEF NextPhase
<1>2. /\ phase \in [Members -> Initialized..Idle] /\ stage \in [Members -> Waiting..Finalize]
      /\ started \in [Members -> BOOLEAN]
  BY Zenon, Types
<1>3. InStep /\ AllReceived /\ FinalsAgree
  BY Zenon DEF TimelyInv
<1>4. \A m \in Members : Ran(m)' = Ran(m) /\ stage'[m] >= stage[m]
  BY Zenon, RanNextPhase
<1>5. /\ MessageInv' /\ ViewInv' /\ CommitmentsAgree' /\ FairComplaints' /\ AnswerInv'
      /\ ShareInv'
  <2>1. stage' \in [Members -> Waiting..Finalize]
    BY Zenon, ThreadType
  <2>. QED
    BY Zenon, <1>1, <1>4, <2>1, NobodyMoves
<1>6. AllReceived'
  <2>1. \A p : Over(p)' <=> Over(p)
    BY Zenon, <1>1 DEF Over
  <2>. QED
    BY Zenon, <1>1, <1>3, <1>4, <2>1 DEF AllReceived
<1>7. InStep'
  <2> SUFFICES ASSUME NEW m \in Members
               PROVE  /\ \/ stage'[m] = phase[m]
                         \/ /\ stage'[m] = phase[m] - 1
                            /\ stage'[m] = Waiting \/ Ran(m) = stage'[m]
                         \/ stage'[m] = Finalize /\ phase[m] = Idle
                      /\ stage'[m] = Waiting => round[m] = 0 /\ session[m] = EmptySession
                                                /\ ~started'[m]
                      /\ stage'[m] # Waiting => round[m] = 1
                      /\ stage'[m] \in {Initialized, Finalize} => started'[m]
    BY Zenon, <1>1, <1>4 DEF InStep
  <2>1. CASE m # n
    <3>1. stage'[m] = stage[m] /\ started'[m] = started[m]
      BY Zenon, <1>1, <1>2, <2>1
    <3>. QED
      BY Zenon, <1>3, <3>1 DEF InStep
  <2>2. CASE m = n
    <3>1. stage'[m] = stage[m] + 1 /\ (started'[m] <=> stage[m] = Commit)
      BY Zenon, <1>1, <1>2, <2>2
    <3>2. stage'[m] = phase[m] /\ stage'[m] # Waiting /\ stage[m] # Waiting
          /\ stage'[m] # Initialized /\ (stage'[m] = Finalize => started'[m])
      BY <1>1, <2>2, <3>1 DEF Waiting, Initialized, Commit, Finalize
    <3>3. round[m] = 1
      BY Zenon, <1>3, <3>2 DEF InStep
    <3>. QED
      BY Zenon, <3>2, <3>3
  <2>. QED
    BY Zenon, <2>1, <2>2
<1>8. FinalsAgree'
  <2> SUFFICES ASSUME NEW m \in Members
               PROVE  minable'[m] = IF stage'[m] = Finalize THEN FinalsOf(session[m].commitments)
                                    ELSE {}
    BY Zenon, <1>1 DEF FinalsAgree
  <2>1. CASE m # n
    <3>1. stage'[m] = stage[m] /\ minable'[m] = minable[m]
      BY Zenon, <1>1, <1>2, <2>1, Types DEF NextPhase
    <3>. QED
      BY Zenon, <1>3, <3>1 DEF FinalsAgree
  <2>2. CASE m = n
    <3>1. stage[n] # Finalize /\ (stage'[n] = Finalize <=> stage[n] = Commit)
      BY <1>1, <1>2 DEF Initialized, Commit, Finalize
    <3>2. stage[n] # Commit => minable'[n] = {}
      BY Zenon, <1>3, <3>1 DEF FinalsAgree, NextPhase
    <3>. QED
      BY Zenon, <2>2, <3>1, <3>2, FinalizeAgrees
  <2>. QED
    BY Zenon, <2>1, <2>2
<1>. QED
  BY Zenon, <1>5, <1>6, <1>7, <1>8 DEF TimelyInv

\* No phase is aborted while they are long enough.
LEMMA NoAbort ==
  ASSUME TypeInv, TimelyInv, NEW n \in Members
  PROVE  ~Abort(n)
<1>1. /\ phase[n] \in Initialized..Idle /\ stage[n] \in Waiting..Finalize
      /\ started[n] \in BOOLEAN
  BY Zenon, Types
<1>2. InStep
  BY Zenon DEF TimelyInv
<1>. QED
  BY <1>1, <1>2 DEF Abort, InStep, Ran, Waiting, Initialized, Commit, Finalize, Idle

-----------------------------------------------------------------------------
(* A member begins its session.                                            *)

LEMMA BeginKeeps ==
  ASSUME TypeInv, TimelyInv, NEW n \in Members, HandleDKGRound(n)
  PROVE  TimelyInv'
<1>0. stage[n] = Waiting
  BY Zenon, BeginsWaiting DEF TimelyInv
<1>1. /\ stage[n] = Waiting /\ phase[n] = Initialized
      /\ stage' = [stage EXCEPT ![n] = Initialized]
      /\ started' = [started EXCEPT ![n] = TRUE]
      /\ round' = [round EXCEPT ![n] = @ + 1]
      /\ session' = [session EXCEPT ![n] = EmptySession]
      /\ pending' = [pending EXCEPT ![n] = {}]
      /\ UNCHANGED <<faulty, phase, net, db, minable>>
  BY Zenon, <1>0 DEF HandleDKGRound
<1>2. InStep /\ AllReceived /\ FinalsAgree /\ MessageInv
  BY Zenon DEF TimelyInv
<1>3. /\ phase \in [Members -> Initialized..Idle] /\ stage \in [Members -> Waiting..Finalize]
      /\ started \in [Members -> BOOLEAN] /\ round \in [Members -> Nat]
      /\ session \in [Members -> Session] /\ pending \in [Members -> SUBSET Message]
  BY Zenon, Types
<1>4. Ran(n) = -1 /\ Ran(n)' = Initialized /\ \A m \in Members \ {n} : Ran(m)' = Ran(m)
  BY Zenon, <1>2, RanBegin
<1>5. session[n] = EmptySession /\ round[n] = 0
  BY Zenon, <1>1, <1>2 DEF InStep
<1>6. UNCHANGED session
  BY Zenon, <1>1, <1>3, <1>5
<1>7. UNCHANGED pending
  <2>1. ASSUME NEW x \in pending[n] PROVE FALSE
    <3>1. x \in Message /\ x.from = n /\ x \in Sent
      BY Zenon, <1>2, <1>3 DEF MessageInv, Sent
    <3>2. Ran(n) >= x.kind
      BY Zenon, <1>2, <3>1 DEF MessageInv
    <3>3. x.kind \in Contribute..Commit
      BY Zenon, <3>1, Kinds
    <3>. QED
      BY <1>4, <3>2, <3>3 DEF Contribute, Commit
  <2>2. pending[n] = {}
    BY Zenon, <2>1
  <2>. QED
    BY Zenon, <1>1, <1>3, <2>2
<1>8. /\ MessageInv' /\ ViewInv' /\ CommitmentsAgree' /\ FairComplaints' /\ AnswerInv'
      /\ ShareInv'
  <2>1. /\ \A m \in Members : stage'[m] >= stage[m]
        /\ stage' \in [Members -> Waiting..Finalize]
    BY <1>1, <1>3 DEF Waiting, Initialized, Finalize
  <2>2. \A m \in Members : Ran(m)' = Ran(m) \/ (Ran(m) = -1 /\ Ran(m)' = Initialized)
    BY Zenon, <1>4
  <2>. QED
    BY Zenon, <1>1, <1>6, <1>7, <2>1, <2>2, NobodyMoves
<1>9. AllReceived'
  <2>1. \A p \in Initialized..Commit : Over(p)' <=> Over(p)
    BY Zenon, <1>1 DEF Over
  <2>2. ASSUME NEW p \in Initialized..Commit PROVE ~Over(p)
    <3>1. Ran(n) < p
      BY <1>4 DEF Initialized, Commit
    <3>. QED
      BY Zenon, <1>2, <3>1, NotOver
  <2>. QED
    BY Zenon, <2>1, <2>2 DEF AllReceived
<1>10. InStep'
  <2> SUFFICES ASSUME NEW m \in Members
               PROVE  /\ \/ stage'[m] = phase[m]
                         \/ /\ stage'[m] = phase[m] - 1
                            /\ stage'[m] = Waiting \/ Ran(m)' = stage'[m]
                         \/ stage'[m] = Finalize /\ phase[m] = Idle
                      /\ stage'[m] = Waiting => round'[m] = 0 /\ session[m] = EmptySession
                                                /\ ~started'[m]
                      /\ stage'[m] # Waiting => round'[m] = 1
                      /\ stage'[m] \in {Initialized, Finalize} => started'[m]
    BY Zenon, <1>1, <1>6 DEF InStep
  <2>1. CASE m # n
    <3>1. stage'[m] = stage[m] /\ started'[m] = started[m] /\ round'[m] = round[m]
          /\ Ran(m)' = Ran(m)
      BY Zenon, <1>1, <1>3, <1>4, <2>1
    <3>. QED
      BY Zenon, <1>2, <3>1 DEF InStep
  <2>2. CASE m = n
    <3>1. stage'[m] = Initialized /\ started'[m] = TRUE /\ round'[m] = 1
      BY <1>1, <1>3, <1>5, <2>2
    <3>2. Initialized # Waiting
      BY DEF Initialized, Waiting
    <3>. QED
      BY Zenon, <1>1, <2>2, <3>1, <3>2
  <2>. QED
    BY Zenon, <2>1, <2>2
<1>11. FinalsAgree'
  <2>1. \A m \in Members : stage'[m] = Finalize <=> stage[m] = Finalize
    BY <1>1, <1>3 DEF Waiting, Initialized, Finalize
  <2>. QED
    BY Zenon, <1>1, <1>2, <1>6, <2>1 DEF FinalsAgree
<1>. QED
  BY Zenon, <1>8, <1>9, <1>10, <1>11 DEF TimelyInv

-----------------------------------------------------------------------------
(* A start function runs.                                                  *)

\* Two sessions with the same messages.
SameMessages(s, t) ==
  /\ t.contributions = s.contributions /\ t.complaints = s.complaints
  /\ t.justifications = s.justifications /\ t.commitments = s.commitments

\* n puts the messages new, one at most, into its queue.
Queues(n, new) ==
  /\ new \subseteq Message /\ \A x, y \in new : x = y
  /\ \A x \in new : x.kind = stage[n] /\ x.from = n /\ (x.kind # Commit => x.round = 1)
  /\ pending' = [pending EXCEPT ![n] = @ \cup new]
  /\ SameMessages(session[n], session'[n])
  /\ \A m \in Members \ {n} : session'[m] = session[m] /\ db'[m] = db[m]

LEMMA QueuesSent ==
  ASSUME TypeInv, NEW n \in Members, NEW new, Queues(n, new), UNCHANGED net
  PROVE  /\ Sent' = Sent \cup new
         /\ pending'[n] = pending[n] \cup new
         /\ \A m \in Members \ {n} : pending'[m] = pending[m]
         /\ \A m \in Members : Received(session'[m]) = Received(session[m])
<1>1. pending \in [Members -> SUBSET Message]
  BY Zenon, Types
<1>2. pending'[n] = pending[n] \cup new /\ \A m \in Members \ {n} : pending'[m] = pending[m]
  BY Zenon, <1>1 DEF Queues
<1>3. Sent' = Sent \cup new
  BY Zenon, <1>2 DEF Sent
<1>4. \A m \in Members : Received(session'[m]) = Received(session[m])
  BY Zenon DEF Queues, SameMessages, Received
<1>. QED
  BY Zenon, <1>2, <1>3, <1>4

LEMMA StartMessages ==
  ASSUME TypeInv, TimelyInv, NEW n \in Members, StartPhase(n), NEW new, Queues(n, new)
  PROVE  MessageInv' /\ AllReceived' /\ new \cap Sent = {}
<1>1. UNCHANGED <<phase, stage, net>>
  BY Zenon DEF StartPhase
<1>2. /\ stage[n] \in Contribute..Commit /\ Ran(n) = stage[n] - 1 /\ Ran(n)' = stage[n]
      /\ \A m \in Members \ {n} : Ran(m)' = Ran(m)
  BY Zenon, RanStart
<1>3. MessageInv /\ AllReceived
  BY Zenon DEF TimelyInv
<1>4. /\ Sent' = Sent \cup new
      /\ pending'[n] = pending[n] \cup new
      /\ \A m \in Members \ {n} : pending'[m] = pending[m]
      /\ \A m \in Members : Received(session'[m]) = Received(session[m])
  BY Zenon, <1>1, QueuesSent
<1>5. \A x \in Sent : x.from \in Members /\ x.kind \in Contribute..Commit
  BY Zenon, Types, Kinds, KindIsType
<1>6. ASSUME NEW x \in Sent, x.from = n PROVE x.kind # stage[n]
  <2>1. Ran(n) >= x.kind
    BY Zenon, <1>3, <1>6 DEF MessageInv
  <2>. QED
    BY <1>2, <1>5, <2>1 DEF Contribute, Commit
<1>7. \A x \in new : x.from = n /\ x.kind = stage[n] /\ x \notin Sent
  BY Zenon, <1>6 DEF Queues
<1>8. ASSUME NEW x \in Sent' PROVE Ran(x.from)' >= x.kind /\ (x.kind # Commit => x.round = 1)
  <2>1. CASE x \in new
    <3>1. Ran(x.from)' = x.kind /\ (x.kind # Commit => x.round = 1)
      BY Zenon, <1>2, <1>7, <2>1 DEF Queues
    <3>2. x.kind \in Contribute..Commit
      BY Zenon, <1>2, <1>7, <2>1
    <3>. QED
      BY <3>1, <3>2 DEF Contribute, Commit
  <2>2. CASE x \in Sent
    <3>1. Ran(x.from) >= x.kind /\ (x.kind # Commit => x.round = 1)
      BY Zenon, <1>3, <2>2 DEF MessageInv
    <3>2. CASE x.from # n
      BY Zenon, <1>2, <1>5, <2>2, <3>1, <3>2
    <3>3. CASE x.from = n
      BY <1>2, <1>5, <2>2, <3>1, <3>3 DEF Contribute, Commit
    <3>. QED
      BY Zenon, <3>2, <3>3
  <2>. QED
    BY Zenon, <1>4, <2>1, <2>2
<1>9. ASSUME NEW x \in Sent', NEW y \in Sent', x.from = y.from, x.kind = y.kind PROVE x = y
  <2>1. CASE x \in Sent /\ y \in Sent
    BY Zenon, <1>3, <1>9, <2>1 DEF MessageInv
  <2>2. CASE x \in new /\ y \in new
    BY Zenon, <2>2 DEF Queues
  <2>3. CASE (x \in new /\ y \in Sent) \/ (x \in Sent /\ y \in new)
    BY Zenon, <1>6, <1>7, <1>9, <2>3
  <2>. QED
    BY Zenon, <1>4, <2>1, <2>2, <2>3
<1>10. ASSUME NEW m \in Members, NEW x \in pending'[m]
       PROVE  x.from = m /\ x \notin Received(session'[m])
  <2>1. CASE x \in pending[m]
    BY Zenon, <1>3, <1>4, <2>1 DEF MessageInv
  <2>2. CASE x \notin pending[m]
    <3>1. m = n /\ x \in new
      BY Zenon, <1>4, <1>10, <2>2
    <3>2. x \notin Received(session[n])
      BY Zenon, <1>3, <1>7, <3>1, ReceivedAreSent
    <3>. QED
      BY Zenon, <1>4, <1>7, <3>1, <3>2
  <2>. QED
    BY Zenon, <2>1, <2>2
<1>11. MessageInv'
  <2>1. \A m \in Members : \A x \in Received(session'[m]) : x \in net /\ x.kind <= stage[m]
    BY Zenon, <1>3, <1>4 DEF MessageInv
  <2>. QED
    BY Zenon, <1>1, <1>8, <1>9, <1>10, <2>1 DEF MessageInv
<1>12. AllReceived'
  <2> SUFFICES ASSUME NEW p \in Initialized..Commit, Over(p), NEW m \in Members
               PROVE  /\ Ran(m)' >= p
                      /\ \A x \in net \cup pending'[m] : x.kind = p => x \in Received(session[m])
    BY Zenon, <1>1, <1>4 DEF AllReceived, Over
  <2>1. /\ Ran(m) >= p
        /\ \A x \in net \cup pending[m] : x.kind = p => x \in Received(session[m])
    BY Zenon, <1>3 DEF AllReceived
  <2>2. CASE m # n
    BY Zenon, <1>2, <1>4, <2>1, <2>2
  <2>3. CASE m = n
    <3>1. Ran(m)' >= p /\ stage[n] # p
      BY <1>2, <2>1, <2>3 DEF Contribute, Initialized, Commit
    <3>. QED
      BY Zenon, <1>4, <1>7, <2>1, <2>3, <3>1
  <2>. QED
    BY Zenon, <2>2, <2>3
<1>. QED
  BY Zenon, <1>7, <1>11, <1>12

LEMMA StartKeeps ==
  ASSUME TypeInv, TimelyInv, NEW n \in Members, StartPhase(n), NEW new, Queues(n, new),
         View(session'[n], db'[n], stage[n]),
         n \in Honest => /\ Answers(n, session'[n], stage[n], Sent \cup new)
                         /\ Shares(n, session'[n], db'[n], stage[n], Sent \cup new),
         \A c \in new : c.kind = Complain => c.bad \cap Honest = {},
         \A c \in new : c.kind = Commit =>
           /\ c.valid = Members \ session'[n].bad
           /\ c.key = Ones(c.valid) /\ c.share = Ones(c.valid)
  PROVE  TimelyInv'
<1>1. /\ UNCHANGED <<faulty, phase, stage, round, net, minable>>
      /\ started' = [started EXCEPT ![n] = TRUE]
  BY Zenon DEF StartPhase
<1>2. /\ stage[n] \in Contribute..Commit /\ Ran(n) = stage[n] - 1 /\ Ran(n)' = stage[n]
      /\ \A m \in Members \ {n} : Ran(m)' = Ran(m)
  BY Zenon, RanStart
<1>3. Sent' = Sent \cup new /\ new \cap Sent = {} /\ MessageInv' /\ AllReceived'
  BY Zenon, <1>1, QueuesSent, StartMessages
<1>4. \A m \in Members \ {n} : session'[m] = session[m] /\ db'[m] = db[m]
  BY Zenon DEF Queues
<1>5. ViewInv' /\ AnswerInv' /\ ShareInv'
  <2>1. Sent \subseteq Sent' /\ \A x \in Sent' \ Sent : x.from = n
    BY Zenon, <1>3 DEF Queues
  <2>2. ViewInv /\ AnswerInv /\ ShareInv
    BY Zenon DEF TimelyInv
  <2>3. /\ View(session'[n], db'[n], Ran(n)')
        /\ n \in Honest => /\ Answers(n, session'[n], Ran(n)', Sent')
                           /\ Shares(n, session'[n], db'[n], Ran(n)', Sent')
    BY Zenon, <1>2, <1>3
  <2>. QED
    BY Zenon, <1>1, <1>2, <1>4, <2>1, <2>2, <2>3, OneMoves
<1>6. FairComplaints'
  BY Zenon, <1>1, <1>3 DEF TimelyInv, FairComplaints, Honest
<1>7. CommitmentsAgree'
  <2> SUFFICES ASSUME NEW c \in Sent', c.kind = Commit
               PROVE  /\ c.valid = Members \ session'[c.from].bad
                      /\ c.key = Ones(c.valid) /\ c.share = Ones(c.valid)
    BY Zenon DEF CommitmentsAgree
  <2>1. CASE c \in new
    BY Zenon, <2>1 DEF Queues
  <2>2. CASE c \in Sent
    <3>1. c.from \in Members /\ Ran(c.from) >= c.kind
      BY Zenon, <2>2, Types, KindIsType DEF TimelyInv, MessageInv
    <3>2. c.from # n
      BY <1>2, <3>1 DEF Contribute, Commit
    <3>. QED
      BY Zenon, <1>4, <2>2, <3>1, <3>2 DEF TimelyInv, CommitmentsAgree
  <2>. QED
    BY Zenon, <1>3, <2>1, <2>2
<1>8. stage[n] # Finalize /\ stage[n] # Waiting /\ stage[n] # Initialized /\ Ran(n) # stage[n]
  BY <1>2 DEF Waiting, Initialized, Contribute, Commit, Finalize
<1>9. FinalsAgree'
  BY Zenon, <1>1, <1>4, <1>8 DEF TimelyInv, FinalsAgree
<1>10. InStep'
  <2> SUFFICES ASSUME NEW m \in Members
               PROVE  /\ \/ stage[m] = phase[m]
                         \/ /\ stage[m] = phase[m] - 1
                            /\ stage[m] = Waiting \/ Ran(m)' = stage[m]
                         \/ stage[m] = Finalize /\ phase[m] = Idle
                      /\ stage[m] = Waiting => round[m] = 0 /\ session'[m] = EmptySession
                                               /\ ~started'[m]
                      /\ stage[m] # Waiting => round[m] = 1
                      /\ stage[m] \in {Initialized, Finalize} => started'[m]
    BY Zenon, <1>1 DEF InStep
  <2>1. CASE m # n
    <3>1. started'[m] = started[m] /\ session'[m] = session[m] /\ Ran(m)' = Ran(m)
      BY Zenon, <1>1, <1>2, <1>4, <2>1, Types
    <3>. QED
      BY Zenon, <3>1 DEF TimelyInv, InStep
  <2>2. CASE m = n
    BY Zenon, <1>8, <2>2 DEF TimelyInv, InStep
  <2>. QED
    BY Zenon, <2>1, <2>2
<1>. QED
  BY Zenon, <1>3, <1>5, <1>6, <1>7, <1>9, <1>10 DEF TimelyInv

LEMMA PhaseOrder ==
  /\ Initialized = Contribute - 1 /\ Contribute = Complain - 1 /\ Complain = Justify - 1
  /\ Justify = Commit - 1
  /\ ~(Initialized >= Contribute) /\ ~(Initialized >= Complain) /\ ~(Initialized >= Justify)
  /\ ~(Initialized >= Commit)
  /\ Contribute >= Contribute /\ ~(Contribute >= Complain) /\ ~(Contribute >= Justify)
  /\ ~(Contribute >= Commit)
  /\ Complain >= Contribute /\ Complain >= Complain /\ ~(Complain >= Justify)
  /\ ~(Complain >= Commit)
  /\ Justify >= Contribute /\ Justify >= Complain /\ Justify >= Justify /\ ~(Justify >= Commit)
  /\ Commit >= Contribute /\ Commit >= Complain /\ Commit >= Justify /\ Commit >= Commit
  /\ Contribute # Complain /\ Contribute # Justify /\ Contribute # Commit
  /\ Complain # Justify /\ Complain # Commit /\ Justify # Commit
BY DEF Initialized, Contribute, Complain, Justify, Commit

LEMMA BadByPhase ==
  ASSUME NEW s
  PROVE  /\ BadAfter(s, Initialized) = Wrong(s) /\ BadAfter(s, Contribute) = Wrong(s)
         /\ BadAfter(s, Complain) = Silent(s) \cup Wrong(s)
         /\ BadAfter(s, Justify) = Silent(s) \cup Voted(s) \cup Wrong(s)
         /\ BadAfter(s, Commit) = Silent(s) \cup Voted(s) \cup Wrong(s) \cup Open(s)
BY PhaseOrder DEF BadAfter

LEMMA SharesMore ==
  ASSUME NEW n, NEW s, NEW d, NEW k, NEW S, NEW T, S \subseteq T, Shares(n, s, d, k, S)
  PROVE  Shares(n, s, d, k, T)
BY Zenon DEF Shares

\* What is said of the messages in a session depends on them only.
LEMMA SaidByMessages ==
  ASSUME NEW s, NEW t, t.contributions = s.contributions, t.complaints = s.complaints,
         t.justifications = s.justifications
  PROVE  /\ Silent(t) = Silent(s) /\ Voted(t) = Voted(s) /\ Wrong(t) = Wrong(s)
         /\ Open(t) = Open(s)
         /\ \A m : /\ Voters(t, m) = Voters(s, m) /\ Complainers(t, m) = Complainers(s, m)
                   /\ Unanswered(t, m) = Unanswered(s, m)
<1>1. \A m : Voters(t, m) = Voters(s, m) /\ Complainers(t, m) = Complainers(s, m)
  BY Zenon DEF Voters, Complainers
<1>2. \A m : Unanswered(t, m) = Unanswered(s, m)
  BY <1>1 DEF Unanswered
<1>3. Silent(t) = Silent(s)
  BY Zenon DEF Silent
<1>4. Voted(t) = Voted(s) /\ Open(t) = Open(s)
  BY <1>1, <1>2 DEF Voted, Open
<1>5. Wrong(t) = Wrong(s)
  <2>1. \A j : Unfounded(s, j) <=> Unfounded(t, j)
    BY Zenon, <1>1 DEF Unfounded
  <2>2. {j \in t.justifications : Unfounded(t, j)} = {j \in s.justifications : Unfounded(s, j)}
    BY Zenon, <2>1
  <2>. QED
    BY Zenon, <2>2 DEF Wrong
<1>. QED
  BY Zenon, <1>1, <1>2, <1>3, <1>4, <1>5

LEMMA SameSaid ==
  ASSUME NEW s, NEW t, SameMessages(s, t)
  PROVE  /\ Silent(t) = Silent(s) /\ Voted(t) = Voted(s) /\ Wrong(t) = Wrong(s)
         /\ Open(t) = Open(s)
         /\ \A m : /\ Voters(t, m) = Voters(s, m) /\ Complainers(t, m) = Complainers(s, m)
                   /\ Unanswered(t, m) = Unanswered(s, m)
<1>1. /\ t.contributions = s.contributions /\ t.complaints = s.complaints
      /\ t.justifications = s.justifications
  BY Zenon DEF SameMessages
<1>. QED
  BY Zenon, <1>1, SaidByMessages

SameVotes(s, t) ==
  t.valid = s.valid /\ t.badVotes = s.badVotes /\ t.complaintsFrom = s.complaintsFrom

LEMMA StartView ==
  ASSUME NEW s, NEW t, NEW d, NEW e, NEW k, NEW l, SameMessages(s, t), SameVotes(s, t),
         View(s, d, k), t.bad = BadAfter(s, l), s.bad \subseteq t.bad, e.vvec = d.vvec,
         \A m \in Members : e.sk[m] \in {0, 1}
  PROVE  View(t, e, l)
<1>1. t.bad = BadAfter(t, l)
  <2>1. /\ Silent(t) = Silent(s) /\ Voted(t) = Voted(s) /\ Wrong(t) = Wrong(s)
        /\ Open(t) = Open(s)
    BY Zenon, SameSaid
  <2>. QED
    BY Zenon, <2>1 DEF BadAfter
<1>2. t.valid = t.commitments
  BY Zenon DEF View, SameMessages, SameVotes
<1>3. ASSUME NEW m \in Members
      PROVE  /\ t.badVotes[m] = Voters(t, m)
             /\ (\A j \in t.justifications : j.from # m) => t.complaintsFrom[m] = Complainers(t, m)
             /\ m \notin t.bad => t.complaintsFrom[m] = Unanswered(t, m)
             /\ e.vvec[m] = IF m \in Senders(t.contributions) THEN 1 ELSE 0
  <2>1. /\ Voters(t, m) = Voters(s, m) /\ Complainers(t, m) = Complainers(s, m)
        /\ Unanswered(t, m) = Unanswered(s, m)
    BY Zenon, SameSaid
  <2>2. /\ s.badVotes[m] = Voters(s, m)
        /\ (\A j \in s.justifications : j.from # m) => s.complaintsFrom[m] = Complainers(s, m)
        /\ m \notin s.bad => s.complaintsFrom[m] = Unanswered(s, m)
        /\ d.vvec[m] = IF m \in Senders(s.contributions) THEN 1 ELSE 0
    BY Zenon DEF View
  <2>. QED
    BY Zenon, <2>1, <2>2 DEF SameMessages, SameVotes
<1>. QED
  BY Zenon, <1>1, <1>2, <1>3 DEF View

LEMMA StartContributeKeeps ==
  ASSUME TypeInv, TimelyInv, NEW n \in Members, StartPhase(n), StartContribute(n)
  PROVE  TimelyInv'
<1>1. stage[n] = Contribute /\ UNCHANGED <<session, db>> /\ Ran(n) = Initialized
  <2>1. stage[n] = Contribute /\ UNCHANGED <<session, db>>
    BY Zenon DEF StartContribute
  <2>. QED
    BY <2>1, RanStart, PhaseOrder
<1> DEFINE s == session[n]
<1>2. round[n] = 1
  <2>1. stage[n] # Waiting
    BY <1>1 DEF Contribute, Waiting
  <2>. QED
    BY Zenon, <2>1 DEF TimelyInv, InStep
<1>3. PICK new : /\ new \subseteq Contribution /\ (\A x, y \in new : x = y)
                 /\ \A x \in new : x.kind = Contribute /\ x.from = n /\ x.round = 1
                 /\ pending' = [pending EXCEPT ![n] = @ \cup new]
                 /\ n \in Honest => new # {}
  <2>1. CASE n \in faulty /\ UNCHANGED pending
    <3>1. pending' = [pending EXCEPT ![n] = @ \cup {}]
      BY Zenon, <2>1, Types
    <3>2. n \notin Honest
      BY Zenon, <2>1 DEF Honest
    <3> DEFINE none == {}
    <3>3. /\ none \subseteq Contribution /\ (\A x, y \in none : x = y)
          /\ \A x \in none : x.kind = Contribute /\ x.from = n /\ x.round = 1
          /\ pending' = [pending EXCEPT ![n] = @ \cup none]
      BY Zenon, <3>1
    <3> HIDE DEF none
    <3>. QED
      BY Zenon, <3>2, <3>3
  <2>2. CASE ~(n \in faulty /\ UNCHANGED pending)
    <3>1. PICK lies \in Lies(n, Members \ {n}) :
            pending' = [pending EXCEPT ![n] = @ \cup
              {[kind |-> Contribute, from |-> n, round |-> round[n], lies |-> lies]}]
      BY Zenon, <2>2 DEF StartContribute
    <3> DEFINE x == [kind |-> Contribute, from |-> n, round |-> round[n], lies |-> lies]
    <3>2. lies \in SUBSET Members
      BY Zenon DEF Lies
    <3>3. x \in Contribution /\ x.kind = Contribute /\ x.from = n /\ x.round = 1
      BY <1>2, <3>2 DEF Contribution
    <3> HIDE DEF x
    <3>4. pending' = [pending EXCEPT ![n] = @ \cup {x}]
      BY Zenon, <3>1 DEF x
    <3>. QED
      BY Zenon, <3>3, <3>4
  <2>. QED
    BY Zenon, <2>1, <2>2
<1>4. Queues(n, new)
  <2>1. new \subseteq Message
    BY Zenon, <1>3 DEF Message
  <2>. QED
    BY Zenon, <1>1, <1>3, <2>1 DEF Queues, SameMessages
<1>5. View(session'[n], db'[n], stage[n])
  <2>1. View(s, db[n], Initialized)
    BY Zenon, <1>1 DEF TimelyInv, ViewInv
  <2>2. BadAfter(s, Initialized) = BadAfter(s, Contribute)
    BY Zenon, BadByPhase
  <2>. QED
    BY Zenon, <1>1, <2>1, <2>2 DEF View
<1>6. ASSUME n \in Honest
      PROVE  /\ Answers(n, session'[n], stage[n], Sent \cup new)
             /\ Shares(n, session'[n], db'[n], stage[n], Sent \cup new)
  <2>1. Answers(n, s, Initialized, Sent) /\ Shares(n, s, db[n], Initialized, Sent)
    BY Zenon, <1>1, <1>6 DEF TimelyInv, AnswerInv, ShareInv
  <2>2. Answers(n, s, Contribute, Sent \cup new)
    <3>1. \E x \in Sent \cup new : x.kind = Contribute /\ x.from = n
      BY Zenon, <1>3, <1>6
    <3>2. \A j \in Sent \cup new : j.kind = Justify => j \in Sent
      BY Zenon, <1>3, PhaseOrder
    <3>. QED
      BY Zenon, <2>1, <3>1, <3>2, PhaseOrder DEF Answers
  <2>3. Shares(n, s, db[n], Contribute, Sent \cup new)
    BY Zenon, <2>1, PhaseOrder DEF Shares
  <2>. QED
    BY Zenon, <1>1, <2>2, <2>3
<1>7. \A c \in new : c.kind # Complain /\ c.kind # Commit
  BY Zenon, <1>3, PhaseOrder
<1>. QED
  BY Zenon, <1>4, <1>5, <1>6, <1>7, StartKeeps

\* VerifyPendingContributions touches the shares and our own complaints only: every
\* contribution to verify has its share or a complaint afterwards.
LEMMA VerifyFields ==
  ASSUME NEW n \in Members, NEW s \in Session
  PROVE  LET v == VerifyPendingContributions(n, s)
         IN /\ v \in Session /\ SameMessages(s, v) /\ SameVotes(s, v) /\ v.bad = s.bad
            /\ v.unverified = {}
            /\ v.weComplain = s.weComplain \cup (Verified(s) \ Fitting(n, s))
<1> DEFINE v == VerifyPendingContributions(n, s)
           w == s.weComplain \cup (Verified(s) \ Fitting(n, s))
<1>1. w \in SUBSET Members
  BY Zenon DEF Verified, Session
<1>2. v = [s EXCEPT !.unverified = {}, !.weComplain = w]
  BY Zenon DEF VerifyPendingContributions
<1> HIDE DEF v, w
<1>3. /\ v \in Session /\ v.unverified = {} /\ v.weComplain = w /\ v.bad = s.bad
      /\ SameMessages(s, v) /\ SameVotes(s, v)
  BY Zenon, <1>1, <1>2 DEF Session, SameMessages, SameVotes
<1>. QED
  BY Zenon, <1>3 DEF v, w

LEMMA VerifyShares ==
  ASSUME NEW n \in Members, NEW s \in Session, NEW d \in Contributions,
         s.bad = {}, s.unverified \subseteq Senders(s.contributions),
         \A c \in s.contributions : c.round = 1,
         \A m \in Members : d.sk[m] \in {0, 1}
  PROVE  /\ WriteVerified(n, s, d).vvec = d.vvec
         /\ \A m \in Members : WriteVerified(n, s, d).sk[m] \in {0, 1}
         /\ \A m \in Members : m \in s.unverified \/ d.sk[m] = 1 \/ m \in s.weComplain
              => \/ WriteVerified(n, s, d).sk[m] = 1
                 \/ m \in s.weComplain \cup (Verified(s) \ Fitting(n, s))
<1> DEFINE w == WriteVerified(n, s, d)
           k == [m \in Members |-> IF m \in Fitting(n, s)
                                   THEN FirstOf(s.contributions, m).round ELSE d.sk[m]]
<1>1. \A m \in Fitting(n, s) : FirstOf(s.contributions, m).round = 1
  <2> SUFFICES ASSUME NEW m \in Fitting(n, s) PROVE FirstOf(s.contributions, m).round = 1
    OBVIOUS
  <2>1. m \in Senders(s.contributions)
    BY Zenon DEF Fitting, Verified
  <2>2. FirstOf(s.contributions, m) \in s.contributions
    BY Zenon, <2>1 DEF Senders, FirstOf
  <2>. QED
    BY Zenon, <2>2
<1>2. w = [d EXCEPT !.sk = k]
  BY Zenon DEF WriteVerified
<1>3. \A m \in Members : k[m] = IF m \in Fitting(n, s) THEN 1 ELSE d.sk[m]
  BY Zenon, <1>1
<1> HIDE DEF w, k
<1>4. w.vvec = d.vvec /\ w.sk = k
  BY Zenon, <1>2 DEF Contributions
<1>5. \A m \in Members : w.sk[m] \in {0, 1}
  BY Zenon, <1>3, <1>4
<1>6. ASSUME NEW m \in Members, m \in s.unverified \/ d.sk[m] = 1 \/ m \in s.weComplain
      PROVE  w.sk[m] = 1 \/ m \in s.weComplain \cup (Verified(s) \ Fitting(n, s))
  <2>1. m \in s.unverified => m \in Verified(s) \/ m \in s.weComplain
    BY Zenon DEF Verified
  <2>. QED
    BY Zenon, <1>3, <1>4, <1>6, <2>1
<1>. QED
  BY Zenon, <1>4, <1>5, <1>6 DEF w

\* A session has contributions of the only round, and those to verify.
LEMMA ContributionsOK ==
  ASSUME TypeInv, TimelyInv, NEW n \in Members
  PROVE  /\ \A c \in session[n].contributions : c.round = 1 /\ c.kind = Contribute
         /\ session[n].unverified \subseteq Senders(session[n].contributions)
         /\ Senders(session[n].contributions) \subseteq Members
<1>1. session[n].contributions \subseteq Contribution
  BY Zenon, Types DEF Session
<1>2. ASSUME NEW c \in session[n].contributions
      PROVE  c.round = 1 /\ c.kind = Contribute /\ c.from \in Members
  <2>1. c \in Sent
    BY Zenon, ReceivedAreSent DEF Received, TimelyInv
  <2>2. c.kind = Contribute /\ c.from \in Members
    BY Zenon, <1>1 DEF Contribution
  <2>. QED
    BY Zenon, <2>1, <2>2, PhaseOrder DEF TimelyInv, MessageInv
<1>3. session[n].unverified \subseteq Senders(session[n].contributions)
  BY Zenon DEF TypeInv, SessionOK, Senders
<1>. QED
  BY Zenon, <1>2, <1>3 DEF Senders

\* Before the justify phase there are no justifications, and before the complain
\* function nobody is bad.
LEMMA NoneYet ==
  ASSUME TypeInv, TimelyInv, NEW n \in Members
  PROVE  /\ stage[n] < Justify => session[n].justifications = {} /\ Wrong(session[n]) = {}
         /\ Ran(n) < Complain /\ stage[n] < Justify => session[n].bad = {}
<1>1. ASSUME stage[n] < Justify PROVE session[n].justifications = {} /\ Wrong(session[n]) = {}
  <2>1. ASSUME NEW j \in session[n].justifications PROVE FALSE
    <3>0. session[n].justifications \subseteq Justification
      BY Zenon, Types DEF Session
    <3>1. j.kind = Justify
      BY Zenon, <3>0 DEF Justification
    <3>2. j.kind <= stage[n]
      BY Zenon, <2>1 DEF TimelyInv, MessageInv, Received
    <3>3. stage[n] \in Waiting..Finalize
      BY Zenon, Types
    <3>. QED
      BY <1>1, <3>1, <3>2, <3>3 DEF Justify, Waiting, Finalize
  <2>2. session[n].justifications = {}
    BY Zenon, <2>1
  <2>. QED
    BY Zenon, <2>2 DEF Wrong, Senders
<1>2. ASSUME Ran(n) < Complain, stage[n] < Justify PROVE session[n].bad = {}
  <2>1. Ran(n) \in -1..Commit
    BY Zenon, Types
  <2>2. ~(Ran(n) >= Complain) /\ ~(Ran(n) >= Justify) /\ ~(Ran(n) >= Commit)
    BY <1>2, <2>1 DEF Complain, Justify, Commit
  <2>3. session[n].bad = BadAfter(session[n], Ran(n))
    BY Zenon DEF TimelyInv, ViewInv, View
  <2>. QED
    BY Zenon, <1>1, <1>2, <2>2, <2>3 DEF BadAfter
<1>. QED
  BY Zenon, <1>1, <1>2

\* Once the contribute phase is over, everyone has the contributions of the honest.
LEMMA HonestContribute ==
  ASSUME TypeInv, TimelyInv, NEW n \in Members, Over(Contribute), NEW h \in Honest
  PROVE  h \in Senders(session[n].contributions)
<1>1. Ran(h) >= Contribute
  <2>1. h \in Members /\ Contribute \in Initialized..Commit
    BY DEF Honest, Contribute, Initialized, Commit
  <2>. QED
    BY Zenon, <2>1 DEF TimelyInv, AllReceived
<1>2. PICK x \in Sent : x.kind = Contribute /\ x.from = h
  BY Zenon, <1>1 DEF TimelyInv, AnswerInv, Answers
<1>3. x \in Received(session[n])
  BY Zenon, <1>2, OverReceived DEF TimelyInv
<1>4. x \in session[n].contributions
  BY Zenon, <1>2, <1>3, Types, OfKind
<1>. QED
  BY Zenon, <1>2, <1>4 DEF Senders

LEMMA StartComplainKeeps ==
  ASSUME TypeInv, TimelyInv, NEW n \in Members, StartPhase(n), StartComplain(n)
  PROVE  TimelyInv'
<1> DEFINE s == session[n]
           v == VerifyPendingContributions(n, s)
           silent == {m \in Members : SentBy(s.contributions, m) = {}}
           bad == s.bad \cup silent
           for == v.weComplain \ bad
           x == [kind |-> Complain, from |-> n, round |-> round[n], bad |-> bad, for |-> for]
           t == [v EXCEPT !.bad = bad]
           d == db[n]
           e == WriteVerified(n, s, d)
           new == IF bad \cup for = {} THEN {} ELSE {x}
<1>1. /\ stage[n] = Complain /\ session' = [session EXCEPT ![n] = t]
      /\ db' = [db EXCEPT ![n] = e] /\ pending' = [pending EXCEPT ![n] = @ \cup new]
  BY Zenon DEF StartComplain
<1>2. s \in Session /\ d \in Contributions /\ Ran(n) = Contribute
  <2>1. s \in Session /\ d \in Contributions
    BY Zenon, Types
  <2>. QED
    BY <1>1, <2>1, RanStart, PhaseOrder
<1>3. round[n] = 1
  <2>1. stage[n] # Waiting
    BY <1>1 DEF Complain, Waiting
  <2>. QED
    BY Zenon, <2>1 DEF TimelyInv, InStep
<1>4. silent = Silent(s)
  BY Zenon DEF SentBy, Silent, Senders
<1>5. s.justifications = {} /\ Wrong(s) = {} /\ s.bad = {} /\ bad = Silent(s)
  <2>1. stage[n] < Justify /\ Ran(n) < Complain
    BY <1>1, <1>2 DEF Contribute, Complain, Justify
  <2>2. s.justifications = {} /\ Wrong(s) = {} /\ s.bad = {}
    BY Zenon, <2>1, NoneYet
  <2>. QED
    BY Zenon, <1>4, <2>2
<1>6. /\ v \in Session /\ SameMessages(s, v) /\ SameVotes(s, v) /\ v.unverified = {}
      /\ v.weComplain = s.weComplain \cup (Verified(s) \ Fitting(n, s))
  <2> HIDE DEF s, v
  <2>. QED
    BY Zenon, <1>2, VerifyFields DEF v
<1>7. bad \in SUBSET Members /\ for \in SUBSET Members
  <2> HIDE DEF v, s
  <2>. QED
    BY Zenon, <1>2, <1>6 DEF Session
<1> HIDE DEF s, v, d, silent, bad, for
<1>8. /\ SameMessages(s, t) /\ SameVotes(s, t) /\ t.bad = bad /\ t.unverified = {}
      /\ t.weComplain = v.weComplain
  BY Zenon, <1>6, <1>7 DEF Session, SameMessages, SameVotes
<1> HIDE DEF t
<1>9. x \in Message /\ x.kind = Complain /\ x.from = n /\ x.round = 1 /\ x.bad = bad /\ x.for = for
  BY <1>3, <1>7 DEF Message, Complaint
<1> HIDE DEF x
<1>10. /\ session'[n] = t /\ db'[n] = e
       /\ \A m \in Members \ {n} : session'[m] = session[m] /\ db'[m] = db[m]
  BY Zenon, <1>1, Types
<1>11. Queues(n, new)
  BY Zenon, <1>1, <1>8, <1>9, <1>10 DEF Queues, s
<1>12. /\ e.vvec = d.vvec /\ \A m \in Members : e.sk[m] \in {0, 1}
       /\ \A m \in Members : m \in s.unverified \/ d.sk[m] = 1 \/ m \in s.weComplain
              => e.sk[m] = 1 \/ m \in v.weComplain
  <2>1. /\ s.unverified \subseteq Senders(s.contributions)
        /\ \A c \in s.contributions : c.round = 1
    BY Zenon, ContributionsOK DEF s
  <2>2. \A m \in Members : d.sk[m] \in {0, 1}
    BY Zenon DEF TimelyInv, ViewInv, View, d
  <2>3. /\ e.vvec = d.vvec /\ \A m \in Members : e.sk[m] \in {0, 1}
        /\ \A m \in Members : m \in s.unverified \/ d.sk[m] = 1 \/ m \in s.weComplain
              => e.sk[m] = 1 \/ m \in s.weComplain \cup (Verified(s) \ Fitting(n, s))
    BY SMTT(30), <1>2, <1>5, <2>1, <2>2, VerifyShares
  <2> HIDE DEF e
  <2>. QED
    BY Zenon, <1>6, <2>3
<1>13. View(session'[n], db'[n], stage[n])
  <2>1. View(s, d, Contribute)
    BY Zenon, <1>2 DEF TimelyInv, ViewInv, s, d
  <2>2. t.bad = BadAfter(s, Complain) /\ s.bad \subseteq t.bad
    <3>1. BadAfter(s, Complain) = Silent(s) \cup Wrong(s)
      BY Zenon, BadByPhase
    <3>. QED
      BY Zenon, <1>5, <1>8, <3>1
  <2>3. View(t, e, Complain)
    BY Zenon, <1>8, <1>12, <2>1, <2>2, StartView
  <2>. QED
    BY Zenon, <1>1, <1>10, <2>3
<1>14. ASSUME n \in Honest
       PROVE  /\ Answers(n, session'[n], stage[n], Sent \cup new)
              /\ Shares(n, session'[n], db'[n], stage[n], Sent \cup new)
  <2>1. Answers(n, s, Contribute, Sent) /\ Shares(n, s, d, Contribute, Sent)
    BY Zenon, <1>2, <1>14 DEF TimelyInv, AnswerInv, ShareInv, s, d
  <2>2. Answers(n, t, Complain, Sent \cup new)
    <3>1. \A j \in Sent \cup new : j.kind = Justify => j \in Sent
      BY Zenon, <1>9, PhaseOrder
    <3>2. Complainers(t, n) = Complainers(s, n)
      BY Zenon, <1>8, SameSaid
    <3>. QED
      BY Zenon, <2>1, <3>1, <3>2, PhaseOrder DEF Answers
  <2>3. \A m \in Senders(t.contributions) : e.sk[m] = 1 \/ m \in t.weComplain
    <3>1. \A m \in Senders(s.contributions) :
            m \in Members /\ (m \in s.unverified \/ d.sk[m] = 1 \/ m \in s.weComplain)
      BY Zenon, <2>1, ContributionsOK DEF Shares, s
    <3>. QED
      BY Zenon, <1>8, <1>12, <3>1 DEF SameMessages
  <2>4. ASSUME NEW m \in t.weComplain \ t.bad
        PROVE  \E c \in Sent \cup new : c.kind = Complain /\ c.from = n /\ m \in c.for
    <3>1. m \in for
      BY Zenon, <1>8 DEF for
    <3>2. x \in new
      BY Zenon, <3>1
    <3>. QED
      BY Zenon, <1>9, <3>1, <3>2
  <2>5. t.justifications = {}
    BY Zenon, <1>5, <1>8 DEF SameMessages
  <2>6. Shares(n, t, e, Complain, Sent \cup new)
    BY Zenon, <1>8, <2>3, <2>4, <2>5, PhaseOrder DEF Shares
  <2>. QED
    BY Zenon, <1>1, <1>10, <2>2, <2>6
<1>15. \A c \in new : c.bad \cap Honest = {} /\ c.kind # Commit
  <2>1. Over(Contribute)
    <3>1. stage[n] > Contribute /\ Contribute \in Nat
      BY <1>1 DEF Contribute, Complain
    <3>. QED
      BY Zenon, <3>1, StageOver DEF TimelyInv
  <2>2. \A h \in Honest : h \in Senders(s.contributions)
    BY Zenon, <2>1, HonestContribute DEF s
  <2>3. bad \cap Honest = {}
    BY Zenon, <1>5, <2>2 DEF Silent
  <2>. QED
    BY Zenon, <1>9, <2>3, PhaseOrder
<1> HIDE DEF new
<1>. QED
  BY Zenon, <1>11, <1>13, <1>14, <1>15, StartKeeps

\* Marking members as bad changes nothing else of a session.
LEMMA MarkFields ==
  ASSUME TypeInv, NEW n \in Members, NEW bad \in SUBSET Members, UNCHANGED db,
         session' = [session EXCEPT ![n].bad = bad]
  PROVE  /\ SameMessages(session[n], session'[n]) /\ SameVotes(session[n], session'[n])
         /\ session'[n].bad = bad /\ session'[n].weComplain = session[n].weComplain
         /\ session'[n].unverified = session[n].unverified
         /\ \A m \in Members \ {n} : session'[m] = session[m] /\ db'[m] = db[m]
<1> DEFINE s == session[n]
           t == [s EXCEPT !.bad = bad]
<1>1. session \in [Members -> Session] /\ s \in Session
  BY Zenon, Types
<1>2. session'[n] = t /\ \A m \in Members \ {n} : session'[m] = session[m] /\ db'[m] = db[m]
  BY Zenon, <1>1
<1> HIDE DEF s
<1>3. /\ SameMessages(s, t) /\ SameVotes(s, t) /\ t.bad = bad /\ t.weComplain = s.weComplain
      /\ t.unverified = s.unverified
  BY Zenon, <1>1 DEF Session, SameMessages, SameVotes
<1> HIDE DEF t
<1>. QED
  BY Zenon, <1>2, <1>3 DEF s

\* The shares need no more when more members are bad, until the commit function.
LEMMA SharesMoreBad ==
  ASSUME NEW n, NEW s, NEW t, NEW d, NEW k, NEW l, NEW S, NEW T, S \subseteq T,
         SameMessages(s, t), t.weComplain = s.weComplain, t.unverified = s.unverified,
         s.bad \subseteq t.bad, Shares(n, s, d, k, S), k >= Complain,
         l >= Commit => \/ Cardinality(Members \ t.bad) < MinSize
                        \/ \E c \in T : c.kind = Commit /\ c.from = n
  PROVE  Shares(n, t, d, l, T)
<1>1. /\ t.contributions = s.contributions /\ t.justifications = s.justifications
  BY Zenon DEF SameMessages
<1>2. \A m \in Senders(t.contributions) :
        m \in t.unverified \/ d.sk[m] = 1 \/ m \in t.weComplain
  BY Zenon, <1>1 DEF Shares
<1>3. /\ t.unverified = {}
      /\ \A m \in t.weComplain \ t.bad : \E c \in T : c.kind = Complain /\ c.from = n /\ m \in c.for
  BY Zenon DEF Shares
<1>4. \A j \in t.justifications : n \in j.for /\ j.from \notin t.bad => j.from \notin t.weComplain
  BY Zenon, <1>1 DEF Shares
<1>. QED
  BY Zenon, <1>2, <1>3, <1>4 DEF Shares

LEMMA AtMostOne ==
  ASSUME NEW S, \A x, y \in S : x = y
  PROVE  ~(Cardinality(S) > 1)
<1>1. CASE S = {}
  BY <1>1, FS_EmptySet
<1>2. CASE S # {}
  <2>1. PICK x \in S : TRUE
    BY Zenon, <1>2
  <2>2. S = {x}
    BY Zenon, <2>1
  <2>. QED
    BY <2>2, FS_Singleton
<1>. QED
  BY Zenon, <1>1, <1>2

LEMMA StartJustifyKeeps ==
  ASSUME TypeInv, TimelyInv, NEW n \in Members, StartPhase(n), StartJustify(n)
  PROVE  TimelyInv'
<1> DEFINE s == session[n]
           d == db[n]
           voted == {m \in Members : Cardinality(s.badVotes[m]) >= BadVotes}
           twice == {m \in Members : Cardinality(SentBy(s.complaints, m)) > 1}
           bad == s.bad \cup voted \cup twice
           for == {m \in Members \ bad : \E c \in SentBy(s.complaints, m) : n \in c.for}
<1>1. /\ stage[n] = Justify /\ session' = [session EXCEPT ![n].bad = bad] /\ UNCHANGED db
      /\ \/ for # {} /\ \E lies \in Lies(n, for \ {n}) :
              pending' = [pending EXCEPT ![n] = @ \cup
                {[kind |-> Justify, from |-> n, round |-> round[n], for |-> for, lies |-> lies]}]
         \/ (for = {} \/ n \in faulty) /\ UNCHANGED pending
  BY Zenon DEF StartJustify
<1>2. Ran(n) = Complain
  BY SMTT(30), <1>1, RanStart, PhaseOrder
<1>3. round[n] = 1
  <2>1. stage[n] # Waiting
    BY <1>1 DEF Justify, Waiting
  <2>. QED
    BY Zenon, <2>1 DEF TimelyInv, InStep
<1>4. View(s, d, Complain) /\ s \in Session
  BY Zenon, <1>2, Types DEF TimelyInv, ViewInv
<1>5. voted = Voted(s)
  <2>1. \A m \in Members : s.badVotes[m] = Voters(s, m)
    BY Zenon, <1>4 DEF View
  <2>. QED
    BY Zenon, <2>1 DEF Voted
<1>6. twice = {}
  <2>1. \A x, y \in s.complaints : x.from = y.from => x = y
    <3>1. \A x \in s.complaints : x \in Sent /\ x.kind = Complain
      <4>1. s.complaints \subseteq Complaint
        BY Zenon, <1>4 DEF Session
      <4>2. s.complaints \subseteq Sent
        BY Zenon, ReceivedAreSent DEF Received, TimelyInv
      <4>. QED
        BY Zenon, <4>1, <4>2 DEF Complaint
    <3>. QED
      BY Zenon, <3>1 DEF TimelyInv, MessageInv
  <2>2. \A m \in Members : \A x, y \in SentBy(s.complaints, m) : x = y
    BY Zenon, <2>1 DEF SentBy
  <2>. QED
    BY Zenon, <2>2, AtMostOne
<1>7. bad = BadAfter(s, Justify) /\ s.bad \subseteq bad /\ bad \in SUBSET Members
  <2>1. /\ BadAfter(s, Justify) = Silent(s) \cup Voted(s) \cup Wrong(s)
        /\ BadAfter(s, Complain) = Silent(s) \cup Wrong(s)
    BY Zenon, BadByPhase
  <2>2. s.bad = BadAfter(s, Complain) /\ s.bad \in SUBSET Members /\ Voted(s) \in SUBSET Members
    BY Zenon, <1>4 DEF View, Session, Voted
  <2> HIDE DEF s, voted, twice
  <2>. QED
    BY Zenon, <1>5, <1>6, <2>1, <2>2
<1>8. /\ SameMessages(s, session'[n]) /\ SameVotes(s, session'[n]) /\ session'[n].bad = bad
      /\ session'[n].weComplain = s.weComplain /\ session'[n].unverified = s.unverified
      /\ \A m \in Members \ {n} : session'[m] = session[m] /\ db'[m] = db[m]
  <2> HIDE DEF bad
  <2>. QED
    BY Zenon, <1>1, <1>7, MarkFields
<1> HIDE DEF voted, twice, bad
<1>9. for \in SUBSET Members /\ for \subseteq Complainers(s, n)
      /\ \A q \in Complainers(s, n) : q \in bad \/ q \in for
  <2>1. for \in SUBSET Members /\ for \subseteq Complainers(s, n)
    BY Zenon DEF SentBy, Complainers, Senders
  <2>2. s.complaints \subseteq Complaint
    BY Zenon, <1>4 DEF Session
  <2>3. Complainers(s, n) \subseteq Members
    BY Zenon, <2>2 DEF Complainers, Senders, Complaint
  <2>4. \A q \in Complainers(s, n) : q \in bad \/ q \in for
    BY Zenon, <2>3 DEF SentBy, Complainers, Senders
  <2>. QED
    BY Zenon, <2>1, <2>4
<1> HIDE DEF for
<1>10. PICK new : /\ new \subseteq Justification /\ (\A x, y \in new : x = y)
                  /\ \A j \in new : /\ j.kind = Justify /\ j.from = n /\ j.round = 1
                                    /\ j.for = for /\ (n \in Honest => j.lies = {})
                  /\ pending' = [pending EXCEPT ![n] = @ \cup new]
                  /\ n \in Honest /\ for # {} => new # {}
  <2>1. CASE (for = {} \/ n \in faulty) /\ UNCHANGED pending
    <3>1. pending' = [pending EXCEPT ![n] = @ \cup {}]
      BY Zenon, <2>1, Types
    <3> DEFINE none == {}
    <3>2. /\ none \subseteq Justification /\ (\A x, y \in none : x = y)
          /\ \A j \in none : /\ j.kind = Justify /\ j.from = n /\ j.round = 1
                             /\ j.for = for /\ (n \in Honest => j.lies = {})
          /\ pending' = [pending EXCEPT ![n] = @ \cup none]
          /\ ~(n \in Honest /\ for # {})
      BY Zenon, <2>1, <3>1 DEF Honest
    <3> HIDE DEF none
    <3>. QED
      BY Zenon, <3>2
  <2>2. CASE ~((for = {} \/ n \in faulty) /\ UNCHANGED pending)
    <3>1. PICK lies \in Lies(n, for \ {n}) :
            pending' = [pending EXCEPT ![n] = @ \cup
              {[kind |-> Justify, from |-> n, round |-> round[n], for |-> for, lies |-> lies]}]
      BY Zenon, <1>1, <2>2
    <3> DEFINE x == [kind |-> Justify, from |-> n, round |-> round[n], for |-> for, lies |-> lies]
    <3>2. lies \in SUBSET Members /\ (n \in Honest => lies = {})
      BY Zenon, <1>9 DEF Lies, Honest
    <3>3. /\ x \in Justification /\ x.kind = Justify /\ x.from = n /\ x.round = 1
          /\ x.for = for /\ x.lies = lies
      BY <1>3, <1>9, <3>2 DEF Justification
    <3> HIDE DEF x
    <3>4. pending' = [pending EXCEPT ![n] = @ \cup {x}]
      BY Zenon, <3>1 DEF x
    <3> DEFINE one == {x}
    <3>5. /\ one \subseteq Justification /\ (\A y, z \in one : y = z)
          /\ \A j \in one : /\ j.kind = Justify /\ j.from = n /\ j.round = 1
                            /\ j.for = for /\ (n \in Honest => j.lies = {})
          /\ pending' = [pending EXCEPT ![n] = @ \cup one]
          /\ one # {}
      BY Zenon, <3>2, <3>3, <3>4
    <3> HIDE DEF one
    <3>. QED
      BY Zenon, <3>5
  <2>. QED
    BY Zenon, <2>1, <2>2
<1>11. Queues(n, new)
  <2>1. new \subseteq Message
    BY Zenon, <1>10 DEF Message
  <2>. QED
    BY Zenon, <1>1, <1>8, <1>10, <2>1 DEF Queues
<1>12. View(session'[n], db'[n], stage[n])
  <2>1. \A m \in Members : d.sk[m] \in {0, 1}
    BY Zenon, <1>4 DEF View
  <2> DEFINE t == session'[n]
  <2> HIDE DEF t, s, d
  <2>2. View(t, d, Justify)
    BY ZenonT(40), <1>4, <1>7, <1>8, <2>1, StartView DEF t
  <2>. QED
    BY Zenon, <1>1, <2>2 DEF t, d
<1>13. ASSUME n \in Honest
       PROVE  /\ Answers(n, session'[n], stage[n], Sent \cup new)
              /\ Shares(n, session'[n], db'[n], stage[n], Sent \cup new)
  <2>1. Answers(n, s, Complain, Sent) /\ Shares(n, s, d, Complain, Sent)
    BY Zenon, <1>2, <1>13 DEF TimelyInv, AnswerInv, ShareInv
  <2> DEFINE t == session'[n]
  <2> HIDE DEF t, s, d
  <2>2. Complainers(t, n) = Complainers(s, n)
    BY Zenon, <1>8, SameSaid DEF t
  <2>3. Answers(n, t, Justify, Sent \cup new)
    <3>1. \E x \in Sent \cup new : x.kind = Contribute /\ x.from = n
      BY Zenon, <2>1, PhaseOrder DEF Answers
    <3>2. \A j \in Sent \cup new :
            j.kind = Justify /\ j.from = n => j.lies = {} /\ j.for \subseteq Complainers(t, n)
      BY Zenon, <1>9, <1>10, <1>13, <2>1, <2>2 DEF Answers, t
    <3>3. ASSUME NEW q \in Complainers(t, n), q \notin t.bad
          PROVE  \E j \in Sent \cup new : j.kind = Justify /\ j.from = n /\ q \in j.for
      <4>1. q \in for
        BY Zenon, <1>8, <1>9, <2>2, <3>3 DEF t
      <4>2. PICK j \in new : TRUE
        BY Zenon, <1>10, <1>13, <4>1
      <4>. QED
        BY Zenon, <1>10, <4>1, <4>2
    <3>. QED
      BY Zenon, <3>1, <3>2, <3>3 DEF Answers
  <2>4. Shares(n, t, d, Justify, Sent \cup new)
    BY Zenon, <1>7, <1>8, <2>1, SharesMoreBad, PhaseOrder DEF t
  <2>. QED
    BY Zenon, <1>1, <2>3, <2>4 DEF t, d
<1>14. \A c \in new : c.kind # Complain /\ c.kind # Commit
  BY Zenon, <1>10, PhaseOrder
<1>. QED
  BY Zenon, <1>11, <1>12, <1>13, <1>14, StartKeeps

\* An honest member has all the shares when it commits.
LEMMA HasAllShares ==
  ASSUME TypeInv, TimelyInv, NEW n \in Honest, Ran(n) = Justify, stage[n] = Commit,
         NEW m \in Members, m \notin session[n].bad, m \notin Open(session[n])
  PROVE  db[n].sk[m] = 1
<1> DEFINE s == session[n]
           d == db[n]
<1>1. n \in Members /\ s \in Session
  BY Zenon, Types DEF Honest
<1>2. View(s, d, Justify) /\ Shares(n, s, d, Justify, Sent)
  BY Zenon, <1>1 DEF TimelyInv, ViewInv, ShareInv
<1>3. m \in Senders(s.contributions)
  <2>1. s.bad = Silent(s) \cup Voted(s) \cup Wrong(s)
    BY Zenon, <1>2, BadByPhase DEF View
  <2>. QED
    BY Zenon, <2>1 DEF Silent
<1>4. d.sk[m] = 1 \/ m \in s.weComplain
  BY Zenon, <1>2, <1>3, PhaseOrder DEF Shares
<1>5. ASSUME m \in s.weComplain PROVE FALSE
  <2>1. PICK c \in Sent : c.kind = Complain /\ c.from = n /\ m \in c.for
    BY Zenon, <1>2, <1>5, PhaseOrder DEF Shares
  <2>2. Over(Complain)
    <3>1. stage[n] > Complain /\ Complain \in Nat
      BY DEF Complain, Commit
    <3>. QED
      BY Zenon, <1>1, <3>1, StageOver DEF TimelyInv
  <2>3. c \in s.complaints
    <3>1. c \in Received(s)
      BY Zenon, <1>1, <2>1, <2>2, OverReceived DEF TimelyInv
    <3>. QED
      BY Zenon, <1>1, <2>1, <3>1, OfKind
  <2>4. n \in Complainers(s, m)
    BY Zenon, <2>1, <2>3 DEF Complainers, Senders
  <2>5. Unanswered(s, m) = {}
    BY Zenon DEF Open
  <2>6. PICK j \in s.justifications : j.from = m /\ n \in j.for
    BY Zenon, <2>4, <2>5 DEF Unanswered
  <2>. QED
    BY Zenon, <1>2, <1>5, <2>6 DEF Shares
<1>. QED
  BY Zenon, <1>4, <1>5

LEMMA StartCommitKeeps ==
  ASSUME TypeInv, TimelyInv, NEW n \in Members, StartPhase(n), StartCommit(n)
  PROVE  TimelyInv'
<1> DEFINE s == session[n]
           d == db[n]
           open == {m \in Members : s.complaintsFrom[m] # {}}
           bad == s.bad \cup open
           valid == Members \ bad
           able == /\ Cardinality(valid) >= MinSize
                   /\ HasVvecs(d, valid) /\ HasShares(d, valid)
           x == [kind |-> Commit, from |-> n, valid |-> valid,
                 key |-> QuorumVvec(d, valid), share |-> SkShare(d, valid)]
<1>1. /\ stage[n] = Commit /\ session' = [session EXCEPT ![n].bad = bad] /\ UNCHANGED db
      /\ \/ able /\ pending' = [pending EXCEPT ![n] = @ \cup {x}]
         \/ (~able \/ n \in faulty) /\ UNCHANGED pending
  BY Zenon DEF StartCommit
<1>2. Ran(n) = Justify
  BY <1>1, RanStart, PhaseOrder
<1>3. View(s, d, Justify) /\ s \in Session /\ d \in Contributions
  BY Zenon, <1>2, Types DEF TimelyInv, ViewInv
<1>4. bad = BadAfter(s, Commit) /\ s.bad \subseteq bad /\ bad \in SUBSET Members
      /\ bad = s.bad \cup Open(s)
  <2>1. /\ BadAfter(s, Commit) = Silent(s) \cup Voted(s) \cup Wrong(s) \cup Open(s)
        /\ BadAfter(s, Justify) = Silent(s) \cup Voted(s) \cup Wrong(s)
    BY Zenon, BadByPhase
  <2>2. s.bad = BadAfter(s, Justify) /\ s.bad \in SUBSET Members
    BY Zenon, <1>3 DEF View, Session
  <2>3. \A m \in Members \ s.bad : m \in open <=> m \in Open(s)
    BY Zenon, <1>3 DEF View, Open
  <2>4. open \in SUBSET Members /\ Open(s) \in SUBSET Members
    BY Zenon DEF Open
  <2> HIDE DEF s, open
  <2>5. bad = s.bad \cup Open(s)
    BY Zenon, <2>2, <2>3, <2>4
  <2>. QED
    BY Zenon, <2>1, <2>2, <2>4, <2>5
<1>5. /\ SameMessages(s, session'[n]) /\ SameVotes(s, session'[n]) /\ session'[n].bad = bad
      /\ session'[n].weComplain = s.weComplain /\ session'[n].unverified = s.unverified
      /\ \A m \in Members \ {n} : session'[m] = session[m] /\ db'[m] = db[m]
  <2> HIDE DEF bad
  <2>. QED
    BY Zenon, <1>1, <1>4, MarkFields
<1>6. HasVvecs(d, valid) /\ \A m \in valid : d.vvec[m] = 1
  <2>1. \A m \in valid : m \in Senders(s.contributions)
    <3>1. s.bad = Silent(s) \cup Voted(s) \cup Wrong(s)
      BY Zenon, <1>3, BadByPhase DEF View
    <3>. QED
      BY Zenon, <3>1 DEF Silent
  <2>2. \A m \in valid : d.vvec[m] = 1
    BY Zenon, <1>3, <2>1 DEF View
  <2> HIDE DEF valid, d
  <2>. QED
    BY <2>2 DEF HasVvecs
<1>7. n \in Honest => HasShares(d, valid)
  <2>1. ASSUME n \in Honest, NEW m \in valid PROVE d.sk[m] = 1
    BY Zenon, <1>1, <1>2, <1>4, <2>1, HasAllShares
  <2> HIDE DEF valid, d
  <2>. QED
    BY <2>1 DEF HasShares
<1>8. able => QuorumVvec(d, valid) = Ones(valid) /\ SkShare(d, valid) = Ones(valid)
  <2>1. \A m \in Members : d.sk[m] \in {0, 1}
    BY Zenon, <1>3 DEF View
  <2>2. valid \subseteq Members
    OBVIOUS
  <2> HIDE DEF valid, d
  <2>. QED
    BY Zenon, <1>6, <2>1, <2>2 DEF HasShares, QuorumVvec, SkShare, Ones
<1>9. valid \in SUBSET Members
  OBVIOUS
<1>10. valid = Members \ session'[n].bad
  BY Zenon, <1>5
<1> HIDE DEF valid, bad, open
<1>11. able => /\ x \in Commitment /\ x.kind = Commit /\ x.from = n /\ x.valid = valid
               /\ x.key = Ones(valid) /\ x.share = Ones(valid)
  <2>1. Ones(valid) \in Keys
    BY DEF Ones, Keys
  <2>. QED
    BY Zenon, <1>8, <1>9, <2>1 DEF Commitment
<1> HIDE DEF x
<1>12. PICK new : /\ new \subseteq Commitment /\ (\A y, z \in new : y = z)
                  /\ \A c \in new : /\ c.kind = Commit /\ c.from = n /\ c.valid = valid
                                    /\ c.key = Ones(valid) /\ c.share = Ones(valid)
                  /\ pending' = [pending EXCEPT ![n] = @ \cup new]
                  /\ (n \in Honest /\ able => new # {})
  <2>1. CASE able /\ pending' = [pending EXCEPT ![n] = @ \cup {x}]
    <3> DEFINE one == {x}
    <3>1. /\ one \subseteq Commitment /\ (\A y, z \in one : y = z)
          /\ \A c \in one : /\ c.kind = Commit /\ c.from = n /\ c.valid = valid
                            /\ c.key = Ones(valid) /\ c.share = Ones(valid)
          /\ pending' = [pending EXCEPT ![n] = @ \cup one]
          /\ one # {}
      BY Zenon, <1>11, <2>1
    <3> HIDE DEF one, able
    <3>. QED
      BY Zenon, <3>1
  <2>2. CASE (~able \/ n \in faulty) /\ UNCHANGED pending
    <3>1. pending' = [pending EXCEPT ![n] = @ \cup {}]
      BY Zenon, <2>2, Types
    <3> DEFINE none == {}
    <3>2. /\ none \subseteq Commitment /\ (\A y, z \in none : y = z)
          /\ \A c \in none : /\ c.kind = Commit /\ c.from = n /\ c.valid = valid
                             /\ c.key = Ones(valid) /\ c.share = Ones(valid)
          /\ pending' = [pending EXCEPT ![n] = @ \cup none]
          /\ ~(n \in Honest /\ able)
      <4> HIDE DEF able
      <4>. QED
        BY Zenon, <2>2, <3>1 DEF Honest
    <3> HIDE DEF none, able
    <3>. QED
      BY Zenon, <3>2
  <2> HIDE DEF able
  <2>. QED
    BY Zenon, <1>1, <2>1, <2>2
<1>13. Queues(n, new)
  <2>1. new \subseteq Message
    BY Zenon, <1>12 DEF Message
  <2>. QED
    BY Zenon, <1>1, <1>5, <1>12, <2>1 DEF Queues
<1> DEFINE t == session'[n]
<1> HIDE DEF t, s, d
<1>14. View(session'[n], db'[n], stage[n])
  <2>1. \A m \in Members : d.sk[m] \in {0, 1}
    BY Zenon, <1>3 DEF View
  <2>2. View(t, d, Commit)
    BY ZenonT(40), <1>3, <1>4, <1>5, <2>1, StartView DEF t
  <2>. QED
    BY Zenon, <1>1, <2>2 DEF t, d
<1>15. ASSUME n \in Honest
       PROVE  /\ Answers(n, session'[n], stage[n], Sent \cup new)
              /\ Shares(n, session'[n], db'[n], stage[n], Sent \cup new)
  <2>1. Answers(n, s, Justify, Sent) /\ Shares(n, s, d, Justify, Sent)
    BY Zenon, <1>2, <1>15 DEF TimelyInv, AnswerInv, ShareInv, s, d
  <2>2. Complainers(t, n) = Complainers(s, n)
    BY Zenon, <1>5, SameSaid DEF t
  <2>3. Answers(n, t, Commit, Sent \cup new)
    <3>1. \E y \in Sent \cup new : y.kind = Contribute /\ y.from = n
      BY Zenon, <2>1, PhaseOrder DEF Answers
    <3>2. \A j \in Sent \cup new : j.kind = Justify => j \in Sent
      BY Zenon, <1>12, PhaseOrder
    <3>3. \A q \in Complainers(s, n) :
            q \in t.bad \/ \E j \in Sent \cup new : j.kind = Justify /\ j.from = n /\ q \in j.for
      BY Zenon, <1>4, <1>5, <2>1, PhaseOrder DEF Answers, t
    <3>. QED
      BY Zenon, <2>1, <2>2, <3>1, <3>2, <3>3 DEF Answers
  <2>4. \/ Cardinality(Members \ t.bad) < MinSize
        \/ \E c \in Sent \cup new : c.kind = Commit /\ c.from = n
    <3>1. CASE able
      BY Zenon, <1>12, <1>15, <3>1
    <3>2. CASE ~able
      <4>1. ~(Cardinality(valid) >= MinSize)
        BY Zenon, <1>6, <1>7, <1>15, <3>2
      <4>2. Cardinality(valid) \in Nat /\ MinSize \in Nat
        BY <1>9, DkgAssumption, FS_Subset, FS_CardinalityType
      <4>. QED
        BY <1>10, <4>1, <4>2 DEF t
    <3>. QED
      BY Zenon, <3>1, <3>2
  <2>5. Shares(n, t, d, Commit, Sent \cup new)
    BY Zenon, <1>4, <1>5, <2>1, <2>4, SharesMoreBad, PhaseOrder DEF t
  <2>. QED
    BY Zenon, <1>1, <2>3, <2>5 DEF t, d
<1>16. \A c \in new : c.kind # Complain /\ c.valid = Members \ session'[n].bad
                      /\ c.key = Ones(c.valid) /\ c.share = Ones(c.valid)
  BY Zenon, <1>10, <1>12, PhaseOrder
<1>. QED
  BY Zenon, <1>13, <1>14, <1>15, <1>16, StartKeeps
============================================================================
