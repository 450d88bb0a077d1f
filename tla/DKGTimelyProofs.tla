-------------------------- MODULE DKGTimelyProofs --------------------------
(***************************************************************************)
(* What the members of DKG agree on while the phases are long enough: for  *)
(* every set of members, size of a quorum, threshold and set of faulty     *)
(* members.                                                                *)
(***************************************************************************)
EXTENDS DKGProofs

-----------------------------------------------------------------------------
(* A message is processed.                                                 *)

\* n takes the message x in and announces it.
Takes(n, x) ==
  /\ net' = net \cup {x} /\ Received(session'[n]) = Received(session[n]) \cup {x}
  /\ \A m \in Members \ {n} : session'[m] = session[m] /\ db'[m] = db[m]

LEMMA TakesMessages ==
  ASSUME TypeInv, TimelyInv, NEW n \in Members, NEW x \in net \cup pending[n],
         ProcessPendingMessage(n, x), Takes(n, x)
  PROVE  Sent' = Sent /\ MessageInv' /\ AllReceived'
<1>1. /\ UNCHANGED <<faulty, phase, stage, started, round, minable>>
      /\ pending' = [pending EXCEPT ![n] = @ \ {x}]
      /\ x \notin Received(session[n]) /\ stage[n] = x.kind
  BY Zenon DEF ProcessPendingMessage, threadVars
<1>2. pending'[n] = pending[n] \ {x} /\ \A m \in Members \ {n} : pending'[m] = pending[m]
  BY Zenon, <1>1, Types
<1>3. x \in Sent /\ x \in Message
  BY Zenon, Types DEF Sent
<1>4. Sent' = Sent
  <2>1. \A y \in Sent' : y \in Sent
    BY ZenonT(40), <1>2, <1>3 DEF Sent, Takes
  <2>2. \A y \in Sent : y \in Sent'
    BY Zenon, <1>2 DEF Sent, Takes
  <2>. QED
    BY Zenon, <2>1, <2>2
<1>5. \A m \in Members : Ran(m)' = Ran(m)
  BY Zenon, <1>1, RanSame
<1>6. \A m \in Members : /\ Received(session[m]) \subseteq Received(session'[m])
                         /\ pending'[m] \subseteq pending[m]
  BY Zenon, <1>2 DEF Takes
<1>7. AllReceived'
  <2> SUFFICES ASSUME NEW p \in Initialized..Commit, Over(p), NEW m \in Members
               PROVE  /\ Ran(m) >= p
                      /\ \A y \in net' \cup pending'[m] : y.kind = p => y \in Received(session'[m])
    <3>1. \A p \in Initialized..Commit : Over(p)' <=> Over(p)
      BY Zenon, <1>1 DEF Over
    <3>. QED
      BY Zenon, <1>5, <3>1 DEF AllReceived
  <2>1. x.kind # p
    BY Zenon, <1>1 DEF TimelyInv, AllReceived
  <2>2. Ran(m) >= p /\ \A y \in net \cup pending[m] : y.kind = p => y \in Received(session[m])
    BY Zenon DEF TimelyInv, AllReceived
  <2>. QED
    BY Zenon, <1>6, <2>1, <2>2 DEF Takes
<1>8. MessageInv'
  <2>1. /\ \A y \in Sent' : Ran(y.from)' >= y.kind /\ (y.kind # Commit => y.round = 1)
        /\ \A y, z \in Sent' : y.from = z.from /\ y.kind = z.kind => y = z
    <3>1. \A y \in Sent : Ran(y.from)' = Ran(y.from)
      BY Zenon, <1>1, RanSame
    <3>. QED
      BY Zenon, <1>4, <3>1 DEF TimelyInv, MessageInv
  <2>2. \A m \in Members : \A y \in pending'[m] : y.from = m /\ y \notin Received(session'[m])
    <3> SUFFICES ASSUME NEW m \in Members, NEW y \in pending'[m]
                 PROVE  y.from = m /\ y \notin Received(session'[m])
      OBVIOUS
    <3>1. y.from = m /\ y \notin Received(session[m])
      BY Zenon, <1>6 DEF TimelyInv, MessageInv
    <3>2. m = n => y # x
      BY Zenon, <1>2
    <3>. QED
      BY Zenon, <3>1, <3>2 DEF Takes
  <2>3. \A m \in Members : \A y \in Received(session'[m]) : y \in net' /\ y.kind <= stage'[m]
    <3> SUFFICES ASSUME NEW m \in Members, NEW y \in Received(session'[m])
                 PROVE  y \in net' /\ y.kind <= stage[m]
      BY Zenon, <1>1
    <3>1. CASE y \in Received(session[m])
      BY Zenon, <3>1 DEF TimelyInv, MessageInv, Takes
    <3>2. CASE y \notin Received(session[m])
      <4>1. m = n /\ y = x
        BY Zenon, <3>2 DEF Takes
      <4>2. x.kind \in Nat
        BY <1>3, Kinds DEF Contribute, Commit
      <4>3. y.kind <= stage[m]
        BY <1>1, <4>1, <4>2
      <4>. QED
        BY Zenon, <4>1, <4>3 DEF Takes
    <3>. QED
      BY Zenon, <3>1, <3>2
  <2>. QED
    BY Zenon, <2>1, <2>2, <2>3 DEF MessageInv
<1>. QED
  BY Zenon, <1>4, <1>7, <1>8

LEMMA TakesKeeps ==
  ASSUME TypeInv, TimelyInv, NEW n \in Members, NEW x \in net \cup pending[n],
         ProcessPendingMessage(n, x), Takes(n, x),
         View(session'[n], db'[n], Ran(n)),
         n \in Honest => /\ Answers(n, session'[n], Ran(n), Sent)
                         /\ Shares(n, session'[n], db'[n], Ran(n), Sent),
         Ran(n) >= Commit => session'[n].bad = session[n].bad
  PROVE  TimelyInv'
<1>1. /\ UNCHANGED <<faulty, phase, stage, started, round, minable>>
      /\ stage[n] = x.kind
  BY Zenon DEF ProcessPendingMessage, threadVars
<1>2. Sent' = Sent /\ MessageInv' /\ AllReceived'
  BY Zenon, TakesMessages
<1>3. \A m : Ran(m)' = Ran(m)
  BY Zenon, <1>1, RanSame
<1>4. \A m \in Members \ {n} : session'[m] = session[m] /\ db'[m] = db[m]
  BY Zenon DEF Takes
<1>5. ViewInv' /\ AnswerInv' /\ ShareInv'
  <2>1. ViewInv /\ AnswerInv /\ ShareInv
    BY Zenon DEF TimelyInv
  <2>2. /\ View(session'[n], db'[n], Ran(n)')
        /\ n \in Honest => /\ Answers(n, session'[n], Ran(n)', Sent')
                           /\ Shares(n, session'[n], db'[n], Ran(n)', Sent')
    BY Zenon, <1>2, <1>3
  <2>. QED
    BY Zenon, <1>1, <1>2, <1>3, <1>4, <2>1, <2>2, OneMoves
<1>6. stage[n] # Waiting /\ stage[n] # Finalize
  <2>1. x \in Message
    BY Zenon, Types
  <2>. QED
    BY <1>1, <2>1, Kinds DEF Contribute, Commit, Waiting, Finalize
<1>7. CommitmentsAgree'
  <2> SUFFICES ASSUME NEW c \in Sent, c.kind = Commit
               PROVE  /\ c.valid = Members \ session'[c.from].bad
                      /\ c.key = Ones(c.valid) /\ c.share = Ones(c.valid)
    BY Zenon, <1>2 DEF CommitmentsAgree
  <2>1. c.from \in Members
    BY Types DEF Message, Contribution, Complaint, Justification, Commitment
  <2>2. c.from = n => Ran(n) >= Commit
    BY Zenon DEF TimelyInv, MessageInv
  <2>3. session'[c.from].bad = session[c.from].bad
    BY Zenon, <1>4, <2>1, <2>2
  <2>. QED
    BY Zenon, <2>3 DEF TimelyInv, CommitmentsAgree
<1>8. FinalsAgree'
  BY Zenon, <1>1, <1>4, <1>6 DEF TimelyInv, FinalsAgree
<1>9. FairComplaints'
  BY Zenon, <1>1, <1>2 DEF TimelyInv, FairComplaints, Honest
<1>10. InStep'
  <2> SUFFICES ASSUME NEW m \in Members
               PROVE  /\ \/ stage[m] = phase[m]
                         \/ /\ stage[m] = phase[m] - 1
                            /\ stage[m] = Waiting \/ Ran(m) = stage[m]
                         \/ stage[m] = Finalize /\ phase[m] = Idle
                      /\ stage[m] = Waiting => round[m] = 0 /\ session'[m] = EmptySession
                                               /\ ~started[m]
                      /\ stage[m] # Waiting => round[m] = 1
                      /\ stage[m] \in {Initialized, Finalize} => started[m]
    BY Zenon, <1>1, <1>3 DEF InStep
  <2>1. stage[m] = Waiting => session'[m] = session[m]
    BY Zenon, <1>4, <1>6
  <2>. QED
    BY Zenon, <2>1 DEF TimelyInv, InStep
<1>. QED
  BY Zenon, <1>2, <1>5, <1>7, <1>8, <1>9, <1>10 DEF TimelyInv

\* A commitment is always accepted.
LEMMA TakesCommitment ==
  ASSUME TypeInv, TimelyInv, NEW n \in Members, NEW x \in net \cup pending[n],
         ProcessPendingMessage(n, x), x.kind = Commit, ReceiveCommitment(n, x)
  PROVE  TimelyInv'
<1> DEFINE s == session[n]
           d == db[n]
           t == [s EXCEPT !.commitments = s.commitments \cup {x}, !.valid = s.valid \cup {x}]
<1>1. s \in Session /\ x \in Sent /\ x \in Commitment /\ View(s, d, Ran(n))
  <2>1. s \in Session /\ x \in Sent /\ x \in Message
    BY Zenon, Types DEF Sent
  <2>. QED
    BY Zenon, <2>1, KindIsType DEF TimelyInv, ViewInv
<1>2. HasVvecs(d, x.valid) => x.key = QuorumVvec(d, x.valid) /\ x.share = x.key
  <2>1. x.key = Ones(x.valid) /\ x.share = Ones(x.valid)
    BY Zenon, <1>1 DEF TimelyInv, CommitmentsAgree
  <2>2. \A m \in Members : d.vvec[m] = 0 \/ d.vvec[m] = 1
    BY Zenon, <1>1 DEF View
  <2>3. ASSUME HasVvecs(d, x.valid) PROVE QuorumVvec(d, x.valid) = Ones(x.valid)
    BY Zenon, <2>2, <2>3 DEF HasVvecs, QuorumVvec, Ones
  <2>. QED
    BY Zenon, <2>1, <2>3
<1>3. session' = [session EXCEPT ![n] = t] /\ net' = net \cup {x} /\ UNCHANGED db
  <2>1. session \in [Members -> Session]
    BY Zenon, Types
  <2>. QED
    BY Zenon, <1>2, <2>1 DEF ReceiveCommitment
<1>4. session'[n] = t /\ \A m \in Members \ {n} : session'[m] = session[m] /\ db'[m] = db[m]
  BY Zenon, <1>3, Types
<1> HIDE DEF s, d
<1>5. /\ t.contributions = s.contributions /\ t.complaints = s.complaints
      /\ t.justifications = s.justifications /\ t.commitments = s.commitments \cup {x}
      /\ t.valid = s.valid \cup {x} /\ t.bad = s.bad /\ t.weComplain = s.weComplain
      /\ t.unverified = s.unverified /\ t.badVotes = s.badVotes
      /\ t.complaintsFrom = s.complaintsFrom
  BY Zenon, <1>1 DEF Session
<1> HIDE DEF t
<1>6. Takes(n, x)
  BY ZenonT(40), <1>3, <1>4, <1>5 DEF Takes, Received, s
<1>7. /\ Silent(t) = Silent(s) /\ Voted(t) = Voted(s) /\ Wrong(t) = Wrong(s)
      /\ Open(t) = Open(s)
      /\ \A m : /\ Voters(t, m) = Voters(s, m) /\ Complainers(t, m) = Complainers(s, m)
                /\ Unanswered(t, m) = Unanswered(s, m)
  BY Zenon, <1>5, SaidByMessages
<1>8. View(t, d, Ran(n))
  <2>1. BadAfter(t, Ran(n)) = BadAfter(s, Ran(n))
    BY Zenon, <1>7 DEF BadAfter
  <2>. QED
    BY Zenon, <1>1, <1>5, <1>7, <2>1 DEF View
<1>9. n \in Honest => Answers(n, t, Ran(n), Sent) /\ Shares(n, t, d, Ran(n), Sent)
  <2>1. n \in Honest => Answers(n, s, Ran(n), Sent) /\ Shares(n, s, d, Ran(n), Sent)
    BY Zenon DEF TimelyInv, AnswerInv, ShareInv, s, d
  <2>. QED
    BY Zenon, <1>5, <1>7, <2>1 DEF Answers, Shares
<1>10. db'[n] = d /\ session'[n].bad = session[n].bad
  BY Zenon, <1>3, <1>4, <1>5 DEF s, d
<1>. QED
  BY Zenon, <1>4, <1>6, <1>8, <1>9, <1>10, TakesKeeps

LEMMA TakesContribution ==
  ASSUME TypeInv, TimelyInv, NEW n \in Members, NEW x \in net \cup pending[n],
         ProcessPendingMessage(n, x), x.kind = Contribute, ReceiveContribution(n, x)
  PROVE  TimelyInv'
<1> DEFINE s == session[n]
           d == db[n]
           k == Ran(n)
           stored == [s EXCEPT !.contributions = @ \cup {x}]
           vvec == [d EXCEPT !.vvec[x.from] = x.round]
           queued == [stored EXCEPT !.unverified = @ \cup {x.from}]
           t1 == [stored EXCEPT !.weComplain = @ \cup {x.from}]
           t3 == VerifyPendingContributions(n, queued)
           w == WriteVerified(n, queued, vvec)
<1>1. s \in Session /\ d \in Contributions /\ x \in Sent /\ x \in Contribution /\ View(s, d, k)
  <2>1. s \in Session /\ d \in Contributions /\ x \in Sent /\ x \in Message
    BY Zenon, Types DEF Sent
  <2>. QED
    BY Zenon, <2>1, KindIsType DEF TimelyInv, ViewInv
<1>2. x.round = 1 /\ x.from \in Members
  BY Zenon, <1>1, PhaseOrder DEF TimelyInv, MessageInv, Contribution
<1>3. stage[n] = Contribute /\ x \notin Received(s)
  BY Zenon DEF ProcessPendingMessage
<1>4. SentBy(s.contributions, x.from) = {}
  <2>1. \A y \in s.contributions : y \in Received(s) /\ y.kind = Contribute
    BY Zenon, ContributionsOK DEF Received
  <2>2. \A y \in s.contributions : y.from # x.from
    BY Zenon, <1>3, <2>1, NoneEarlier DEF TimelyInv
  <2>. QED
    BY Zenon, <2>2 DEF SentBy
<1>5. ~(k >= Complain) /\ ~(k >= Justify) /\ ~(k >= Commit) /\ k \in Int
  <2>1. started \in [Members -> BOOLEAN]
    BY Zenon, Types
  <2>. QED
    BY <1>3, <2>1 DEF Ran, Contribute, Complain, Justify, Commit
<1>6. s.justifications = {} /\ s.bad = {}
  <2>1. stage[n] < Justify /\ Ran(n) < Complain
    BY <1>3, <1>5 DEF Contribute, Complain, Justify
  <2>. QED
    BY Zenon, <2>1, NoneYet
<1>7. /\ \/ /\ n \in faulty /\ session' = [session EXCEPT ![n] = t1]
            /\ db' = [db EXCEPT ![n] = vvec]
         \/ session' = [session EXCEPT ![n] = queued] /\ db' = [db EXCEPT ![n] = vvec]
         \/ session' = [session EXCEPT ![n] = t3] /\ db' = [db EXCEPT ![n] = w]
      /\ net' = net \cup {x}
  BY Zenon, <1>4 DEF ReceiveContribution
<1>8. /\ \A m \in Members : d.sk[m] \in {0, 1}
      /\ \A m \in Members : d.vvec[m] = IF m \in Senders(s.contributions) THEN 1 ELSE 0
      /\ s.unverified \subseteq Senders(s.contributions)
      /\ \A c \in s.contributions : c.round = 1
  <2>1. s.unverified \subseteq Senders(s.contributions) /\ \A c \in s.contributions : c.round = 1
    BY Zenon, ContributionsOK
  <2>. QED
    BY Zenon, <1>1, <2>1 DEF View
<1>9. n \in Honest => Answers(n, s, k, Sent) /\ Shares(n, s, d, k, Sent)
  BY Zenon DEF TimelyInv, AnswerInv, ShareInv
<1> HIDE DEF s, d, k
<1>10. /\ stored \in Session /\ stored.contributions = s.contributions \cup {x}
       /\ stored.complaints = s.complaints
       /\ stored.justifications = s.justifications /\ stored.commitments = s.commitments
       /\ SameVotes(s, stored) /\ stored.bad = s.bad
       /\ stored.weComplain = s.weComplain /\ stored.unverified = s.unverified
  BY Zenon, <1>1 DEF Session, SameVotes
<1> HIDE DEF stored
<1>11. SameMessages(stored, t1) /\ SameVotes(stored, t1) /\ t1.bad = stored.bad
  BY Zenon, <1>10 DEF Session, SameVotes, SameMessages
<1>12. /\ queued \in Session /\ SameMessages(stored, queued) /\ SameVotes(stored, queued)
       /\ queued.bad = stored.bad /\ queued.weComplain = stored.weComplain
       /\ queued.unverified = stored.unverified \cup {x.from}
  BY Zenon, <1>2, <1>10 DEF Session, SameVotes, SameMessages
<1> HIDE DEF queued, t1
<1>13. /\ vvec \in Contributions /\ vvec.sk = d.sk
       /\ \A m \in Members : vvec.vvec[m] = IF m = x.from THEN 1 ELSE d.vvec[m]
  BY <1>1, <1>2 DEF Contributions, Keys
<1> HIDE DEF vvec
<1>14. /\ SameMessages(queued, t3) /\ SameVotes(queued, t3) /\ t3.bad = queued.bad
       /\ t3.weComplain = queued.weComplain \cup (Verified(queued) \ Fitting(n, queued))
  BY Zenon, <1>12, VerifyFields
<1>15. Senders(stored.contributions) = Senders(s.contributions) \cup {x.from}
  BY Zenon, <1>10 DEF Senders
<1>16. /\ w.vvec = vvec.vvec /\ \A m \in Members : w.sk[m] \in {0, 1}
       /\ \A m \in Members : m \in queued.unverified \/ d.sk[m] = 1 \/ m \in queued.weComplain
            => w.sk[m] = 1 \/ m \in t3.weComplain
  <2>1. /\ queued.bad = {} /\ queued.unverified \subseteq Senders(queued.contributions)
        /\ \A c \in queued.contributions : c.round = 1
    BY Zenon, <1>2, <1>6, <1>8, <1>10, <1>12, <1>15 DEF SameMessages
  <2>2. \A m \in Members : vvec.sk[m] \in {0, 1}
    BY Zenon, <1>8, <1>13
  <2>3. /\ w.vvec = vvec.vvec /\ \A m \in Members : w.sk[m] \in {0, 1}
        /\ \A m \in Members : m \in queued.unverified \/ vvec.sk[m] = 1 \/ m \in queued.weComplain
            => w.sk[m] = 1 \/ m \in queued.weComplain \cup (Verified(queued) \ Fitting(n, queued))
    BY SMTT(30), <1>12, <1>13, <2>1, <2>2, VerifyShares
  <2> HIDE DEF w, t3
  <2>. QED
    BY Zenon, <1>13, <1>14, <2>3
<1> HIDE DEF t3, w
<1> DEFINE t == session'[n]
           e == db'[n]
<1>17. /\ \/ n \in faulty /\ t = t1 /\ e = vvec
          \/ t = queued /\ e = vvec
          \/ t = t3 /\ e = w
       /\ \A m \in Members \ {n} : session'[m] = session[m] /\ db'[m] = db[m]
  BY Zenon, <1>7, Types
<1> HIDE DEF t, e
<1>18. /\ t.contributions = s.contributions \cup {x} /\ t.complaints = s.complaints
       /\ t.justifications = {} /\ t.commitments = s.commitments
       /\ SameVotes(s, t) /\ t.bad = {}
  BY Zenon, <1>6, <1>10, <1>11, <1>12, <1>14, <1>17 DEF SameMessages, SameVotes
<1>19. /\ \A m \in Members : e.sk[m] \in {0, 1}
       /\ \A m \in Members : e.vvec[m] = IF m \in Senders(t.contributions) THEN 1 ELSE 0
  <2>1. e.vvec = vvec.vvec /\ \A m \in Members : e.sk[m] \in {0, 1}
    BY Zenon, <1>8, <1>13, <1>16, <1>17
  <2>2. Senders(t.contributions) = Senders(s.contributions) \cup {x.from}
    BY Zenon, <1>10, <1>15, <1>18
  <2>. QED
    BY Zenon, <1>8, <1>13, <2>1, <2>2
<1>20. Takes(n, x)
  BY Zenon, <1>6, <1>7, <1>17, <1>18 DEF Takes, Received, s, t
<1>21. /\ Wrong(t) = {}
       /\ \A m : /\ Voters(t, m) = Voters(s, m) /\ Complainers(t, m) = Complainers(s, m)
                 /\ Unanswered(t, m) = Complainers(t, m)
                 /\ Unanswered(s, m) = Complainers(s, m)
  <2>1. Wrong(t) = {}
    BY Zenon, <1>18 DEF Wrong, Senders
  <2>2. \A m : Voters(t, m) = Voters(s, m) /\ Complainers(t, m) = Complainers(s, m)
    BY Zenon, <1>18 DEF Voters, Complainers
  <2>3. \A m : Unanswered(t, m) = Complainers(t, m) /\ Unanswered(s, m) = Complainers(s, m)
    BY Zenon, <1>6, <1>18 DEF Unanswered
  <2>. QED
    BY Zenon, <2>1, <2>2, <2>3
<1>22. View(t, e, k)
  <2>1. BadAfter(t, k) = {}
    BY Zenon, <1>5, <1>21 DEF BadAfter
  <2>. QED
    BY ZenonT(40), <1>1, <1>6, <1>18, <1>19, <1>21, <2>1 DEF View, SameVotes
<1>23. ASSUME n \in Honest PROVE Answers(n, t, k, Sent) /\ Shares(n, t, e, k, Sent)
  <2>1. Answers(n, t, k, Sent)
    BY Zenon, <1>5, <1>9, <1>21, <1>23 DEF Answers
  <2>2. ASSUME NEW m \in Senders(t.contributions)
        PROVE  m \in t.unverified \/ e.sk[m] = 1 \/ m \in t.weComplain
    <3>1. m \in Senders(s.contributions) \/ m = x.from
      BY Zenon, <1>10, <1>15, <1>18
    <3>2. m \in Members /\ (m \in queued.unverified \/ d.sk[m] = 1 \/ m \in queued.weComplain)
      <4>1. Senders(s.contributions) \subseteq Members
        BY Zenon, ContributionsOK DEF s
      <4>. QED
        BY Zenon, <1>2, <1>9, <1>10, <1>12, <1>23, <3>1, <4>1 DEF Shares
    <3>3. n \notin faulty
      BY Zenon, <1>23 DEF Honest
    <3>. QED
      BY Zenon, <1>13, <1>16, <1>17, <3>2, <3>3
  <2>3. Shares(n, t, e, k, Sent)
    BY Zenon, <1>5, <1>18, <2>2 DEF Shares
  <2>. QED
    BY Zenon, <2>1, <2>3
<1>. QED
  BY Zenon, <1>5, <1>20, <1>22, <1>23, TakesKeeps DEF t, e, k

LEMMA TakesComplaint ==
  ASSUME TypeInv, TimelyInv, NEW n \in Members, NEW x \in net \cup pending[n],
         ProcessPendingMessage(n, x), x.kind = Complain, ReceiveComplaint(n, x)
  PROVE  TimelyInv'
<1> DEFINE s == session[n]
           d == db[n]
           k == Ran(n)
           stored == [s EXCEPT !.complaints = @ \cup {x}]
           bv == [m \in Members |-> IF m \in x.bad THEN stored.badVotes[m] \cup {x.from}
                                    ELSE stored.badVotes[m]]
           cf == [m \in Members |-> IF m \in x.for THEN stored.complaintsFrom[m] \cup {x.from}
                                    ELSE stored.complaintsFrom[m]]
           t == [stored EXCEPT !.badVotes = bv, !.complaintsFrom = cf]
<1>1. s \in Session /\ x \in Sent /\ x \in Complaint /\ View(s, d, k)
  <2>1. s \in Session /\ x \in Sent /\ x \in Message
    BY Zenon, Types DEF Sent
  <2>. QED
    BY Zenon, <2>1, KindIsType DEF TimelyInv, ViewInv
<1>2. x.from \in Members
  BY Zenon, <1>1 DEF Complaint
<1>3. stage[n] = Complain /\ x \notin Received(s)
  BY Zenon DEF ProcessPendingMessage
<1>4. SentBy(s.complaints, x.from) = {}
  <2>1. s.complaints \subseteq Complaint
    BY Zenon, <1>1 DEF Session
  <2>2. \A y \in s.complaints : y \in Received(s) /\ y.kind = Complain
    BY Zenon, <2>1 DEF Received, Complaint
  <2>3. \A y \in s.complaints : y.from # x.from
    BY Zenon, <1>3, <2>2, NoneEarlier DEF TimelyInv
  <2>. QED
    BY Zenon, <2>3 DEF SentBy
<1>5. ~(k >= Justify) /\ ~(k >= Commit)
  <2>1. started \in [Members -> BOOLEAN]
    BY Zenon, Types
  <2>. QED
    BY <1>3, <2>1 DEF Ran, Complain, Justify, Commit
<1>6. s.justifications = {}
  <2>1. stage[n] < Justify
    BY <1>3 DEF Complain, Justify
  <2>. QED
    BY Zenon, <2>1, NoneYet
<1>7. session' = [session EXCEPT ![n] = t] /\ UNCHANGED db /\ net' = net \cup {x}
  BY Zenon, <1>4 DEF ReceiveComplaint
<1>8. session'[n] = t /\ \A m \in Members \ {n} : session'[m] = session[m] /\ db'[m] = db[m]
  BY Zenon, <1>7, Types
<1>9. n \in Honest => Answers(n, s, k, Sent) /\ Shares(n, s, d, k, Sent)
  BY Zenon DEF TimelyInv, AnswerInv, ShareInv
<1>10. db'[n] = d
  BY Zenon, <1>7
<1> HIDE DEF s, d, k
<1>11. /\ stored \in Session /\ stored.complaints = s.complaints \cup {x}
       /\ stored.contributions = s.contributions
       /\ stored.justifications = s.justifications /\ stored.commitments = s.commitments
       /\ SameVotes(s, stored) /\ stored.bad = s.bad
       /\ stored.weComplain = s.weComplain /\ stored.unverified = s.unverified
  BY Zenon, <1>1 DEF Session, SameVotes
<1>12. /\ \A m \in Members : bv[m] = IF m \in x.bad THEN s.badVotes[m] \cup {x.from} ELSE s.badVotes[m]
       /\ \A m \in Members : cf[m] = IF m \in x.for THEN s.complaintsFrom[m] \cup {x.from}
                                     ELSE s.complaintsFrom[m]
  <2> HIDE DEF stored
  <2>. QED
    BY Zenon, <1>11 DEF SameVotes
<1> HIDE DEF stored, bv, cf
<1>13. /\ SameMessages(stored, t) /\ t.valid = stored.valid /\ t.badVotes = bv
       /\ t.complaintsFrom = cf /\ t.bad = stored.bad /\ t.weComplain = stored.weComplain
       /\ t.unverified = stored.unverified
  BY Zenon, <1>11 DEF Session, SameMessages
<1> HIDE DEF t
<1>14. /\ t.contributions = s.contributions /\ t.complaints = s.complaints \cup {x}
       /\ t.justifications = {} /\ t.commitments = s.commitments /\ t.valid = s.valid
       /\ t.bad = s.bad /\ t.weComplain = s.weComplain /\ t.unverified = s.unverified
  BY Zenon, <1>6, <1>11, <1>13 DEF SameMessages, SameVotes
<1>15. Takes(n, x)
  BY Zenon, <1>6, <1>7, <1>8, <1>14 DEF Takes, Received, s
<1>16. \A m : /\ Voters(t, m) = IF m \in x.bad THEN Voters(s, m) \cup {x.from} ELSE Voters(s, m)
              /\ Complainers(t, m) = IF m \in x.for THEN Complainers(s, m) \cup {x.from}
                                     ELSE Complainers(s, m)
  BY Zenon, <1>14 DEF Voters, Complainers, Senders
<1>17. \A m : /\ Unanswered(t, m) = Complainers(t, m)
              /\ Unanswered(s, m) = Complainers(s, m)
  BY Zenon, <1>6, <1>14 DEF Unanswered
<1>18. BadAfter(t, k) = BadAfter(s, k)
  <2>1. Wrong(t) = {} /\ Wrong(s) = {}
    BY Zenon, <1>6, <1>14 DEF Wrong, Senders
  <2>2. Silent(t) = Silent(s)
    BY Zenon, <1>14 DEF Silent
  <2>. QED
    BY Zenon, <1>5, <2>1, <2>2 DEF BadAfter
<1>19. View(t, d, k)
  <2> SUFFICES ASSUME NEW m \in Members
               PROVE  /\ t.badVotes[m] = Voters(t, m)
                      /\ t.complaintsFrom[m] = Complainers(t, m)
                      /\ d.vvec[m] = IF m \in Senders(t.contributions) THEN 1 ELSE 0
                      /\ d.sk[m] \in {0, 1}
    BY Zenon, <1>1, <1>14, <1>17, <1>18 DEF View
  <2>1. /\ s.badVotes[m] = Voters(s, m) /\ s.complaintsFrom[m] = Complainers(s, m)
        /\ d.vvec[m] = IF m \in Senders(s.contributions) THEN 1 ELSE 0
        /\ d.sk[m] \in {0, 1}
    BY Zenon, <1>1, <1>6 DEF View
  <2>. QED
    BY ZenonT(40), <1>12, <1>13, <1>14, <1>16, <2>1
<1>20. ASSUME n \in Honest PROVE Answers(n, t, k, Sent) /\ Shares(n, t, d, k, Sent)
  <2>1. Answers(n, t, k, Sent)
    <3>1. Complainers(s, n) \subseteq Complainers(t, n)
      BY Zenon, <1>16
    <3>. QED
      BY Zenon, <1>5, <1>9, <1>20, <3>1 DEF Answers
  <2>2. Shares(n, t, d, k, Sent)
    BY Zenon, <1>6, <1>9, <1>14, <1>20 DEF Shares
  <2>. QED
    BY Zenon, <2>1, <2>2
<1>. QED
  BY Zenon, <1>5, <1>8, <1>10, <1>15, <1>19, <1>20, TakesKeeps DEF k

\* What a justification x of m does to a session s and the stored contributions d of n.
Settles(n, x, s, d, t, e) ==
  /\ t.contributions = s.contributions /\ t.complaints = s.complaints
  /\ t.justifications = s.justifications \cup {x} /\ t.commitments = s.commitments
  /\ t.valid = s.valid /\ t.badVotes = s.badVotes /\ t.unverified = s.unverified
  /\ t.bad = s.bad \cup (IF Unfounded(s, x) THEN {x.from} ELSE {})
  /\ t.weComplain \subseteq s.weComplain
  /\ \A m \in Members \ {x.from} : t.complaintsFrom[m] = s.complaintsFrom[m]
  /\ x.from \notin t.bad => /\ t.complaintsFrom[x.from] = Complainers(s, x.from) \ x.for
                            /\ n \in x.for => x.from \notin t.weComplain
  /\ e.vvec = d.vvec
  /\ \A m \in Members : /\ e.sk[m] \in {0, 1} /\ (d.sk[m] = 1 => e.sk[m] = 1)
                        /\ m \in s.weComplain => m \in t.weComplain \/ e.sk[m] = 1

LEMMA SettlesBad ==
  ASSUME NEW n, NEW x, NEW s, NEW d, NEW t, NEW e, Settles(n, x, s, d, t, e), NEW k,
         ~(k >= Commit), s.bad = BadAfter(s, k)
  PROVE  t.bad = BadAfter(t, k)
<1>1. /\ t.contributions = s.contributions /\ t.complaints = s.complaints
      /\ t.justifications = s.justifications \cup {x}
      /\ t.bad = s.bad \cup (IF Unfounded(s, x) THEN {x.from} ELSE {})
  BY Zenon DEF Settles
<1>2. \A m : Voters(t, m) = Voters(s, m) /\ Complainers(t, m) = Complainers(s, m)
  BY Zenon, <1>1 DEF Voters, Complainers
<1>3. Silent(t) = Silent(s) /\ Voted(t) = Voted(s)
  BY <1>1, <1>2 DEF Silent, Voted
<1>4. Wrong(t) = Wrong(s) \cup (IF Unfounded(s, x) THEN {x.from} ELSE {})
  <2>1. \A j : Unfounded(t, j) <=> Unfounded(s, j)
    BY Zenon, <1>2 DEF Unfounded
  <2> DEFINE W == {j \in s.justifications : Unfounded(s, j)}
             V == {j \in t.justifications : Unfounded(t, j)}
  <2>2. CASE Unfounded(s, x)
    <3>1. V = W \cup {x}
      BY <1>1, <2>1, <2>2
    <3> HIDE DEF V, W
    <3>2. Senders(V) = Senders(W) \cup {x.from}
      BY Zenon, <3>1 DEF Senders
    <3>. QED
      BY Zenon, <2>2, <3>2 DEF Wrong, V, W
  <2>3. CASE ~Unfounded(s, x)
    <3>1. V = W
      BY <1>1, <2>1, <2>3
    <3> HIDE DEF V, W
    <3>. QED
      BY Zenon, <2>3, <3>1 DEF Wrong, V, W
  <2>. QED
    BY Zenon, <2>2, <2>3
<1>. QED
  BY Zenon, <1>1, <1>3, <1>4 DEF BadAfter

LEMMA SettlesView ==
  ASSUME NEW n, NEW x, NEW s, NEW d, NEW t, NEW e, Settles(n, x, s, d, t, e), NEW k,
         ~(k >= Commit), View(s, d, k), \A j \in s.justifications : j.from # x.from
  PROVE  View(t, e, k)
<1>1. t.bad = BadAfter(t, k)
  <2>1. s.bad = BadAfter(s, k)
    BY Zenon DEF View
  <2>. QED
    BY <2>1, SettlesBad
<1>2. t.valid = t.commitments
  BY Zenon DEF Settles, View
<1>3. \A m : Voters(t, m) = Voters(s, m) /\ Complainers(t, m) = Complainers(s, m)
  BY Zenon DEF Settles, Voters, Complainers
<1>4. ASSUME NEW m \in Members
      PROVE  /\ t.badVotes[m] = Voters(t, m)
             /\ e.vvec[m] = IF m \in Senders(t.contributions) THEN 1 ELSE 0
             /\ e.sk[m] \in {0, 1}
  <2>1. /\ s.badVotes[m] = Voters(s, m)
        /\ d.vvec[m] = IF m \in Senders(s.contributions) THEN 1 ELSE 0
    BY Zenon DEF View
  <2>2. /\ t.badVotes = s.badVotes /\ t.contributions = s.contributions /\ e.vvec = d.vvec
        /\ e.sk[m] \in {0, 1}
    BY Zenon DEF Settles
  <2>. QED
    BY Zenon, <1>3, <2>1, <2>2
<1>5. ASSUME NEW m \in Members, \A j \in t.justifications : j.from # m
      PROVE  t.complaintsFrom[m] = Complainers(t, m)
  <2>1. m # x.from /\ \A j \in s.justifications : j.from # m
    BY Zenon, <1>5 DEF Settles
  <2>. QED
    BY Zenon, <1>3, <2>1 DEF View, Settles
<1>6. ASSUME NEW m \in Members, m \notin t.bad
      PROVE  t.complaintsFrom[m] = Unanswered(t, m)
  <2>1. t.justifications = s.justifications \cup {x} /\ m \notin s.bad
    BY Zenon, <1>6 DEF Settles
  <2>2. CASE m # x.from
    <3>1. Unanswered(t, m) = Unanswered(s, m)
      BY <1>3, <2>1, <2>2 DEF Unanswered
    <3>. QED
      BY Zenon, <2>1, <2>2, <3>1 DEF View, Settles
  <2>3. CASE m = x.from
    <3>1. Unanswered(t, m) = Complainers(s, m) \ x.for
      BY <1>3, <2>1, <2>3 DEF Unanswered
    <3>. QED
      BY Zenon, <1>6, <2>3, <3>1 DEF Settles
  <2>. QED
    BY Zenon, <2>2, <2>3
<1>. QED
  BY Zenon, <1>1, <1>2, <1>4, <1>5, <1>6 DEF View

LEMMA SettlesShares ==
  ASSUME NEW n, NEW x, NEW s, NEW d, NEW t, NEW e, Settles(n, x, s, d, t, e), NEW k,
         NEW S, ~(k >= Commit), k >= Complain, Shares(n, s, d, k, S), Answers(n, s, k, S),
         Senders(s.contributions) \subseteq Members
  PROVE  Shares(n, t, e, k, S) /\ Answers(n, t, k, S)
<1>1. /\ t.contributions = s.contributions /\ t.unverified = s.unverified /\ s.unverified = {}
      /\ t.justifications = s.justifications \cup {x} /\ t.weComplain \subseteq s.weComplain
      /\ s.bad \subseteq t.bad
  BY Zenon DEF Settles, Shares
<1>2. \A m \in Senders(t.contributions) :
        m \in t.unverified \/ e.sk[m] = 1 \/ m \in t.weComplain
  <2>1. \A m \in Senders(s.contributions) : d.sk[m] = 1 \/ m \in s.weComplain
    BY Zenon, <1>1 DEF Shares
  <2>. QED
    BY Zenon, <1>1, <2>1 DEF Settles
<1>3. \A m \in t.weComplain \ t.bad : \E c \in S : c.kind = Complain /\ c.from = n /\ m \in c.for
  BY Zenon, <1>1 DEF Shares
<1>4. \A j \in t.justifications : n \in j.for /\ j.from \notin t.bad => j.from \notin t.weComplain
  <2>1. \A j \in s.justifications : n \in j.for /\ j.from \notin t.bad => j.from \notin t.weComplain
    BY Zenon, <1>1 DEF Shares
  <2>2. n \in x.for /\ x.from \notin t.bad => x.from \notin t.weComplain
    BY Zenon DEF Settles
  <2>. QED
    BY Zenon, <1>1, <2>1, <2>2
<1>5. Shares(n, t, e, k, S)
  BY Zenon, <1>1, <1>2, <1>3, <1>4 DEF Shares
<1>6. Complainers(t, n) = Complainers(s, n)
  BY Zenon DEF Settles, Complainers
<1>7. Answers(n, t, k, S)
  BY Zenon, <1>1, <1>6 DEF Answers
<1>. QED
  BY Zenon, <1>5, <1>7

\* A session s after n has noted a justification x in it: marked if its maker is bad,
\* and cleared of the complaints it answers.
LEMMA NoteJustification ==
  ASSUME NEW n, NEW s \in Session, NEW d \in Contributions, NEW x \in Justification,
         x.round = 1, \A m \in Members : d.sk[m] \in {0, 1},
         s.complaintsFrom[x.from] = Complainers(s, x.from),
         NEW right, x.from \notin s.bad => right = x.for \ x.lies
  PROVE  LET stored == [s EXCEPT !.justifications = @ \cup {x}]
             marked == [stored EXCEPT !.bad = @ \cup {x.from}]
             cleared == [IF right = x.for THEN stored ELSE marked
                           EXCEPT !.complaintsFrom[x.from] = @ \ right,
                                  !.weComplain = @ \ (IF n \in right THEN {x.from} ELSE {})]
             e == IF n \in right THEN [d EXCEPT !.sk[x.from] = x.round] ELSE d
             asked == x.for \subseteq s.complaintsFrom[x.from]
         IN /\ x.from \in s.bad => Settles(n, x, s, d, stored, d)
            /\ x.from \notin s.bad /\ ~asked => Settles(n, x, s, d, marked, d)
            /\ x.from \notin s.bad /\ asked => Settles(n, x, s, d, cleared, e)
<1> DEFINE stored == [s EXCEPT !.justifications = @ \cup {x}]
           marked == [stored EXCEPT !.bad = @ \cup {x.from}]
           base == IF right = x.for THEN stored ELSE marked
           cf == [base.complaintsFrom EXCEPT ![x.from] = @ \ right]
           wc == base.weComplain \ (IF n \in right THEN {x.from} ELSE {})
           cleared == [base EXCEPT !.complaintsFrom[x.from] = @ \ right,
                                   !.weComplain = @ \ (IF n \in right THEN {x.from} ELSE {})]
           e == IF n \in right THEN [d EXCEPT !.sk[x.from] = x.round] ELSE d
           asked == x.for \subseteq s.complaintsFrom[x.from]
<1>1. x.from \in Members /\ x.for \in SUBSET Members
  BY Zenon DEF Justification
<1>2. /\ stored \in Session /\ SameVotes(s, stored)
      /\ stored.contributions = s.contributions /\ stored.complaints = s.complaints
      /\ stored.justifications = s.justifications \cup {x} /\ stored.commitments = s.commitments
      /\ stored.bad = s.bad /\ stored.weComplain = s.weComplain
      /\ stored.unverified = s.unverified
  BY Zenon DEF Session, SameVotes
<1> HIDE DEF stored
<1>3. /\ marked \in Session /\ SameMessages(stored, marked) /\ SameVotes(stored, marked)
      /\ marked.bad = stored.bad \cup {x.from} /\ marked.weComplain = stored.weComplain
      /\ marked.unverified = stored.unverified
  BY Zenon, <1>1, <1>2 DEF Session, SameMessages, SameVotes
<1> HIDE DEF marked
<1>4. /\ base \in Session /\ SameVotes(s, base) /\ SameMessages(stored, base)
      /\ base.weComplain = s.weComplain /\ base.unverified = s.unverified
      /\ base.bad = s.bad \cup (IF right = x.for THEN {} ELSE {x.from})
  <2>1. CASE right = x.for
    BY Zenon, <1>2, <2>1 DEF SameMessages
  <2>2. CASE right # x.for
    BY Zenon, <1>2, <1>3, <2>2 DEF SameVotes
  <2>. QED
    BY Zenon, <2>1, <2>2
<1> HIDE DEF base
<1>5. /\ cf \in [Members -> SUBSET Members] /\ wc \in SUBSET Members
      /\ cf[x.from] = s.complaintsFrom[x.from] \ right
      /\ \A m \in Members \ {x.from} : cf[m] = s.complaintsFrom[m]
      /\ wc = s.weComplain \ (IF n \in right THEN {x.from} ELSE {})
  <2>1. /\ base.complaintsFrom \in [Members -> SUBSET Members]
        /\ base.complaintsFrom = s.complaintsFrom /\ base.weComplain \in SUBSET Members
    BY Zenon, <1>4 DEF Session, SameVotes
  <2>. QED
    BY Zenon, <1>1, <1>4, <2>1
<1>6. \A m : m \in wc <=> m \in s.weComplain /\ ~(n \in right /\ m = x.from)
  <2> HIDE DEF cf, wc
  <2>1. CASE n \in right
    BY Zenon, <1>5, <2>1
  <2>2. CASE n \notin right
    BY Zenon, <1>5, <2>2
  <2>. QED
    BY Zenon, <2>1, <2>2
<1>7. cleared = [base EXCEPT !.complaintsFrom = cf, !.weComplain = wc]
  OBVIOUS
<1> HIDE DEF cf, wc, cleared
<1>8. /\ SameMessages(base, cleared) /\ cleared.valid = base.valid
      /\ cleared.badVotes = base.badVotes /\ cleared.bad = base.bad
      /\ cleared.unverified = base.unverified
      /\ cleared.complaintsFrom = cf /\ cleared.weComplain = wc
  BY Zenon, <1>4, <1>5, <1>7 DEF Session, SameMessages
<1>9. ASSUME x.from \in s.bad PROVE Settles(n, x, s, d, stored, d)
  BY Zenon, <1>2, <1>9 DEF Settles, SameVotes
<1>10. ASSUME x.from \notin s.bad, ~asked PROVE Settles(n, x, s, d, marked, d)
  <2>1. Unfounded(s, x)
    BY Zenon, <1>10 DEF Unfounded
  <2>. QED
    BY Zenon, <1>2, <1>3, <2>1 DEF Settles, SameVotes, SameMessages
<1>11. ASSUME x.from \notin s.bad, asked PROVE Settles(n, x, s, d, cleared, e)
  <2>1. Unfounded(s, x) <=> right # x.for
    <3>1. right = x.for \ x.lies
      BY Zenon, <1>11
    <3>2. Unfounded(s, x) <=> x.for \cap x.lies # {}
      BY Zenon, <1>11 DEF Unfounded
    <3>. QED
      BY Zenon, <3>1, <3>2
  <2>2. /\ cleared.contributions = s.contributions /\ cleared.complaints = s.complaints
        /\ cleared.justifications = s.justifications \cup {x}
        /\ cleared.commitments = s.commitments /\ cleared.valid = s.valid
        /\ cleared.badVotes = s.badVotes /\ cleared.unverified = s.unverified
    BY Zenon, <1>2, <1>4, <1>8 DEF SameMessages, SameVotes
  <2>3. cleared.bad = s.bad \cup (IF Unfounded(s, x) THEN {x.from} ELSE {})
    BY Zenon, <1>4, <1>8, <2>1
  <2>4. /\ cleared.weComplain \subseteq s.weComplain
        /\ \A m \in Members \ {x.from} : cleared.complaintsFrom[m] = s.complaintsFrom[m]
    BY Zenon, <1>5, <1>8, <1>6
  <2>5. ASSUME x.from \notin cleared.bad
        PROVE  /\ cleared.complaintsFrom[x.from] = Complainers(s, x.from) \ x.for
               /\ n \in x.for => x.from \notin cleared.weComplain
    <3>1. right = x.for
      BY Zenon, <1>4, <1>8, <2>5
    <3>. QED
      BY Zenon, <1>5, <1>8, <1>6, <3>1
  <2>6. /\ e.vvec = d.vvec
        /\ \A m \in Members : e.sk[m] = IF n \in right /\ m = x.from THEN 1 ELSE d.sk[m]
    <3>1. CASE n \in right
      BY <1>1, <3>1 DEF Contributions, Keys
    <3>2. CASE n \notin right
      BY Zenon, <3>2
    <3>. QED
      BY Zenon, <3>1, <3>2
  <2> HIDE DEF e
  <2>7. ASSUME NEW m \in Members
        PROVE  /\ e.sk[m] \in {0, 1} /\ (d.sk[m] = 1 => e.sk[m] = 1)
               /\ m \in s.weComplain => m \in cleared.weComplain \/ e.sk[m] = 1
    BY Zenon, <1>8, <1>6, <2>6
  <2>. QED
    BY Zenon, <2>2, <2>3, <2>4, <2>5, <2>6, <2>7 DEF Settles
<1>. QED
  BY Zenon, <1>9, <1>10, <1>11 DEF stored, marked, base, cleared

LEMMA TakesJustification ==
  ASSUME TypeInv, TimelyInv, NEW n \in Members, NEW x \in net \cup pending[n],
         ProcessPendingMessage(n, x), x.kind = Justify, ReceiveJustification(n, x)
  PROVE  TimelyInv'
<1> DEFINE s == session[n]
           d == db[n]
           k == Ran(n)
           stored == [s EXCEPT !.justifications = @ \cup {x}]
           marked == [stored EXCEPT !.bad = @ \cup {x.from}]
           asked == x.for \subseteq s.complaintsFrom[x.from]
           right == {m \in x.for \ x.lies : FirstOf(s.contributions, x.from).round = x.round}
           cleared == [IF right = x.for THEN stored ELSE marked
                         EXCEPT !.complaintsFrom[x.from] = @ \ right,
                                !.weComplain = @ \ (IF n \in right THEN {x.from} ELSE {})]
           g == IF n \in right THEN [d EXCEPT !.sk[x.from] = x.round] ELSE d
<1>1. /\ s \in Session /\ d \in Contributions /\ x \in Sent /\ x \in Justification
      /\ View(s, d, k)
  <2>1. s \in Session /\ d \in Contributions /\ x \in Sent /\ x \in Message
    BY Zenon, Types DEF Sent
  <2>. QED
    BY Zenon, <2>1, KindIsType DEF TimelyInv, ViewInv
<1>2. x.round = 1 /\ x.from \in Members
  BY Zenon, <1>1, PhaseOrder DEF TimelyInv, MessageInv, Justification
<1>3. stage[n] = Justify /\ x \notin Received(s)
  BY Zenon DEF ProcessPendingMessage
<1>4. \A y \in s.justifications : y.from # x.from
  <2>1. s.justifications \subseteq Justification
    BY Zenon, <1>1 DEF Session
  <2>2. \A y \in s.justifications : y \in Received(s) /\ y.kind = Justify
    BY Zenon, <2>1 DEF Received, Justification
  <2>. QED
    BY Zenon, <1>3, <2>2, NoneEarlier DEF TimelyInv
<1>5. k >= Complain /\ ~(k >= Commit)
  <2>1. started \in [Members -> BOOLEAN]
    BY Zenon, Types
  <2>. QED
    BY SMTT(30), <1>3, <2>1 DEF Ran, Complain, Justify, Commit, Finalize
<1>6. x.from \notin s.bad => right = x.for \ x.lies
  <2> SUFFICES ASSUME x.from \notin s.bad PROVE FirstOf(s.contributions, x.from).round = x.round
    BY Zenon
  <2>1. x.from \in Senders(s.contributions)
    BY Zenon, <1>1, <1>2, <1>5 DEF View, BadAfter, Silent
  <2>2. FirstOf(s.contributions, x.from) \in s.contributions
    BY Zenon, <2>1 DEF Senders, FirstOf
  <2>. QED
    BY Zenon, <1>2, <2>2, ContributionsOK
<1>7. /\ s.complaintsFrom[x.from] = Complainers(s, x.from)
      /\ \A m \in Members : d.sk[m] \in {0, 1}
  BY Zenon, <1>1, <1>2, <1>4 DEF View
<1>8. /\ \/ x.from \in s.bad /\ session' = [session EXCEPT ![n] = stored] /\ UNCHANGED db
         \/ /\ x.from \notin s.bad /\ ~asked
            /\ session' = [session EXCEPT ![n] = marked] /\ UNCHANGED db
         \/ /\ x.from \notin s.bad /\ asked
            /\ session' = [session EXCEPT ![n] = cleared]
            /\ db' = IF n \in right THEN [db EXCEPT ![n].sk[x.from] = x.round] ELSE db
      /\ net' = net \cup {x}
  <2>1. SentBy(s.justifications, x.from) = {}
    BY Zenon, <1>4 DEF SentBy
  <2>. QED
    BY Zenon, <2>1 DEF ReceiveJustification
<1>9. n \in Honest => Answers(n, s, k, Sent) /\ Shares(n, s, d, k, Sent)
  BY Zenon DEF TimelyInv, AnswerInv, ShareInv
<1>10. Senders(s.contributions) \subseteq Members
  BY Zenon, ContributionsOK
<1>11. \/ db' = [db EXCEPT ![n] = g]
       \/ db' = [db EXCEPT ![n] = d]
  BY Zenon, <1>8, Types
<1> DEFINE t == session'[n]
           e == db'[n]
<1>12. /\ \/ x.from \in s.bad /\ t = stored /\ e = d
          \/ x.from \notin s.bad /\ ~asked /\ t = marked /\ e = d
          \/ x.from \notin s.bad /\ asked /\ t = cleared /\ e = g
       /\ \A m \in Members \ {n} : session'[m] = session[m] /\ db'[m] = db[m]
  <2>1. session \in [Members -> Session] /\ db \in [Members -> Contributions]
    BY Zenon, Types
  <2>2. x.from \notin s.bad /\ asked => t = cleared /\ e = g
    <3> HIDE DEF cleared, right, asked, marked, stored
    <3>. QED
      BY Zenon, <1>8, <2>1
  <2>3. \A m \in Members \ {n} : session'[m] = session[m] /\ db'[m] = db[m]
    <3> HIDE DEF cleared, right, asked, marked, stored, g
    <3>. QED
      BY Zenon, <1>8, <1>11, <2>1
  <2> HIDE DEF cleared, right, asked, marked, stored, g
  <2>. QED
    BY Zenon, <1>8, <2>1, <2>2, <2>3
<1>13. Settles(n, x, s, d, t, e)
  <2> HIDE DEF s, d, right, t, e
  <2>1. /\ x.from \in s.bad => Settles(n, x, s, d, stored, d)
        /\ x.from \notin s.bad /\ ~asked => Settles(n, x, s, d, marked, d)
        /\ x.from \notin s.bad /\ asked => Settles(n, x, s, d, cleared, g)
    BY Zenon, <1>1, <1>2, <1>6, <1>7, NoteJustification
  <2> HIDE DEF cleared, asked, marked, stored, g
  <2>. QED
    BY Zenon, <1>12, <2>1
<1> HIDE DEF s, d, k, t, e
<1>14. Takes(n, x)
  <2>1. /\ t.contributions = s.contributions /\ t.complaints = s.complaints
        /\ t.justifications = s.justifications \cup {x} /\ t.commitments = s.commitments
    BY Zenon, <1>13 DEF Settles
  <2>2. Received(t) = Received(s) \cup {x}
    BY Zenon, <2>1 DEF Received
  <2>. QED
    BY Zenon, <1>8, <1>12, <2>2 DEF Takes, s, t
<1>15. View(t, e, k)
  BY SMTT(30), <1>1, <1>4, <1>5, <1>13, SettlesView
<1>16. n \in Honest => Answers(n, t, k, Sent) /\ Shares(n, t, e, k, Sent)
  BY SMTT(30), <1>5, <1>9, <1>10, <1>13, SettlesShares
<1>. QED
  BY Zenon, <1>5, <1>14, <1>15, <1>16, TakesKeeps DEF t, e, k

-----------------------------------------------------------------------------
(* The invariant.                                                          *)

LEMMA ProcessKeeps ==
  ASSUME TypeInv, TimelyInv, NEW n \in Members, NEW x \in net \cup pending[n],
         ProcessPendingMessage(n, x)
  PROVE  TimelyInv'
BY Zenon, TakesContribution, TakesComplaint, TakesJustification, TakesCommitment
   DEF ProcessPendingMessage

\* A behaviour that was untimely stays so.
LEMMA UntimelyStays ==
  ASSUME TypeInv, [Next]_vars, Timely'
  PROVE  /\ Timely
         /\ \A n \in Members : ~Rewind(n)
<1>1. untimely \in Nat
  BY DEF TypeInv, DkgTypeOK
<1>2. CASE UNCHANGED untimely
  <2>1. ~(untimely = untimely + 1)
    BY <1>1
  <2>. QED
    BY Zenon, <1>2, <2>1 DEF Timely, Rewind
<1>3. CASE untimely' = untimely + 1
  BY <1>1, <1>3 DEF Timely
<1>4. UNCHANGED untimely \/ untimely' = untimely + 1
  BY Zenon DEF Next, vars, RoundOver, PhaseThread, UpdatedBlockTip, Rewind, HandleDKGRound, StartPhase,
     NextPhase, Abort, ProcessPendingMessage, threadVars
<1>. QED
  BY Zenon, <1>2, <1>3, <1>4

LEMMA TimelyInvUnchanged ==
  ASSUME TimelyInv, UNCHANGED vars
  PROVE  TimelyInv'
<1>1. /\ Sent' = Sent /\ Honest' = Honest /\ \A m : Ran(m)' = Ran(m)
      /\ \A p : Over(p)' <=> Over(p)
  BY Zenon DEF vars, Sent, Honest, Ran, Over
<1>2. InStep' /\ AllReceived' /\ MessageInv'
  BY Zenon, <1>1 DEF TimelyInv, vars, InStep, AllReceived, MessageInv
<1>3. ViewInv' /\ CommitmentsAgree' /\ FinalsAgree' /\ FairComplaints' /\ AnswerInv' /\ ShareInv'
  BY Zenon, <1>1 DEF TimelyInv, vars, ViewInv, CommitmentsAgree, FinalsAgree, FairComplaints,
     AnswerInv, ShareInv
<1>. QED
  BY Zenon, <1>2, <1>3 DEF TimelyInv

LEMMA TimelyInvInit == Init => TimelyInv
<1> SUFFICES ASSUME Init PROVE TimelyInv
  OBVIOUS
<1>1. /\ \A n \in Members : /\ phase[n] = Initialized /\ stage[n] = Waiting /\ ~started[n]
                            /\ round[n] = 0 /\ session[n] = EmptySession /\ pending[n] = {}
                            /\ minable[n] = {}
      /\ net = {}
  BY Zenon DEF Init
<1>2. \A n \in Members : \A m \in Members : db[n].vvec[m] = 0 /\ db[n].sk[m] = 0
  BY Zenon DEF Init
<1>3. Sent = {} /\ Honest \subseteq Members
  BY Zenon, <1>1 DEF Sent, Honest
<1>4. \A n \in Members : Ran(n) = -1
  BY <1>1 DEF Ran, Waiting
<1>5. ~(-1 >= Contribute) /\ ~(-1 >= Complain) /\ ~(-1 >= Justify) /\ ~(-1 >= Commit)
      /\ Initialized - 1 = Waiting /\ Waiting # Initialized /\ Waiting # Finalize
  BY DEF Contribute, Complain, Justify, Commit, Initialized, Waiting, Finalize
<1> DEFINE s == EmptySession
<1>6. /\ s.contributions = {} /\ s.complaints = {} /\ s.justifications = {} /\ s.commitments = {}
      /\ s.valid = {} /\ s.bad = {} /\ s.weComplain = {} /\ s.unverified = {}
      /\ \A m \in Members : s.badVotes[m] = {} /\ s.complaintsFrom[m] = {}
  BY Zenon DEF EmptySession
<1> HIDE DEF s
<1>7. InStep
  BY Zenon, <1>1, <1>5 DEF InStep
<1>8. AllReceived
  <2>1. \A p \in Initialized..Commit : ~Over(p)
    BY <1>1 DEF Over, Initialized, Commit
  <2>. QED
    BY Zenon, <2>1 DEF AllReceived
<1>9. MessageInv /\ CommitmentsAgree /\ FairComplaints
  <2>1. \A n \in Members : Received(session[n]) = {}
    BY Zenon, <1>1, <1>6 DEF Received, s
  <2>. QED
    BY Zenon, <1>1, <1>3, <2>1 DEF MessageInv, CommitmentsAgree, FairComplaints
<1>10. FinalsAgree
  BY Zenon, <1>1, <1>5 DEF FinalsAgree
<1>11. \A m : Voters(s, m) = {} /\ Complainers(s, m) = {} /\ Unanswered(s, m) = {}
  BY Zenon, <1>6 DEF Voters, Complainers, Unanswered, Senders
<1>12. ViewInv
  <2> SUFFICES ASSUME NEW n \in Members PROVE View(s, db[n], -1)
    BY Zenon, <1>1, <1>4 DEF ViewInv, s
  <2>1. Wrong(s) = {} /\ Senders(s.contributions) = {}
    BY Zenon, <1>6 DEF Wrong, Senders
  <2>2. BadAfter(s, -1) = {}
    BY Zenon, <1>5, <2>1 DEF BadAfter
  <2>. QED
    BY Zenon, <1>2, <1>6, <1>11, <2>1, <2>2 DEF View
<1>13. AnswerInv /\ ShareInv
  <2> SUFFICES ASSUME NEW n \in Honest
               PROVE  Answers(n, s, -1, Sent) /\ Shares(n, s, db[n], -1, Sent)
    BY Zenon, <1>1, <1>3, <1>4 DEF AnswerInv, ShareInv, s
  <2>. QED
    BY Zenon, <1>3, <1>5, <1>6 DEF Answers, Shares, Senders
<1>. QED
  BY Zenon, <1>7, <1>8, <1>9, <1>10, <1>12, <1>13 DEF TimelyInv

LEMMA TimelyInvNext == TypeInv /\ (Timely => TimelyInv) /\ [Next]_vars => (Timely' => TimelyInv')
<1> SUFFICES ASSUME TypeInv, Timely => TimelyInv, [Next]_vars, Timely' PROVE TimelyInv'
  BY Zenon
<1>1. TimelyInv /\ \A n \in Members : ~Rewind(n)
  BY Zenon, UntimelyStays
<1>2. CASE \E n \in Members : UpdatedBlockTip(n)
  BY Zenon, <1>1, <1>2, TipKeeps
<1>3. CASE \E n \in Members : HandleDKGRound(n)
  BY Zenon, <1>1, <1>3, BeginKeeps
<1>4. CASE \E n \in Members : StartPhase(n)
  <2>1. PICK n \in Members : StartPhase(n)
    BY Zenon, <1>4
  <2>2. StartContribute(n) \/ StartComplain(n) \/ StartJustify(n) \/ StartCommit(n)
    BY Zenon, <2>1 DEF StartPhase
  <2>. QED
    BY Zenon, <1>1, <2>1, <2>2, StartContributeKeeps, StartComplainKeeps, StartJustifyKeeps,
       StartCommitKeeps
<1>5. CASE \E n \in Members : NextPhase(n)
  BY Zenon, <1>1, <1>5, NextPhaseKeeps
<1>6. CASE \E n \in Members : \E x \in net \cup pending[n] : ProcessPendingMessage(n, x)
  BY Zenon, <1>1, <1>6, ProcessKeeps
<1>7. CASE UNCHANGED vars
  BY Zenon, <1>1, <1>7, TimelyInvUnchanged
<1>8. \A n \in Members : ~Abort(n)
  BY Zenon, <1>1, NoAbort
<1>. QED
  BY Zenon, <1>1, <1>2, <1>3, <1>4, <1>5, <1>6, <1>7, <1>8 DEF Next, PhaseThread, RoundOver

LEMMA TimelyInvariance == Spec => [](Timely => TimelyInv)
<1>1. Init => (Timely => TimelyInv)
  BY Zenon, TimelyInvInit
<1>2. Spec => []TypeInv
  BY TypeInvInit, TypeInvNext, PTL DEF Spec
<1>3. TypeInv /\ (Timely => TimelyInv) /\ [Next]_vars => (Timely => TimelyInv)'
  BY Zenon, TimelyInvNext
<1>. QED
  BY <1>1, <1>2, <1>3, PTL DEF Spec

-----------------------------------------------------------------------------
(* The theorems about timely phases.                                       *)

\* The state-wise argument for NoHonestIsBad.
LEMMA HonestAreGood ==
  ASSUME TypeInv, TimelyInv, ~BadComplainer, NEW n \in Honest, NEW h \in Honest
  PROVE  h \notin session[n].bad
<1> SUFFICES ASSUME h \in session[n].bad PROVE FALSE
  OBVIOUS
<1> DEFINE s == session[n]
           r == session[h]
<1>1. n \in Members /\ h \in Members /\ s \in Session /\ r \in Session
  BY Zenon, Types DEF Honest
<1>2. s.bad = BadAfter(s, Ran(n))
  BY Zenon, <1>1 DEF TimelyInv, ViewInv, View
<1>3. /\ Ran(n) >= Complain => stage[n] > Contribute
      /\ Ran(n) >= Commit => stage[n] > Justify
      /\ stage[n] > Justify => stage[n] > Complain
      /\ stage[n] >= Justify => stage[n] > Complain
      /\ Contribute \in Nat /\ Complain \in Nat /\ Justify \in Nat
  BY <1>1, Types DEF Ran, Contribute, Complain, Justify, Commit, Finalize, Waiting
<1>4. \A p \in Nat : stage[n] > p => Over(p)
  BY Zenon, <1>1, StageOver DEF TimelyInv
<1>5. /\ s.complaints \subseteq Sent /\ s.justifications \subseteq Sent
      /\ \A c \in s.complaints : c.kind = Complain
      /\ \A j \in s.justifications : j.kind = Justify /\ j.kind <= stage[n]
  <2>1. s.complaints \subseteq Complaint /\ s.justifications \subseteq Justification
    BY Zenon, <1>1 DEF Session
  <2>2. s.complaints \subseteq Sent /\ s.justifications \subseteq Sent
    BY Zenon, <1>1, ReceivedAreSent DEF Received, TimelyInv
  <2>3. \A j \in s.justifications : j.kind <= stage[n]
    BY Zenon, <1>1 DEF TimelyInv, MessageInv, Received
  <2>. QED
    BY Zenon, <2>1, <2>2, <2>3 DEF Complaint, Justification
<1>6. Over(Complain) => Complainers(r, h) = Complainers(s, h)
  BY Zenon, <1>1, SameReceived DEF TimelyInv, Complainers
<1>7. /\ \A j \in Sent : j.kind = Justify /\ j.from = h => j.lies = {} /\ j.for \subseteq Complainers(r, h)
      /\ Ran(h) >= Justify => \A q \in Complainers(r, h) :
            q \in r.bad \/ \E j \in Sent : j.kind = Justify /\ j.from = h /\ q \in j.for
  BY Zenon DEF TimelyInv, AnswerInv, Answers
<1>8. CASE Ran(n) >= Complain /\ h \in Silent(s)
  <2>1. Over(Contribute)
    BY Zenon, <1>3, <1>4, <1>8
  <2>. QED
    BY Zenon, <1>1, <1>8, <2>1, HonestContribute DEF Silent
<1>9. CASE h \in Voted(s)
  <2>1. Voters(s, h) # {}
    <3>1. Cardinality(Voters(s, h)) >= BadVotes /\ BadVotes \in Nat \ {0}
      BY Zenon, <1>9, DkgAssumption DEF Voted
    <3>2. Cardinality({}) = 0
      BY FS_EmptySet
    <3>. QED
      BY <3>1, <3>2
  <2>2. PICK c \in s.complaints : h \in c.bad
    BY Zenon, <2>1 DEF Voters, Senders
  <2>. QED
    BY Zenon, <1>5, <2>2 DEF TimelyInv, FairComplaints
<1>10. CASE h \in Wrong(s)
  <2>1. PICK j \in s.justifications : j.from = h /\ Unfounded(s, j)
    BY Zenon, <1>10 DEF Wrong, Senders
  <2>2. stage[n] >= Justify
    BY <1>1, <1>5, <2>1, Types DEF Justify, Waiting, Finalize
  <2>3. Over(Complain)
    BY Zenon, <1>3, <1>4, <2>2
  <2>4. j.lies = {} /\ j.for \subseteq Complainers(s, h)
    BY Zenon, <1>5, <1>6, <1>7, <2>1, <2>3
  <2>. QED
    BY Zenon, <2>1, <2>4 DEF Unfounded
<1>11. CASE Ran(n) >= Commit /\ h \in Open(s)
  <2>1. Over(Justify) /\ Over(Complain)
    BY Zenon, <1>3, <1>4, <1>11
  <2>2. PICK q \in Complainers(s, h) : \A j \in s.justifications : j.from = h => q \notin j.for
    BY Zenon, <1>11 DEF Open, Unanswered
  <2>3. Ran(h) >= Justify
    <3>1. Justify \in Initialized..Commit
      BY DEF Justify, Initialized, Commit
    <3>. QED
      BY Zenon, <1>1, <2>1, <3>1 DEF TimelyInv, AllReceived
  <2>4. q \in Complainers(r, h)
    BY Zenon, <1>6, <2>1, <2>2
  <2>5. q \notin r.bad
    <3>1. PICK c \in r.complaints : h \in c.for /\ c.from = q
      BY Zenon, <2>4 DEF Complainers, Senders
    <3>. QED
      BY Zenon, <3>1 DEF BadComplainer
  <2>6. PICK j \in Sent : j.kind = Justify /\ j.from = h /\ q \in j.for
    BY Zenon, <1>7, <2>3, <2>4, <2>5
  <2>7. j \in s.justifications
    <3>1. j \in Received(s)
      BY Zenon, <1>1, <2>1, <2>6, OverReceived DEF TimelyInv
    <3>. QED
      BY Zenon, <1>1, <2>6, <3>1, OfKind
  <2>. QED
    BY Zenon, <2>2, <2>6, <2>7
<1>. QED
  BY Zenon, <1>2, <1>8, <1>9, <1>10, <1>11 DEF BadAfter

\* With phases that are long enough, no honest member is ever marked bad by an honest
\* one, unless a bad member complained: whatever the faulty ones simulate, their false
\* complaints are answered in time and their bad votes are none of an honest member.
THEOREM HonestStayGood == Spec => []NoHonestIsBad
<1>1. TypeInv /\ (Timely => TimelyInv) => NoHonestIsBad
  BY Zenon, HonestAreGood DEF NoHonestIsBad
<1>. QED
  BY <1>1, DkgInvariance, TimelyInvariance, PTL

\* The final commitments of a member are those of the premature ones it has, and those
\* are the same for all.
LEMMA SameFinals ==
  ASSUME TypeInv, TimelyInv, NEW n \in Members, NEW m \in Members,
         stage[n] = Finalize, stage[m] = Finalize
  PROVE  session[n].bad = session[m].bad /\ minable[n] = minable[m]
<1>1. Ran(n) >= Commit /\ Ran(m) >= Commit
  BY DEF Ran, Finalize, Commit
<1>2. Over(Commit)
  <2>1. stage[n] > Commit /\ Commit \in Nat
    BY DEF Finalize, Commit
  <2>. QED
    BY Zenon, <2>1, StageOver DEF TimelyInv
<1>3. session[n].commitments = session[m].commitments
  BY Zenon, <1>2, SameReceived DEF TimelyInv
<1>. QED
  BY Zenon, <1>1, <1>3, SameBad DEF TimelyInv, FinalsAgree

\* With phases that are long enough, all honest members end with the same bad members
\* and the same final commitments, in whatever order each of them received the messages.
THEOREM HonestSeeTheSame == Spec => []SameView
<1>1. TypeInv /\ (Timely => TimelyInv) => SameView
  BY Zenon, SameFinals DEF SameView, Honest
<1>. QED
  BY <1>1, DkgInvariance, TimelyInvariance, PTL

\* The premature commitments of all honest members reach each of them.
LEMMA HonestCommit ==
  ASSUME TypeInv, TimelyInv, ~BadComplainer, Cardinality(Members \ Faulty) >= MinSize,
         \A m \in Honest : stage[m] = Finalize, NEW n \in Honest, NEW h \in Honest
  PROVE  \E c \in session[n].commitments : c.from = h /\ Honest \subseteq c.valid
<1>1. n \in Members /\ h \in Members /\ session[n] \in Session
  BY Zenon, Types DEF Honest
<1>2. Ran(h) >= Commit /\ Over(Commit)
  <2>1. stage[h] > Commit /\ Commit \in Nat /\ Ran(h) >= Commit
    BY DEF Ran, Finalize, Commit
  <2>. QED
    BY Zenon, <1>1, <2>1, StageOver DEF TimelyInv
<1>3. Honest \subseteq Members \ session[h].bad
  BY Zenon, HonestAreGood DEF Honest
<1>4. ~(Cardinality(Members \ session[h].bad) < MinSize)
  <2>1. Members \ Faulty \subseteq Members \ session[h].bad
    BY Zenon, <1>3 DEF Honest, TypeInv, DkgTypeOK
  <2>2. IsFiniteSet(Members \ session[h].bad) /\ IsFiniteSet(Members \ Faulty)
    BY Zenon, DkgAssumption, FS_Subset
  <2>3. /\ Cardinality(Members \ Faulty) <= Cardinality(Members \ session[h].bad)
        /\ Cardinality(Members \ session[h].bad) \in Nat /\ Cardinality(Members \ Faulty) \in Nat
    BY Zenon, <2>1, <2>2, FS_Subset, FS_CardinalityType
  <2>. QED
    BY <2>3, DkgAssumption
<1>5. PICK c \in Sent : c.kind = Commit /\ c.from = h
  BY Zenon, <1>2, <1>4 DEF TimelyInv, ShareInv, Shares
<1>6. c \in session[n].commitments
  <2>1. c \in Received(session[n])
    BY Zenon, <1>1, <1>2, <1>5, OverReceived DEF TimelyInv
  <2>. QED
    BY Zenon, <1>1, <1>5, <2>1, OfKind
<1>7. Honest \subseteq c.valid
  BY Zenon, <1>3, <1>5 DEF TimelyInv, CommitmentsAgree
<1>. QED
  BY Zenon, <1>5, <1>6, <1>7

LEMMA HonestFinals ==
  ASSUME TypeInv, TimelyInv, ~BadComplainer,
         Cardinality(Members \ Faulty) >= MinSize,
         \A m \in Honest : stage[m] = Finalize, NEW n \in Honest
  PROVE  \E f \in minable[n] : Honest \subseteq f.valid /\ Honest \subseteq f.signers
<1> DEFINE W == session[n].commitments
<1>1. n \in Members
  BY Zenon DEF Honest
<1>2. Honest \subseteq Senders(W)
  BY Zenon, HonestCommit DEF Senders
<1>3. Senders(W) \subseteq Members /\ Cardinality(Senders(W)) = Cardinality(W)
  <2>1. W \in SUBSET Commitment
    BY Zenon, <1>1, Types DEF Session
  <2>2. \A x, y \in W : x.valid = y.valid /\ x.key = y.key /\ x.share = y.share
    BY Zenon, <1>1, CommitmentsSame
  <2> HIDE DEF W
  <2>3. Cardinality({x.from : x \in W}) = Cardinality(W)
    BY Zenon, <2>1, <2>2, CountSigners
  <2>. QED
    BY Zenon, <2>1, <2>3 DEF Senders, Commitment
<1>4. Cardinality(W) >= MinSize
  <2>1. Members \ Faulty \subseteq Senders(W)
    BY Zenon, <1>2 DEF Honest, TypeInv, DkgTypeOK
  <2>2. IsFiniteSet(Senders(W)) /\ IsFiniteSet(Members \ Faulty)
    BY Zenon, <1>3, DkgAssumption, FS_Subset
  <2>3. /\ Cardinality(Members \ Faulty) <= Cardinality(Senders(W))
        /\ Cardinality(Senders(W)) \in Nat /\ Cardinality(Members \ Faulty) \in Nat
    BY Zenon, <2>1, <2>2, FS_Subset, FS_CardinalityType
  <2>. QED
    BY <1>3, <2>3, DkgAssumption
<1>5. minable[n] = {[valid |-> c.valid, key |-> c.key, checked |-> TRUE, signers |-> Senders(W)] : c \in W}
  <2>1. minable[n] = FinalsOf(W)
    BY Zenon, <1>1 DEF TimelyInv, FinalsAgree
  <2>. QED
    BY Zenon, <1>4, <2>1 DEF FinalsOf
<1>6. PICK c \in W : c.from = n /\ Honest \subseteq c.valid
  BY Zenon, HonestCommit
<1> DEFINE f == [valid |-> c.valid, key |-> c.key, checked |-> TRUE, signers |-> Senders(W)]
<1> HIDE DEF W
<1>7. f \in minable[n] /\ f.valid = c.valid /\ f.signers = Senders(W)
  BY Zenon, <1>5, <1>6
<1> HIDE DEF f
<1>. QED
  BY Zenon, <1>2, <1>6, <1>7

\* With phases that are long enough and minSize members that never simulate an error,
\* every honest member ends with a final commitment that all honest members are valid
\* in and have signed, unless a bad member complained.
THEOREM HonestMembersFinish ==
  ASSUME Cardinality(Members \ Faulty) >= MinSize
  PROVE  Spec => []HonestFinish
<1>1. TypeInv /\ (Timely => TimelyInv) => HonestFinish
  BY Zenon, HonestFinals DEF HonestFinish
<1>. QED
  BY <1>1, DkgInvariance, TimelyInvariance, PTL
============================================================================
