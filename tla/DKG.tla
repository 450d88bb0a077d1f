-------------------------------- MODULE DKG --------------------------------
(***************************************************************************)
(* The distributed key generation of one quorum: CDKGSession, the phase    *)
(* thread of CDKGSessionHandler that drives it on every member, and what   *)
(* CDKGSessionManager stores of it.                                        *)
(*                                                                         *)
(* A member's messages go through its own queue first: they are announced  *)
(* to the others by ReceiveMessage, like those of any other member.  Once  *)
(* announced, a message may reach a member at any later time, or never.    *)
(* The members in faulty run the code with the errors it can simulate      *)
(* (ShouldSimulateError) switched on.                                      *)
(***************************************************************************)
EXTENDS Integers, FiniteSets

CONSTANTS
  Members,       \* the masternodes of the quorum
  MinSize,       \* minSize
  BadVotes,      \* dkgBadVotesThreshold
  Faulty,        \* members that may simulate errors
  BatchSize,     \* contributions verified together (32)
  MaxUntimely,   \* bound on the phases cut short or undone on some member
  RewindFaulty   \* bound: a phase is undone where at most so many members are faulty

ASSUME DkgAssumption ==
  /\ IsFiniteSet(Members) /\ Faulty \subseteq Members
  /\ MinSize \in Nat /\ MinSize <= Cardinality(Members)
  /\ 2 * MinSize > Cardinality(Members)
  /\ BadVotes \in Nat \ {0} /\ BatchSize \in Nat /\ MaxUntimely \in Nat
  /\ RewindFaulty \in Nat

VARIABLES
  faulty,    \* members that simulate errors
  phase,     \* phase[n]: CDKGSessionHandler::phase, set by n's tip
  stage,     \* stage[n]: the phase n's phase thread is in
  started,   \* started[n]: it has run the start function of this phase
  round,     \* round[n]: sessions n has begun for this quorum
  session,   \* session[n]: curSession
  pending,   \* pending[n]: n's own messages in its queues
  net,       \* messages announced by some member
  db,        \* db[n]: the contributions n has stored, 0 for none
  minable,   \* minable[n]: final commitments n has handed to AddMinableCommitment
  untimely   \* counted for the bound

vars == <<faulty, phase, stage, started, round, session, pending, net, db, minable,
          untimely>>
threadVars == <<faulty, phase, stage, started, round, minable, untimely>>

-----------------------------------------------------------------------------
(* QuorumPhase; a thread waits for the phase Initialized of a new round.   *)

Waiting     == 0
Initialized == 1
Contribute  == 2
Complain    == 3
Justify     == 4
Commit      == 5
Finalize    == 6
Idle        == 7

Honest == Members \ faulty

\* Subsets of S for which n simulates an error.
Lies(n, S) == IF n \in faulty THEN SUBSET S ELSE {{}}

\* The secret key share and the verification vector of a contribution fit for all
\* members but those it lies to; both are known by the round they were made in.
Contribution == [kind : {Contribute}, from : Members, round : Nat, lies : SUBSET Members]
Complaint == [kind : {Complain}, from : Members, round : Nat,
              bad : SUBSET Members, for : SUBSET Members]
Justification == [kind : {Justify}, from : Members, round : Nat,
                  for : SUBSET Members, lies : SUBSET Members]
Keys == [Members -> Nat]
Commitment == [kind : {Commit}, from : Members, valid : SUBSET Members,
               key : Keys, share : Keys]
Message == Contribution \cup Complaint \cup Justification \cup Commitment

\* checked (history): its maker had the contributions to verify the premature ones.
FinalCommitment == [valid : SUBSET Members, key : Keys, signers : SUBSET Members,
                    checked : BOOLEAN]

Session ==
  [contributions : SUBSET Contribution, complaints : SUBSET Complaint,
   justifications : SUBSET Justification, commitments : SUBSET Commitment,
   valid : SUBSET Commitment, bad : SUBSET Members, weComplain : SUBSET Members,
   unverified : SUBSET Members, badVotes : [Members -> SUBSET Members],
   complaintsFrom : [Members -> SUBSET Members]]

EmptySession ==
  [contributions  |-> {}, complaints |-> {}, justifications |-> {},
   commitments    |-> {},       \* prematureCommitments
   valid          |-> {},       \* validCommitments
   bad            |-> {},       \* members marked bad
   weComplain     |-> {},
   unverified     |-> {},       \* pendingContributionVerifications
   badVotes       |-> [m \in Members |-> {}],
   complaintsFrom |-> [m \in Members |-> {}]]   \* complaintsFromOthers

Received(s) == s.contributions \cup s.complaints \cup s.justifications \cup s.commitments
SentBy(msgs, m) == {x \in msgs : x.from = m}
FirstOf(msgs, m) == CHOOSE x \in msgs : x.from = m

-----------------------------------------------------------------------------
(* The tip.                                                                *)

\* n's thread has done and received all there is to phase p.
Through(n, p) ==
  /\ stage[n] = p /\ started[n]
  /\ {x \in net \cup pending[n] : x.kind = p} \subseteq Received(session[n])

\* Every member is through with phase p, did not wait for the end of it or has left.
Settled(p) ==
  \A n \in Members :
    \/ Through(n, p) \/ stage[n] > p \/ phase[n] > p
    \/ stage[n] = Waiting /\ phase[n] # Initialized

\* Mutant: no upper limit on the phase.
UpdatedBlockTip_NoLimit(n) ==
  /\ phase[n] <= Idle
  /\ phase' = [phase EXCEPT ![n] = @ + 1]
  /\ UNCHANGED <<faulty, stage, started, round, session, pending, net, db, minable,
                 untimely>>

\* UpdatedBlockTip, for the blocks that begin a phase.
UpdatedBlockTip(n) ==
  /\ phase[n] < Idle
  /\ \/ Settled(phase[n]) /\ UNCHANGED untimely
     \/ /\ ~Settled(phase[n]) /\ untimely < MaxUntimely
        /\ untimely' = untimely + 1
  /\ phase' = [phase EXCEPT ![n] = @ + 1]
  /\ UNCHANGED <<faulty, stage, started, round, session, pending, net, db, minable>>

\* UpdatedBlockTip after InvalidateBlock: the tip is at the beginning of an earlier
\* phase of the same quorum.
Rewind(n) ==
  /\ untimely < MaxUntimely /\ Cardinality(faulty) <= RewindFaulty
  /\ \E p \in Initialized..(phase[n] - 1) : phase' = [phase EXCEPT ![n] = p]
  /\ untimely' = untimely + 1
  /\ UNCHANGED <<faulty, stage, started, round, session, pending, net, db, minable>>

-----------------------------------------------------------------------------
(* CDKGSession.  Contributions.                                            *)

\* Contribute, SendContributions
StartContribute(n) ==
  /\ stage[n] = Contribute
  /\ \/ \E lies \in Lies(n, Members \ {n}) :
          pending' = [pending EXCEPT ![n] = @ \cup
            {[kind |-> Contribute, from |-> n, round |-> round[n], lies |-> lies]}]
     \/ n \in faulty /\ UNCHANGED pending
  /\ UNCHANGED <<session, db>>

\* Contributions that VerifyPendingContributions tries, and those with a right share.
Verified(s) == s.unverified \ (s.bad \cup s.weComplain)
Fitting(n, s) == {m \in Verified(s) : n \notin FirstOf(s.contributions, m).lies}

VerifyPendingContributions(n, s) ==
  [s EXCEPT !.unverified = {}, !.weComplain = @ \cup (Verified(s) \ Fitting(n, s))]

\* WriteVerifiedSkContribution for the contributions it has verified.
WriteVerified(n, s, d) ==
  [d EXCEPT !.sk = [m \in Members |-> IF m \in Fitting(n, s)
                                      THEN FirstOf(s.contributions, m).round ELSE @[m]]]

\* ReceiveMessage for a contribution
ReceiveContribution(n, c) ==
  LET s == session[n]
      earlier == SentBy(s.contributions, c.from)
      stored == [s EXCEPT !.contributions = @ \cup {c}]
      vvec == [db[n] EXCEPT !.vvec[c.from] = c.round]
      queued == [stored EXCEPT !.unverified = @ \cup {c.from}]
  IN /\ Cardinality(earlier) < 2
     /\ \/ /\ earlier # {}
           /\ session' = [session EXCEPT ![n] = [stored EXCEPT !.bad = @ \cup {c.from}]]
           /\ UNCHANGED db
        \/ /\ earlier = {} /\ n \in faulty /\ c.from # n
           /\ session' = [session EXCEPT ![n] =
                            [stored EXCEPT !.weComplain = @ \cup {c.from}]]
           /\ db' = [db EXCEPT ![n] = vvec]
        \/ /\ earlier = {} /\ Cardinality(queued.unverified) < BatchSize
           /\ session' = [session EXCEPT ![n] = queued]
           /\ db' = [db EXCEPT ![n] = vvec]
        \/ /\ earlier = {} /\ Cardinality(queued.unverified) >= BatchSize
           /\ session' = [session EXCEPT ![n] = VerifyPendingContributions(n, queued)]
           /\ db' = [db EXCEPT ![n] = WriteVerified(n, queued, vvec)]
     /\ net' = net \cup {c}

-----------------------------------------------------------------------------
(* Complaints and justifications.                                          *)

\* VerifyAndComplain, SendComplaint
StartComplain(n) ==
  LET s == session[n]
      verified == VerifyPendingContributions(n, s)
      silent == {m \in Members : SentBy(s.contributions, m) = {}}
      bad == s.bad \cup silent
      for == verified.weComplain \ bad
  IN /\ stage[n] = Complain
     /\ session' = [session EXCEPT ![n] = [verified EXCEPT !.bad = bad]]
     /\ db' = [db EXCEPT ![n] = WriteVerified(n, s, @)]
     /\ pending' = [pending EXCEPT ![n] = @ \cup
          IF bad \cup for = {} THEN {}
          ELSE {[kind |-> Complain, from |-> n, round |-> round[n],
                 bad |-> bad, for |-> for]}]

\* Mutant: complaints are not announced.
ReceiveComplaint_NotRelayed(n, c) ==
  LET s == session[n]
  IN /\ session' = [session EXCEPT ![n] =
          [s EXCEPT !.complaints = @ \cup {c},
                    !.badVotes = [m \in Members |->
                                    IF m \in c.bad THEN @[m] \cup {c.from} ELSE @[m]],
                    !.complaintsFrom = [m \in Members |->
                                    IF m \in c.for THEN @[m] \cup {c.from} ELSE @[m]]]]
     /\ UNCHANGED <<net, db>>

\* ReceiveMessage for a complaint
ReceiveComplaint(n, c) ==
  LET s == session[n]
      earlier == SentBy(s.complaints, c.from)
      stored == [s EXCEPT !.complaints = @ \cup {c}]
  IN /\ Cardinality(earlier) < 2
     /\ session' = [session EXCEPT ![n] =
          IF earlier # {} THEN [stored EXCEPT !.bad = @ \cup {c.from}]
          ELSE [stored EXCEPT
                 !.badVotes = [m \in Members |->
                                 IF m \in c.bad THEN @[m] \cup {c.from} ELSE @[m]],
                 !.complaintsFrom = [m \in Members |->
                                 IF m \in c.for THEN @[m] \cup {c.from} ELSE @[m]]]]
     /\ net' = net \cup {c}
     /\ UNCHANGED db

\* VerifyAndJustify, SendJustification
StartJustify(n) ==
  LET s == session[n]
      voted == {m \in Members : Cardinality(s.badVotes[m]) >= BadVotes}
      twice == {m \in Members : Cardinality(SentBy(s.complaints, m)) > 1}
      bad == s.bad \cup voted \cup twice
      for == {m \in Members \ bad : \E c \in SentBy(s.complaints, m) : n \in c.for}
  IN /\ stage[n] = Justify
     /\ session' = [session EXCEPT ![n].bad = bad]
     /\ \/ for # {} /\ \E lies \in Lies(n, for \ {n}) :
             pending' = [pending EXCEPT ![n] = @ \cup
               {[kind |-> Justify, from |-> n, round |-> round[n],
                 for |-> for, lies |-> lies]}]
        \/ (for = {} \/ n \in faulty) /\ UNCHANGED pending
     /\ UNCHANGED db

\* Mutant: a right justification does not settle the complaint.
ReceiveJustification_StillOpen(n, j) ==
  /\ session' = [session EXCEPT ![n].justifications = @ \cup {j}]
  /\ net' = net \cup {j}
  /\ UNCHANGED db

\* ReceiveMessage for a justification
ReceiveJustification(n, j) ==
  LET s == session[n]
      earlier == SentBy(s.justifications, j.from)
      stored == [s EXCEPT !.justifications = @ \cup {j}]
      marked == [stored EXCEPT !.bad = @ \cup {j.from}]
      asked == j.for \subseteq s.complaintsFrom[j.from]
      right == {m \in j.for \ j.lies : FirstOf(s.contributions, j.from).round = j.round}
      cleared == [IF right = j.for THEN stored ELSE marked
                    EXCEPT !.complaintsFrom[j.from] = @ \ right,
                           !.weComplain = @ \ (IF n \in right THEN {j.from} ELSE {})]
  IN /\ Cardinality(earlier) < 2
     /\ \/ /\ earlier = {} /\ j.from \in s.bad
           /\ session' = [session EXCEPT ![n] = stored]
           /\ UNCHANGED db
        \/ /\ earlier # {} \/ (j.from \notin s.bad /\ ~asked)
           /\ session' = [session EXCEPT ![n] = marked]
           /\ UNCHANGED db
        \/ /\ earlier = {} /\ j.from \notin s.bad /\ asked
           /\ session' = [session EXCEPT ![n] = cleared]
           /\ db' = IF n \in right THEN [db EXCEPT ![n].sk[j.from] = j.round] ELSE db
     /\ net' = net \cup {j}

-----------------------------------------------------------------------------
(* Commitments.                                                            *)

\* The quorum's verification vector and the member's secret key share, as the stored
\* contributions they are aggregated from (GetVerifiedContributions).
QuorumVvec(d, valid) == [m \in Members |-> IF m \in valid THEN d.vvec[m] ELSE 0]
SkShare(d, valid) == [m \in Members |-> IF m \in valid THEN d.sk[m] ELSE 0]
HasVvecs(d, valid) == \A m \in valid : d.vvec[m] # 0
HasShares(d, valid) == \A m \in valid : d.sk[m] # 0

\* Mutant: more than minSize valid members are asked for.
StartCommit_OffByOne(n) ==
  LET s == session[n]
      bad == s.bad \cup {m \in Members : s.complaintsFrom[m] # {}}
      valid == Members \ bad
  IN /\ stage[n] = Commit
     /\ session' = [session EXCEPT ![n].bad = bad]
     /\ pending' = [pending EXCEPT ![n] = @ \cup
          IF /\ Cardinality(valid) > MinSize
             /\ HasVvecs(db[n], valid) /\ HasShares(db[n], valid)
          THEN {[kind |-> Commit, from |-> n, valid |-> valid,
                 key |-> QuorumVvec(db[n], valid), share |-> SkShare(db[n], valid)]}
          ELSE {}]
     /\ UNCHANGED db

\* VerifyAndCommit, SendCommitment.  A false commitment ("commit-lie") fails the checks
\* of its own sender in ReceiveMessage, which then does not announce it.
StartCommit(n) ==
  LET s == session[n]
      bad == s.bad \cup {m \in Members : s.complaintsFrom[m] # {}}
      valid == Members \ bad
      able == /\ Cardinality(valid) >= MinSize
              /\ HasVvecs(db[n], valid) /\ HasShares(db[n], valid)
  IN /\ stage[n] = Commit
     /\ session' = [session EXCEPT ![n].bad = bad]
     /\ \/ able /\ pending' = [pending EXCEPT ![n] = @ \cup
             {[kind |-> Commit, from |-> n, valid |-> valid,
               key |-> QuorumVvec(db[n], valid), share |-> SkShare(db[n], valid)]}]
        \/ (~able \/ n \in faulty) /\ UNCHANGED pending
     /\ UNCHANGED db

\* ReceiveMessage for a premature commitment, announced only if it is right as far as n
\* can tell.
ReceiveCommitment(n, c) ==
  LET s == session[n]
      accepted == HasVvecs(db[n], c.valid) =>
                    c.key = QuorumVvec(db[n], c.valid) /\ c.share = c.key
  IN /\ Cardinality(SentBy(s.commitments, c.from)) < 2
     /\ session' = [session EXCEPT ![n].commitments = @ \cup {c},
                                   ![n].valid = IF accepted THEN @ \cup {c} ELSE @]
     /\ net' = IF accepted THEN net \cup {c} ELSE net
     /\ UNCHANGED db

\* FinalizeCommitments: the commitments with one set of valid members, from its first
\* one on, which is first by hash.
WithValid(n, valid) == {c \in session[n].valid : c.valid = valid}
\* Mutant: any number of commitments will do.
Majorities_AnySize(n) == {c.valid : c \in session[n].valid}
Majorities(n) ==
  {V \in {c.valid : c \in session[n].valid} : Cardinality(WithValid(n, V)) >= MinSize}
FinalCommitmentOf(n, first) ==
  [valid |-> first.valid, key |-> first.key, checked |-> HasVvecs(db[n], first.valid),
   signers |-> {c.from : c \in {x \in WithValid(n, first.valid) : x.key = first.key}}]

-----------------------------------------------------------------------------
(* The phase thread.                                                       *)

\* HandleDKGRound up to its first phase, InitNewQuorum; what the last round did, even
\* for the same quorum, makes no difference.
HandleDKGRound(n) ==
  /\ stage[n] \in {Waiting, Finalize} /\ phase[n] = Initialized
  /\ stage' = [stage EXCEPT ![n] = Initialized]
  /\ started' = [started EXCEPT ![n] = TRUE]
  /\ round' = [round EXCEPT ![n] = @ + 1]
  /\ session' = [session EXCEPT ![n] = EmptySession]
  /\ pending' = [pending EXCEPT ![n] = {}]
  /\ UNCHANGED <<faulty, phase, net, db, minable, untimely>>

\* startPhaseFunc, after SleepBeforePhase: the last look at the phase is before it.
StartPhase(n) ==
  /\ ~started[n]
  /\ \/ StartContribute(n) \/ StartComplain(n) \/ StartJustify(n) \/ StartCommit(n)
  /\ started' = [started EXCEPT ![n] = TRUE]
  /\ UNCHANGED <<faulty, phase, stage, round, net, minable, untimely>>

\* ProcessPendingMessageBatch, while the thread sleeps before the phase or waits for
\* the next one.
ProcessPendingMessage(n, x) ==
  /\ stage[n] = x.kind /\ phase[n] = stage[n]
  /\ x \notin Received(session[n])
  /\ \/ x.kind = Contribute /\ ReceiveContribution(n, x)
     \/ x.kind = Complain /\ ReceiveComplaint(n, x)
     \/ x.kind = Justify /\ ReceiveJustification(n, x)
     \/ x.kind = Commit /\ ReceiveCommitment(n, x)
  /\ pending' = [pending EXCEPT ![n] = @ \ {x}]
  /\ UNCHANGED threadVars

\* WaitForNextPhase sees the next phase; the last one ends in FinalizeCommitments.
NextPhase(n) ==
  /\ stage[n] \in Initialized..Commit /\ started[n] /\ phase[n] = stage[n] + 1
  /\ stage' = [stage EXCEPT ![n] = @ + 1]
  /\ started' = [started EXCEPT ![n] = stage[n] = Commit]
  /\ \/ stage[n] < Commit /\ UNCHANGED minable
     \/ /\ stage[n] = Commit
        /\ \E first \in {f \in [Majorities(n) -> session[n].valid] :
                           \A V \in Majorities(n) : f[V].valid = V} :
             minable' = [minable EXCEPT ![n] = @ \cup
                           {FinalCommitmentOf(n, first[V]) : V \in Majorities(n)}]
  /\ UNCHANGED <<faulty, phase, round, session, pending, net, db, untimely>>

\* AbortPhaseException
Abort(n) ==
  /\ stage[n] \in Initialized..Commit
  /\ phase[n] # stage[n] /\ (started[n] => phase[n] # stage[n] + 1)
  /\ stage' = [stage EXCEPT ![n] = Waiting]
  /\ UNCHANGED <<faulty, phase, started, round, session, pending, net, db, minable,
                 untimely>>

Init ==
  /\ faulty \in SUBSET Faulty
  /\ phase = [n \in Members |-> Initialized]
  /\ stage = [n \in Members |-> Waiting]
  /\ started = [n \in Members |-> FALSE]
  /\ round = [n \in Members |-> 0]
  /\ session = [n \in Members |-> EmptySession]
  /\ pending = [n \in Members |-> {}]
  /\ net = {}
  /\ db = [n \in Members |-> [vvec |-> [m \in Members |-> 0], sk |-> [m \in Members |-> 0]]]
  /\ minable = [n \in Members |-> {}]
  /\ untimely = 0

PhaseThread(n) ==
  \/ HandleDKGRound(n) \/ StartPhase(n) \/ NextPhase(n) \/ Abort(n)
  \/ \E x \in net \cup pending[n] : ProcessPendingMessage(n, x)

\* The session is over for everyone until the blocks of the next quorum.
RoundOver ==
  /\ \A n \in Members : phase[n] = Idle /\ stage[n] \in {Waiting, Finalize}
  /\ UNCHANGED vars

Next ==
  \/ \E n \in Members : UpdatedBlockTip(n) \/ Rewind(n) \/ PhaseThread(n)
  \/ RoundOver

Spec == Init /\ [][Next]_vars

-----------------------------------------------------------------------------
(* Correctness. *)

\* Types of all variables.
DkgTypeOK ==
  /\ faulty \subseteq Faulty
  /\ phase \in [Members -> Initialized..Idle]
  /\ stage \in [Members -> Waiting..Finalize]
  /\ started \in [Members -> BOOLEAN]
  /\ round \in [Members -> 0..(1 + MaxUntimely)]
  /\ session \in [Members -> Session]
  /\ pending \in [Members -> SUBSET Message]
  /\ net \subseteq Message
  /\ db \in [Members -> [vvec : Keys, sk : Keys]]
  /\ minable \in [Members -> SUBSET FinalCommitment]
  /\ untimely \in 0..MaxUntimely

\* So far every member had the time it needs for a phase.
Timely == untimely = 0

\* A final commitment its maker could verify, or one that enough members signed.
Trusted(f) == f.checked \/ Cardinality(f.signers) >= MinSize

\* Members that have signed two premature commitments: HandleDKGRound begins a new
\* session for the quorum when the tip goes back, also if the member has committed.
Recommitted ==
  {q \in Members : \E x, y \in net :
     x.kind = Commit /\ y.kind = Commit /\ x.from = q /\ y.from = q /\ x # y}

\* "Most voted quorum key wins" (VerifyAndComplain): whatever a member missed, whenever
\* its phases ended, however its tip went back and whatever errors the faulty ones
\* simulate, no two final commitments of different keys or members are handed to the
\* block processor, unless the members that committed again are as many as two sets of
\* minSize members must have in common.
OneQuorumKey ==
  Cardinality(Recommitted) < 2 * MinSize - Cardinality(Members) =>
    \A f, g \in UNION {minable[n] : n \in Members} :
      Trusted(f) /\ Trusted(g) => f.valid = g.valid /\ f.key = g.key

\* A final commitment is made of at least minSize premature ones, as the comment on
\* CDKGPrematureCommitment says, if its maker has the contributions to verify them:
\* FinalizeCommitments counts them before it skips those with another key.
FinalIsSigned ==
  \A n \in Members : \A f \in minable[n] :
    f.checked => Cardinality(f.signers) >= MinSize

\* An honest member knows a member that complained as bad.
BadComplainer ==
  \E n \in Honest : \E x \in session[n].complaints :
    x.for # {} /\ x.from \in session[n].bad

\* While the phases are long enough, no honest member takes another one or itself for
\* bad, whatever is simulated: a false complaint is justified in time, in any order of
\* the messages.  Not if the complaint is a bad member's: VerifyAndJustify does not
\* answer it and VerifyAndCommit counts it.
NoHonestIsBad ==
  Timely /\ ~BadComplainer => \A n \in Honest : session[n].bad \cap Honest = {}

\* While the phases are long enough, all honest members end with the same bad members
\* and the same final commitments: the order in which messages were relayed, before or
\* after the member's own step in a phase, makes no difference.
SameView ==
  Timely => \A n, m \in Honest : stage[n] = Finalize /\ stage[m] = Finalize
               => session[n].bad = session[m].bad /\ minable[n] = minable[m]

\* Then every honest member also has a final commitment to a quorum of all honest
\* members, signed by all of them.
HonestFinish ==
  Timely /\ ~BadComplainer /\ (\A n \in Honest : stage[n] = Finalize) =>
    \A n \in Honest :
      \E f \in minable[n] : Honest \subseteq f.valid /\ Honest \subseteq f.signers
============================================================================
