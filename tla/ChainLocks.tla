----------------------------- MODULE ChainLocks -----------------------------
(***************************************************************************)
(* CChainLocksHandler of one masternode on top of the chain state of       *)
(* validation.cpp.                                                         *)
(*                                                                         *)
(* Three threads meet here.  The message handler receives headers, blocks  *)
(* and CLSIG messages; the signature share worker turns a recovered        *)
(* signature into a CLSIG; the scheduler thread runs one task at a time:   *)
(* CheckActiveState, EnforceBestChainLock and, in two of the three kinds   *)
(* of task, TrySignChainTip.  cs_main and the handler's cs are released    *)
(* and taken again inside these functions; each critical section is one    *)
(* action.  There is one possible CLSIG per block, named by the block.     *)
(***************************************************************************)
EXTENDS ChainState

CONSTANTS
  MsgHandler, SigWorker, Scheduler,   \* the threads
  Lockable,           \* blocks for which the quorum produces a signature
  SporkOn,            \* blocks at which the chainlocks feature is enabled
  DIP0008Height,
  SignHeightOffset,   \* SIGN_HEIGHT_OFFSET
  MaxCleanups         \* bound: calls of Cleanup that forget seen CLSIGs

ASSUME ThreadsAssumption ==
  /\ Threads = {MsgHandler, Scheduler}
  /\ MsgHandler # Scheduler /\ SigWorker \notin Threads
  /\ Lockable \subseteq Blocks \ {Genesis} /\ SporkOn \subseteq Blocks
  /\ DIP0008Height \in Nat /\ SignHeightOffset \in Nat /\ MaxCleanups \in Nat

VARIABLES
  lock,       \* what the handler's cs guards, see LockType
  clsig,      \* clsig[t]: ProcessNewChainLock in progress in thread t
  announce,   \* announce[t]: tip whose UpdatedBlockTip is not sent yet
  sched,      \* the scheduler thread; held (history): the known lock when
              \* TrySignChainTip looked at the best lock for the last time
  queued,     \* tasks ProcessNewChainLock has scheduled
  asked,      \* blocks AsyncSignIfMember was called for
  cleanups

lockVars == <<lock, clsig, announce, sched, queued, asked, cleanups>>
vars == <<chainVars, lockVars>>

MaybeBlock == Blocks \cup {NoBlock}
Receivers == {MsgHandler, SigWorker}

LockType ==
  [best         : MaybeBlock,       \* bestChainLock, bestChainLockHash
   known        : MaybeBlock,       \* bestChainLockBlockIndex
   lastNotify   : MaybeBlock,       \* lastNotifyChainLockBlockIndex
   lastSigned   : MaybeBlock,       \* lastSignedHeight, -RequestId, -MsgHash
   seen         : SUBSET Blocks,    \* seenChainLocks
   enabled      : BOOLEAN,          \* isChainlocksEnabled
   active       : BOOLEAN,          \* isChainLocksActive
   enforced     : BOOLEAN,          \* isEnforced
   tipScheduled : BOOLEAN]          \* tryLockChainTipScheduled

ProcessIdle == [block |-> NoBlock, stage |-> "idle"]
SchedIdle == [pc |-> "idle", kind |-> "none", snap |-> NoBlock, dip |-> FALSE, held |-> NoBlock]

\* The state Start() leaves behind.
Init ==
  /\ ChainInit
  /\ lock = [best |-> NoBlock, known |-> NoBlock, lastNotify |-> NoBlock,
             lastSigned |-> NoBlock, seen |-> {}, enabled |-> Genesis \in SporkOn,
             active |-> FALSE, enforced |-> FALSE, tipScheduled |-> FALSE]
  /\ clsig = [t \in Receivers |-> ProcessIdle]
  /\ announce = [t \in Threads |-> NoBlock]
  /\ sched = SchedIdle
  /\ queued = 0 /\ asked = {} /\ cleanups = 0

-----------------------------------------------------------------------------
\* nHeight of a CChainLockSig, -1 if it is null.
LockHeight(b) == IF b = NoBlock THEN -1 ELSE Height[b]

\* False for every block above the lock, whatever chain it is on.
InternalHasConflictingChainLock(l, b) ==
  /\ l.enforced /\ l.known # NoBlock
  /\ Height[b] <= Height[l.known] /\ b \notin Ancestors[l.known]

\* Mutant: the header that came in late is not connected with its lock.
AcceptedBlockHeader_Ignored(l, b) == l

AcceptedBlockHeader(l, b) == IF l.best = b THEN [l EXCEPT !.known = b] ELSE l

-----------------------------------------------------------------------------
(* The message handler: headers and blocks. *)

\* Neither a CLSIG nor a notification keeps the message handler busy.
MsgFree == announce[MsgHandler] = NoBlock /\ clsig[MsgHandler] = ProcessIdle

NewHeader(b) ==
  /\ MsgFree
  /\ ProcessNewBlockHeaders(MsgHandler, b)
  /\ lock' = AcceptedBlockHeader(lock, b)
  /\ UNCHANGED <<aborted, clsig, announce, sched, queued, asked, cleanups>>

NewBlock(b) ==
  /\ MsgFree
  /\ \E requested \in BOOLEAN : ProcessNewBlock(MsgHandler, b, requested)
  /\ lock' = IF b \in chain.headers THEN lock ELSE AcceptedBlockHeader(lock, b)
  /\ UNCHANGED <<aborted, clsig, announce, sched, queued, asked, cleanups>>

\* An iteration of ActivateBestChain.  Its notification is sent after cs_main
\* is released, unless blocks were only disconnected.
Activate(t) ==
  /\ announce[t] = NoBlock
  /\ \/ /\ ActivateBestChain(t)
        /\ announce' = [announce EXCEPT ![t] =
             IF chain'.tip \in Active(chain) THEN NoBlock ELSE chain'.tip]
        /\ UNCHANGED aborted
     \/ Abort(t) /\ UNCHANGED announce
  /\ UNCHANGED <<lock, clsig, sched, queued, asked, cleanups>>

\* The task for the new tip is queued, or running, while tipScheduled is set.
TipUpdated(l, b) == [l EXCEPT !.enabled = b \in SporkOn, !.tipScheduled = TRUE]

UpdatedBlockTip(t) ==
  /\ announce[t] # NoBlock
  /\ announce' = [announce EXCEPT ![t] = NoBlock]
  /\ lock' = TipUpdated(lock, announce[t])
  /\ UNCHANGED <<chainVars, clsig, sched, queued, asked, cleanups>>

-----------------------------------------------------------------------------
(* ProcessNewChainLock in thread t. *)

\* A CLSIG message with a valid signature arrives.
ProcessMessage(b) ==
  /\ MsgFree /\ pc[MsgHandler] = "idle"
  /\ lock.enabled /\ b \in Lockable \ lock.seen
  /\ clsig' = [clsig EXCEPT ![MsgHandler] = [block |-> b, stage |-> "seen"]]
  /\ UNCHANGED <<chainVars, lock, announce, sched, queued, asked, cleanups>>

\* The recovered signature of the block this node has signed last.
HandleNewRecoveredSig(b) ==
  /\ clsig[SigWorker] = ProcessIdle
  /\ lock.active /\ b \in Lockable /\ b = lock.lastSigned
  /\ LockHeight(lock.best) < Height[b]
  /\ clsig' = [clsig EXCEPT ![SigWorker] = [block |-> b, stage |-> "seen"]]
  /\ UNCHANGED <<chainVars, lock, announce, sched, queued, asked, cleanups>>

\* Under cs: a CLSIG that was seen before or is not above the best is dropped.
CheckSeen(t) ==
  LET b == clsig[t].block IN
  /\ clsig[t].stage = "seen"
  /\ lock' = [lock EXCEPT !.seen = @ \cup {b}]
  /\ clsig' = [clsig EXCEPT ![t] =
       IF b \in lock.seen \/ Height[b] <= LockHeight(lock.best)
         THEN ProcessIdle ELSE [@ EXCEPT !.stage = "verify"]]
  /\ UNCHANGED <<chainVars, announce, sched, queued, asked, cleanups>>

\* VerifyRecoveredSig finds no quorum, and the CLSIG is taken for invalid, if
\* the active chain ends too far below the signed height.
Verify(t) ==
  /\ clsig[t].stage = "verify"
  /\ clsig' = [clsig EXCEPT ![t] =
       IF Height[@.block] - SignHeightOffset > Height[chain.tip]
         THEN ProcessIdle ELSE [@ EXCEPT !.stage = "apply"]]
  /\ UNCHANGED <<chainVars, lock, announce, sched, queued, asked, cleanups>>

\* Under cs_main and cs: the lock becomes the best one, of whatever height the
\* best one is by now.
ProcessNewChainLock(t) ==
  LET b == clsig[t].block
      accepted == ~InternalHasConflictingChainLock(lock, b)
      hasHeader == b \in chain.headers
  IN  /\ clsig[t].stage = "apply"
      /\ clsig' = [clsig EXCEPT ![t] = ProcessIdle]
      /\ lock' = IF accepted
                   THEN [lock EXCEPT !.best = b, !.known = IF hasHeader THEN b ELSE @]
                   ELSE lock
      /\ queued' = IF accepted /\ hasHeader THEN queued + 1 ELSE queued
      /\ UNCHANGED <<chainVars, announce, sched, asked, cleanups>>

-----------------------------------------------------------------------------
(* The scheduler thread. *)

At(p) == sched.pc = p /\ pc[Scheduler] = "idle" /\ announce[Scheduler] = NoBlock

\* A queued task, the one for the new tip, or the one of every five seconds
\* starts; CheckActiveState reads the chain under cs_main.
StartTask(kind) ==
  /\ At("idle")
  /\ kind = "clsig" => queued > 0
  /\ kind = "tip" => lock.tipScheduled
  /\ queued' = IF kind = "clsig" THEN queued - 1 ELSE queued
  /\ lock' = [lock EXCEPT !.active = lock.enabled]
  /\ sched' = [sched EXCEPT !.pc = "check", !.kind = kind,
                            !.dip = Height[chain.tip] >= DIP0008Height]
  /\ UNCHANGED <<chainVars, clsig, announce, asked, cleanups>>

\* The rest of CheckActiveState, under cs.
CheckActiveState ==
  LET on == sched.dip /\ lock.active IN
  /\ At("check")
  /\ lock' = IF on /\ ~lock.enforced
               THEN [lock EXCEPT !.enforced = TRUE, !.best = NoBlock, !.known = NoBlock,
                                 !.lastNotify = NoBlock]
               ELSE [lock EXCEPT !.enforced = on]
  /\ sched' = [sched EXCEPT !.pc = "enforce", !.dip = FALSE]
  /\ UNCHANGED <<chainVars, clsig, announce, queued, asked, cleanups>>

\* Where the task goes on after EnforceBestChainLock.
AfterEnforce == IF sched.kind = "clsig" THEN SchedIdle
                                        ELSE [sched EXCEPT !.pc = "tip", !.snap = NoBlock]

\* EnforceBestChainLock, under cs: take the lock to enforce.
EnforceSnapshot ==
  /\ At("enforce")
  /\ sched' = IF lock.enforced /\ lock.known # NoBlock
                THEN [sched EXCEPT !.pc = "invalidate", !.snap = lock.known]
                ELSE AfterEnforce
  /\ UNCHANGED <<chainVars, lock, clsig, announce, queued, asked, cleanups>>

\* Mutant: the children are looked up instead of the siblings.
Siblings_Children(c, b) ==
  {d \in c.headers \ {Genesis} : d \notin Ancestors[b] /\ Parent[d] \in Path(c, b)}

\* Mutant: the walk starts below the locked block.
Siblings_SkipsLocked(c, b) ==
  {d \in c.headers \ {Genesis} :
     d \notin Ancestors[b] /\ \E e \in Path(c, b) \ {b} : Parent[d] = Parent[e]}

\* The blocks that compete with the locked chain where it is not active.
Siblings(c, b) ==
  {d \in c.headers \ {Genesis} :
     d \notin Ancestors[b] /\ \E e \in Path(c, b) : Parent[d] = Parent[e]}

\* InvalidateBlock of each block of S, at most one of which is on the active
\* chain; the outcome is the same in every order.  InvalidateBlock announces the
\* tip itself, see EnforceBestChainLock.
InvalidateBlocks(c, S) ==
  LET disconnected == {d \in Active(c) : Ancestors[d] \cap S # {}}
      m == [c EXCEPT !.failedValid = @ \cup S,
                     !.failedChild = @ \cup disconnected,
                     !.candidates = @ \ (S \cup disconnected),
                     !.tip = IF disconnected = {} THEN @
                             ELSE Parent[CHOOSE d \in S : d \in Active(c)]]
  IN  IF S = {} THEN c
      ELSE [m EXCEPT !.candidates = @ \cup
              {d \in Linked(m) : d \notin Failed(m) /\ ~Worse(m, d, m.tip)}]

\* Its work under cs_main: a locked block that is marked, or whose data is
\* missing (IsValid), and its chain are cleared.
EnforcedChain(c, b) ==
  LET i == InvalidateBlocks(c, Siblings(c, b))
  IN  IF b \in Failed(i) \/ b \notin i.data THEN ResetBlockFailureFlags(i, b) ELSE i

EnforceBestChainLock ==
  LET c == EnforcedChain(chain, sched.snap)
      invalidates == Siblings(chain, sched.snap) # {}
  IN
  /\ At("invalidate")
  /\ IF sched.snap \in Active(c) THEN chain' = c /\ UNCHANGED <<pc, mostWork>>
                                 ELSE StartActivate(Scheduler, c)
  /\ lock' = IF invalidates THEN TipUpdated(lock, c.tip) ELSE lock
  /\ sched' = [sched EXCEPT !.pc = "notify"]
  /\ UNCHANGED <<aborted, invalidated, reconsidered, clsig, announce, queued, asked, cleanups>>

\* After ActivateBestChain: tell the listeners once the lock is on the chain.
NotifyChainLock ==
  /\ At("notify")
  /\ lock' = [lock EXCEPT !.lastNotify = IF sched.snap \in Active(chain) THEN sched.snap ELSE @]
  /\ sched' = AfterEnforce
  /\ UNCHANGED <<chainVars, clsig, announce, queued, asked, cleanups>>

\* The end of a task, with its last statement.
TaskDone(l) == [l EXCEPT !.tipScheduled = @ /\ sched.kind # "tip"]

\* TrySignChainTip: Cleanup, which may forget old CLSIGs, and the tip.
TrySignTip ==
  /\ At("tip")
  /\ \E old \in SUBSET lock.seen :
       /\ old # {} => cleanups < MaxCleanups
       /\ cleanups' = IF old = {} THEN cleanups ELSE cleanups + 1
       /\ LET l == [lock EXCEPT !.seen = @ \ old]
          IN  IF chain.tip = Genesis
                THEN lock' = TaskDone(l) /\ sched' = SchedIdle
                ELSE lock' = l /\ sched' = [sched EXCEPT !.pc = "trysign", !.snap = chain.tip]
  /\ UNCHANGED <<chainVars, clsig, announce, queued, asked>>

\* The checks under cs; the transactions of the last blocks may not be safe.
TrySignCheck ==
  LET b == sched.snap
      wanted == /\ lock.active
                /\ LockHeight(lock.lastSigned) # Height[b]
                /\ LockHeight(lock.best) < Height[b]
                /\ ~InternalHasConflictingChainLock(lock, b)
  IN  /\ At("trysign")
      /\ \/ wanted /\ sched' = [sched EXCEPT !.pc = "sign"] /\ UNCHANGED lock
         \/ lock' = TaskDone(lock) /\ sched' = SchedIdle
      /\ UNCHANGED <<chainVars, clsig, announce, queued, asked, cleanups>>

\* Mutant: the best lock is not looked at again.
TrySignChainTip_NoRecheck ==
  /\ At("sign")
  /\ lock' = [lock EXCEPT !.lastSigned = sched.snap]
  /\ sched' = [sched EXCEPT !.pc = "ask", !.held = lock.known]
  /\ UNCHANGED <<chainVars, clsig, announce, queued, asked, cleanups>>

\* Under cs again: the best lock may have changed while cs was not held.
TrySignChainTip ==
  /\ At("sign")
  /\ IF LockHeight(lock.best) >= Height[sched.snap]
       THEN lock' = TaskDone(lock) /\ sched' = SchedIdle
       ELSE /\ lock' = [lock EXCEPT !.lastSigned = sched.snap]
            /\ sched' = [sched EXCEPT !.pc = "ask", !.held = lock.known]
  /\ UNCHANGED <<chainVars, clsig, announce, queued, asked, cleanups>>

\* AsyncSignIfMember is called without cs.
AskQuorum ==
  /\ At("ask")
  /\ asked' = asked \cup {sched.snap}
  /\ lock' = TaskDone(lock)
  /\ sched' = SchedIdle
  /\ UNCHANGED <<chainVars, clsig, announce, queued, cleanups>>

SchedulerStep ==
  \/ \E kind \in {"clsig", "tip", "timer"} : StartTask(kind)
  \/ CheckActiveState
  \/ EnforceSnapshot
  \/ EnforceBestChainLock
  \/ NotifyChainLock
  \/ TrySignTip
  \/ TrySignCheck
  \/ TrySignChainTip
  \/ AskQuorum
  \/ Activate(Scheduler)
  \/ UpdatedBlockTip(Scheduler)

ReceiverStep(t) == CheckSeen(t) \/ Verify(t) \/ ProcessNewChainLock(t)

Next ==
  /\ ~aborted
  /\ \/ \E b \in Blocks : NewHeader(b) \/ NewBlock(b)
     \/ Activate(MsgHandler)
     \/ UpdatedBlockTip(MsgHandler)
     \/ \E b \in Lockable : ProcessMessage(b) \/ HandleNewRecoveredSig(b)
     \/ \E t \in Receivers : ReceiverStep(t)
     \/ SchedulerStep

Spec == Init /\ [][Next]_vars

\* The scheduler thread serves its queue and the timer for ever; the other
\* threads finish what they have begun.  Nothing is assumed of arrivals.
Fairness ==
  /\ WF_vars(~aborted /\ SchedulerStep)
  /\ WF_vars(~aborted /\ (Activate(MsgHandler) \/ UpdatedBlockTip(MsgHandler)))
  /\ \A t \in Receivers : WF_vars(~aborted /\ ReceiverStep(t))

FairSpec == Spec /\ Fairness

-----------------------------------------------------------------------------
(* Correctness. *)

\* Types, and the locks the handler works with are for blocks it has.
LockTypeOK ==
  /\ lock \in LockType
  /\ {lock.known, lock.lastNotify, lock.lastSigned, sched.snap}
       \subseteq chain.headers \cup {NoBlock}
  /\ clsig \in [Receivers -> [block : MaybeBlock, stage : {"idle", "seen", "verify", "apply"}]]
  /\ announce \in [Threads -> MaybeBlock]
  /\ sched \in [pc : {"idle", "check", "enforce", "invalidate", "notify", "tip", "trysign",
                      "sign", "ask"},
                kind : {"none", "clsig", "tip", "timer"}, snap : MaybeBlock, dip : BOOLEAN,
                held : MaybeBlock]
  /\ queued \in Nat /\ asked \subseteq chain.headers /\ cleanups \in 0..MaxCleanups

\* ProcessNewChainLock: "when the block or the header later comes in, we will
\* enforce the correct chain".  Whichever of the CLSIG and the header arrives
\* first, from whatever thread, the lock to enforce is the best lock as soon as
\* both are there.
KnownFollowsBest ==
  lock.best \in chain.headers => lock.known = lock.best

\* The blocks of the chain that the quorum locks.
LockedChain == UNION {Ancestors[b] : b \in Lockable}

\* The locks the network produces are all on one valid chain.
LocksAgree ==
  /\ \A b, d \in Lockable : b \in Ancestors[d] \/ d \in Ancestors[b]
  /\ LockedChain \cap (BadBlocks \cup BadToConnect) = {}

\* EnforceBestChainLock invalidates blocks of a snapshot of lock and chain, and
\* activation marks what is above them: no block of the locked chain is ever
\* marked invalid, whichever lock was the best one when the snapshot was taken.
LockedChainNotMarked == LocksAgree => LockedChain \cap Failed(chain) = {}

\* TrySignChainTip checks the lock, looks at transactions without cs, takes cs
\* again to look at the best lock, and calls AsyncSignIfMember without cs.  The
\* quorum is asked to sign a block at or below the height of an enforced lock on
\* another chain only if that lock became known after the last look: a lock that
\* arrived before it, in whatever section, stops the request.
SignRequestRespectsLock ==
  [][\A b \in asked' \ asked :
       InternalHasConflictingChainLock(lock, b) => lock.known # sched.held]_vars

\* ProcessNewChainLock: "no need to process/relay older CLSIGs".  The best lock
\* is not replaced by one of a lower block.
BestLockNeverGoesBack ==
  [][lock'.best # NoBlock => LockHeight(lock'.best) >= LockHeight(lock.best)]_vars

\* EnforceBestChainLock: a lock whose block is completely received and which
\* stays the one to enforce is on the active chain for good in the end, even if
\* another thread goes on towards a competing chain it had chosen before.
LockPrevails ==
  \A b \in Lockable :
    <>[](lock.enforced /\ lock.known = b /\ b \in Linked(chain))
      => <>[](b \in Active(chain) \/ aborted)
============================================================================
