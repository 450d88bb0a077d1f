-------------------------- MODULE ChainLocksProofs --------------------------
(***************************************************************************)
(* For every block tree and every set of locks: the handler's locks are    *)
(* consistent with the block index, and if the locks of the network are on *)
(* one valid chain, enforcing them never marks a block of that chain.      *)
(***************************************************************************)
EXTENDS ChainLocks, ChainStateProofs

\* Only blocks for which the quorum has signed are handled as locks.
LocksOnly ==
  /\ lock.best \in Lockable \cup {NoBlock} /\ lock.known \in Lockable \cup {NoBlock}
  /\ \A t \in Receivers : clsig[t].stage # "idle" => clsig[t].block \in Lockable
  /\ sched.pc \in {"invalidate", "notify"} => sched.snap \in Lockable
  /\ sched.pc \in {"trysign", "sign", "ask"} => sched.snap # NoBlock

HandlerInv == ChainInv /\ LockTypeOK /\ LocksOnly /\ KnownFollowsBest

\* No block of the locked chain is marked in chain record c.
Unmarked(c) == LocksAgree => LockedChain \cap Failed(c) = {}

-----------------------------------------------------------------------------
(* EnforceBestChainLock on a chain record. *)

\* What the invalidation of a set of blocks does to each field.
LEMMA InvalidateBlocksFields ==
  ASSUME NEW c, Sound(c), NEW S \in SUBSET (c.headers \ {Genesis}), S # {}
  PROVE  LET n == InvalidateBlocks(c, S)
             disconnected == {d \in Active(c) : Ancestors[d] \cap S # {}}
         IN  /\ Sound(n) /\ Linked(n) = Linked(c) /\ n.headers = c.headers
             /\ n.failedValid = c.failedValid \cup S
             /\ n.failedChild = c.failedChild \cup disconnected
<1>. DEFINE disconnected == {d \in Active(c) : Ancestors[d] \cap S # {}}
            first == CHOOSE d \in S : d \in Active(c)
            newTip == IF disconnected = {} THEN c.tip ELSE Parent[first]
            m == [c EXCEPT !.failedValid = @ \cup S,
                           !.failedChild = @ \cup disconnected,
                           !.candidates = @ \ (S \cup disconnected),
                           !.tip = IF disconnected = {} THEN @ ELSE Parent[first]]
            added == {d \in Linked(m) : d \notin Failed(m) /\ ~Worse(m, d, m.tip)}
            n == InvalidateBlocks(c, S)
<1>1. n = [m EXCEPT !.candidates = @ \cup added]
  BY Zenon DEF InvalidateBlocks
<1>2. /\ c \in ChainType /\ S \subseteq Blocks \ {Genesis} /\ c.tip \in Blocks
      /\ Active(c) \subseteq Linked(c) /\ Active(c) \subseteq Blocks /\ c.tip \in Active(c)
  <2>1. c \in ChainType /\ S \subseteq Blocks \ {Genesis} /\ c.tip \in Blocks
    BY Zenon DEF Sound, ChainType
  <2>. QED  BY Zenon, <2>1, AncestorsFacts DEF Sound, Active
<1>3. newTip \in Active(c) /\ newTip \in Blocks
  <2>1. CASE disconnected = {}  BY Zenon, <1>2, <2>1
  <2>2. CASE disconnected # {}
    <3>1. PICK d \in Active(c), e \in S : e \in Ancestors[d]  BY Zenon, <2>2
    <3>2. e \in Active(c)  BY Zenon, <1>2, <3>1, AncestryAssumption DEF Active
    <3>3. first \in S /\ first \in Active(c)  BY <3>2, Zenon
    <3>. HIDE DEF first
    <3>4. Ancestors[first] \subseteq Active(c)  BY Zenon, <1>2, <3>3, AncestryAssumption DEF Active
    <3>5. Parent[first] \in Active(c)  BY <1>2, <3>3, <3>4, AncestorsFacts
    <3>. QED  BY Zenon, <1>2, <2>2, <3>5
  <2>. QED  BY Zenon, <2>1, <2>2
<1>4. disconnected \subseteq Active(c)  OBVIOUS
<1>. HIDE DEF disconnected, first
<1>5. m \in ChainType /\ m.headers = c.headers /\ m.data = c.data /\ m.seq = c.seq
      /\ m.failedValid = c.failedValid \cup S /\ m.failedChild = c.failedChild \cup disconnected
      /\ m.candidates \subseteq c.candidates /\ m.unlinked = c.unlinked /\ m.tip = newTip
  BY ONLY Zenon, <1>2, <1>3, <1>4 DEF ChainType
<1>. HIDE DEF m, newTip
<1>6. Linked(m) = Linked(c) /\ added \subseteq Linked(c) /\ added \subseteq Blocks
  BY Zenon, <1>5 DEF Linked
<1>. HIDE DEF added
<1>7. n \in ChainType /\ n.headers = m.headers /\ n.data = m.data /\ n.seq = m.seq
      /\ n.failedValid = m.failedValid /\ n.failedChild = m.failedChild
      /\ n.candidates = m.candidates \cup added /\ n.unlinked = m.unlinked /\ n.tip = m.tip
  BY ONLY <1>1, <1>5, <1>6 DEF ChainType
<1>. HIDE DEF n
<1>8. Linked(n) = Linked(c) /\ Failed(n) = Failed(c) \cup S \cup disconnected
  BY Zenon, <1>5, <1>7 DEF Linked, Failed
<1>9. n.candidates \subseteq Linked(n) /\ n.tip \in Linked(n)
  BY <1>2, <1>3, <1>5, <1>6, <1>7, <1>8 DEF Sound
<1>10. n.data \cup Failed(n) \subseteq n.headers
  BY Zenon, <1>2, <1>4, <1>5, <1>7, <1>8 DEF Sound
<1>11. Sound(n)
  BY Zenon, <1>5, <1>7, <1>8, <1>9, <1>10 DEF Sound
<1>. QED  BY Zenon, <1>5, <1>7, <1>8, <1>11 DEF disconnected, n

\* The work of EnforceBestChainLock under cs_main keeps the chain record sound.
LEMMA EnforcedSound ==
  ASSUME NEW c, Sound(c), NEW b \in c.headers
  PROVE  LET n == EnforcedChain(c, b)
         IN  /\ Sound(n) /\ Linked(n) = Linked(c) /\ n.headers = c.headers
             /\ \A x \in Failed(n) \ Failed(c) :
                  \E s \in Siblings(c, b) : s \in Ancestors[x] /\ x \in Blocks
<1>. DEFINE S == Siblings(c, b)
            i == InvalidateBlocks(c, S)
<1>1. S \in SUBSET (c.headers \ {Genesis}) /\ c.headers \subseteq Blocks /\ c.tip \in Blocks
  BY Zenon DEF Siblings, Sound, ChainType
<1>2. S = {} => i = c
  BY Zenon DEF InvalidateBlocks
<1>3. S # {} => /\ Sound(i) /\ Linked(i) = Linked(c) /\ i.headers = c.headers
                /\ i.failedValid = c.failedValid \cup S
                /\ i.failedChild = c.failedChild \cup {d \in Active(c) : Ancestors[d] \cap S # {}}
  BY <1>1, InvalidateBlocksFields
<1>. HIDE DEF i, S
<1>4. Sound(i) /\ Linked(i) = Linked(c) /\ i.headers = c.headers
  BY Zenon, <1>2, <1>3
<1>5. \A x \in Failed(i) \ Failed(c) : \E s \in S : s \in Ancestors[x] /\ x \in Blocks
  BY <1>1, <1>2, <1>3, AncestorsFacts DEF Failed, Active
<1>6. EnforcedChain(c, b) = i \/ EnforcedChain(c, b) = ResetBlockFailureFlags(i, b)
  BY Zenon DEF EnforcedChain, i, S
<1>7. LET n == ResetBlockFailureFlags(i, b)
      IN  Sound(n) /\ Linked(n) = Linked(i) /\ n.headers = i.headers /\ Failed(n) \subseteq Failed(i)
  BY Zenon, <1>4, ResetFields
<1>. QED  BY Zenon, <1>4, <1>5, <1>6, <1>7 DEF S

\* Two blocks of one height on one chain are the same, so a competitor of a
\* locked block is below no lock of the same chain.
LEMMA SiblingsOffLockedChain ==
  ASSUME LocksAgree, NEW c, c.tip \in Blocks, NEW b \in Lockable,
         NEW s \in Siblings(c, b), s \in Blocks
  PROVE  s \notin LockedChain
<1>. SUFFICES ASSUME NEW d \in Lockable, s \in Ancestors[d] PROVE FALSE
  BY Zenon DEF LockedChain
<1>1. PICK e \in Path(c, b) : Parent[s] = Parent[e]
  BY Zenon DEF Siblings
<1>2. s \notin Ancestors[b] /\ s # Genesis /\ e \in Ancestors[b] /\ e \notin Active(c)
  BY Zenon DEF Siblings, Path
<1>3. b \in Blocks /\ d \in Blocks /\ e \in Blocks /\ Lockable \subseteq Blocks
  BY Zenon, <1>2, ThreadsAssumption, AncestorsFacts
<1>4. b \in Ancestors[d]
  <2>1. b \in Ancestors[d] \/ d \in Ancestors[b]  BY Zenon DEF LocksAgree
  <2>2. d \in Ancestors[b] => Ancestors[d] \subseteq Ancestors[b]  BY Zenon, <1>3, AncestryAssumption
  <2>. QED  BY Zenon, <1>2, <2>1, <2>2
<1>5. e \in Ancestors[d] /\ (s \in Ancestors[e] \/ e \in Ancestors[s])
  BY Zenon, <1>2, <1>3, <1>4, AncestryAssumption
<1>6. s # e
  BY Zenon, <1>2
<1>7. e # Genesis
  <2>1. \A x \in Blocks : Genesis \in Ancestors[x]  BY AncestryAssumption, Zenon
  <2>2. Genesis \in Active(c)  BY ONLY Zenon, c.tip \in Blocks, <2>1 DEF Active
  <2>. QED  BY ONLY Zenon, <1>2, <2>2
<1>8. s \in Ancestors[e] => s \in Ancestors[Parent[s]]
  BY <1>1, <1>3, <1>6, <1>7, TreeAssumption
<1>9. e \in Ancestors[s] => e \in Ancestors[Parent[e]]
  BY <1>1, <1>2, <1>3, <1>6, TreeAssumption
<1>. QED  BY <1>2, <1>3, <1>5, <1>7, <1>8, <1>9, TreeAssumption

-----------------------------------------------------------------------------
(* The marks. *)

\* A block above a marked one is not on the locked chain.
LEMMA UnmarkedUp ==
  ASSUME NEW c, NEW n, Unmarked(c), LocksAgree,
         \A x \in Failed(n) \ Failed(c) :
           \/ \E y \in Failed(c) : y \in Ancestors[x] /\ x \in Blocks
           \/ x \in BadBlocks \cup BadToConnect
           \/ \E y \in Blocks \ LockedChain : y \in Ancestors[x] /\ x \in Blocks
  PROVE  Unmarked(n)
<1>1. \A x \in Blocks : \A y \in Ancestors[x] : x \in LockedChain => y \in LockedChain
  <2>. SUFFICES ASSUME NEW x \in Blocks, NEW y \in Ancestors[x], x \in LockedChain
                PROVE  y \in LockedChain
    OBVIOUS
  <2>1. PICK d \in Lockable : x \in Ancestors[d]  BY Zenon DEF LockedChain
  <2>2. Ancestors[x] \subseteq Ancestors[d]  BY Zenon, <2>1, ThreadsAssumption, AncestryAssumption
  <2>. QED  BY Zenon, <2>1, <2>2 DEF LockedChain
<1>2. LockedChain \cap (BadBlocks \cup BadToConnect) = {} /\ LockedChain \cap Failed(c) = {}
  BY Zenon DEF LocksAgree, Unmarked
<1>3. \A x \in Failed(n) \ Failed(c) : x \notin LockedChain
  BY Zenon, <1>1, <1>2
<1>. QED  BY Zenon, <1>2, <1>3 DEF Unmarked

\* An iteration of ActivateBestChain.
LEMMA UnmarkedActivate ==
  ASSUME ChainInv, Unmarked(chain), LocksAgree, NEW t \in Threads, ActivateBestChain(t)
  PROVE  Unmarked(chain') /\ chain'.headers = chain.headers
<1>1. PICK c, m :
        /\ c = chain \/ c = PruneFailedCandidates(chain)
        /\ Sound(c) /\ c.headers = chain.headers
        /\ chain' = c \/ (m \in Linked(c) /\ chain' = ActivateBestChainStep(c, m))
  BY Zenon, ActivateCases
<1>2. Unmarked(c)
  <2>1. CASE c = PruneFailedCandidates(chain)
    <3>1. \A x \in Failed(c) \ Failed(chain) :
            \E y \in Failed(chain) : y \in Ancestors[x] /\ x \in Blocks
      BY Zenon, <2>1, PruneFailedFields DEF ChainInv, Failed
    <3>. QED  BY Zenon, <3>1, UnmarkedUp
  <2>. QED  BY Zenon, <1>1, <2>1
<1>3. CASE m \in Linked(c) /\ chain' = ActivateBestChainStep(c, m)
  <2>1. /\ chain'.failedValid = c.failedValid \cup StepFailure(c, m)
        /\ chain'.failedChild = c.failedChild /\ chain'.headers = c.headers
    BY <1>1, <1>3, StepFields
  <2>2. \A x \in Failed(chain') \ Failed(c) : x \in BadToConnect
    BY Zenon, <2>1 DEF Failed, StepFailure
  <2>3. Unmarked(chain')  BY Zenon, <1>2, <2>2, UnmarkedUp
  <2>. QED  BY Zenon, <1>1, <2>1, <2>3
<1>. QED  BY Zenon, <1>1, <1>2, <1>3

\* A received header or block.
LEMMA UnmarkedReceive ==
  ASSUME ChainInv, Unmarked(chain), LocksAgree, NEW b \in Blocks, NEW t \in Threads,
         \/ ProcessNewBlockHeaders(t, b)
         \/ \E requested \in BOOLEAN : ProcessNewBlock(t, b, requested)
  PROVE  Unmarked(chain')
<1>. DEFINE c == AddToBlockIndex(chain, b)
<1>1. Sound(c) /\ b \in c.headers /\ Failed(c) = Failed(chain) /\ c.data = chain.data
  BY AddSound DEF ChainInv
<1>2. \/ chain' = c
      \/ chain' = [c EXCEPT !.failedValid = @ \cup {b}] /\ b \in BadBlocks
      \/ b \notin c.data /\ chain' \in ReceivedBlockTransactions(c, b)
  BY Zenon DEF ProcessNewBlock, ProcessNewBlockHeaders, StartActivate, Ignored
<1>. HIDE DEF c
<1>3. CASE chain' = [c EXCEPT !.failedValid = @ \cup {b}] /\ b \in BadBlocks
  BY <1>1, <1>3, MarkSound, UnmarkedUp DEF Failed
<1>4. CASE b \notin c.data /\ chain' \in ReceivedBlockTransactions(c, b)
  BY Zenon, <1>1, <1>4, ReceivedSound DEF Unmarked
<1>. QED  BY Zenon, <1>1, <1>2, <1>3, <1>4 DEF Unmarked

-----------------------------------------------------------------------------
(* The chain record under the handler. *)

\* The chain record EnforceBestChainLock leaves behind.
LEMMA EnforceStep ==
  ASSUME HandlerInv, EnforceBestChainLock
  PROVE  /\ chain' = EnforcedChain(chain, sched.snap)
         /\ sched.snap \in Lockable /\ sched.snap \in chain.headers
         /\ ChainInv' /\ chain'.headers = chain.headers /\ chain'.tip \in Blocks
<1>. DEFINE c == EnforcedChain(chain, sched.snap)
<1>1. sched.snap \in Lockable /\ sched.snap \in chain.headers /\ Sound(chain)
  BY Zenon, ThreadsAssumption, TreeAssumption DEF EnforceBestChainLock, At, HandlerInv, LocksOnly,
     LockTypeOK, ChainInv
<1>2. Sound(c) /\ Linked(c) = Linked(chain) /\ c.headers = chain.headers
  BY Zenon, <1>1, EnforcedSound
<1>3. /\ \/ chain' = c /\ UNCHANGED <<pc, mostWork>>
         \/ StartActivate(Scheduler, c)
      /\ UNCHANGED <<aborted, invalidated, reconsidered>>
  BY Zenon DEF EnforceBestChainLock
<1>. HIDE DEF c
<1>4. chain' = c  BY Zenon, <1>3 DEF StartActivate
<1>5. ChainInv /\ invalidated \in 0..MaxInvalidate /\ reconsidered \in 0..MaxReconsider
  BY Zenon DEF HandlerInv, ChainInv, ThreadsTyped
<1>6. ASSUME chain' = c, UNCHANGED <<pc, mostWork>>  PROVE  ChainInv'
  BY <1>2, <1>3, <1>5, <1>6 DEF ChainInv, ThreadsTyped, TargetsLinked
<1>7. ASSUME StartActivate(Scheduler, c)  PROVE  ChainInv'
  BY Zenon, <1>2, <1>3, <1>5, <1>7, StartInv, ThreadsAssumption
<1>8. c.tip \in Blocks  BY Zenon, <1>2 DEF Sound, ChainType
<1>. QED  BY Zenon, <1>1, <1>2, <1>3, <1>4, <1>6, <1>7, <1>8 DEF c

\* The steps of ChainState that the handler's threads take.
LEMMA ChainSteps ==
  ASSUME HandlerInv, ~aborted, UNCHANGED aborted, NEW t \in Threads,
         \/ \E b \in Blocks : ProcessNewBlockHeaders(t, b)
         \/ \E b \in Blocks, requested \in BOOLEAN : ProcessNewBlock(t, b, requested)
         \/ ActivateBestChain(t)
  PROVE  ChainInv' /\ chain'.tip \in Blocks
<1>1. ChainNext  BY Zenon DEF ChainNext, ChainStep
<1>2. ChainInv'  BY Zenon, <1>1, ChainNextInv DEF HandlerInv
<1>. QED  BY Zenon, <1>2 DEF ChainInv, Sound, ChainType

\* A received header or block enters the block index and nothing leaves it.
LEMMA ReceiveHeaders ==
  ASSUME ChainInv, NEW b \in Blocks, NEW t \in Threads,
         \/ ProcessNewBlockHeaders(t, b)
         \/ \E requested \in BOOLEAN : ProcessNewBlock(t, b, requested)
  PROVE  chain'.headers = chain.headers \cup {b}
<1>. DEFINE c == AddToBlockIndex(chain, b)
<1>1. Sound(c) /\ b \in c.headers /\ c.headers = chain.headers \cup {b}
  BY AddSound DEF ChainInv
<1>2. \/ chain' = c
      \/ chain' = [c EXCEPT !.failedValid = @ \cup {b}]
      \/ b \notin c.data /\ chain' \in ReceivedBlockTransactions(c, b)
  BY Zenon DEF ProcessNewBlock, ProcessNewBlockHeaders, StartActivate, Ignored
<1>. HIDE DEF c
<1>. QED  BY <1>1, <1>2, MarkSound, ReceivedSound

-----------------------------------------------------------------------------
(* The handler. *)

\* The part of the invariant that is about the handler's own variables.
HandlerState == LockTypeOK /\ LocksOnly /\ KnownFollowsBest

\* A header or block arrives.
LEMMA ArrivalState ==
  ASSUME HandlerState, NEW b \in Blocks, chain'.headers = chain.headers \cup {b},
         \/ lock' = AcceptedBlockHeader(lock, b)
         \/ b \in chain.headers /\ lock' = lock,
         UNCHANGED <<clsig, announce, sched, queued, asked, cleanups>>
  PROVE  HandlerState'
<1>1. lock' \in LockType
      /\ lock'.best = lock.best /\ lock'.lastNotify = lock.lastNotify
      /\ lock'.lastSigned = lock.lastSigned
      /\ lock'.known = IF lock.best = b /\ lock' # lock THEN b ELSE lock.known
  BY DEF HandlerState, LockTypeOK, AcceptedBlockHeader, LockType, MaybeBlock
<1>2. b \notin chain.headers \/ lock'.known = lock.known
  BY Zenon, <1>1 DEF HandlerState, KnownFollowsBest
<1>3. lock.best = b => lock'.known = b
  BY Zenon, <1>1 DEF HandlerState, KnownFollowsBest, AcceptedBlockHeader, LockTypeOK, LockType
<1>4. LockTypeOK'
  BY <1>1 DEF HandlerState, LockTypeOK
<1>5. LocksOnly'
  BY Zenon, <1>1 DEF HandlerState, LocksOnly
<1>6. KnownFollowsBest'
  BY Zenon, <1>1, <1>3 DEF HandlerState, KnownFollowsBest
<1>. QED  BY Zenon, <1>4, <1>5, <1>6 DEF HandlerState

\* Steps that change nothing of the handler but flags of its record, what is
\* announced and the chain record, where no header is lost.
LEMMA FlagsState ==
  ASSUME HandlerState, chain.headers = chain'.headers,
         lock' \in LockType, lock'.best = lock.best, lock'.known = lock.known,
         lock'.lastNotify = lock.lastNotify, lock'.lastSigned = lock.lastSigned,
         announce' \in [Threads -> MaybeBlock], UNCHANGED <<clsig, queued, asked, cleanups>>,
         \/ sched' = sched
         \/ sched.pc = "invalidate" /\ sched' = [sched EXCEPT !.pc = "notify"]
  PROVE  HandlerState'
<1>1. LockTypeOK'
  BY DEF HandlerState, LockTypeOK
<1>2. LocksOnly' /\ KnownFollowsBest'
  BY Zenon DEF HandlerState, LocksOnly, KnownFollowsBest, LockTypeOK
<1>. QED  BY Zenon, <1>1, <1>2 DEF HandlerState

\* The record after a new tip was signalled.
LEMMA TipUpdatedFields ==
  ASSUME NEW l \in LockType, NEW b
  PROVE  LET n == TipUpdated(l, b)
         IN  n \in LockType /\ n.best = l.best /\ n.known = l.known
             /\ n.lastNotify = l.lastNotify /\ n.lastSigned = l.lastSigned
<1>1. (b \in SporkOn) \in BOOLEAN  OBVIOUS
<1>. DEFINE on == b \in SporkOn
<1>2. TipUpdated(l, b) = [l EXCEPT !.enabled = on, !.tipScheduled = TRUE]  BY Zenon DEF TipUpdated
<1>. HIDE DEF on
<1>3. on \in BOOLEAN  BY Zenon, <1>1 DEF on
<1>. QED  BY Zenon, <1>2, <1>3 DEF LockType

\* A CLSIG on its way through ProcessNewChainLock.
LEMMA ReceiverState ==
  ASSUME HandlerState, NEW t \in Receivers, ReceiverStep(t)
  PROVE  HandlerState'
<1>. DEFINE b == clsig[t].block
<1>0. /\ lock \in LockType /\ Lockable \subseteq Blocks /\ NoBlock \notin Lockable
      /\ clsig \in [Receivers -> [block : MaybeBlock, stage : {"idle", "seen", "verify", "apply"}]]
      /\ clsig[t].stage # "idle" => b \in Lockable
  BY Zenon, ThreadsAssumption, TreeAssumption DEF HandlerState, LockTypeOK, LocksOnly
<1>1. CASE CheckSeen(t)
  <2>1. /\ b \in Lockable /\ lock' = [lock EXCEPT !.seen = @ \cup {b}]
        /\ \/ clsig' = [clsig EXCEPT ![t] = ProcessIdle]
           \/ clsig' = [clsig EXCEPT ![t] = [@ EXCEPT !.stage = "verify"]]
        /\ chain' = chain /\ UNCHANGED <<announce, sched, queued, asked, cleanups>>
    BY Zenon, <1>0, <1>1 DEF CheckSeen, chainVars
  <2>2. lock' \in LockType /\ lock'.best = lock.best /\ lock'.known = lock.known
        /\ lock'.lastNotify = lock.lastNotify /\ lock'.lastSigned = lock.lastSigned
    BY Zenon, <1>0, <2>1 DEF LockType
  <2>3. clsig' \in [Receivers -> [block : MaybeBlock, stage : {"idle", "seen", "verify", "apply"}]]
        /\ \A u \in Receivers : clsig'[u].stage # "idle" => clsig'[u].block \in Lockable
    BY <1>0, <2>1 DEF ProcessIdle, MaybeBlock, HandlerState, LocksOnly
  <2>4. LockTypeOK'  BY <2>1, <2>2, <2>3 DEF HandlerState, LockTypeOK
  <2>5. LocksOnly' /\ KnownFollowsBest'
    BY Zenon, <2>1, <2>2, <2>3 DEF HandlerState, LocksOnly, KnownFollowsBest
  <2>. QED  BY Zenon, <2>4, <2>5 DEF HandlerState
<1>2. CASE Verify(t)
  BY <1>2 DEF Verify, HandlerState, MaybeBlock, Receivers, LockType, LockTypeOK, LocksOnly, KnownFollowsBest, chainVars, ProcessIdle
<1>3. CASE ProcessNewChainLock(t)
  <2>1. /\ b \in Lockable /\ clsig' = [clsig EXCEPT ![t] = ProcessIdle]
        /\ \/ lock' = lock
           \/ b \in chain.headers /\ lock' = [lock EXCEPT !.best = b, !.known = b]
           \/ b \notin chain.headers /\ lock' = [lock EXCEPT !.best = b, !.known = @]
        /\ queued' \in {queued, queued + 1}
        /\ chain' = chain /\ UNCHANGED <<announce, sched, asked, cleanups>>
    BY Zenon, <1>0, <1>3 DEF ProcessNewChainLock, chainVars
  <2>. HIDE DEF b
  <2>2. /\ lock' \in LockType
        /\ lock'.lastNotify = lock.lastNotify /\ lock'.lastSigned = lock.lastSigned
        /\ \/ lock'.best = lock.best /\ lock'.known = lock.known
           \/ b \in chain.headers /\ lock'.best = b /\ lock'.known = b
           \/ b \notin chain.headers /\ lock'.best = b /\ lock'.known = lock.known
    BY Zenon, <1>0, <2>1 DEF LockType, MaybeBlock
  <2>3. clsig' \in [Receivers -> [block : MaybeBlock, stage : {"idle", "seen", "verify", "apply"}]]
        /\ \A u \in Receivers : clsig'[u].stage # "idle" => clsig'[u].block \in Lockable
    BY Zenon, <1>0, <2>1 DEF ProcessIdle, MaybeBlock, HandlerState, LocksOnly
  <2>4. LockTypeOK'  BY <2>1, <2>2, <2>3 DEF HandlerState, LockTypeOK
  <2>5. LocksOnly' /\ KnownFollowsBest'
    BY Zenon, <2>1, <2>2, <2>3 DEF HandlerState, LocksOnly, KnownFollowsBest
  <2>. QED  BY Zenon, <2>4, <2>5 DEF HandlerState
<1>. QED  BY Zenon, <1>1, <1>2, <1>3 DEF ReceiverStep

\* The types of the scheduler thread's state.
SchedType ==
  [pc : {"idle", "check", "enforce", "invalidate", "notify", "tip", "trysign", "sign",
         "ask"},
   kind : {"none", "clsig", "tip", "timer"}, snap : MaybeBlock, dip : BOOLEAN, held : MaybeBlock]

\* What a step of the scheduler thread outside cs_main has to keep.
SchedKeeps ==
  /\ chain' = chain /\ clsig' = clsig /\ announce' = announce
  /\ lock' \in LockType
  /\ {lock'.lastNotify, lock'.lastSigned, sched'.snap} \subseteq chain.headers \cup {NoBlock}
  /\ \/ lock'.best = lock.best /\ lock'.known = lock.known
     \/ lock'.best = NoBlock /\ lock'.known = NoBlock
  /\ sched' \in SchedType
  /\ sched'.pc \in {"invalidate", "notify"} => sched'.snap \in Lockable
  /\ sched'.pc \in {"trysign", "sign", "ask"} => sched'.snap # NoBlock
  /\ queued' \in Nat /\ asked' \subseteq chain.headers /\ cleanups' \in 0..MaxCleanups

\* Such a step keeps the handler's part of the invariant.
LEMMA SchedState ==
  ASSUME HandlerState, chain.headers \subseteq Blocks, SchedKeeps
  PROVE  HandlerState'
<1>1. LockTypeOK'
  BY DEF HandlerState, SchedKeeps, LockTypeOK, SchedType
<1>2. LocksOnly' /\ KnownFollowsBest'
  BY Zenon, TreeAssumption DEF HandlerState, SchedKeeps, LocksOnly, KnownFollowsBest
<1>. QED  BY Zenon, <1>1, <1>2 DEF HandlerState

\* The steps of a task outside cs_main.
LEMMA SchedulerState ==
  ASSUME HandlerState, chain.headers \subseteq Blocks, chain.tip \in chain.headers,
         \/ \E kind \in {"clsig", "tip", "timer"} : StartTask(kind)
         \/ CheckActiveState \/ EnforceSnapshot \/ NotifyChainLock
         \/ TrySignTip \/ TrySignCheck \/ TrySignChainTip \/ AskQuorum
  PROVE  HandlerState'
<1>0. /\ lock \in LockType /\ sched \in SchedType /\ queued \in Nat /\ asked \subseteq chain.headers
      /\ {lock.known, lock.lastNotify, lock.lastSigned, sched.snap} \subseteq chain.headers \cup {NoBlock}
      /\ lock.known \in Lockable \cup {NoBlock}
      /\ sched.pc \in {"invalidate", "notify"} => sched.snap \in Lockable
      /\ sched.pc \in {"trysign", "sign", "ask"} => sched.snap # NoBlock
      /\ cleanups \in 0..MaxCleanups /\ MaxCleanups \in Nat /\ NoBlock \notin Blocks
  BY Zenon, ThreadsAssumption, TreeAssumption DEF HandlerState, LockTypeOK, LocksOnly, SchedType
<1>1. ASSUME NEW kind \in {"clsig", "tip", "timer"}, StartTask(kind)  PROVE  SchedKeeps
  <2>. DEFINE deep == Height[chain.tip] >= DIP0008Height
  <2>1. /\ chain' = chain /\ clsig' = clsig /\ announce' = announce
        /\ asked' = asked /\ cleanups' = cleanups /\ queued' \in Nat
        /\ lock' = [lock EXCEPT !.active = lock.enabled] /\ lock.enabled \in BOOLEAN
        /\ sched' = [sched EXCEPT !.pc = "check", !.kind = kind, !.dip = deep]
        /\ deep \in BOOLEAN
    BY <1>0, <1>1 DEF StartTask, chainVars, LockType
  <2>. HIDE DEF deep
  <2>. QED  BY Zenon, <1>0, <2>1 DEF SchedKeeps, LockType, SchedType
<1>2. ASSUME CheckActiveState  PROVE  SchedKeeps
  <2>. DEFINE on == sched.dip /\ lock.active
  <2>1. /\ chain' = chain /\ clsig' = clsig /\ announce' = announce
        /\ asked' = asked /\ cleanups' = cleanups /\ queued' = queued
        /\ \/ lock' = [lock EXCEPT !.enforced = TRUE, !.best = NoBlock, !.known = NoBlock,
                                   !.lastNotify = NoBlock]
           \/ lock' = [lock EXCEPT !.enforced = on]
        /\ sched' = [sched EXCEPT !.pc = "enforce", !.dip = FALSE]
    BY Zenon, <1>2 DEF CheckActiveState, chainVars
  <2>2. on \in BOOLEAN  OBVIOUS
  <2>. HIDE DEF on
  <2>3. lock' \in LockType /\ lock'.lastSigned = lock.lastSigned
        /\ lock'.lastNotify \in {lock.lastNotify, NoBlock}
        /\ \/ lock'.best = lock.best /\ lock'.known = lock.known
           \/ lock'.best = NoBlock /\ lock'.known = NoBlock
    BY ONLY <1>0, <2>1, <2>2, ZenonT(30) DEF LockType, MaybeBlock
  <2>4. sched' \in SchedType /\ sched'.pc = "enforce" /\ sched'.snap = sched.snap
    BY ONLY <1>0, <2>1, ZenonT(30) DEF SchedType
  <2>. QED  BY Zenon, <1>0, <2>1, <2>3, <2>4 DEF SchedKeeps
<1>3. ASSUME EnforceSnapshot  PROVE  SchedKeeps
  <2>1. /\ lock' = lock /\ chain' = chain /\ clsig' = clsig /\ announce' = announce
        /\ asked' = asked /\ cleanups' = cleanups /\ queued' = queued
        /\ \/ sched' = SchedIdle
           \/ sched' = [sched EXCEPT !.pc = "tip", !.snap = NoBlock]
           \/ lock.known # NoBlock /\ sched' = [sched EXCEPT !.pc = "invalidate", !.snap = lock.known]
    BY Zenon, <1>3 DEF EnforceSnapshot, AfterEnforce, chainVars
  <2>2. /\ sched' \in SchedType
        /\ \/ sched'.pc \in {"idle", "tip"} /\ sched'.snap = NoBlock
           \/ sched'.pc = "invalidate" /\ sched'.snap = lock.known /\ lock.known # NoBlock
    <3>1. CASE sched' = SchedIdle
      BY ONLY Zenon, <3>1 DEF SchedType, SchedIdle, MaybeBlock
    <3>2. CASE sched' = [sched EXCEPT !.pc = "tip", !.snap = NoBlock]
      BY ONLY <1>0, <3>2, ZenonT(30) DEF SchedType, MaybeBlock
    <3>3. CASE lock.known # NoBlock /\ sched' = [sched EXCEPT !.pc = "invalidate", !.snap = lock.known]
      BY ONLY <1>0, <3>3, ZenonT(30) DEF SchedType, LockType, MaybeBlock
    <3>. QED  BY ONLY Zenon, <2>1, <3>1, <3>2, <3>3
  <2>. QED  BY ONLY Zenon, <1>0, <2>1, <2>2 DEF SchedKeeps
<1>4. ASSUME NotifyChainLock  PROVE  SchedKeeps
  BY <1>0, <1>4, ZenonT(30) DEF NotifyChainLock, AfterEnforce, SchedIdle, chainVars, SchedKeeps, SchedType,
                    MaybeBlock, LockType
<1>5. ASSUME NEW l \in LockType  PROVE  /\ TaskDone(l) \in LockType
                                        /\ TaskDone(l).best = l.best /\ TaskDone(l).known = l.known
                                        /\ TaskDone(l).lastNotify = l.lastNotify
                                        /\ TaskDone(l).lastSigned = l.lastSigned
  <2>. DEFINE flag == l.tipScheduled /\ sched.kind # "tip"
  <2>1. TaskDone(l) = [l EXCEPT !.tipScheduled = flag]  BY Zenon DEF TaskDone
  <2>2. flag \in BOOLEAN  OBVIOUS
  <2>. HIDE DEF flag
  <2>. QED  BY Zenon, <2>1, <2>2 DEF LockType
<1>6. ASSUME TrySignTip  PROVE  SchedKeeps
  <2>1. PICK old \in SUBSET lock.seen :
          /\ old # {} => cleanups < MaxCleanups
          /\ cleanups' = IF old = {} THEN cleanups ELSE cleanups + 1
          /\ LET l == [lock EXCEPT !.seen = @ \ old]
             IN  IF chain.tip = Genesis
                   THEN lock' = TaskDone(l) /\ sched' = SchedIdle
                   ELSE lock' = l /\ sched' = [sched EXCEPT !.pc = "trysign", !.snap = chain.tip]
    BY Zenon, <1>6 DEF TrySignTip
  <2>. DEFINE l == [lock EXCEPT !.seen = @ \ old]
  <2>2. l \in LockType /\ l.best = lock.best /\ l.known = lock.known
        /\ l.lastNotify = lock.lastNotify /\ l.lastSigned = lock.lastSigned
    BY Zenon, <1>0 DEF LockType
  <2>3. /\ lock' = l \/ lock' = TaskDone(l)
        /\ sched' = SchedIdle \/ sched' = [sched EXCEPT !.pc = "trysign", !.snap = chain.tip]
    BY Zenon, <2>1
  <2>4. cleanups' \in 0..MaxCleanups  BY <1>0, <2>1
  <2>5. /\ chain' = chain /\ clsig' = clsig /\ announce' = announce
        /\ asked' = asked /\ queued' = queued
    BY Zenon, <1>6 DEF TrySignTip, chainVars
  <2>. HIDE DEF l
  <2>6. /\ sched' \in SchedType /\ sched'.snap \in chain.headers \cup {NoBlock}
        /\ sched'.pc \notin {"invalidate", "notify", "sign", "ask"}
        /\ sched'.pc = "trysign" => sched'.snap # NoBlock
    <3>1. CASE sched' = SchedIdle  BY ONLY Zenon, <1>0, <3>1 DEF SchedType, SchedIdle, MaybeBlock
    <3>2. CASE sched' = [sched EXCEPT !.pc = "trysign", !.snap = chain.tip]
      <4>1. chain.tip \in Blocks /\ chain.tip \in chain.headers  OBVIOUS
      <4>. QED  BY ONLY Zenon, <1>0, <3>2, <4>1 DEF SchedType, MaybeBlock
    <3>. QED  BY Zenon, <2>3, <3>1, <3>2
  <2>. QED  BY <1>0, <1>5, <2>2, <2>3, <2>4, <2>5, <2>6 DEF SchedKeeps
<1>7. ASSUME TrySignCheck  PROVE  SchedKeeps
  <2>1. /\ \/ sched.pc = "trysign" /\ sched' = [sched EXCEPT !.pc = "sign"] /\ lock' = lock
           \/ lock' = TaskDone(lock) /\ sched' = SchedIdle
        /\ chain' = chain /\ clsig' = clsig /\ announce' = announce
        /\ asked' = asked /\ queued' = queued /\ cleanups' = cleanups
    BY Zenon, <1>7 DEF TrySignCheck, chainVars, At
  <2>2. /\ sched' \in SchedType /\ sched'.snap \in chain.headers \cup {NoBlock}
        /\ sched'.pc \notin {"invalidate", "notify", "trysign", "ask"}
        /\ sched'.pc = "sign" => sched'.snap # NoBlock
    <3>1. CASE sched' = SchedIdle  BY ONLY Zenon, <1>0, <3>1 DEF SchedType, SchedIdle, MaybeBlock
    <3>2. CASE sched.pc = "trysign" /\ sched' = [sched EXCEPT !.pc = "sign"]
      BY ONLY Zenon, <1>0, <3>2 DEF SchedType
    <3>. QED  BY Zenon, <2>1, <3>1, <3>2
  <2>. QED  BY <1>0, <1>5, <2>1, <2>2 DEF SchedKeeps
<1>8. SchedIdle \in SchedType /\ SchedIdle.snap = NoBlock /\ SchedIdle.pc = "idle"
  BY Zenon DEF SchedType, SchedIdle, MaybeBlock
<1>9. ASSUME TrySignChainTip  PROVE  SchedKeeps
  <2>. DEFINE l == [lock EXCEPT !.lastSigned = sched.snap]
              s == [sched EXCEPT !.pc = "ask", !.held = lock.known]
  <2>1. /\ sched.pc = "sign" /\ sched.snap \in chain.headers
        /\ (lock' = l /\ sched' = s) \/ (lock' = TaskDone(lock) /\ sched' = SchedIdle)
        /\ chain' = chain /\ clsig' = clsig /\ announce' = announce
        /\ asked' = asked /\ queued' = queued /\ cleanups' = cleanups
    BY Zenon, <1>0, <1>9 DEF TrySignChainTip, chainVars, At
  <2>2. l \in LockType /\ l.best = lock.best /\ l.known = lock.known
        /\ l.lastNotify = lock.lastNotify /\ l.lastSigned = sched.snap
    BY Zenon, <1>0, <2>1 DEF LockType, MaybeBlock
  <2>3. s \in SchedType /\ s.snap = sched.snap /\ s.pc = "ask"
    BY ONLY <1>0, ZenonT(30) DEF SchedType, LockType
  <2>. HIDE DEF l, s
  <2>. QED  BY <1>0, <1>5, <1>8, <2>1, <2>2, <2>3 DEF SchedKeeps
<1>10. ASSUME AskQuorum  PROVE  SchedKeeps
  <2>1. /\ sched' = SchedIdle /\ lock' = TaskDone(lock) /\ asked' \subseteq chain.headers
        /\ chain' = chain /\ clsig' = clsig /\ announce' = announce
        /\ queued' = queued /\ cleanups' = cleanups
    BY Zenon, <1>0, <1>10 DEF AskQuorum, chainVars, At
  <2>. QED  BY <1>0, <1>5, <1>8, <2>1 DEF SchedKeeps
<1>. QED  BY <1>1, <1>2, <1>3, <1>4, <1>6, <1>7, <1>9, <1>10, SchedState

-----------------------------------------------------------------------------
(* The inductive steps. *)

\* Every step preserves the invariant of the handler and the block index.
LEMMA HandlerNext ==
  ASSUME HandlerInv, [Next]_vars
  PROVE  HandlerInv'
<1>0. /\ ChainInv /\ HandlerState /\ MsgHandler \in Threads /\ Scheduler \in Threads
      /\ chain.headers \subseteq Blocks /\ chain.tip \in chain.headers /\ chain.tip \in Blocks
      /\ lock \in LockType /\ announce \in [Threads -> MaybeBlock] /\ NoBlock \in MaybeBlock
  BY Zenon, ThreadsAssumption DEF HandlerInv, HandlerState, LockTypeOK, ChainInv, Sound, ChainType,
     MaybeBlock
<1>1. ASSUME NEW b \in Blocks, ~aborted, NewHeader(b) \/ NewBlock(b)  PROVE  HandlerInv'
  <2>1. /\ \/ ProcessNewBlockHeaders(MsgHandler, b)
           \/ \E requested \in BOOLEAN : ProcessNewBlock(MsgHandler, b, requested)
        /\ \/ lock' = AcceptedBlockHeader(lock, b)
           \/ b \in chain.headers /\ lock' = lock
        /\ UNCHANGED <<aborted, clsig, announce, sched, queued, asked, cleanups>>
    BY Zenon, <1>1 DEF NewHeader, NewBlock
  <2>2. ChainInv'  BY Zenon, <1>0, <1>1, <2>1, ChainSteps
  <2>3. chain'.headers = chain.headers \cup {b}  BY Zenon, <1>0, <2>1, ReceiveHeaders
  <2>4. HandlerState'  BY Zenon, <1>0, <2>1, <2>3, ArrivalState
  <2>. QED  BY Zenon, <2>2, <2>4 DEF HandlerInv, HandlerState
<1>2. ASSUME NEW t \in Threads, ~aborted, Activate(t)  PROVE  HandlerInv'
  <2>1. UNCHANGED <<lock, clsig, sched, queued, asked, cleanups>>  BY Zenon, <1>2 DEF Activate
  <2>2. CASE ActivateBestChain(t) /\ UNCHANGED aborted
             /\ announce' = [announce EXCEPT ![t] =
                  IF chain'.tip \in Active(chain) THEN NoBlock ELSE chain'.tip]
    <3>1. ChainInv' /\ chain'.tip \in Blocks  BY Zenon, <1>2, <2>2, ChainSteps
    <3>2. chain'.headers = chain.headers
      <4>1. PICK c, m : /\ Sound(c) /\ c.headers = chain.headers
                        /\ chain' = c \/ (m \in Linked(c) /\ chain' = ActivateBestChainStep(c, m))
        BY Zenon, <1>0, <2>2, ActivateCases
      <4>. QED  BY <4>1, StepFields
    <3>3. announce' \in [Threads -> MaybeBlock]  BY Zenon, <1>0, <2>2, <3>1 DEF MaybeBlock
    <3>4. HandlerState'  BY Zenon, <1>0, <2>1, <3>2, <3>3, FlagsState
    <3>. QED  BY Zenon, <3>1, <3>4 DEF HandlerInv, HandlerState
  <2>3. CASE Abort(t) /\ UNCHANGED announce
    <3>1. ChainNext  BY Zenon, <1>2, <2>3 DEF ChainNext
    <3>2. ChainInv'  BY Zenon, <1>0, <3>1, ChainNextInv
    <3>3. chain' = chain  BY Zenon, <2>3 DEF Abort
    <3>4. HandlerState'  BY Zenon, <1>0, <2>1, <2>3, <3>3, FlagsState
    <3>. QED  BY Zenon, <3>2, <3>4 DEF HandlerInv, HandlerState
  <2>. QED  BY Zenon, <1>2, <2>2, <2>3 DEF Activate
<1>3. ASSUME NEW t \in Threads, UpdatedBlockTip(t)  PROVE  HandlerInv'
  <2>1. /\ chain' = chain /\ UNCHANGED <<pc, mostWork, aborted, invalidated, reconsidered>>
        /\ lock' = TipUpdated(lock, announce[t])
        /\ announce' = [announce EXCEPT ![t] = NoBlock]
        /\ UNCHANGED <<clsig, sched, queued, asked, cleanups>>
    BY Zenon, <1>3 DEF UpdatedBlockTip, chainVars
  <2>2. HandlerState'  BY Zenon, <1>0, <2>1, TipUpdatedFields, FlagsState
  <2>3. ChainInv'  BY Zenon, <1>0, <2>1 DEF ChainInv, ThreadsTyped, TargetsLinked
  <2>. QED  BY Zenon, <2>2, <2>3 DEF HandlerInv, HandlerState
<1>4. ASSUME NEW b \in Lockable, ProcessMessage(b) \/ HandleNewRecoveredSig(b)  PROVE  HandlerInv'
  <2>1. PICK t \in Receivers : clsig' = [clsig EXCEPT ![t] = [block |-> b, stage |-> "seen"]]
    BY Zenon, <1>4 DEF ProcessMessage, HandleNewRecoveredSig, Receivers
  <2>2. UNCHANGED <<chainVars, lock, announce, sched, queued, asked, cleanups>>
    BY Zenon, <1>4 DEF ProcessMessage, HandleNewRecoveredSig
  <2>3. ChainInv'  BY Zenon, <1>0, <2>2 DEF chainVars, ChainInv, ThreadsTyped, TargetsLinked
  <2>4. LockTypeOK'
    BY Zenon, <1>0, <2>1, <2>2, ThreadsAssumption DEF chainVars, HandlerState, LockTypeOK, MaybeBlock
  <2>5. LocksOnly' /\ KnownFollowsBest'
    BY Zenon, <1>0, <2>1, <2>2 DEF chainVars, HandlerState, LocksOnly, LockTypeOK, KnownFollowsBest
  <2>. QED  BY Zenon, <2>3, <2>4, <2>5 DEF HandlerInv
<1>5. ASSUME NEW t \in Receivers, ReceiverStep(t)  PROVE  HandlerInv'
  <2>1. HandlerState'  BY Zenon, <1>0, <1>5, ReceiverState
  <2>2. ChainInv'
    BY Zenon, <1>0, <1>5 DEF ReceiverStep, CheckSeen, Verify, ProcessNewChainLock, chainVars,
       ChainInv, ThreadsTyped, TargetsLinked
  <2>. QED  BY Zenon, <2>1, <2>2 DEF HandlerInv, HandlerState
<1>6. ASSUME EnforceBestChainLock  PROVE  HandlerInv'
  <2>1. ChainInv' /\ chain'.headers = chain.headers  BY Zenon, <1>6, EnforceStep
  <2>2. /\ lock' = lock \/ \E b : lock' = TipUpdated(lock, b)
        /\ sched.pc = "invalidate" /\ sched' = [sched EXCEPT !.pc = "notify"]
        /\ UNCHANGED <<clsig, announce, queued, asked, cleanups>>
    BY Zenon, <1>6 DEF EnforceBestChainLock, At
  <2>3. HandlerState'  BY <1>0, <2>1, <2>2, TipUpdatedFields, FlagsState
  <2>. QED  BY Zenon, <2>1, <2>3 DEF HandlerInv, HandlerState
<1>7. ASSUME \/ \E kind \in {"clsig", "tip", "timer"} : StartTask(kind)
             \/ CheckActiveState \/ EnforceSnapshot \/ NotifyChainLock
             \/ TrySignTip \/ TrySignCheck \/ TrySignChainTip \/ AskQuorum
      PROVE  HandlerInv'
  <2>1. HandlerState'  BY Zenon, <1>0, <1>7, SchedulerState
  <2>2. UNCHANGED chainVars
    BY Zenon, <1>7 DEF StartTask, CheckActiveState, EnforceSnapshot, NotifyChainLock, TrySignTip,
       TrySignCheck, TrySignChainTip, AskQuorum
  <2>3. ChainInv'  BY Zenon, <1>0, <2>2 DEF chainVars, ChainInv, ThreadsTyped, TargetsLinked
  <2>. QED  BY Zenon, <2>1, <2>3 DEF HandlerInv, HandlerState
<1>8. CASE UNCHANGED vars
  <2>1. /\ chain' = chain /\ pc' = pc /\ mostWork' = mostWork /\ aborted' = aborted
        /\ invalidated' = invalidated /\ reconsidered' = reconsidered
        /\ lock' = lock /\ clsig' = clsig /\ announce' = announce /\ sched' = sched
        /\ queued' = queued /\ asked' = asked /\ cleanups' = cleanups
    BY Zenon, <1>8 DEF vars, chainVars, lockVars
  <2>2. ChainInv'  BY Zenon, <1>0, <2>1 DEF ChainInv, ThreadsTyped, TargetsLinked
  <2>3. LockTypeOK'  BY <1>0, <2>1, Zenon DEF HandlerInv, LockTypeOK
  <2>4. LocksOnly' /\ KnownFollowsBest'
    BY <1>0, <2>1, Zenon DEF HandlerInv, LocksOnly, KnownFollowsBest
  <2>. QED  BY Zenon, <2>2, <2>3, <2>4 DEF HandlerInv
<1>. QED
  BY Zenon, <1>0, <1>1, <1>2, <1>3, <1>4, <1>5, <1>6, <1>7, <1>8 DEF Next, SchedulerStep

\* Steps that leave the chain record alone, and those that do not.
LEMMA ChainChanges ==
  ASSUME HandlerInv, [Next]_vars
  PROVE  \/ chain' = chain
         \/ \E b \in Blocks : NewHeader(b) \/ NewBlock(b)
         \/ \E t \in Threads : ActivateBestChain(t) /\ lock' = lock
         \/ EnforceBestChainLock
BY Zenon, ThreadsAssumption DEF Next, SchedulerStep, ReceiverStep, Activate, Abort, UpdatedBlockTip,
   ProcessMessage, HandleNewRecoveredSig, CheckSeen, Verify, ProcessNewChainLock, StartTask,
   CheckActiveState, EnforceSnapshot, NotifyChainLock, TrySignTip, TrySignCheck, TrySignChainTip,
   AskQuorum,
   chainVars, vars


\* No step marks a block of the locked chain.
LEMMA UnmarkedNext ==
  ASSUME HandlerInv, Unmarked(chain), [Next]_vars
  PROVE  Unmarked(chain')
<1>. SUFFICES ASSUME LocksAgree  PROVE  Unmarked(chain')
  BY Zenon DEF Unmarked
<1>0. ChainInv /\ MsgHandler \in Threads  BY Zenon, ThreadsAssumption DEF HandlerInv
<1>1. CASE chain' = chain  BY Zenon, <1>1
<1>2. ASSUME NEW b \in Blocks, NewHeader(b) \/ NewBlock(b)  PROVE  Unmarked(chain')
  BY <1>0, <1>2, UnmarkedReceive DEF NewHeader, NewBlock
<1>3. ASSUME NEW t \in Threads, ActivateBestChain(t)  PROVE  Unmarked(chain')
  BY <1>0, <1>3, UnmarkedActivate
<1>4. CASE EnforceBestChainLock
  <2>1. /\ chain' = EnforcedChain(chain, sched.snap)
        /\ sched.snap \in Lockable /\ sched.snap \in chain.headers
    BY Zenon, <1>4, EnforceStep
  <2>2. /\ Sound(chain) /\ chain.tip \in Blocks /\ chain.headers \subseteq Blocks
    BY Zenon, <1>0 DEF ChainInv, Sound, ChainType
  <2>3. \A x \in Failed(chain') \ Failed(chain) :
          \E s \in Siblings(chain, sched.snap) : s \in Ancestors[x] /\ x \in Blocks
    BY Zenon, <2>1, <2>2, EnforcedSound
  <2>4. \A s \in Siblings(chain, sched.snap) : s \in Blocks \ LockedChain
    <3>1. Siblings(chain, sched.snap) \subseteq Blocks  BY Zenon, <2>2 DEF Siblings
    <3>. QED  BY Zenon, <2>1, <2>2, <3>1, SiblingsOffLockedChain
  <2>. QED  BY Zenon, <2>3, <2>4, UnmarkedUp
<1>. QED  BY Zenon, <1>1, <1>2, <1>3, <1>4, ChainChanges

-----------------------------------------------------------------------------
(* The heights of the locks while they are enforced. *)

\* The block index contains the ancestors of every block, and while locks are
\* enforced the best lock is not below the one that is enforced: a lower one is
\* only accepted if it is on the chain of the enforced one, whose blocks are all
\* in the index, and is then enforced in its place.
OrderInv ==
  /\ \A b \in chain.headers : Ancestors[b] \subseteq chain.headers
  /\ lock.enforced /\ lock.known # NoBlock =>
       lock.best # NoBlock /\ Height[lock.known] <= Height[lock.best]

\* Only arriving headers, accepted locks and CheckActiveState change the locks
\* or whether they are enforced.
LEMMA LockChanges ==
  ASSUME HandlerInv, [Next]_vars
  PROVE  \/ \E b \in Blocks : lock' = AcceptedBlockHeader(lock, b)
         \/ \E t \in Receivers : ProcessNewChainLock(t)
         \/ CheckActiveState
         \/ lock'.enforced = lock.enforced /\ lock'.best = lock.best /\ lock'.known = lock.known
<1>0. lock \in LockType  BY Zenon DEF HandlerInv, LockTypeOK
<1>1. ASSUME NEW b  PROVE  LET l == TipUpdated(lock, b)
                           IN  l.enforced = lock.enforced /\ l.best = lock.best /\ l.known = lock.known
  BY Zenon, <1>0 DEF TipUpdated, LockType
<1>2. ASSUME NEW k \in LockType
      PROVE  LET l == TaskDone(k)
             IN  l.enforced = k.enforced /\ l.best = k.best /\ l.known = k.known
  BY Zenon, <1>2 DEF TaskDone, LockType
<1>3. ASSUME NEW t, CheckSeen(t) \/ UpdatedBlockTip(t) \/ Activate(t) \/ Verify(t)
      PROVE  lock'.enforced = lock.enforced /\ lock'.best = lock.best /\ lock'.known = lock.known
  BY <1>0, <1>1, <1>3 DEF CheckSeen, UpdatedBlockTip, Activate, Verify, LockType
<1>4. ASSUME NEW kind, StartTask(kind)
      PROVE  lock'.enforced = lock.enforced /\ lock'.best = lock.best /\ lock'.known = lock.known
  BY Zenon, <1>0, <1>4 DEF StartTask, LockType
<1>5. ASSUME EnforceSnapshot \/ EnforceBestChainLock \/ NotifyChainLock
      PROVE  lock'.enforced = lock.enforced /\ lock'.best = lock.best /\ lock'.known = lock.known
  BY Zenon, <1>0, <1>1, <1>5 DEF EnforceSnapshot, EnforceBestChainLock, NotifyChainLock, LockType
<1>6. ASSUME TrySignTip
      PROVE  lock'.enforced = lock.enforced /\ lock'.best = lock.best /\ lock'.known = lock.known
  <2>1. PICK old \in SUBSET lock.seen :
          LET l == [lock EXCEPT !.seen = @ \ old] IN lock' = TaskDone(l) \/ lock' = l
    BY Zenon, <1>6 DEF TrySignTip
  <2>. DEFINE l == [lock EXCEPT !.seen = @ \ old]
  <2>2. l \in LockType /\ l.enforced = lock.enforced /\ l.best = lock.best /\ l.known = lock.known
    BY Zenon, <1>0 DEF LockType
  <2>. QED  BY Zenon, <1>2, <2>1, <2>2
<1>7. ASSUME TrySignCheck \/ TrySignChainTip \/ AskQuorum
      PROVE  lock'.enforced = lock.enforced /\ lock'.best = lock.best /\ lock'.known = lock.known
  <2>. DEFINE l == [lock EXCEPT !.lastSigned = sched.snap]
  <2>1. lock' = lock \/ lock' = TaskDone(lock) \/ lock' = l
    BY Zenon, <1>7 DEF TrySignCheck, TrySignChainTip, AskQuorum
  <2>2. l \in LockType /\ l.enforced = lock.enforced /\ l.best = lock.best /\ l.known = lock.known
    <3>1. sched.snap \in MaybeBlock  BY Zenon DEF HandlerInv, LockTypeOK
    <3>. QED  BY Zenon, <1>0, <3>1 DEF LockType
  <2>. HIDE DEF l
  <2>. QED  BY Zenon, <1>0, <1>2, <2>1, <2>2
<1>. QED
  BY <1>3, <1>4, <1>5, <1>6, <1>7
     DEF Next, SchedulerStep, ReceiverStep, NewHeader, NewBlock, ProcessMessage,
         HandleNewRecoveredSig, vars, lockVars

\* Every step preserves the order of the locks.
LEMMA OrderNext ==
  ASSUME HandlerInv, OrderInv, [Next]_vars
  PROVE  OrderInv'
<1>0. /\ ChainInv /\ MsgHandler \in Threads /\ lock \in LockType
      /\ chain.headers \subseteq Blocks /\ chain.tip \in chain.headers
      /\ NoBlock \notin Blocks /\ Lockable \subseteq Blocks
      /\ lock.known \in chain.headers \cup {NoBlock}
  BY Zenon, ThreadsAssumption, TreeAssumption DEF HandlerInv, LockTypeOK, ChainInv, Sound, ChainType

<1>1. \A b \in chain'.headers : Ancestors[b] \subseteq chain'.headers
  <2>1. ASSUME NEW b \in Blocks, NewHeader(b) \/ NewBlock(b)
        PROVE  \A d \in chain'.headers : Ancestors[d] \subseteq chain'.headers
    <3>1. chain'.headers = chain.headers \cup {b}
      BY Zenon, <1>0, <2>1, ReceiveHeaders DEF NewHeader, NewBlock
    <3>2. b \in chain.headers \/ Parent[b] \in chain.headers
      BY Zenon, <2>1 DEF NewHeader, NewBlock, ProcessNewBlockHeaders, ProcessNewBlock, HeaderAccepted
    <3>3. Genesis \in chain.headers
      <4>1. chain.tip \in Blocks /\ Ancestors[chain.tip] \subseteq chain.headers
        BY Zenon, <1>0 DEF OrderInv
      <4>2. Genesis \in Ancestors[chain.tip]  BY Zenon, <4>1, AncestryAssumption
      <4>. QED  BY Zenon, <4>1, <4>2
    <3>4. Ancestors[b] \subseteq chain.headers \cup {b}
      BY <3>2, <3>3, TreeAssumption DEF OrderInv
    <3>. QED  BY Zenon, <3>1, <3>4 DEF OrderInv
  <2>2. ASSUME NEW t \in Threads, ActivateBestChain(t)  PROVE  chain'.headers = chain.headers
    <3>1. PICK c, m : /\ Sound(c) /\ c.headers = chain.headers
                      /\ chain' = c \/ (m \in Linked(c) /\ chain' = ActivateBestChainStep(c, m))
      BY Zenon, <1>0, <2>2, ActivateCases
    <3>. QED  BY Zenon, <3>1, StepFields
  <2>3. EnforceBestChainLock => chain'.headers = chain.headers  BY Zenon, EnforceStep
  <2>. QED  BY Zenon, <2>1, <2>2, <2>3, ChainChanges DEF OrderInv
<1>. DEFINE BestIsAbove(l) == l.enforced /\ l.known # NoBlock =>
                            l.best # NoBlock /\ Height[l.known] <= Height[l.best]
<1>2. BestIsAbove(lock)  BY Zenon DEF OrderInv
<1>3. ASSUME lock'.enforced = lock.enforced, lock'.best = lock.best, lock'.known = lock.known
      PROVE  BestIsAbove(lock')
  BY Zenon, <1>2, <1>3
<1>4. ASSUME NEW b \in Blocks, lock' = AcceptedBlockHeader(lock, b)  PROVE  BestIsAbove(lock')
  BY <1>0, <1>2, <1>4, TreeAssumption DEF AcceptedBlockHeader, LockType
<1>5. ASSUME NEW t \in Receivers, ProcessNewChainLock(t)  PROVE  BestIsAbove(lock')
  <2>. DEFINE b == clsig[t].block
  <2>1. b \in Lockable  BY Zenon, <1>5 DEF ProcessNewChainLock, HandlerInv, LocksOnly
  <2>2. \/ lock' = lock
        \/ /\ ~InternalHasConflictingChainLock(lock, b)
           /\ \/ b \in chain.headers /\ lock' = [lock EXCEPT !.best = b, !.known = b]
              \/ b \notin chain.headers /\ lock' = [lock EXCEPT !.best = b, !.known = @]
    BY Zenon, <1>5 DEF ProcessNewChainLock
  <2>. HIDE DEF b
  <2>3. b \in Ancestors[lock.known] /\ lock.known # NoBlock => b \in chain.headers
    BY Zenon, <1>0 DEF OrderInv
  <2>4. Height \in [Blocks -> Nat]  BY Zenon, TreeAssumption
  <2>5. CASE b \in chain.headers /\ lock' = [lock EXCEPT !.best = b, !.known = b]
    <3>1. lock'.best = b /\ lock'.known = b  BY Zenon, <1>0, <2>5 DEF LockType
    <3>2. b \in Blocks /\ b # NoBlock  BY Zenon, <1>0, <2>1
    <3>. QED  BY <2>4, <3>1, <3>2
  <2>6. CASE /\ ~InternalHasConflictingChainLock(lock, b) /\ b \notin chain.headers
             /\ lock' = [lock EXCEPT !.best = b, !.known = @]
    <3>1. lock'.best = b /\ lock'.known = lock.known /\ lock'.enforced = lock.enforced
      BY Zenon, <1>0, <2>6 DEF LockType
    <3>2. lock.enforced /\ lock.known # NoBlock => Height[lock.known] <= Height[b]
      BY <1>0, <2>1, <2>3, <2>4, <2>6 DEF InternalHasConflictingChainLock
    <3>. QED  BY Zenon, <1>0, <2>1, <3>1, <3>2
  <2>. QED  BY Zenon, <1>2, <2>2, <2>5, <2>6
<1>6. ASSUME CheckActiveState  PROVE  BestIsAbove(lock')
  <2>. DEFINE on == sched.dip /\ lock.active
  <2>1. \/ lock' = [lock EXCEPT !.enforced = TRUE, !.best = NoBlock, !.known = NoBlock,
                               !.lastNotify = NoBlock]
        \/ lock' = [lock EXCEPT !.enforced = on] /\ (on => lock.enforced)
    BY Zenon, <1>6 DEF CheckActiveState
  <2>2. on \in BOOLEAN  OBVIOUS
  <2>. HIDE DEF on
  <2>3. \/ lock'.known = NoBlock
        \/ lock'.best = lock.best /\ lock'.known = lock.known /\ (lock'.enforced => lock.enforced)
    BY Zenon, <1>0, <2>1, <2>2 DEF LockType
  <2>. QED  BY Zenon, <1>2, <2>3
<1>. HIDE DEF BestIsAbove
<1>7. BestIsAbove(lock')  BY Zenon, <1>3, <1>4, <1>5, <1>6, LockChanges
<1>. QED  BY Zenon, <1>1, <1>7 DEF OrderInv, BestIsAbove

-----------------------------------------------------------------------------
(* The last look at the best lock before a request. *)

\* The lock that was known then is below the block to be signed.
AskInv ==
  sched.pc = "ask" /\ lock.enforced /\ sched.held # NoBlock => Height[sched.held] < Height[sched.snap]

\* While TrySignChainTip goes on to its request, no other thread touches what it
\* holds, and locks stay enforced or not.
LEMMA AskNext ==
  ASSUME HandlerInv, OrderInv, AskInv, [Next]_vars
  PROVE  AskInv'
<1>0. lock \in LockType /\ sched \in SchedType
  BY Zenon DEF HandlerInv, LockTypeOK, SchedType
<1>1. CASE sched' = sched
  <2>. SUFFICES ASSUME sched.pc = "ask"  PROVE  AskInv'
    BY Zenon, <1>1 DEF AskInv
  <2>1. ~CheckActiveState  BY Zenon DEF CheckActiveState, At
  <2>2. lock'.enforced = lock.enforced
    <3>1. ASSUME NEW b \in Blocks, lock' = AcceptedBlockHeader(lock, b)
          PROVE  lock'.enforced = lock.enforced
      BY Zenon, <1>0, <3>1 DEF AcceptedBlockHeader, LockType
    <3>2. ASSUME NEW t \in Receivers, ProcessNewChainLock(t)
          PROVE  lock'.enforced = lock.enforced
      <4>. DEFINE b == clsig[t].block
                  k == IF b \in chain.headers THEN b ELSE lock.known
      <4>1. lock' = lock \/ lock' = [lock EXCEPT !.best = b, !.known = k]
        BY <3>2 DEF ProcessNewChainLock
      <4>. HIDE DEF b, k
      <4>. QED  BY Zenon, <1>0, <4>1 DEF LockType
    <3>. QED  BY Zenon, <2>1, <3>1, <3>2, LockChanges
  <2>. QED  BY Zenon, <1>1, <2>2 DEF AskInv
<1>2. CASE TrySignChainTip /\ sched'.pc = "ask"
  <2>1. /\ ~(LockHeight(lock.best) >= Height[sched.snap])
        /\ lock' = [lock EXCEPT !.lastSigned = sched.snap]
        /\ sched' = [sched EXCEPT !.pc = "ask", !.held = lock.known]
        /\ sched.pc = "sign"
    <3>1. SchedIdle.pc = "idle"  BY Zenon DEF SchedIdle
    <3>2. sched' # SchedIdle  BY Zenon, <1>2, <3>1
    <3>. QED  BY Zenon, <1>2, <3>2 DEF TrySignChainTip, At
  <2>2. /\ lock'.enforced = lock.enforced /\ sched'.snap = sched.snap /\ sched'.held = lock.known
    BY Zenon, <1>0, <2>1 DEF LockType, SchedType
  <2>3. /\ sched.snap \in Blocks /\ lock.best \in Blocks \cup {NoBlock}
        /\ lock.known \in Blocks \cup {NoBlock} /\ Height \in [Blocks -> Nat]
    BY Zenon, <2>1, TreeAssumption DEF HandlerInv, ChainInv, Sound, ChainType, LockTypeOK, LocksOnly,
       LockType, MaybeBlock
  <2>. DEFINE best == lock.best
              known == lock.known
              b == sched.snap
  <2>4. lock.enforced /\ known # NoBlock => best # NoBlock /\ Height[known] <= Height[best]
    BY Zenon DEF OrderInv
  <2>5. best # NoBlock => ~(Height[best] >= Height[b])  BY Zenon, <2>1 DEF LockHeight
  <2>6. /\ best # NoBlock => Height[best] \in Nat
        /\ known # NoBlock => Height[known] \in Nat
        /\ Height[b] \in Nat
    BY Zenon, <2>3
  <2>7. lock.enforced /\ known # NoBlock => Height[known] < Height[b]
    <3>. HIDE DEF best, known, b
    <3>. QED  BY ONLY <2>4, <2>5, <2>6
  <2>. QED  BY Zenon, <2>2, <2>7 DEF AskInv
<1>3. sched' = sched \/ sched'.pc # "ask" \/ TrySignChainTip
  <2>1. SchedIdle.pc = "idle"  BY Zenon DEF SchedIdle
  <2>2. ASSUME NEW kind, StartTask(kind)  PROVE  sched'.pc = "check"
    BY Zenon, <1>0, <2>2 DEF StartTask, SchedType
  <2>3. CheckActiveState => sched'.pc = "enforce"
    BY Zenon, <1>0 DEF CheckActiveState, SchedType
  <2>4. AfterEnforce.pc \in {"idle", "tip"}
    BY Zenon, <1>0, <2>1 DEF AfterEnforce, SchedType
  <2>5. EnforceSnapshot => sched'.pc # "ask"
    BY Zenon, <1>0, <2>4 DEF EnforceSnapshot, SchedType
  <2>6. EnforceBestChainLock => sched'.pc = "notify"
    BY Zenon, <1>0 DEF EnforceBestChainLock, SchedType
  <2>7. NotifyChainLock => sched'.pc # "ask"  BY Zenon, <2>4 DEF NotifyChainLock
  <2>8. TrySignTip => sched'.pc # "ask"
    BY Zenon, <1>0, <2>1 DEF TrySignTip, SchedType
  <2>9. TrySignCheck => sched'.pc # "ask"
    BY Zenon, <1>0, <2>1 DEF TrySignCheck, SchedType
  <2>10. AskQuorum => sched'.pc # "ask"  BY Zenon, <2>1 DEF AskQuorum
  <2>. QED
    BY Zenon, <2>2, <2>3, <2>5, <2>6, <2>7, <2>8, <2>9, <2>10 DEF Next, SchedulerStep, ReceiverStep,
       NewHeader, NewBlock, Activate, UpdatedBlockTip, ProcessMessage, HandleNewRecoveredSig,
       CheckSeen, Verify, ProcessNewChainLock, vars, lockVars
<1>4. sched'.pc # "ask" => AskInv'  BY Zenon DEF AskInv
<1>. QED  BY Zenon, <1>1, <1>2, <1>3, <1>4

-----------------------------------------------------------------------------
(* Theorems. *)

\* The state after Start() satisfies all of it.
LEMMA InitInv == Init => HandlerInv /\ Unmarked(chain) /\ OrderInv /\ AskInv
<1>. SUFFICES ASSUME Init  PROVE  HandlerInv /\ Unmarked(chain) /\ OrderInv /\ AskInv
  OBVIOUS
<1>1. ChainInv  BY Zenon, ChainInitInv DEF Init
<1>2. /\ lock.best = NoBlock /\ lock.known = NoBlock /\ lock.lastNotify = NoBlock
      /\ lock.lastSigned = NoBlock /\ clsig = [t \in Receivers |-> ProcessIdle]
      /\ announce = [t \in Threads |-> NoBlock] /\ sched = SchedIdle
      /\ queued = 0 /\ asked = {} /\ cleanups = 0 /\ chain = GenesisChain
  BY Zenon DEF Init, ChainInit
<1>3. lock \in LockType
  <2>. DEFINE on == Genesis \in SporkOn
  <2>1. lock = [best |-> NoBlock, known |-> NoBlock, lastNotify |-> NoBlock,
                lastSigned |-> NoBlock, seen |-> {}, enabled |-> on,
                active |-> FALSE, enforced |-> FALSE, tipScheduled |-> FALSE]
    BY Zenon DEF Init
  <2>2. on \in BOOLEAN  OBVIOUS
  <2>. HIDE DEF on
  <2>. QED  BY ONLY <2>1, <2>2, ZenonT(30) DEF LockType, MaybeBlock
<1>4. LockTypeOK
  BY <1>2, <1>3, ThreadsAssumption DEF LockTypeOK, ProcessIdle, SchedIdle, MaybeBlock
<1>5. LocksOnly  BY Zenon, <1>2 DEF LocksOnly, ProcessIdle, SchedIdle
<1>6. /\ chain.headers = {Genesis} /\ chain.failedValid = {} /\ chain.failedChild = {}
  BY Zenon, <1>2 DEF GenesisChain
<1>7. KnownFollowsBest /\ OrderInv
  BY Zenon, <1>2, <1>6, TreeAssumption DEF KnownFollowsBest, OrderInv
<1>8. Unmarked(chain)  BY Zenon, <1>6 DEF Unmarked, Failed
<1>9. AskInv  BY Zenon, <1>2 DEF AskInv, SchedIdle
<1>. QED  BY Zenon, <1>1, <1>4, <1>5, <1>7, <1>8, <1>9 DEF HandlerInv

\* The inductive invariant of the handler on top of the block index.
THEOREM HandlerInvariance == Spec => [](HandlerInv /\ Unmarked(chain) /\ OrderInv /\ AskInv)
<1>1. HandlerInv /\ Unmarked(chain) /\ OrderInv /\ AskInv /\ [Next]_vars
        => (HandlerInv /\ Unmarked(chain) /\ OrderInv /\ AskInv)'
  BY Zenon, HandlerNext, UnmarkedNext, OrderNext, AskNext
<1>. QED  BY <1>1, InitInv, PTL DEF Spec

\* The handler only works with locks whose headers it has, whatever the order
\* of CLSIGs, headers, blocks and tasks.
THEOREM LockTypeCorrect == Spec => []LockTypeOK
<1>1. HandlerInv => LockTypeOK  BY Zenon DEF HandlerInv
<1>. QED  BY <1>1, HandlerInvariance, PTL

\* AcceptedBlockHeader and ProcessNewChainLock together connect the best lock
\* with its header, whichever comes first.
THEOREM LateHeaderConnected == Spec => []KnownFollowsBest
<1>1. HandlerInv => KnownFollowsBest  BY Zenon DEF HandlerInv
<1>. QED  BY <1>1, HandlerInvariance, PTL

\* EnforceBestChainLock never turns against the chain it enforces: if all locks
\* are on one valid chain, no block of it is ever marked invalid.
THEOREM LockedChainStands == Spec => []LockedChainNotMarked
<1>1. Unmarked(chain) => LockedChainNotMarked  BY Zenon DEF Unmarked, LockedChainNotMarked
<1>. QED  BY <1>1, HandlerInvariance, PTL

\* A block that TrySignChainTip asks the quorum to sign is at or below the height
\* of an enforced lock on another chain only if that lock became known after the
\* last look at the best lock.
THEOREM SignRequestsRespectLock == Spec => SignRequestRespectsLock
<1>1. ASSUME HandlerInv, AskInv, [Next]_vars
      PROVE  [\A b \in asked' \ asked :
                InternalHasConflictingChainLock(lock, b) => lock.known # sched.held]_vars
  <2>. SUFFICES ASSUME NEW b \in asked' \ asked, InternalHasConflictingChainLock(lock, b),
                       lock.known = sched.held
                PROVE  FALSE
    OBVIOUS
  <2>1. AskQuorum
    BY Zenon, <1>1 DEF Next, SchedulerStep, ReceiverStep, NewHeader, NewBlock, Activate,
       UpdatedBlockTip, ProcessMessage, HandleNewRecoveredSig, CheckSeen, Verify,
       ProcessNewChainLock, StartTask, CheckActiveState, EnforceSnapshot, EnforceBestChainLock,
       NotifyChainLock, TrySignTip, TrySignCheck, TrySignChainTip, vars, lockVars
  <2>2. b = sched.snap /\ sched.pc = "ask"  BY Zenon, <2>1 DEF AskQuorum, At
  <2>. DEFINE known == sched.held
  <2>3. lock.enforced /\ known # NoBlock /\ Height[b] <= Height[known]
    BY Zenon DEF InternalHasConflictingChainLock
  <2>4. Height[known] < Height[b]  BY Zenon, <1>1, <2>2, <2>3 DEF AskInv
  <2>5. Height[b] \in Nat /\ Height[known] \in Nat
    BY Zenon, <1>1, <2>2, <2>3, TreeAssumption DEF HandlerInv, ChainInv, Sound, ChainType, LockTypeOK,
       LocksOnly, LockType, MaybeBlock
  <2>. HIDE DEF known
  <2>. QED  BY ONLY <2>3, <2>4, <2>5
<1>. QED  BY <1>1, HandlerInvariance, PTL DEF Spec, SignRequestRespectsLock

============================================================================
