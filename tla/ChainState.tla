----------------------------- MODULE ChainState -----------------------------
(***************************************************************************)
(* The block index of validation.cpp and the activation of the best chain. *)
(*                                                                         *)
(* Everything guarded by cs_main is one record, chain; the operators that  *)
(* run inside one critical section map such a record to the next.  A       *)
(* thread inside ActivateBestChain keeps pindexMostWork on its stack while *)
(* it releases and takes cs_main again between two steps, so a step of     *)
(* another thread may come in between.                                     *)
(***************************************************************************)
EXTENDS Integers, FiniteSets

CONSTANTS
  Blocks,           \* the block tree: every block that will ever exist
  Genesis,
  Parent,           \* Parent[b]: hashPrevBlock
  Ancestors,        \* Ancestors[b]: b and all blocks below it
  Height,           \* nHeight
  Work,             \* nChainWork
  BadBlocks,        \* blocks ContextualCheckBlock rejects
  BadToConnect,     \* blocks ConnectBlock rejects
  MinBlocksToKeep,  \* MIN_BLOCKS_TO_KEEP
  Threads,          \* threads that call into validation.cpp
  MaxInvalidate,    \* bound: invalidateblock calls
  MaxReconsider,    \* bound: reconsiderblock calls
  NoBlock

ASSUME TreeAssumption ==
  /\ IsFiniteSet(Blocks) /\ Genesis \in Blocks /\ NoBlock \notin Blocks
  /\ Parent \in [Blocks -> Blocks]
  /\ Ancestors \in [Blocks -> SUBSET Blocks]
  /\ Ancestors[Genesis] = {Genesis}
  /\ \A b \in Blocks \ {Genesis} : /\ Ancestors[b] = {b} \cup Ancestors[Parent[b]]
                                   /\ b \notin Ancestors[Parent[b]]
  /\ Height \in [Blocks -> Nat] /\ Work \in [Blocks -> Nat]
  /\ \A b \in Blocks \ {Genesis} : /\ Height[b] = Height[Parent[b]] + 1
                                   /\ Work[b] > Work[Parent[b]]
  /\ BadBlocks \subseteq Blocks \ {Genesis} /\ BadToConnect \subseteq Blocks \ {Genesis}
  /\ MinBlocksToKeep \in Nat /\ MaxInvalidate \in Nat /\ MaxReconsider \in Nat

\* What follows from the tree shape by induction on the height: a chain is
\* linearly ordered, two chains have a last common block (FindFork).
ASSUME AncestryAssumption ==
  /\ \A b \in Blocks : Genesis \in Ancestors[b]
  /\ \A b \in Blocks : \A d \in Ancestors[b] :
       /\ Ancestors[d] \subseteq Ancestors[b]
       /\ Height[d] <= Height[b] /\ Work[d] <= Work[b]
       /\ \A e \in Ancestors[b] : d \in Ancestors[e] \/ e \in Ancestors[d]
  /\ \A b, d \in Blocks : \E f \in Blocks : Ancestors[f] = Ancestors[b] \cap Ancestors[d]
  /\ \E w \in Blocks : \A b \in Blocks : Work[b] <= Work[w]

VARIABLES
  chain,        \* what cs_main guards, see ChainType
  pc,           \* pc[t]: "idle", or "activate" inside ActivateBestChain
  mostWork,     \* mostWork[t]: its local variable pindexMostWork
  aborted,      \* an assertion has failed: the process is gone
  invalidated, reconsidered

chainVars == <<chain, pc, mostWork, aborted, invalidated, reconsidered>>

ChainType ==
  [headers     : SUBSET Blocks,          \* mapBlockIndex
   data        : SUBSET Blocks,          \* BLOCK_HAVE_DATA, nTx > 0
   seq         : [Blocks -> Nat],        \* nSequenceId; 0 iff nChainTx = 0
   failedValid : SUBSET Blocks,          \* BLOCK_FAILED_VALID
   failedChild : SUBSET Blocks,          \* BLOCK_FAILED_CHILD
   candidates  : SUBSET Blocks,          \* setBlockIndexCandidates
   unlinked    : SUBSET Blocks,          \* the values of mapBlocksUnlinked
   tip         : Blocks]                 \* chainActive.Tip()

GenesisChain ==
  [headers |-> {Genesis}, data |-> {Genesis},
   seq |-> [b \in Blocks |-> IF b = Genesis THEN 1 ELSE 0],
   failedValid |-> {}, failedChild |-> {}, candidates |-> {Genesis},
   unlinked |-> {}, tip |-> Genesis]

ChainInit ==
  /\ chain = GenesisChain
  /\ pc = [t \in Threads |-> "idle"]
  /\ mostWork = [t \in Threads |-> NoBlock]
  /\ aborted = FALSE /\ invalidated = 0 /\ reconsidered = 0

-----------------------------------------------------------------------------
Failed(c) == c.failedValid \cup c.failedChild
Active(c) == Ancestors[c.tip]
Linked(c) == {b \in Blocks : c.seq[b] # 0}

\* CBlockIndexWorkComparator: a sorts before b.
Worse(c, a, b) ==
  Work[a] < Work[b] \/ (Work[a] = Work[b] /\ c.seq[a] > c.seq[b])

\* AcceptBlockHeader: is the header, new or known, accepted?
HeaderAccepted(c, b) ==
  IF b \in c.headers THEN b \notin Failed(c)
                     ELSE Parent[b] \in c.headers \ Failed(c)

\* Mutant: the new entry is not inserted into mapBlockIndex.
AddToBlockIndex_NotInserted(c, b) == c

AddToBlockIndex(c, b) == [c EXCEPT !.headers = @ \cup {b}]

\* Mutant: what waits for b in mapBlocksUnlinked is not linked with it.
NewlyLinked_OnlyItself(c, b) == {b}

\* The blocks that get nChainTx when b arrives: b and what waits for it.
NewlyLinked(c, b) ==
  {d \in {b} \cup c.unlinked :
     b \in Ancestors[d] /\ Ancestors[d] \ Ancestors[b] \subseteq c.unlinked}

\* The queue of ReceivedBlockTransactions visits them by height; which of
\* several children of one block comes first depends on mapBlocksUnlinked.
LinkOrders(S) ==
  {f \in [S -> 1..Cardinality(S)] :
     \A d, e \in S : /\ f[d] = f[e] => d = e
                     /\ Height[d] < Height[e] => f[d] < f[e]}

\* Mutant: it is enough that the parent was received.
CanLink_ParentReceived(c, b) == Parent[b] \in c.data

CanLink(c, b) == Parent[b] \in Linked(c)

\* Mutant: only a block whose parent was received waits.
Waits_ParentReceived(c, b) == Parent[b] \in c.data

Waits(c, b) == Parent[b] \notin Failed(c)

\* ReceivedBlockTransactions, for each order of linking.  A block linked now
\* has the highest nSequenceId and is as good as the tip only if it has more
\* work; a waiting block whose parent is failed is not put into the map.
ReceivedBlockTransactions(c, b) ==
  IF CanLink(c, b)
    THEN LET L == NewlyLinked(c, b)
             base == Cardinality(Linked(c))
         IN  {[c EXCEPT
                 !.data = @ \cup {b},
                 !.seq = [d \in Blocks |-> IF d \in L THEN base + f[d] ELSE @[d]],
                 !.unlinked = @ \ L,
                 !.candidates = @ \cup
                    {d \in L : Work[d] > Work[c.tip]}] : f \in LinkOrders(L)}
    ELSE {[c EXCEPT !.data = @ \cup {b},
                    !.unlinked = IF Waits(c, b) THEN @ \cup {b} ELSE @]}

\* AcceptBlock returns early for a block it has, and for one it did not ask
\* for that is no improvement or too far ahead.
Ignored(c, b, requested) ==
  \/ b \in c.data
  \/ ~requested /\ Work[b] <= Work[c.tip]
  \/ ~requested /\ Height[b] > Height[c.tip] + MinBlocksToKeep

\* Mutant: the candidates are not completed after the tip has moved back.
InvalidateBlock_CandidatesNotCompleted(c, b) ==
  LET disconnected == {d \in Active(c) : b \in Ancestors[d]}
  IN  [c EXCEPT !.failedValid = @ \cup {b},
                !.failedChild = @ \cup disconnected,
                !.candidates = @ \ ({b} \cup disconnected),
                !.tip = IF b \in Active(c) THEN Parent[b] ELSE @]

\* Mutant: a block is marked after its disconnection, when it is no longer the tip.
InvalidateBlock_MarksAfter(c, b) ==
  LET disconnected == {d \in Active(c) : b \in Ancestors[d]}
      m == [c EXCEPT !.failedValid = @ \cup {b},
                     !.failedChild = @ \cup {Parent[d] : d \in disconnected},
                     !.candidates = @ \ ({b} \cup disconnected),
                     !.tip = IF b \in Active(c) THEN Parent[b] ELSE @]
  IN  [m EXCEPT !.candidates = @ \cup
         {d \in Linked(m) : d \notin Failed(m) /\ ~Worse(m, d, m.tip)}]

\* InvalidateBlock: marks b, takes it off the active chain and adds what is
\* valid and no worse than the new tip to the candidates.
InvalidateBlock(c, b) ==
  LET disconnected == {d \in Active(c) : b \in Ancestors[d]}
      m == [c EXCEPT !.failedValid = @ \cup {b},
                     !.failedChild = @ \cup disconnected,
                     !.candidates = @ \ ({b} \cup disconnected),
                     !.tip = IF b \in Active(c) THEN Parent[b] ELSE @]
  IN  [m EXCEPT !.candidates = @ \cup
         {d \in Linked(m) : d \notin Failed(m) /\ ~Worse(m, d, m.tip)}]

\* ResetBlockFailureFlags: b, its descendants and its ancestors.
ResetBlockFailureFlags(c, b) ==
  LET descendants == {d \in c.headers : b \in Ancestors[d]}
      cleared == descendants \cup Ancestors[b]
  IN  [c EXCEPT !.failedValid = @ \ cleared,
                !.failedChild = @ \ cleared,
                !.candidates = @ \cup
                  {d \in descendants \cap Failed(c) \cap Linked(c) : Worse(c, c.tip, d)}]

-----------------------------------------------------------------------------
(* FindMostWorkChain. *)

\* Blocks that would have to be connected to reach d.
Path(c, d) == Ancestors[d] \ Active(c)

\* Mutant: the path to a candidate is not examined.
Usable_AnyCandidate(c) == c.candidates

Usable(c) == {d \in c.candidates : Path(c, d) \cap Failed(c) = {}}

\* Mutant: the first element of setBlockIndexCandidates instead of the last.
BestCandidate_First(c) ==
  IF Usable(c) = {} THEN NoBlock
  ELSE CHOOSE d \in Usable(c) : \A e \in Usable(c) : ~Worse(c, e, d)

\* The best usable candidate, NoBlock if there is none.
BestCandidate(c) ==
  IF Usable(c) = {} THEN NoBlock
  ELSE CHOOSE d \in Usable(c) : \A e \in Usable(c) : ~Worse(c, d, e)

\* The candidates on failed chains that are looked at, and given up, first.
GivenUp(c) ==
  {d \in c.candidates \ Usable(c) :
     BestCandidate(c) = NoBlock \/ Worse(c, BestCandidate(c), d)}

\* The blocks above the topmost failed block of the path to d.
AboveFailure(c, d) ==
  {e \in Path(c, d) \ Failed(c) : Path(c, d) \cap Failed(c) \subseteq Ancestors[e]}

TopmostFailure(c, d) ==
  {e \in Path(c, d) \cap Failed(c) : Path(c, d) \cap Failed(c) \subseteq Ancestors[e]}

\* Its side effects: descendants of a failed block are marked and removed.
PruneFailedCandidates(c) ==
  LET marked == UNION {AboveFailure(c, d) : d \in GivenUp(c)}
      erased == marked \cup UNION {TopmostFailure(c, d) : d \in GivenUp(c)}
  IN  [c EXCEPT !.failedChild = @ \cup marked, !.candidates = @ \ erased]

-----------------------------------------------------------------------------
(* ActivateBestChainStep towards m: disconnect to the fork, then connect   *)
(* until a block fails, the tip is better than the old one, or m is there. *)

Fork(c, m) == CHOOSE b \in Blocks : Ancestors[b] = Active(c) \cap Ancestors[m]

\* The blocks of the path below the first one that ConnectBlock rejects.
Connectable(c, m) == {b \in Path(c, m) : Ancestors[b] \cap Path(c, m) \cap BadToConnect = {}}

\* The tip the step ends with.
StepTip(c, m) ==
  LET good   == Connectable(c, m) \cup {Fork(c, m)}
      better == {b \in good : Work[b] > Work[c.tip]}
  IN  IF better # {} THEN CHOOSE b \in better : \A d \in better : Height[b] <= Height[d]
                     ELSE CHOOSE b \in good : \A d \in good : Height[d] <= Height[b]

\* The block whose connection failed, if the step met one.
StepFailure(c, m) ==
  {b \in Path(c, m) \cap BadToConnect :
     Parent[b] = StepTip(c, m) /\ Work[StepTip(c, m)] <= Work[c.tip]}

\* Mutant: the new tip is removed as well.
PruneBlockIndexCandidates_AlsoTip(c, t) == {d \in c.candidates : Worse(c, t, d)}

\* What is left of setBlockIndexCandidates once t is the tip.
PruneBlockIndexCandidates(c, t) == {d \in c.candidates : ~Worse(c, d, t)}

\* "assert(!setBlockIndexCandidates.empty())" after each connected block.
PruneAssertion(c, m) ==
  StepTip(c, m) # Fork(c, m) => PruneBlockIndexCandidates(c, StepTip(c, m)) # {}

\* The candidates are pruned after each connected block, and the last of these
\* removals includes the earlier ones.
ActivateBestChainStep(c, m) ==
  LET t == StepTip(c, m)
      kept == IF t = Fork(c, m) THEN c.candidates ELSE PruneBlockIndexCandidates(c, t)
  IN  [c EXCEPT !.tip = t,
                !.candidates = kept \ StepFailure(c, m),
                !.failedValid = @ \cup StepFailure(c, m)]

\* Mutant: the cache is not wiped after an invalid block.
KeptMostWork_AfterFailure(c, m) == IF StepTip(c, m) = m THEN NoBlock ELSE m

\* pindexMostWork after the step: wiped if the step met an invalid block, and
\* of no use once the loop ends at m.
KeptMostWork(c, m) ==
  IF StepTip(c, m) = m \/ StepFailure(c, m) # {} THEN NoBlock ELSE m

-----------------------------------------------------------------------------
(* Threads. *)

\* Thread t enters ActivateBestChain with chain c.
StartActivate(t, c) ==
  /\ chain' = c
  /\ pc' = [pc EXCEPT ![t] = "activate"]
  /\ mostWork' = [mostWork EXCEPT ![t] = NoBlock]

ProcessNewBlockHeaders(t, b) ==
  /\ pc[t] = "idle"
  /\ b \notin chain.headers /\ HeaderAccepted(chain, b)
  /\ chain' = AddToBlockIndex(chain, b)
  /\ UNCHANGED <<pc, mostWork, invalidated, reconsidered>>

\* ProcessNewBlock with AcceptBlock, up to the call of ActivateBestChain.  A
\* block that ContextualCheckBlock rejects is marked and not stored.
ProcessNewBlock(t, b, requested) ==
  LET c == AddToBlockIndex(chain, b) IN
  /\ pc[t] = "idle"
  /\ HeaderAccepted(chain, b)
  /\ \/ /\ Ignored(c, b, requested)
        /\ StartActivate(t, c)
     \/ /\ ~Ignored(c, b, requested) /\ b \in BadBlocks
        /\ chain' = [c EXCEPT !.failedValid = @ \cup {b}]
        /\ UNCHANGED <<pc, mostWork>>
     \/ /\ ~Ignored(c, b, requested) /\ b \notin BadBlocks
        /\ \E n \in ReceivedBlockTransactions(c, b) : StartActivate(t, n)
  /\ UNCHANGED <<invalidated, reconsidered>>

invalidateblock(t, b) ==
  /\ pc[t] = "idle" /\ invalidated < MaxInvalidate
  /\ b \in chain.headers \ {Genesis}
  /\ StartActivate(t, InvalidateBlock(chain, b))
  /\ invalidated' = invalidated + 1
  /\ UNCHANGED reconsidered

reconsiderblock(t, b) ==
  /\ pc[t] = "idle" /\ reconsidered < MaxReconsider
  /\ b \in chain.headers
  /\ StartActivate(t, ResetBlockFailureFlags(chain, b))
  /\ reconsidered' = reconsidered + 1
  /\ UNCHANGED invalidated

\* The chain record and the target of thread t's next iteration.
Examined(t) == IF mostWork[t] = NoBlock THEN PruneFailedCandidates(chain) ELSE chain
Target(t) == IF mostWork[t] = NoBlock THEN BestCandidate(chain) ELSE mostWork[t]

NothingToDo(t) == Target(t) = NoBlock \/ Target(t) = chain.tip

\* One iteration of ActivateBestChain under cs_main.
ActivateBestChain(t) ==
  /\ pc[t] = "activate"
  /\ LET c == Examined(t)
         m == Target(t)
     IN  IF NothingToDo(t)
           THEN /\ chain' = c
                /\ pc' = [pc EXCEPT ![t] = "idle"]
                /\ mostWork' = [mostWork EXCEPT ![t] = NoBlock]
           ELSE /\ PruneAssertion(c, m)
                /\ chain' = ActivateBestChainStep(c, m)
                /\ pc' = [pc EXCEPT ![t] = IF StepTip(c, m) = m THEN "idle" ELSE @]
                /\ mostWork' = [mostWork EXCEPT ![t] = KeptMostWork(c, m)]
  /\ UNCHANGED <<invalidated, reconsidered>>

\* The iteration in which the assertion fails.
Abort(t) ==
  /\ pc[t] = "activate" /\ ~NothingToDo(t)
  /\ ~PruneAssertion(Examined(t), Target(t))
  /\ aborted' = TRUE
  /\ UNCHANGED <<chain, pc, mostWork, invalidated, reconsidered>>

ChainStep(t) ==
  \/ \E b \in Blocks : ProcessNewBlockHeaders(t, b)
  \/ \E b \in Blocks, requested \in BOOLEAN : ProcessNewBlock(t, b, requested)
  \/ \E b \in Blocks : invalidateblock(t, b)
  \/ \E b \in Blocks : reconsiderblock(t, b)
  \/ ActivateBestChain(t)

ChainNext ==
  /\ ~aborted
  /\ \E t \in Threads : Abort(t) \/ (ChainStep(t) /\ UNCHANGED aborted)

ChainSpec == ChainInit /\ [][ChainNext]_chainVars

\* The loop of ActivateBestChain runs on until it returns.
ChainFairSpec == ChainSpec /\ \A t \in Threads :
    WF_chainVars(~aborted /\ ActivateBestChain(t) /\ UNCHANGED aborted)

-----------------------------------------------------------------------------
(* Correctness.  The first group are the assertions of CheckBlockIndex.    *)

\* Types, and what is stored, linked or marked is in the block index.
ChainTypeOK ==
  /\ chain \in ChainType
  /\ chain.data \cup Linked(chain) \cup Failed(chain) \cup chain.candidates
       \cup chain.unlinked \cup {chain.tip} \subseteq chain.headers
  /\ pc \in [Threads -> {"idle", "activate"}]
  /\ mostWork \in [Threads -> Blocks \cup {NoBlock}]
  /\ aborted \in BOOLEAN
  /\ invalidated \in 0..MaxInvalidate /\ reconsidered \in 0..MaxReconsider

Idle == \A t \in Threads : pc[t] = "idle"

\* The oldest ancestor marked BLOCK_FAILED_VALID exists.
HasInvalidAncestor(c, b) == Ancestors[b] \cap c.failedValid # {}

\* CheckBlockIndex: nChainTx is set iff all ancestors were received, in
\* whatever order the blocks arrived.  After invalidateblock of a block that
\* still waits it need not be: a block received above it is neither linked nor
\* queued.
LinkedIffAllData ==
  invalidated = 0 => \A b \in chain.headers :
    b \in Linked(chain) <=> Ancestors[b] \subseteq chain.data

\* CheckBlockIndex: a block that is linked, not invalid and no worse than the
\* tip is a candidate, and a candidate is linked and no worse than the tip.
\* It holds between activations; inside one, after a failed reorganisation,
\* the tip is left at a block that is no candidate until the next iteration.
\* Here and below, reconsiderblock ends what is asserted: it clears the flags
\* of other blocks than the ones whose marks depend on them.
CandidatesExact ==
  Idle /\ reconsidered = 0 => \A b \in chain.headers :
    IF b \in Linked(chain) /\ ~Worse(chain, b, chain.tip)
      THEN ~HasInvalidAncestor(chain, b) => b \in chain.candidates
      ELSE b \notin chain.candidates

\* CheckBlockIndex: a received block without an invalid ancestor waits in
\* mapBlocksUnlinked exactly while an ancestor is missing, and no block waits
\* that was not received.
UnlinkedComplete ==
  reconsidered = 0 => \A b \in chain.headers :
    /\ ~HasInvalidAncestor(chain, b) /\ b \in chain.data =>
         (b \in chain.unlinked <=> ~(Ancestors[b] \subseteq chain.data))
    /\ b \notin chain.data => b \notin chain.unlinked

\* CheckBlockIndex: "The failed mask cannot be set for blocks without invalid
\* parents."
FailedHasInvalidAncestor ==
  reconsidered = 0 => \A b \in Failed(chain) : HasInvalidAncestor(chain, b)

\* FindMostWorkChain asserts nChainTx along the path it examines, and ConnectTip
\* reads each block from disk: every candidate, every pindexMostWork a thread
\* holds and the tip have all their ancestors received.
ChainsAreComplete ==
  \A b \in chain.candidates \cup {chain.tip} \cup {mostWork[t] : t \in Threads} :
    b # NoBlock => Ancestors[b] \subseteq chain.data

\* PruneBlockIndexCandidates: "Either the current tip or a successor of it we're
\* working towards is left in setBlockIndexCandidates", or the process aborts.
NoAbort == ~aborted

\* The active chain never contains a block that is marked invalid.
ActiveChainIsValid == Active(chain) \cap Failed(chain) = {}

\* ActivateBestChain: "The result is either failure or an activated best
\* chain".  When no call is in progress, no block that is linked and not
\* marked, nor below a marked one, is better than the tip.
IdleTipIsBest ==
  Idle /\ reconsidered = 0 => \A b \in Linked(chain) :
            Ancestors[b] \cap Failed(chain) = {} => ~Worse(chain, chain.tip, b)

\* ActivateBestChain returns, also when other threads move the tip between two
\* of its iterations.
ActivationTerminates == \A t \in Threads : pc[t] = "activate" ~> pc[t] = "idle"
============================================================================
