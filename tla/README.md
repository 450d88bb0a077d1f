# Verification of chain activation, quorums and locks

TLA+ models of the parts of a BitcoinZero node in which several threads or several
masternodes meet, or a crash may come between two writes; TLC runs on small instances, and
TLAPS proofs for all instances.

## 1. The system

A node keeps a tree of block headers and an active chain (`validation.cpp`), and beside the coins
database a second one, the EvoDB, with the deterministic masternode list and the commitments of
quorums. If it is a masternode it is also a member of long-living masternode quorums (LLMQs,
`src/src/llmq`): a distributed key generation (DKG) gives them a common BLS key, with which a
threshold of the members signs. ChainLocks use these signatures to fix a block at a height,
InstantSend to fix the inputs of a transaction.

| Part | State | Operations | Module |
|---|---|---|---|
| `CSigningManager`, `CRecoveredSigsDb` | votes and recovered signatures in leveldb; queues | `AsyncSignIfMember`, `ProcessRecoveredSig`, `RemoveRecoveredSig`, `Cleanup` | `Signing`, `SigningService` |
| `CSigSharesManager` | shares, sessions and requests per peer | `ProcessSigShare`, `TryRecoverSig`, `SendMessages`, `ProcessMessage*`, `Cleanup` | `Signing`, `SigShares` |
| block index and activation | `mapBlockIndex`, `mapBlocksUnlinked`, `setBlockIndexCandidates`, failure flags, `chainActive` | `ProcessNewBlock`, `ActivateBestChain`, `InvalidateBlock`, `ResetBlockFailureFlags` | `ChainState` |
| `CChainLocksHandler` | best lock, its block, seen CLSIGs, flags | `ProcessNewChainLock`, `EnforceBestChainLock`, `TrySignChainTip` | `ChainLocks` |
| `CInstantSendManager`, `CInstantSendDb` | locks and their indices, pending locks, transactions without lock | `ProcessTx`, `ProcessInstantSendLock`, `SyncTransaction`, `ResolveBlockConflicts` | `InstantSend` |
| `CEvoDB`, `CQuorumBlockProcessor`, `CDeterministicMNManager` | two nested transactions; commitments, lists, diffs, snapshots and their caches | `ProcessBlock`, `UndoBlock`, `CommitRootTransaction`, `HasMinedCommitment`, `GetListForBlock` | `EvoDb` |
| `CDKGSession`, `CDKGSessionHandler` | contributions, complaints, justifications, commitments, phase | `Contribute`, `VerifyAndComplain`, `VerifyAndJustify`, `VerifyAndCommit`, `FinalizeCommitments`, `PhaseHandlerThread` | `DKG` |

Everything else (memory pool, Spark and Lelantus state, sporks, network, wallet, RPC, GUI,
cryptography, vendored libraries) is listed in `PROJECT.json` with the reason why it is not modelled.
`hazards` in the same file lists what is hard to test in this code, with the source line and the
properties that would notice a failure.

## 2. Modules

```
component                     instances for TLC   proofs
Signing -> SigningService     MCSigning           SigningProofs
SigShares                     MCSigShares         SigSharesProofs
ChainState                    MCChainState        ChainStateProofs
ChainLocks (ext. ChainState)  MCChainLocks        ChainLocksProofs (ext. ChainStateProofs)
InstantSend                   MCInstantSend
EvoDb                         MCEvoDb             EvoDbProofs <- EvoDbListProofs
DKG                           MCDKG               DKGProofs <- DKGTimelyProofs
```

A definition named `X_Bug` is a mutation of `X` as a plausible error would have it; it is not
used by the specification.

### Signing and SigningService

A set of masternodes, each with `CSigningManager` and the part of `CSigSharesManager` that
creates, collects and recovers shares. `votes` and `recSigs` are the database and survive
`Restart`; `signing`, `pendingSigns`, `incoming`, `sigShares`, `pendingRecSigs`, `reconstructed` are memory.
`shareNet` and `recSigNet` contain whatever was pushed to peers: a message may arrive late,
more than once, out of order or never.

| Action | Code |
|---|---|
| `AsyncSignIfMember`, `SelectQuorumForSigning` | the two halves of `AsyncSignIfMember`, under `cs` and after it |
| `Sign` | `SignPendingSigShares`, `Sign`, `ProcessSigShare` |
| `ProcessMessageBatchedSigShares`, `ProcessPendingSigShares` | receipt and processing of a share, with `TryRecoverSig` and `ProcessRecoveredSig` |
| `ProcessMessageRecoveredSig`, `ProcessPendingRecoveredSigs` | the same for recovered signatures |
| `PushReconstructedRecoveredSig`, `ProcessPendingReconstructedRecoveredSigs` | signatures InstantSend rebuilds from an ISLOCK, processed without a look at the active quorums |
| `RemoveSigSharesForSession`, `RemoveRecoveredSig`, `CleanupOldVotes` | timeouts and ageing |
| `NewTip`, `Age`, `Restart` | environment; `Age`: the vote was written more than `recsigsmaxage` (a week) ago |

Signatures are ideal (an invalid one does not exist); a session is named by quorum, id and message;
the exchange between peers is eventual delivery. `WriteVoteForId` stamps a vote when it is written and
re-signing does not renew the stamp, so a vote may be deleted, and another message voted for, while requests
for its id still come in; `forgotten` records the ids for which that has happened at a node.

`SigningService` is what ChainLocks and InstantSend rely on: each quorum decides at most one message per id,
for good, until a vote on the id is deleted, and a node knows a decided message or none. `Signing`
implements it (`ImplementsService`) with `decided` mapped to the recovered signatures of the network. It does not promise
that two quorums decide the same message: nodes with different tips may select different quorums for one id, and
quorums without a common member that remembers its vote can sign two messages. The comments of
`ProcessRecoveredSig` and `AsyncSignIfMember` ("it shouldn't be possible to get conflicting recovered
signatures") presuppose that they have one; `NoConflictingRecoveredSigs` states exactly that condition.

### SigShares

The exchange `Signing` abstracts, for one session: `node[n]` is what `cs` of n's `CSigSharesManager`
guards (shares, `sigSharesToAnnounce`, a session per peer, the two maps of requests, queues),
`channel[n][p]` the messages from n to p in order. `SendMessages` is one pass of the worker with the
three `CollectSigShares...` functions; `Receive` the handlers of QSIGSESANN, QSIGSHARESINV,
QGETSIGSHARES and QBSIGSHARES; `ProcessPending`, `Sign`, `AsyncSignIfMember` (with
`ForceReAnnouncement`), `RequestTimeout`, `SessionTimeout`, `CleanupNode` the rest. `Disconnect` and
`Reconnect` are the network, `ReceiveRecoveredSig` the relay of the result.

Session ids are compared only for equality, so an id that nobody remembers is used again. A new
connection has a new NodeId, so that a pair reconnects once both sides have cleaned the old node
state. Bans and the verification of batches are left out. A caller asks a signer once, and once more
after something was lost.

### ChainState

Everything that `cs_main` guards is one record, `chain`. What one critical section does to it is
an operator on such records (`AddToBlockIndex`, `ReceivedBlockTransactions`, `InvalidateBlock`,
`ResetBlockFailureFlags`, `PruneFailedCandidates`, `ActivateBestChainStep`). `pc[t]` and
`mostWork[t]` are the position and the local `pindexMostWork` of thread `t`. `aborted` is set
when the assertion of `PruneBlockIndexCandidates` fails.

| Action | Code |
|---|---|
| `ProcessNewBlockHeaders`, `ProcessNewBlock` | the functions of that name with `AcceptBlockHeader`, `AcceptBlock`, `ReceivedBlockTransactions` |
| `invalidateblock`, `reconsiderblock` | the RPCs, with `InvalidateBlock` and `ResetBlockFailureFlags` |
| `ActivateBestChain` | one iteration of its loop under `cs_main`: `FindMostWorkChain`, `ActivateBestChainStep`, `ConnectTip`, `DisconnectTip` |
| `Abort` | the iteration in which the assertion fails |

The tree of blocks that will ever exist is a constant, with two sets of blocks that
`ContextualCheckBlock` and `ConnectBlock` reject; `nSequenceId` is the rank in the order of linking
(`LinkOrders` allows any order among the children of one block); `setBlockIndexCandidates` is a set
and its order the operator `Worse`. Left out: `PreciousBlock`, pruning of block files,
disk errors, rejections marked as possible corruption, loading the index at start,
`invalidateblock` of the genesis block.

### ChainLocks

Extends ChainState with one masternode's `CChainLocksHandler`: the record `lock` (what its `cs`
guards), `clsig[t]` (a `ProcessNewChainLock` in progress in the message handler or in the share
worker), `sched` (the task the scheduler thread is in), `queued` tasks, `announce[t]` (a tip
whose `UpdatedBlockTip` is not delivered yet), `asked` (blocks it asked the quorum to sign).
Each critical section is one action, in the order of the code:

* message handler: `NewHeader`, `NewBlock`, `Activate`, `UpdatedBlockTip`, `ProcessMessage`, then
  `CheckSeen`, `Verify`, `ProcessNewChainLock`;
* share worker: `HandleNewRecoveredSig`, then the same three;
* scheduler: `StartTask` and `CheckActiveState`; `EnforceSnapshot`, `EnforceBestChainLock`,
  `Activate`, `NotifyChainLock`; `TrySignTip`, `TrySignCheck`, `TrySignChainTip`, `AskQuorum`
  (`AsyncSignIfMember`, which is called after `cs` is released).

One possible CLSIG per block, so that its height always fits; the blocks for which the
network produces a signature (`Lockable`) and those at which the spork is on (`SporkOn`) are
constants; `TrySignCheck` may always refuse, which stands for transactions that are not yet safe
(`SyncTransaction`, `GetBlockTxs`, `IsTxSafeForMining`). The node is past initial download and not in
lite mode; the RPCs of ChainState are not called. `DIP0008Height` 0 is the case in which the
spork alone decides.

### InstantSend

One masternode's `CInstantSendManager` with the memory pool and the active chain. `db` is
`CInstantSendDb` (locks, the indices by transaction, by input and by height), `mgr` what `cs` guards in the manager,
`main` the calls the validation thread has still to make, `task[w]` the position of the worker thread and
of the signer thread. Each critical section is an action: `ProcessTx`, `SignInputs`,
`CreateLock`, `HandleNewRecoveredSig`, `HandleNewInputLockRecoveredSig`; `LookupTx`, `StoreLock`,
`RemoveMempoolConflictsForLock`, `UntrackMempoolConflicts`, `ResolveBlockConflicts`, `InvalidateBlocks` (the parts of
`ProcessInstantSendLock`); `AcceptCheck` and `AcceptAdd` (the two halves of `AcceptToMemoryPool`);
`FilterBlock` (the loop of `ConnectBlock` over conflicting locks, with its assertion), `ConnectTip`, `DisconnectTip`, `SyncTransaction`, `TrackTransaction`; `ProcessPendingLock`,
`DropPendingLock`, `ProcessPendingRetry`; `NotifyChainLock` with `HandleFullyConfirmedBlock`. `Submit`, `ConnectBlock`,
`Reorganise`, `NewChainLock` and `ProcessMessageInstantSendLock` are the environment.

A lock is a transaction and the quorum that signed it, since its hash covers the signature: while
quorums rotate, a node can store two locks of one transaction. `WriteNewInstantSendLock` overwrites the index
entries of the first, which stays in the database and filed under its height; `RemoveInstantSendLock` of either
erases the entries of both. `IndicesAgree` says what is left of the indices then: each entry names
a stored lock of its transaction or nothing, the entries of a transaction and of its inputs are the same, and a
stored lock without entries shares its transaction with one that was removed. `LockedTxPrevails` and
`LocksAreFiled` are about the lock `IsLocked` finds.

The signing service is external and is what `SigningService` promises: one decided transaction
per id, the same for both quorums, which the node learns some time. The signature of a received lock may be
refused because its quorum is no longer selected, unless the recovered signature of the lock is known,
by whichever quorum. `FilterBlock` goes no further when a lock is stored between its removal of one and its
assertion (`validation.cpp:2930`), which happens in the instances: the process ends there. Pending locks are processed one at a time; `RemoveConflictedTx` and
`InvalidateBlock` are one step. `missed` records the windows through which a conflict is known to slip:

* `"race"`: a lock stored between a check for conflicting locks and the step it was made for;
* `"index"`: a mined conflict of which the manager has no entry (the finding of `instantsend_index`);
* `"stale"`: a transaction index read before its block was disconnected;
* `"pprev"`: `SyncTransaction` of a disconnected transaction gets the predecessor of its block and takes a ChainLock
  of that for one of the transaction, which is then not tracked.

### EvoDb

The two databases of one node and the threads that read them. A store maps a key to a set of blocks
(`{}`: absent), a masternode list is the set of blocks whose changes are in it. `disk` is what survives,
`root` and `cur` are the transactions of `CEvoDB`, `mined` and `lists` the two caches, `minable` the
minable commitments by number of signers. The main thread connects
(`BeginConnect`, `ConnectList`, `ConnectCleanup`, `EndConnect`; operation `"test"` is `TestBlockValidity`,
which is rolled back), disconnects (`BeginDisconnect`, `DisconnectQuorum`, `EndDisconnect`) and flushes
(`FlushCoins`, `FlushEvo`); `Crash` may come between any two steps, and `Start` is the part of `AppInit2`
that touches the databases. Without `cs_main`: `ReaderLookup` and `ReaderStore` (`HasMinedCommitment`),
`UpdatedBlockTip`, `GetListAtChainTip`, `FinalizeCommitment`, `ProcessMessage`.

A crash is one of the process: leveldb batches are complete or absent and reach the disk in order.
`Start` is atomic. `RewindBlockIndex` only flushes. `VerifyDB` disconnects down to the genesis block and
rolls back, which leaves the commitments it undid minable. Disk errors are left out. `raced`
records that an answer of the database was overtaken before it reached `hasMinedCommitmentCache`;
`upgraded` that an EvoDB without best block was taken for one of the old format (the
code logs that "You need to reindex now" and goes on with empty lists); `early` that a list was asked
for while its block was being disconnected, at a height below `LISTS_CACHE_SIZE`, where `CleanupCache`
returns at once and the empty list stays in `mnListsCache`.

### DKG

One session among the members of a quorum. `phase[n]` is set by n's tip, `stage[n]` is where its
`PhaseHandlerThread` is; `session[n]` is the `CDKGSession`, `pending[n]` the message queues, `net` what was
relayed. `StartPhase` is the member's own step of a phase (`Contribute`, `VerifyAndComplain`,
`VerifyAndJustify`, `VerifyAndCommit`), `ProcessPendingMessage` one message through
`PreVerifyMessage` and `ReceiveMessage`, `NextPhase` the end of a phase (the last one with
`FinalizeCommitments`), `Abort` and `HandleDKGRound` the restart of the handler, `UpdatedBlockTip` and
`Rewind` the chain. A member of `faulty` makes the errors the code can simulate (`ShouldSimulateError`): it
omits a message, or lies in a contribution, a complaint or a justification. A lie in the commitment is
the same as omitting it: the member's own `ReceiveMessage` rejects it before it is announced.

`untimely` counts the steps with which a member leaves a phase before it has processed what others sent
in time; `Timely` is `untimely = 0`. Key shares and verification vectors are known by the round
they were made in. Signatures are ideal. Limits per peer, bans, batched verification and observers
(`-watchquorums`) are left out. A reorganisation (`Rewind`) takes a tip from any phase back to the beginning of
any earlier one. At the first phase `HandleDKGRound` begins a new session for the same quorum and knows nothing of the last
one, not even that it committed: such a member signs a second premature commitment, and may hand over a second
final one (`minable[n]` keeps them all). `FinalCommitment.checked` is a history field: its maker had the
contributions to verify it.

## 3. Runs

| Run | Instance | Checks |
|---|---|---|
| `signing_safety` | 2 nodes, 2 messages, threshold 2, one fault (a restart, a session timeout, a removal or the ageing of a vote), ISLOCKs reach one node | `OneShareVotePerId`, `ShareIsBackedByStoredVote`, `RecoveredFromThreshold`, `VoteNeverChanges`, `ThresholdVoteIsRecovered`, `ImplementsService` |
| `signing_rotation` | 3 nodes, 2 quorums with one common member, the selected one changes with the tip | `NoConflictingRecoveredSigs` |
| `sigshares` | two connected signers with one loss (timeout or disconnection); four nodes in a square with one signer | `OneRequestAtATime`, `SharesReachEveryone` |
| `chain_threads` | 6 blocks in 2 branches, 2 threads, one block of each kind of rejection | `ChainTypeOK`, `LinkedIffAllData`, `ChainsAreComplete`, `ActivationTerminates` |
| `chain_invalidate` | 7 blocks in 3 branches, 1 thread, 2 `invalidateblock`, 1 `reconsiderblock` | `FailedHasInvalidAncestor`, `UnlinkedComplete`, `CandidatesExact`, `NoAbort`, `ActiveChainIsValid`, `IdleTipIsBest` |
| `chainlocks_threads` | 4 blocks, locks on both blocks of one branch, spork off in one block, one `Cleanup` that forgets CLSIGs | `KnownFollowsBest`, `LockedChainNotMarked`, `SignRequestRespectsLock` |
| `chainlocks_prevail` | 4 blocks, the lock on the shorter branch | `LockPrevails` |
| `instantsend` | 10 small worlds of transactions (a conflict, a child before its parent, both, locks by two quorums), 2 blocks, a reorganisation | `IndicesAgree`, `LockedTxPrevails`, `LocksAreFiled`, `NoForgottenChild` |
| `evodb` | 6 blocks in 2 branches, a crash, 1 disconnection | `BestBlocksAgree`, `DeadOnlyIfTorn`, `EvoMatchesChain`, `CommitmentRule`, `CacheAgrees`, `ListIsRight`, `CommitmentStaysMinable` |
| `dkg` | 3 members, one of them possibly faulty, one untimely step: a phase cut short or, if none is faulty, undone | `DkgTypeOK`, `OneQuorumKey`, `FinalIsSigned`, `NoHonestIsBad`, `SameView`, `HonestFinish` |

Two runs show a difference between the code and what the repository says about it; each is a finding in
`PROJECT.json` with the quoted line:

| Run | What the trace shows |
|---|---|
| `chainlocks_go_back` | Two CLSIGs in progress at once: the lower one replaces the higher one (`BestLockNeverGoesBack`). |
| `instantsend_index` | A conflicting transaction in a block stays although a lock is stored, since `ResolveBlockConflicts` looks only among the transactions the manager tracks (`BlocksGiveWay`). |

Some properties are stated only for histories in which the code can keep them:

* `FailedHasInvalidAncestor`, `CandidatesExact`, `UnlinkedComplete` and `IdleTipIsBest` without
  `reconsiderblock`, which clears the flags of the block, its descendants and its ancestors, but neither
  clears other branches above an ancestor nor makes the ancestors candidates;
* `LinkedIffAllData` without `invalidateblock`: `ReceivedBlockTransactions` does not queue a block whose
  parent is marked, so that it is not linked when an older ancestor arrives, and its own child
  stays queued with all data there. `CheckBlockIndex` asserts both without this exception; it is off
  by default except on regtest;
* `NoAbort`, `ActiveChainIsValid`, `IdleTipIsBest` with one thread: a thread keeps `pindexMostWork`
  over the unlocked part of its loop, and an `invalidateblock` or a better block of another thread makes it
  stale;
* `LockPrevails` for a lock that is in force: `CheckActiveState` drops the best lock when enforcement
  starts, and its hash stays among the seen ones;
* `OneShareVotePerId`, `ShareIsBackedByStoredVote` and the promise of `SigningService` until `CleanupOldVotes`
  deletes a vote; `NoConflictingRecoveredSigs` for quorums that cannot be recovered without a common member that
  remembers its vote; `ThresholdVoteIsRecovered` without faults;
* `SignRequestRespectsLock` for blocks up to the height of the lock, where
  `InternalHasConflictingChainLock` looks, and for locks known at the last look of `TrySignChainTip` at the best
  lock: one that becomes known between that section and `AsyncSignIfMember` does not stop the request; `LockedChainNotMarked` for locks on one chain, since a higher
  CLSIG is accepted whatever its chain;
* `LockedTxPrevails` but for `"race"` and `"index"` in `missed`, `LocksAreFiled` for `"race"` and `"stale"`,
  `NoForgottenChild` for `"race"` and `"pprev"` and for a parent of which a lock was removed before: the next
  lock stored for it wakes nobody, since it is no longer tracked; the EvoDb ones unless `raced`, `upgraded` or `early`;
* `SharesReachEveryone` where the threshold is in reach of the signers that were asked: otherwise a session
  ends by its timeout;
* `OneQuorumKey` while fewer than `2 * minSize - size` members have signed two premature commitments, which takes a
  reorganisation after they committed: that many can sign two keys, and nothing in the code keeps them from it;
* `FinalIsSigned` for a maker that has all contributions, and `NoHonestIsBad` unless a member
  known as bad complained: `VerifyAndJustify` does not answer it and `VerifyAndCommit` counts it.

### Bounds

* Block trees have two or three branches and up to three blocks above the genesis block: enough for a
  reorganisation of more than one step, a failure in the middle of it, a block that waits for
  its parent and a better branch in the hands of another thread.
* `MaxInvalidate`, `MaxReconsider`, `MaxFaults`, `MaxCleanups`, `MaxCrashes`,
  `MaxDisconnects`, `MaxReorgs`, `MaxUntimely` are 1 or 2: one such event at every point of a
  history, or two that meet.
  `signing_rotation` has no faults and keeps the first quorum active: a quorum that leaves the active set while its
  signature waits to be processed, quorums without common members and deleted votes under rotation are covered by the theorems only.
  In `dkg` a phase is undone only when no member is faulty (`RewindFaulty`), and with three members one that commits
  again suffices to exempt `OneQuorumKey`; the theorem covers faulty members, larger quorums and any number of either.
  `instantsend` has locks by two quorums and children in different worlds; that a parent loses a lock and gets
  it back while its child waits, the last exemption of `NoForgottenChild`, needs both.
  With one disconnection `evodb` leaves a branch by one block only; the theorems of
  section 4 cover any number.
* `MinBlocksToKeep` (288 in the code) is 2, `SignHeightOffset` (8) is 1, `SnapshotPeriod` (576) is 3, `ListsCacheSize` (576) is 3,
  `Confirmations` 2, so that the refusals and the clean-up they cause happen in these instances.
  `MaxRequests` (32) is 1, but no node of `sigshares` wants two shares of one peer at a time, so this limit does not bind there.
* Three members with `MinSize` 2 are the smallest quorum in which a majority excludes a member; the square
  in `sigshares` is the smallest graph in which a share arrives over two paths.

Deadlock is checked in the chain runs and in `dkg`. Elsewhere the system may come to rest: all requests
are served, every block has been made, or the process has ended by an assertion.

### Fairness

* Signing: the worker thread loops for ever (`WorkThreadMain`), a call of `AsyncSignIfMember`
  runs to its end, and what a peer holds is announced, requested and sent in the end, which is what
  `SigShares` looks into. Nothing is assumed of requests, timeouts or restarts.
* SigShares: the worker loops, a connection delivers, `Cleanup` and its timeouts come round.
  Nothing is assumed of signers or of losses.
* ChainState: a thread inside `ActivateBestChain` goes on.
* ChainLocks: the scheduler thread serves its queue and the task of every five seconds; the other
  threads finish what they have begun. Nothing is assumed of arrivals.

InstantSend, EvoDb and DKG are checked for safety only.

## 4. Proofs

The theorems hold for every value of the constants that satisfies the named assumptions
(`ConstantsAssumption`, `MajorityAssumption`, `SharesAssumption`, `TreeAssumption`, `AncestryAssumption`, `ThreadsAssumption`,
`EvoAssumption`, `DkgAssumption`, ...; TLC evaluates them on every instance). `AncestryAssumption` collects
what follows from the shape of the tree by induction on the height, which the provers cannot do:
ancestry is transitive and linear, work does not fall along it, and two chains have a last common block.
One lemma per operator says what it does to each field of a record; the step lemmas use only these.

**SigningProofs.** The inductive invariant relates the stages of a request: whatever is in `signing`,
`pendingSigns`, or in circulation as a share has its vote in the database unless it was
deleted for its age, and each recovered signature has a threshold of signers in `shareNet`, which only
grows. From it: `TypeCorrect`, `OneShareVote`, `SharesAreBacked`, `StoredFromThreshold`, `VotesAreFinal`.
`RecoveredSigsAgree` assumes nothing about how quorums overlap: if signatures of two messages of an id exist, the signers
of the two are recovering sets of their quorums, and no member of both remembers its vote. For one quorum such sets
cannot be small: `QuorumsDecideOnce` counts that `2 * threshold - size` of its members must have deleted their vote.
`SigningImplementsService` is the refinement of `SigningService`; it needs only that the threshold is above half of the
size (`MajorityAssumption`, true of all parameters in `chainparams.cpp`).

**SigSharesProofs.** The invariant `Good` holds for each node on its own: its types; every request it has
sent to a peer is the one recorded for that share (`Awaited`); at most `MaxRequests` shares are awaited
from one peer (`Limited`). The sets the handlers build are finite, and a fresh session id exists by
counting. From it `SharesTypeCorrect`, `RequestsAreSingle` (a share is requested from one peer at a
time) and `RequestsAreLimited`.

**ChainStateProofs.** `ChainInv`: candidates, targets and the tip are linked, a linked block has its data
and its parent is linked, everything has an index entry. `ChainTypeCorrect` and
`OnlyCompleteChains` need nothing else. `MarksHaveCause` adds that a mark has an
invalid block below it, as long as `reconsiderblock` is not called (section 3 says
why). `CleanInvariance`, for one thread: the target kept between iterations has no
mark on its path, which is exactly what another thread can break; from it `ActiveIsValid`.

The second part is about the index structures. `LinkInv`: a received block whose ancestors are all there is linked, and one with
an ancestor missing waits, except for blocks above a marked one (`AboveBad`) or above
one that `invalidateblock` was called on (`AboveInvalid`). From it `LinkedIsComplete` and
`WaitingIsComplete`. `BestInv`, for one thread: the order of candidates is total on the linked blocks,
whatever a thread works towards is a best candidate, and there is a block `w`, the best
tip since the candidates were last completed, such that every linked block without invalid ancestor that is
no worse than `w` is a candidate; between activations the tip is such a `w` and is best. From it
`AssertionHolds` (the assertion of `PruneBlockIndexCandidates`), `CandidatesAreExact` and `TipIsBest`.

**ChainLocksProofs.** `HandlerInv` is `ChainInv` with the types of the handler, the fact that only
lockable blocks are handled as locks, and `KnownFollowsBest`. `Unmarked` is kept because a sibling of
a block of the locked chain that is not itself below the lock is not on the locked
chain, and whatever activation marks is above a marked block. `OrderInv` adds that the index
contains the ancestors of its blocks and that, while locks are enforced, the best lock is not below
the enforced one: a lower CLSIG that slips through the check passes only if it is on the chain
of the enforced lock, so its header is there and it is enforced in its place. `AskInv`: between its last look at
the best lock and its request, `TrySignChainTip` holds a block above the lock that was known then. From these:
`LockTypeCorrect`, `LateHeaderConnected`, `LockedChainStands`, `SignRequestsRespectLock`.

**EvoDbProofs.** `CommitIsTransparent`: committing or flushing a transaction does not
change what a reader of the EvoDB sees. `EvoInv` says of the best block, in each position of the main thread,
which of the three layers holds which block; from it `EvoFollowsCoins` and `NoFalseAlarm`. `CacheInv`
and an invariant on the commitment keys, which are those of the active chain unless a lookup was
overtaken or the database upgraded, give `MinedCacheAgrees`, `StoredCommitmentsAreTheChains` and
`CommitmentsFollowRule`. `HeightInv` says the same of the index of commitments by height.

**EvoDbListProofs.** `ListInv`: the diffs and snapshots below each of the three layers are those of the chain
this layer stands for, and an entry of `mnListsCache` is either the list of its block or an empty list of a
block that is not on the chain, or is just being connected and will be removed by `CleanupCache`. That a
list rebuilt from a snapshot is right needs no induction: `GetListForBlock` takes the highest snapshot, and
the diffs above it are the rest of the chain. From it `TipListIsRight`; with the invariants of
`EvoDbProofs`, `EvoIsTheChains`: every key of the committed EvoDB has the value the active chain gave
it. `MinedIsMinableAgain` is an action property of `minable`, from `MinableInv`.

**DKGProofs.** `TypeInv` (`DkgTypeCorrect`); `FinalInv`: what a member has accepted is announced and fits the
contributions it stored (`Accepted`), and the signers of a final commitment have announced premature ones with its key
and members (`Backed`), which stays true when the session is gone. A maker that can verify has accepted at most
one premature commitment of a member for one set of members, so it counts signers when it counts commitments:
`FinalCommitmentsAreSigned`. Two sets of `MinSize` members have `2 * MinSize - |Members|` in common, and whoever signed two final
commitments that differ has committed twice: `OneKeyPerQuorum`.

**DKGTimelyProofs.** `TimelyInv` holds as long as every phase is long enough (`Timely`); it is stated, and
shown for the steps in which a phase is entered or its start function runs, in the second part of
`DKGProofs`. It says of a member at each stage which members are bad in its view and why, as a function of
the messages of the phases that are over (`BadAfter`, `ViewInv`): the code marks members one message at
a time, so this is what makes the order of messages irrelevant. `InStep` says that a member's thread is at
most one phase behind its tip until the session is over, `AllReceived` that when a phase is over for one member all have done their part
in it and hold all its messages, `MessageInv` that a member sends at most one of each kind. Two honest members that are through with a phase thus have the same bad members,
and their premature and final commitments agree (`CommitmentsAgree`, `FinalsAgree`): `HonestSeeTheSame`.
`FairComplaints` (no bad vote is against an honest member), `AnswerInv` (an honest member has answered the complaints
of members that are good in its view) and `ShareInv` (its share is right wherever it was received) give
`HonestStayGood`, and with `MinSize` honest members `HonestMembersFinish`. `DkgAssumption` has
`BadVotes > 0`, as in all parameters of `chainparams.cpp`; with 0 every member would be bad.

Only model-checked:

* liveness (`ThresholdVoteIsRecovered`, `SharesReachEveryone`, `ActivationTerminates`, `LockPrevails`), which
  needs fairness and is out of the prover's reach;
* the InstantSend properties: removal of locks with their children and confirmed locks is a fold over a
  sequence, and what it computes needs induction over data.

## 5. Not modelled

Observed while reading, and left out or exempted in the models: `CQuorumBlockProcessor::ProcessMessage`
drops a commitment from a peer when the stored one has no more signers (`quorums_blockprocessor.cpp:95`),
though it is the better one; `inputRequestIds` is written without `cs` in one place; a ChainLock that arrives
between the check in `ResolveBlockConflicts` and its `InvalidateBlock` is not seen; a
transaction disconnected above a ChainLocked predecessor is not tracked again (`"pprev"`); after one of two locks of
a transaction is removed, `IsLocked` does not find the other, which cannot be stored again either.

Components left out, with reasons, are in `PROJECT.json`: cryptography (ideal signatures here), Spark
and Lelantus state and memory pool (data-heavy, little interleaving beyond `cs_main`), network transport
and bans, sporks and masternode sync (inputs of the models), wallet, RPC and GUI, vendored libraries.
