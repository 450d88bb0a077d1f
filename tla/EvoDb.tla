------------------------------- MODULE EvoDb -------------------------------
(***************************************************************************)
(* EvoDB beside the coins database: CEvoDB with its two nested             *)
(* transactions, the parts of ConnectTip, DisconnectTip, TestBlockValidity *)
(* and FlushStateToDisk that use it, what CQuorumBlockProcessor and        *)
(* CDeterministicMNManager keep in it and cache of it, and the start of a  *)
(* node after a crash.                                                     *)
(*                                                                         *)
(* The main thread holds cs_main throughout; the threads that look up a    *)
(* quorum or the masternode list only take the locks of these classes, and *)
(* read what an open transaction has written.                              *)
(***************************************************************************)
EXTENDS Integers

CONSTANTS
  Blocks, Genesis,
  Parent,          \* Parent[b]: pprev
  Ancestors,       \* Ancestors[b]: b and all blocks below it
  Height,          \* nHeight
  Commitment,      \* Commitment[b]: the quorum commitment in b: "none", "null", "final"
  Signers,         \* Signers[b]: the signers of a final one
  Filtered,        \* blocks that may conflict with an InstantSend lock at times
  MaxSigners,
  DkgInterval, MiningWindow,          \* dkgInterval, dkgMiningWindowStart..End
  DIP0003Height, EnforcementHeight,   \* DIP0003EnforcementHeight
  SnapshotPeriod, ListsCacheSize,     \* SNAPSHOT_LIST_PERIOD, LISTS_CACHE_SIZE
  MaxCrashes, MaxDisconnects,
  NoBlock

ASSUME EvoAssumption ==
  /\ Genesis \in Blocks /\ NoBlock \notin Blocks
  /\ Parent \in [Blocks -> Blocks] /\ Ancestors \in [Blocks -> SUBSET Blocks]
  /\ \A b \in Blocks : b \in Ancestors[b] /\ Genesis \in Ancestors[b]
  /\ \A b \in Blocks \ {Genesis} : Ancestors[b] = {b} \cup Ancestors[Parent[b]]
  /\ Height \in [Blocks -> Nat]
  /\ Height[Genesis] = 0
  /\ \A b \in Blocks \ {Genesis} : Height[b] = Height[Parent[b]] + 1
  /\ \A b \in Blocks : \A a \in Ancestors[b] : a = b \/ Height[a] < Height[b]
  /\ \A b \in Blocks : \A x, y \in Ancestors[b] : x \in Ancestors[y] \/ y \in Ancestors[x]
  /\ \A b \in Blocks : \A a \in Ancestors[b] : Ancestors[a] \subseteq Ancestors[b]
  /\ \A b \in Blocks : \A h \in 0..Height[b] : \E a \in Ancestors[b] : Height[a] = h
  /\ Commitment \in [Blocks -> {"none", "null", "final"}]
  /\ Signers \in [Blocks -> 1..MaxSigners]
  /\ MaxSigners \in Nat \ {0}
  /\ DkgInterval \in Nat \ {0} /\ MaxCrashes \in Nat /\ MaxDisconnects \in Nat
  /\ DIP0003Height \in Nat /\ DIP0003Height >= 2
  /\ EnforcementHeight \in Nat /\ EnforcementHeight >= DIP0003Height
  /\ SnapshotPeriod \in Nat \ {0} /\ ListsCacheSize \in Nat

VARIABLES
  disk,      \* coins: the best block of the coins database; evo: the EvoDB
  root, cur, \* rootDBTransaction, curDBTransaction
  coinsTip,  \* the best block of pcoinsTip, the tip of chainActive
  main,      \* what the main thread is doing
  status,    \* "running", "down", or "dead": it must be reindexed
  mined,     \* hasMinedCommitmentCache
  lists,     \* mnListsCache
  tipIndex,  \* CDeterministicMNManager::tipIndex
  minable,   \* minable[q]: signers of the minable commitment of q, 0 if there is none
  reader,    \* a HasMinedCommitment of another thread
  raced,     \* such a call has overlapped a change of its commitment
  upgraded,  \* UpgradeDBIfNeeded has taken a lost EvoDB for an old one
  early,     \* a list was asked for that is gone, below the height where CleanupCache works
  crashes, disconnects   \* counted for the bounds

dbVars    == <<disk, root, cur, coinsTip>>
cacheVars == <<mined, lists, minable>>
counters  == <<crashes, disconnects>>
vars == <<disk, root, cur, coinsTip, main, status, mined, lists, tipIndex, minable,
          reader, raced, upgraded, early, crashes, disconnects>>

-----------------------------------------------------------------------------
(* CDBTransaction.  A value is a non-empty set of blocks, {} is no value.  *)

Heights == {Height[b] : b \in Blocks}
Best == <<"b_b2", 0>>
BestUpgrade == <<"q_bbu2", 0>>
Keys == {Best, BestUpgrade} \cup ({"q_mc", "dmn_D", "dmn_S"} \X Blocks)
          \cup ({"q_mcih"} \X Heights)

Store == [Keys -> SUBSET Blocks]
Transaction == [writes : Store, deletes : SUBSET Keys]

NoEntries == [k \in Keys |-> {}]
Clean == [writes |-> NoEntries, deletes |-> {}]

Write(tx, k, v) ==
  [writes |-> [tx.writes EXCEPT ![k] = v], deletes |-> tx.deletes \ {k}]
Erase(tx, k) ==
  [writes |-> [tx.writes EXCEPT ![k] = {}], deletes |-> tx.deletes \cup {k}]

\* What is read through tx, when its parent reads as the store s.
View(s, tx) ==
  [k \in Keys |-> IF k \in tx.deletes THEN {}
                  ELSE IF tx.writes[k] # {} THEN tx.writes[k] ELSE s[k]]

\* Commit into another transaction: its deletes are repeated there, then its writes.
CommitInto(tx, target) ==
  [writes |-> [k \in Keys |-> IF tx.writes[k] # {} THEN tx.writes[k]
                              ELSE IF k \in tx.deletes THEN {} ELSE target.writes[k]],
   deletes |-> {k \in target.deletes \cup tx.deletes : tx.writes[k] = {}}]

\* Commit into the batch for the database.
CommitToDisk(tx, s) ==
  [k \in Keys |-> IF tx.writes[k] # {} THEN tx.writes[k]
                  ELSE IF k \in tx.deletes THEN {} ELSE s[k]]

Committed == View(disk.evo, root)
Current == View(Committed, cur)

Has(store, k) == store[k] # {}

\* CEvoDB::VerifyBestBlock and its caller's test, for a step made on a chain that ends
\* in prev and concerning a block of height h.
VerifyBestBlock(store, prev, h) ==
  IF Has(store, Best) THEN store[Best] = {prev} ELSE h < DIP0003Height

-----------------------------------------------------------------------------
(* CQuorumBlockProcessor                                                   *)

MinedCommitment(q) == <<"q_mc", q>>
InversedHeightKey(b) == <<"q_mcih", Height[b]>>

Sessions == {q \in Blocks : Height[q] % DkgInterval = 0}

\* GetQuorumBlockHash: unknown for the first block of a session.
QuorumBlock(b) ==
  {q \in Ancestors[b] \ {b} : Height[q] = Height[b] - (Height[b] % DkgInterval)}

IsMiningPhase(b) == Height[b] % DkgInterval \in MiningWindow

DIP0003Active(b) == Height[b] >= DIP0003Height

\* HasMinedCommitment, for a caller that holds cs_main: the cache, or else the EvoDB.
HasMinedCommitment(q) ==
  IF mined[q] = "unknown" THEN Has(Current, MinedCommitment(q)) ELSE mined[q] = "yes"

Answer(v) == IF v THEN "yes" ELSE "no"

\* Mutant: a commitment that was mined is not asked for.
IsCommitmentRequired_Always(b) == IsMiningPhase(b) /\ QuorumBlock(b) # {}
IsCommitmentRequired(b) ==
  /\ IsMiningPhase(b)
  /\ \E q \in QuorumBlock(b) : ~HasMinedCommitment(q)

\* The verdict of CQuorumBlockProcessor::ProcessBlock.
CommitmentAllowed(b) ==
  DIP0003Active(b) => ((Commitment[b] # "none") <=> IsCommitmentRequired(b))

Mines(b, q) == /\ DIP0003Active(b)
               /\ Commitment[b] = "final"
               /\ q \in QuorumBlock(b)

\* What its ProcessBlock writes when it accepts the block, and what its UndoBlock does.
WriteCommitment(tx, b) ==
  LET Stored(t, q) == Write(Write(t, MinedCommitment(q), {b}), InversedHeightKey(b), {q})
      after == IF \E q \in Blocks : Mines(b, q)
                 THEN Stored(tx, CHOOSE q \in Blocks : Mines(b, q)) ELSE tx
  IN  Write(after, BestUpgrade, {b})
\* Mutant: the entry by height stays.
EraseCommitment_KeepHeight(tx, b) ==
  LET after == IF \E q \in Blocks : Mines(b, q)
                 THEN Erase(tx, MinedCommitment(CHOOSE q \in Blocks : Mines(b, q))) ELSE tx
  IN  Write(after, BestUpgrade, {Parent[b]})
EraseCommitment(tx, b) ==
  LET Erased(t, q) == Erase(Erase(t, MinedCommitment(q)), InversedHeightKey(b))
      after == IF \E q \in Blocks : Mines(b, q)
                 THEN Erased(tx, CHOOSE q \in Blocks : Mines(b, q)) ELSE tx
  IN  Write(after, BestUpgrade, {Parent[b]})

\* hasMinedCommitmentCache after the verdict on b, and after a change of its commitment.
Looked(b) ==
  [q \in Sessions |->
     IF DIP0003Active(b) /\ q \in QuorumBlock(b) THEN Answer(HasMinedCommitment(q)) ELSE mined[q]]
\* Mutant: the cache entry is not erased.
Forget_Not(cache, b) == cache
Forget(cache, b) == [q \in Sessions |-> IF Mines(b, q) THEN "unknown" ELSE cache[q]]

AddMinableCommitment(known, q, n) == [known EXCEPT ![q] = IF n > @ THEN n ELSE @]

-----------------------------------------------------------------------------
(* CDeterministicMNManager.  Every block changes the list, and a list is    *)
(* the set of the blocks whose changes are in it; an empty list is          *)
(* {Genesis}.                                                              *)

Diff(b) == <<"dmn_D", b>>
Snapshot(b) == <<"dmn_S", b>>

NotCached == [height |-> -2, list |-> {}]
Cached(c, b) == c[b] # NotCached

\* Where GetListForBlock(b) stops walking back, and the list it starts from.
BaseOf(c, b) ==
  LET stops == {a \in Ancestors[b] : \/ Cached(c, a)
                                     \/ Has(Current, Snapshot(a))
                                     \/ ~Has(Current, Diff(a))}
  IN  CHOOSE a \in stops : \A x \in stops : Height[x] <= Height[a]
BaseList(c, a) ==
  IF Cached(c, a) THEN c[a]
  ELSE IF Has(Current, Snapshot(a)) THEN [height |-> Height[a], list |-> Current[Snapshot(a)]]
  ELSE [height |-> -1, list |-> {Genesis}]

\* The cache after GetListForBlock(b); the list it returns is the entry of b.
GetListForBlock(c, b) ==
  LET base == BaseOf(c, b)
      path == {a \in Ancestors[b] : Height[a] > Height[base]}
  IN  [a \in Blocks |->
         IF a \in path
           THEN [height |-> Height[a],
                 list |-> BaseList(c, base).list \cup {x \in path : x \in Ancestors[a]}]
         ELSE IF a = base THEN BaseList(c, base) ELSE c[a]]

\* Mutant: nothing is cleaned up.
CleanupCache_Not(c, h) == c
CleanupCache(c, h) ==
  [a \in Blocks |-> IF c[a].height + ListsCacheSize < h THEN NotCached ELSE c[a]]

\* What its ProcessBlock writes for b, given the cache after GetListForBlock(Parent[b]).
WriteList(tx, c, b) ==
  LET old == c[Parent[b]]
      withDiff == Write(tx, Diff(b), {b})
  IN  IF Height[b] % SnapshotPeriod = 0 \/ old.height = -1
        THEN Write(withDiff, Snapshot(b), old.list \cup {b})
        ELSE withDiff
EraseList(tx, b) == Erase(Erase(tx, Diff(b)), Snapshot(b))

-----------------------------------------------------------------------------
Idle == [op |-> "idle", block |-> NoBlock, step |-> "none"]
At(op, b, step) == [op |-> op, block |-> b, step |-> step]
NoReader == [quorum |-> NoBlock, found |-> FALSE]

Init ==
  /\ disk = [coins |-> Genesis, evo |-> NoEntries]
  /\ root = Clean /\ cur = Clean
  /\ coinsTip = Genesis
  /\ main = Idle
  /\ status = "running"
  /\ mined = [q \in Sessions |-> "unknown"]
  /\ lists = [b \in Blocks |-> NotCached]
  /\ tipIndex = Genesis
  /\ minable = [q \in Sessions |-> 0]
  /\ reader = NoReader
  /\ raced = FALSE /\ upgraded = FALSE /\ early = FALSE
  /\ crashes = 0 /\ disconnects = 0

Running == status = "running"

\* An assertion fails, or the node asks to be reindexed and shuts down.
Die ==
  /\ status' = "dead"
  /\ main' = Idle
  /\ UNCHANGED <<dbVars, cacheVars, tipIndex, reader, raced, upgraded, early, counters>>

-----------------------------------------------------------------------------
(* ConnectTip (op = "connect") and TestBlockValidity (op = "test")         *)

\* The transaction begins; CQuorumBlockProcessor::ProcessBlock.
BeginConnect(op, b) ==
  /\ Running /\ main = Idle
  /\ b # Genesis /\ coinsTip = Parent[b]
  /\ IF cur # Clean \/ ~VerifyBestBlock(Current, Parent[b], Height[b])
       THEN Die
       ELSE /\ IF CommitmentAllowed(b)
                 THEN /\ cur' = WriteCommitment(cur, b)
                      /\ mined' = Forget(Looked(b), b)
                      /\ lists' = IF \E q \in Blocks : Mines(b, q)
                                    THEN GetListForBlock(lists, CHOOSE q \in Blocks : Mines(b, q))
                                    ELSE lists
                      /\ main' = At(op, b, IF DIP0003Active(b) THEN "list" ELSE "end")
                 ELSE /\ mined' = Looked(b)   \* the block is rejected
                      /\ UNCHANGED <<cur, lists, main>>
            /\ UNCHANGED <<disk, root, coinsTip, status, tipIndex, minable, reader, raced,
                           upgraded, early, counters>>

\* CDeterministicMNManager::ProcessBlock, to where it releases its lock.
ConnectList ==
  /\ Running /\ main.op \in {"connect", "test"} /\ main.step = "list"
  /\ lists' = GetListForBlock(lists, Parent[main.block])
  /\ IF main.op = "connect"
       THEN /\ cur' = WriteList(cur, lists', main.block)
            /\ main' = [main EXCEPT !.step = "cleanup"]
       ELSE /\ main' = [main EXCEPT !.step = "end"]
            /\ UNCHANGED cur
  /\ UNCHANGED <<disk, root, coinsTip, status, mined, tipIndex, minable, reader, raced,
                 upgraded, early, counters>>

ConnectCleanup ==
  /\ Running /\ main.op = "connect" /\ main.step = "cleanup"
  /\ lists' = CleanupCache(lists, Height[main.block])
  /\ main' = [main EXCEPT !.step = "end"]
  /\ UNCHANGED <<dbVars, status, mined, tipIndex, minable, reader, raced, upgraded, early, counters>>

\* Mutant: ConnectBlock returns without WriteBestBlock.
EndConnect_NoBestBlock ==
  /\ Running /\ main.op \in {"connect", "test"} /\ main.step = "end"
  /\ \/ /\ main.op = "connect"
        /\ root' = CommitInto(cur, root)
        /\ coinsTip' = main.block
     \/ /\ main.op = "test" \/ main.block \in Filtered
        /\ UNCHANGED <<root, coinsTip>>
  /\ cur' = Clean
  /\ main' = Idle
  /\ UNCHANGED <<disk, status, cacheVars, tipIndex, reader, raced, upgraded, early, counters>>

\* Mutant: the transaction is not cleared when it is not committed.
EndConnect_NoRollback ==
  /\ Running /\ main.op \in {"connect", "test"} /\ main.step = "end"
  /\ \/ /\ main.op = "connect"
        /\ root' = CommitInto(Write(cur, Best, {main.block}), root)
        /\ coinsTip' = main.block
        /\ cur' = Clean
     \/ /\ main.op = "test" \/ main.block \in Filtered
        /\ UNCHANGED <<root, coinsTip, cur>>
  /\ main' = Idle
  /\ UNCHANGED <<disk, status, cacheVars, tipIndex, reader, raced, upgraded, early, counters>>

\* WriteBestBlock and the commit, or the rollback of a test or of a block that the
\* InstantSend filter rejects.
EndConnect ==
  /\ Running /\ main.op \in {"connect", "test"} /\ main.step = "end"
  /\ \/ /\ main.op = "connect"
        /\ root' = CommitInto(Write(cur, Best, {main.block}), root)
        /\ coinsTip' = main.block
     \/ /\ main.op = "test" \/ main.block \in Filtered
        /\ UNCHANGED <<root, coinsTip>>
  /\ cur' = Clean
  /\ main' = Idle
  /\ UNCHANGED <<disk, status, cacheVars, tipIndex, reader, raced, upgraded, early, counters>>

-----------------------------------------------------------------------------
(* DisconnectTip                                                           *)

\* The transaction begins; CDeterministicMNManager::UndoBlock.
BeginDisconnect ==
  /\ Running /\ main = Idle
  /\ coinsTip # Genesis /\ disconnects < MaxDisconnects
  /\ LET filled == GetListForBlock(GetListForBlock(lists, coinsTip), Parent[coinsTip])
     IN  IF cur # Clean \/ ~VerifyBestBlock(Current, coinsTip, Height[coinsTip])
           THEN Die
           ELSE /\ cur' = EraseList(cur, coinsTip)
                /\ lists' = [(IF Has(Current, Diff(coinsTip)) THEN filled ELSE lists)
                               EXCEPT ![coinsTip] = NotCached]
                /\ disconnects' = disconnects + 1
                /\ main' = At("disconnect", coinsTip, "quorum")
                /\ UNCHANGED <<disk, root, coinsTip, status, mined, tipIndex, minable,
                               reader, raced, upgraded, early, crashes>>

\* Mutant: the commitment of the disconnected block is not kept.
DisconnectQuorum_Forgotten ==
  /\ Running /\ main.op = "disconnect" /\ main.step = "quorum"
  /\ LET b == main.block
     IN  /\ cur' = EraseCommitment(cur, b)
         /\ mined' = Forget(mined, b)
  /\ main' = [main EXCEPT !.step = "end"]
  /\ UNCHANGED <<disk, root, coinsTip, status, lists, minable, tipIndex, reader, raced,
                 upgraded, early, counters>>

\* CQuorumBlockProcessor::UndoBlock
DisconnectQuorum ==
  /\ Running /\ main.op = "disconnect" /\ main.step = "quorum"
  /\ LET b == main.block
     IN  /\ cur' = EraseCommitment(cur, b)
         /\ mined' = Forget(mined, b)
         /\ minable' = [q \in Sessions |->
              IF Mines(b, q) THEN AddMinableCommitment(minable, q, Signers[b])[q]
              ELSE minable[q]]
  /\ main' = [main EXCEPT !.step = "end"]
  /\ UNCHANGED <<disk, root, coinsTip, status, lists, tipIndex, reader, raced, upgraded, early,
                 counters>>

EndDisconnect ==
  /\ Running /\ main.op = "disconnect" /\ main.step = "end"
  /\ root' = CommitInto(Write(cur, Best, {Parent[main.block]}), root)
  /\ cur' = Clean
  /\ coinsTip' = Parent[main.block]
  /\ main' = Idle
  /\ UNCHANGED <<disk, status, cacheVars, tipIndex, reader, raced, upgraded, early, counters>>

-----------------------------------------------------------------------------
(* FlushStateToDisk, when it flushes the caches                            *)

FlushCoins ==
  /\ Running /\ main = Idle
  /\ disk' = [disk EXCEPT !.coins = coinsTip]
  /\ main' = At("flush", coinsTip, "evo")
  /\ UNCHANGED <<root, cur, coinsTip, status, cacheVars, tipIndex, reader, raced, upgraded, early,
                 counters>>

\* CommitRootTransaction
FlushEvo ==
  /\ Running /\ main.op = "flush"
  /\ IF cur # Clean
       THEN Die
       ELSE /\ disk' = [disk EXCEPT !.evo = CommitToDisk(root, @)]
            /\ root' = Clean
            /\ main' = Idle
            /\ UNCHANGED <<cur, coinsTip, status, cacheVars, tipIndex, reader, raced,
                           upgraded, early, counters>>

-----------------------------------------------------------------------------
(* The node stops at any moment, and starts again                          *)

Crash ==
  /\ Running /\ crashes < MaxCrashes
  /\ status' = "down"
  /\ crashes' = crashes + 1
  /\ root' = Clean /\ cur' = Clean
  /\ coinsTip' = disk.coins
  /\ main' = Idle
  /\ mined' = [q \in Sessions |-> "unknown"]
  /\ lists' = [b \in Blocks |-> NotCached]
  /\ tipIndex' = NoBlock
  /\ minable' = [q \in Sessions |-> 0]
  /\ reader' = NoReader
  /\ UNCHANGED <<disk, raced, upgraded, early, disconnects>>

ActiveAt(h) == {b \in Ancestors[coinsTip] : Height[b] >= h}

\* UpgradeDBIfNeeded, committed by the flush at the end of RewindBlockIndex: an EvoDB
\* without a best block is taken for one of the old format, of which no diff is found.
UpgradeDBIfNeeded(evo) ==
  IF Has(evo, Best) THEN evo
  ELSE [k \in Keys |->
          IF k = Best THEN {coinsTip}
          ELSE IF \E b \in ActiveAt(DIP0003Height) :
                    k = Snapshot(b) /\ Height[b] % SnapshotPeriod = 0 THEN {Genesis}
          ELSE evo[k]]

\* CQuorumBlockProcessor::UpgradeDB
UpgradeDB(evo) ==
  LET blocks == ActiveAt(EnforcementHeight)
      MinedBy(b, q) == b \in blocks /\ Mines(b, q)
  IN  IF evo[BestUpgrade] = {coinsTip} \/ blocks = {} THEN evo
      ELSE [k \in Keys |->
              IF k = BestUpgrade THEN {coinsTip}
              ELSE IF \E b \in blocks, q \in Sessions : MinedBy(b, q) /\ k = MinedCommitment(q)
                THEN {b \in blocks : \E q \in Sessions : MinedBy(b, q) /\ k = MinedCommitment(q)}
              ELSE IF \E b \in blocks, q \in Sessions : MinedBy(b, q) /\ k = InversedHeightKey(b)
                THEN {q \in Sessions : \E b \in blocks : MinedBy(b, q) /\ k = InversedHeightKey(b)}
              ELSE evo[k]]

\* The commitments that the disconnections of VerifyDB, all rolled back, leave minable.
VerifiedMinable(q) ==
  LET signers == {Signers[b] : b \in {x \in Ancestors[coinsTip] : Mines(x, q)}}
  IN  IF signers = {} THEN 0 ELSE CHOOSE n \in signers : \A m \in signers : m <= n

\* AppInit2: LoadBlockIndexDB, UpgradeDBIfNeeded, RewindBlockIndex, VerifyDB (which
\* returns at once for the genesis block), UpgradeDB, InitializeCurrentBlockTip.
Start ==
  /\ status = "down"
  /\ LET evo == UpgradeDBIfNeeded(disk.evo)
         verified == coinsTip = Genesis \/ VerifyBestBlock(evo, coinsTip, Height[coinsTip])
     IN  /\ disk' = [disk EXCEPT !.evo = IF verified THEN UpgradeDB(evo) ELSE evo]
         /\ upgraded' = (upgraded \/ (~Has(disk.evo, Best) /\ DIP0003Active(coinsTip)))
         /\ status' = IF verified THEN "running" ELSE "dead"
         /\ minable' = [q \in Sessions |-> IF verified THEN VerifiedMinable(q) ELSE 0]
         /\ tipIndex' = IF verified THEN coinsTip ELSE NoBlock
  /\ UNCHANGED <<root, cur, coinsTip, main, mined, lists, reader, raced, early, counters>>

-----------------------------------------------------------------------------
(* Other threads, without cs_main                                          *)

\* HasMinedCommitment, called through CQuorumManager::HasQuorum: the cache is looked up,
\* the EvoDB is read, and later the answer is put into the cache.
ReaderLookup(q) ==
  /\ Running /\ reader = NoReader
  /\ mined[q] = "unknown"
  /\ reader' = [quorum |-> q, found |-> Has(Current, MinedCommitment(q))]
  /\ UNCHANGED <<dbVars, main, status, cacheVars, tipIndex, raced, upgraded, early, counters>>

ReaderStore ==
  /\ Running /\ reader # NoReader
  /\ LET q == reader.quorum
         new == mined[q] = "unknown"
         overtaken == \E s \in {Current, Committed} :
                        reader.found # Has(s, MinedCommitment(q))
     IN  /\ mined' = [mined EXCEPT ![q] = IF new THEN Answer(reader.found) ELSE @]
         /\ raced' = (raced \/ (new /\ overtaken))
  /\ reader' = NoReader
  /\ UNCHANGED <<dbVars, main, status, lists, tipIndex, minable, upgraded, early, counters>>

\* CDeterministicMNManager::UpdatedBlockTip and GetListAtChainTip
UpdatedBlockTip ==
  /\ Running /\ tipIndex # coinsTip
  /\ tipIndex' = coinsTip
  /\ UNCHANGED <<dbVars, main, status, cacheVars, reader, raced, upgraded, early, counters>>

GetListAtChainTip ==
  /\ Running /\ tipIndex # NoBlock
  /\ lists' = GetListForBlock(lists, tipIndex)
  /\ lists' # lists
  /\ early' = (early \/ (Height[tipIndex] \in DIP0003Height..(ListsCacheSize - 1)
                            /\ lists'[tipIndex].height = -1))
  /\ UNCHANGED <<dbVars, main, status, mined, tipIndex, minable, reader, raced, upgraded,
                 counters>>

\* A commitment from the node's own session, and one from a peer.
FinalizeCommitment(q, n) ==
  /\ Running /\ q \in Ancestors[coinsTip]
  /\ minable' = AddMinableCommitment(minable, q, n)
  /\ minable' # minable
  /\ UNCHANGED <<dbVars, main, status, mined, lists, tipIndex, reader, raced, upgraded, early,
                 counters>>

ProcessMessage(q, n) ==
  /\ Running /\ q \in Ancestors[coinsTip]
  /\ ~(minable[q] # 0 /\ minable[q] <= n)   \* "already got a better one"
  /\ minable' = AddMinableCommitment(minable, q, n)
  /\ minable' # minable
  /\ UNCHANGED <<dbVars, main, status, mined, lists, tipIndex, reader, raced, upgraded, early,
                 counters>>

-----------------------------------------------------------------------------
MainThread ==
  \/ \E op \in {"connect", "test"}, b \in Blocks : BeginConnect(op, b)
  \/ ConnectList \/ ConnectCleanup \/ EndConnect
  \/ BeginDisconnect \/ DisconnectQuorum \/ EndDisconnect
  \/ FlushCoins \/ FlushEvo

OtherThreads ==
  \/ \E q \in Sessions : ReaderLookup(q)
  \/ ReaderStore \/ UpdatedBlockTip \/ GetListAtChainTip
  \/ \E q \in Sessions, n \in 1..MaxSigners : FinalizeCommitment(q, n) \/ ProcessMessage(q, n)

Next == MainThread \/ OtherThreads \/ Crash \/ Start

EvoSpec == Init /\ [][Next]_vars

-----------------------------------------------------------------------------
EvoTypeOK ==
  /\ disk \in [coins : Blocks, evo : Store]
  /\ root \in Transaction /\ cur \in Transaction
  /\ coinsTip \in Blocks
  /\ main \in [op : {"idle", "connect", "test", "disconnect", "flush"},
               block : Blocks \cup {NoBlock},
               step : {"none", "list", "cleanup", "quorum", "end", "evo"}]
  /\ status \in {"running", "down", "dead"}
  /\ mined \in [Sessions -> {"unknown", "yes", "no"}]
  /\ lists \in [Blocks -> [height : Int, list : SUBSET Blocks]]
  /\ tipIndex \in Blocks \cup {NoBlock}
  /\ minable \in [Sessions -> 0..MaxSigners]
  /\ reader \in [quorum : Sessions \cup {NoBlock}, found : BOOLEAN]
  /\ {raced, upgraded, early} \subseteq BOOLEAN
  /\ crashes \in 0..MaxCrashes /\ disconnects \in 0..MaxDisconnects

\* A running node's EvoDB, read through its transactions, names the block that its coins
\* name: the two are never one block apart after a commit, a rolled back test, or a start
\* after a crash.  (The genesis block writes nothing, and VerifyDB does not look at it.)
BestBlocksAgree ==
  status = "running" /\ coinsTip # Genesis => Committed[Best] = {coinsTip}

\* The node asserts, or asks to be reindexed, only when a crash between the two writes of
\* FlushStateToDisk really left the two databases on disk at different blocks.
DeadOnlyIfTorn ==
  status = "dead" => Has(disk.evo, Best) /\ disk.evo[Best] # {disk.coins}

\* What the EvoDB holds when it is the EvoDB of the chain that ends in tip.
ListOf(b) == {Genesis} \cup {a \in Ancestors[b] : DIP0003Active(a)}
EvoOf(tip) ==
  LET chain == ActiveAt(DIP0003Height)
      SnapshotDue(b) == Height[b] % SnapshotPeriod = 0 \/ Height[b] = DIP0003Height
  IN  [k \in Keys |->
         IF k \in {Best, BestUpgrade} THEN {tip}
         ELSE IF k[1] = "dmn_D" THEN {k[2]} \cap chain
         ELSE IF k[1] = "dmn_S" THEN UNION {ListOf(b) : b \in {x \in chain \cap {k[2]} : SnapshotDue(x)}}
         ELSE IF k[1] = "q_mc" THEN {b \in chain : Mines(b, k[2])}
         ELSE {q \in Blocks : \E b \in chain : Mines(b, q) /\ Height[b] = k[2]}]

Settled == status = "running" /\ main = Idle

\* Between two operations of the main thread, the EvoDB holds exactly what the active
\* chain put there: nothing of a disconnected, rejected or only tested block remains, and
\* nothing is missing, whatever was flushed, lost in a crash and reapplied.
EvoMatchesChain ==
  Settled /\ DIP0003Active(coinsTip) /\ ~raced /\ ~upgraded /\ ~early =>
    Committed = EvoOf(coinsTip)

\* "there is always a (possibly null) commitment while in the mining phase until the first
\* non-null commitment has been mined. After the non-null commitment, no other commitments
\* are allowed": on the active chain, however it was reached.
CommitmentRule ==
  status = "running" /\ ~raced /\ ~upgraded =>
    \A b \in ActiveAt(DIP0003Height) :
      (Commitment[b] # "none") <=>
        /\ IsMiningPhase(b)
        /\ \E q \in QuorumBlock(b) : \A a \in Ancestors[b] \ {b} : ~Mines(a, q)

\* hasMinedCommitmentCache agrees with the EvoDB, unless a lookup was overtaken.
CacheAgrees ==
  Settled /\ ~raced =>
    \A q \in Sessions :
      mined[q] # "unknown" => mined[q] = Answer(Has(Committed, MinedCommitment(q)))

\* The masternode list of the tip is the one its blocks define, though other threads fill
\* mnListsCache in the middle of a disconnection, when the list of their tip is gone: the
\* empty list they leave there is removed by CleanupCache when the block is connected again,
\* unless its height is below LISTS_CACHE_SIZE.
ListIsRight ==
  Settled /\ ~upgraded /\ ~early =>
    GetListForBlock(lists, coinsTip)[coinsTip].list = ListOf(coinsTip)

\* "if a reorg happened, we should allow to mine this commitment later": once the block
\* that mined a commitment is disconnected there is one to mine, and a running node never
\* replaces a commitment by one with fewer signers.
CommitmentStaysMinable ==
  [][status = "running" /\ status' = "running" =>
       \A q \in Sessions :
         /\ minable'[q] >= minable[q]
         /\ Mines(coinsTip, q) /\ coinsTip' = Parent[coinsTip] => minable'[q] # 0]_vars
=============================================================================
