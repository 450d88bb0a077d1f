---------------------------- MODULE EvoDbProofs ----------------------------
(***************************************************************************)
(* For every tree of blocks, every number of crashes and every order of    *)
(* the steps: commits do not change what is read, a running node's EvoDB   *)
(* names the block of its coins, and a node only refuses to go on when its *)
(* disk was torn.                                                          *)
(*                                                                         *)
(* As long as no lookup of another thread was overtaken and no lost EvoDB  *)
(* was taken for an old one: the commitments in the EvoDB are those of the *)
(* active chain, the cache agrees with them, and the chain keeps the rule  *)
(* that CQuorumBlockProcessor::ProcessBlock states.  The inductive         *)
(* invariant of the entries by height and of the upgrade mark is here too; *)
(* EvoDbListProofs uses it for the whole EvoDB.                            *)
(***************************************************************************)
EXTENDS EvoDb, TLAPS

-----------------------------------------------------------------------------
(* Transactions                                                            *)

\* A transaction maps every key; the values do not matter here.
Maps(tx) == tx = [writes |-> [k \in Keys |-> tx.writes[k]], deletes |-> tx.deletes]

\* No key is both written and deleted.
Disjoint(tx) == \A k \in Keys : k \in tx.deletes => tx.writes[k] = {}

LEMMA BestIsKey == Best \in Keys
  BY Zenon DEF Keys

LEMMA CleanMaps == Maps(Clean) /\ Disjoint(Clean)
  BY Zenon DEF Maps, Clean, NoEntries, Disjoint

\* Write and Erase keep the form of a transaction, and a write is there afterwards.
LEMMA WriteMaps ==
  ASSUME NEW tx, Maps(tx), NEW k, NEW v
  PROVE  /\ Maps(Write(tx, k, v))
         /\ k \in Keys => Write(tx, k, v).writes[k] = v
  BY DEF Maps, Write

LEMMA EraseMaps ==
  ASSUME NEW tx, Maps(tx), NEW k
  PROVE  Maps(Erase(tx, k))
  BY DEF Maps, Erase

LEMMA CommitMaps ==
  ASSUME NEW tx, NEW target
  PROVE  Maps(CommitInto(tx, target))
  BY Zenon DEF Maps, CommitInto

\* Committing a transaction into its parent, or to disk, does not change what is read:
\* CDBTransaction::Commit erases first and writes afterwards, which is right as long as
\* Write and Erase keep the two sets apart.
THEOREM CommitIsTransparent ==
  ASSUME NEW s, NEW tx, NEW target, Disjoint(tx)
  PROVE  /\ View(s, CommitInto(tx, target)) = View(View(s, target), tx)
         /\ CommitToDisk(tx, s) = View(s, tx)
  <1>1. ASSUME NEW k \in Keys
        PROVE  View(s, CommitInto(tx, target))[k] = View(View(s, target), tx)[k]
    BY Zenon, <1>1 DEF View, CommitInto, Disjoint
  <1>2. ASSUME NEW k \in Keys
        PROVE  CommitToDisk(tx, s)[k] = View(s, tx)[k]
    BY Zenon, <1>2 DEF View, CommitToDisk, Disjoint
  <1>3. View(s, CommitInto(tx, target)) = View(View(s, target), tx)
    BY Zenon, <1>1 DEF View
  <1>4. CommitToDisk(tx, s) = View(s, tx)
    BY Zenon, <1>2 DEF View, CommitToDisk
  <1>. QED
    BY Zenon, <1>3, <1>4

\* Write and Erase do keep them apart, and so does a commit into the parent.
LEMMA WriteDisjoint ==
  ASSUME NEW tx, Maps(tx), Disjoint(tx), NEW k, NEW v
  PROVE  Disjoint(Write(tx, k, v))
  BY DEF Maps, Write, Disjoint

LEMMA EraseDisjoint ==
  ASSUME NEW tx, Maps(tx), Disjoint(tx), NEW k
  PROVE  Disjoint(Erase(tx, k))
  BY DEF Maps, Erase, Disjoint

LEMMA CommitDisjoint ==
  ASSUME NEW tx, NEW target, Disjoint(tx), Disjoint(target)
  PROVE  Disjoint(CommitInto(tx, target))
  BY Zenon DEF CommitInto, Disjoint

-----------------------------------------------------------------------------
(* What the block processors do to a transaction                           *)

Good(tx) == Maps(tx) /\ Disjoint(tx)

LEMMA WriteGood ==
  ASSUME NEW tx, Good(tx), NEW k, NEW v
  PROVE  Good(Write(tx, k, v))
  BY Zenon, WriteMaps, WriteDisjoint DEF Good

LEMMA EraseGood ==
  ASSUME NEW tx, Good(tx), NEW k
  PROVE  Good(Erase(tx, k))
  BY Zenon, EraseMaps, EraseDisjoint DEF Good

LEMMA CommitmentGood ==
  ASSUME NEW tx, Good(tx), NEW b
  PROVE  Good(WriteCommitment(tx, b)) /\ Good(EraseCommitment(tx, b))
  BY Zenon, WriteGood, EraseGood DEF WriteCommitment, EraseCommitment

LEMMA ListGood ==
  ASSUME NEW tx, Good(tx), NEW c, NEW b
  PROVE  Good(WriteList(tx, c, b)) /\ Good(EraseList(tx, b))
  BY Zenon, WriteGood, EraseGood DEF WriteList, EraseList

\* The commit at the end of a connection or a disconnection: its last write was the best
\* block, which is what is read afterwards.
LEMMA CommitBest ==
  ASSUME NEW tx, Good(tx), NEW target, Good(target), NEW v, v # {}, NEW s
  PROVE  /\ Good(CommitInto(Write(tx, Best, v), target))
         /\ View(s, CommitInto(Write(tx, Best, v), target))[Best] = v
  <1> DEFINE w == Write(tx, Best, v)
             after == CommitInto(w, target)
  <1>1. Good(w) /\ w.writes[Best] = v
    BY WriteGood, WriteMaps, BestIsKey DEF Good
  <1>2. Good(after)
    BY Zenon, <1>1, CommitMaps, CommitDisjoint DEF Good
  <1>3. after.writes[Best] = v /\ Best \notin after.deletes
    BY Zenon, <1>1, BestIsKey DEF CommitInto
  <1>4. View(s, after)[Best] = v
    BY Zenon, <1>3, BestIsKey DEF View
  <1>. QED
    BY Zenon, <1>2, <1>4

-----------------------------------------------------------------------------
(* The inductive invariant                                                 *)

\* What the main thread is in the middle of.
MainOK ==
  /\ main.op \in {"idle", "flush"} => cur = Clean
  /\ main.op \in {"connect", "test"} => main.block \in Blocks \ {Genesis}
  /\ main.op = "disconnect" => main.block \in Blocks \ {Genesis}
  /\ main.op = "flush" => coinsTip = disk.coins

\* The third case is a torn disk with the coins at the genesis block, which a start does
\* not notice and the next connection does.
BestOK ==
  \/ Committed[Best] = {coinsTip}
  \/ coinsTip = Genesis /\ Committed[Best] = {}
  \/ /\ coinsTip = Genesis /\ disk.coins = Genesis /\ root = Clean
     /\ Has(disk.evo, Best) /\ disk.evo[Best] # {Genesis}
     /\ main.op \in {"idle", "flush"}

EvoInv ==
  /\ disk = [coins |-> disk.coins, evo |-> disk.evo]
  /\ disk.coins \in Blocks /\ coinsTip \in Blocks
  /\ main = At(main.op, main.block, main.step)
  /\ Good(root) /\ Good(cur)
  /\ status \in {"running", "down", "dead"}
  /\ status = "running" => MainOK /\ BestOK
  /\ status = "down" => root = Clean /\ cur = Clean /\ coinsTip = disk.coins /\ main = Idle
  /\ DeadOnlyIfTorn

LEMMA EvoInvInit == Init => EvoInv
  <1> SUFFICES ASSUME Init PROVE EvoInv
    OBVIOUS
  <1>1. Committed[Best] = {}
    BY Zenon, BestIsKey DEF Init, Committed, View, Clean, NoEntries
  <1>2. Good(Clean)
    BY Zenon, CleanMaps DEF Good
  <1>. QED
    BY Zenon, <1>1, <1>2, EvoAssumption DEF Init, EvoInv, MainOK, BestOK, DeadOnlyIfTorn, Idle, At

\* When the node dies, EvoDB and coins disagreed, and then the disk is torn: an operation
\* of a running node on chain prev dies only in the third case of BestOK.
LEMMA DieTorn ==
  ASSUME EvoInv, status = "running", main = Idle,
         NEW h \in Nat, h >= DIP0003Height => coinsTip # Genesis,
         cur # Clean \/ ~VerifyBestBlock(Current, coinsTip, h)
  PROVE  Has(disk.evo, Best) /\ disk.evo[Best] # {disk.coins}
  <1>1. cur = Clean
    BY Zenon DEF EvoInv, MainOK, Idle
  <1>2. Current[Best] = Committed[Best]
    BY Zenon, <1>1, BestIsKey DEF Current, View, Clean, NoEntries, Committed
  <1>3. ~(Committed[Best] = {coinsTip})
    BY Zenon, <1>1, <1>2 DEF VerifyBestBlock, Has
  <1>4. ~(coinsTip = Genesis /\ Committed[Best] = {})
    BY <1>1, <1>2, EvoAssumption DEF VerifyBestBlock, Has
  <1>. QED
    BY Zenon, <1>3, <1>4 DEF EvoInv, BestOK

\* Otherwise the third case is excluded.
LEMMA VerifiedBest ==
  ASSUME EvoInv, status = "running", main = Idle,
         NEW h \in Nat, VerifyBestBlock(Current, coinsTip, h)
  PROVE  \/ Committed[Best] = {coinsTip}
         \/ coinsTip = Genesis /\ Committed[Best] = {}
  <1>1. cur = Clean
    BY Zenon DEF EvoInv, MainOK, Idle
  <1>2. Current[Best] = Committed[Best]
    BY Zenon, <1>1, BestIsKey DEF Current, View, Clean, NoEntries, Committed
  <1>3. root = Clean => Committed[Best] = disk.evo[Best]
    BY BestIsKey DEF View, Clean, NoEntries, Committed
  <1>. QED
    BY Zenon, <1>2, <1>3 DEF EvoInv, BestOK, VerifyBestBlock, Has

\* The steps of other threads, and those of the main thread that only touch caches.
LEMMA QuietStep ==
  ASSUME EvoInv, UNCHANGED <<dbVars, status>>,
         \/ UNCHANGED main
         \/ /\ main.op \in {"connect", "test", "disconnect"}
            /\ main' = [main EXCEPT !.step = "end"]
  PROVE  EvoInv'
  <1>1. Committed' = Committed
    BY Zenon DEF Committed, dbVars
  <1>2. /\ main' = At(main'.op, main'.block, main'.step)
        /\ main'.op = main.op /\ main'.block = main.block
    BY Zenon DEF EvoInv, At
  <1>3. status = "down" => UNCHANGED main
    BY DEF EvoInv, Idle
  <1>4. (Good(root) /\ Good(cur))'
    BY Zenon DEF EvoInv, dbVars, Good, Maps, Disjoint
  <1>5. MainOK => MainOK'
    BY Zenon, <1>2 DEF MainOK, dbVars
  <1>6. BestOK => BestOK'
    BY Zenon, <1>1, <1>2 DEF BestOK, dbVars
  <1>7. DeadOnlyIfTorn'
    BY Zenon DEF EvoInv, DeadOnlyIfTorn, dbVars
  <1>. QED
    BY Zenon, <1>2, <1>3, <1>4, <1>5, <1>6, <1>7 DEF EvoInv, dbVars, Idle

LEMMA DieStep ==
  ASSUME EvoInv, Die, Has(disk.evo, Best) /\ disk.evo[Best] # {disk.coins}
  PROVE  EvoInv'
  <1>1. (Good(root) /\ Good(cur))'
    BY Zenon DEF EvoInv, Die, dbVars, Good, Maps, Disjoint
  <1>2. DeadOnlyIfTorn'
    BY Zenon DEF Die, DeadOnlyIfTorn, dbVars
  <1>. QED
    BY Zenon, <1>1, <1>2 DEF EvoInv, Die, dbVars, Idle, At

LEMMA HeightPositive ==
  ASSUME NEW b \in Blocks, b # Genesis
  PROVE  /\ Height[b] \in Nat /\ Parent[b] \in Blocks
         /\ Height[b] >= DIP0003Height => Parent[b] # Genesis
  BY EvoAssumption

\* A step that opens or extends the transaction of main'.block.
LEMMA OpenStep ==
  ASSUME EvoInv, status = "running", UNCHANGED <<disk, root, coinsTip, status>>,
         Good(cur)', main' = At(main'.op, main'.block, main'.step),
         main'.op \in {"connect", "test", "disconnect"}, main'.block \in Blocks \ {Genesis},
         \/ Committed[Best] = {coinsTip}
         \/ coinsTip = Genesis /\ Committed[Best] = {}
  PROVE  EvoInv'
  <1>1. Committed' = Committed
    BY Zenon DEF Committed
  <1>2. Good(root)'
    BY Zenon DEF EvoInv, Good, Maps, Disjoint
  <1>3. MainOK' /\ BestOK'
    BY Zenon, <1>1 DEF MainOK, BestOK
  <1>4. DeadOnlyIfTorn'
    BY Zenon DEF DeadOnlyIfTorn
  <1>. QED
    BY Zenon, <1>2, <1>3, <1>4 DEF EvoInv

\* A step that ends it with a commit or with a rollback.
LEMMA CloseStep ==
  ASSUME EvoInv, status = "running", UNCHANGED <<disk, status>>,
         main' = Idle, cur' = Clean, coinsTip' \in Blocks, Good(root)',
         \/ Committed'[Best] = {coinsTip'}
         \/ coinsTip' = Genesis /\ Committed'[Best] = {}
  PROVE  EvoInv'
  <1>1. Good(cur)'
    BY Zenon, CleanMaps DEF Good, Maps, Disjoint
  <1>2. MainOK' /\ BestOK'
    BY Zenon DEF MainOK, BestOK, Idle
  <1>3. DeadOnlyIfTorn'
    BY Zenon DEF DeadOnlyIfTorn
  <1>. QED
    BY Zenon, <1>1, <1>2, <1>3 DEF EvoInv, Idle, At

\* Inside an operation, the third case of BestOK is excluded.
LEMMA OpenBest ==
  ASSUME EvoInv, status = "running", main.op \in {"connect", "test", "disconnect"}
  PROVE  \/ Committed[Best] = {coinsTip}
         \/ coinsTip = Genesis /\ Committed[Best] = {}
  BY Zenon DEF EvoInv, BestOK

\* What the two operations do when EvoDB and coins agree.
LEMMA BeginConnectDoes ==
  ASSUME NEW op, NEW b, BeginConnect(op, b), CommitmentAllowed(b),
         ~(cur # Clean \/ ~VerifyBestBlock(Current, Parent[b], Height[b]))
  PROVE  /\ cur' = WriteCommitment(cur, b) /\ main'.op = op /\ main'.block = b
         /\ main'.step = IF DIP0003Active(b) THEN "list" ELSE "end"
  <1> DEFINE step == IF DIP0003Active(b) THEN "list" ELSE "end"
  <1>1. cur' = WriteCommitment(cur, b) /\ main' = At(op, b, step)
    BY Zenon DEF BeginConnect
  <1> HIDE DEF step
  <1>2. main'.op = op /\ main'.block = b /\ main'.step = step
    BY ONLY Zenon, <1>1 DEF At
  <1>. QED
    BY Zenon, <1>1, <1>2 DEF step

LEMMA BeginDisconnectDoes ==
  ASSUME BeginDisconnect, ~(cur # Clean \/ ~VerifyBestBlock(Current, coinsTip, Height[coinsTip]))
  PROVE  /\ UNCHANGED <<disk, root, coinsTip, status>> /\ cur' = EraseList(cur, coinsTip)
         /\ main'.op = "disconnect" /\ main'.block = coinsTip /\ main'.step = "quorum"
  <1>1. /\ UNCHANGED <<disk, root, coinsTip, status>> /\ cur' = EraseList(cur, coinsTip)
        /\ main' = At("disconnect", coinsTip, "quorum")
    BY Zenon DEF BeginDisconnect
  <1>2. main'.op = "disconnect" /\ main'.block = coinsTip /\ main'.step = "quorum"
    BY ONLY Zenon, <1>1 DEF At
  <1>. QED
    BY Zenon, <1>1, <1>2

LEMMA ConnectPreserves ==
  ASSUME EvoInv,
         \/ \E op \in {"connect", "test"}, b \in Blocks : BeginConnect(op, b)
         \/ ConnectList \/ ConnectCleanup \/ EndConnect
  PROVE  EvoInv'
  <1>1. ASSUME NEW op \in {"connect", "test"}, NEW b \in Blocks, BeginConnect(op, b)
        PROVE  EvoInv'
    <2>0. /\ status = "running" /\ main = Idle
          /\ b # Genesis /\ coinsTip = Parent[b]
      BY Zenon, <1>1 DEF BeginConnect, Running
    <2>1. Height[b] \in Nat /\ (Height[b] >= DIP0003Height => coinsTip # Genesis)
      BY Zenon, <2>0, HeightPositive
    <2>2. CASE cur # Clean \/ ~VerifyBestBlock(Current, Parent[b], Height[b])
      <3>1. Die
        BY Zenon, <1>1, <2>2 DEF BeginConnect
      <3>. QED
        BY Zenon, <2>0, <2>1, <2>2, <3>1, DieTorn, DieStep
    <2>3. CASE ~(cur # Clean \/ ~VerifyBestBlock(Current, Parent[b], Height[b]))
      <3>1. UNCHANGED <<disk, root, coinsTip, status>>
        BY Zenon, <1>1, <2>3 DEF BeginConnect
      <3>2. \/ Committed[Best] = {coinsTip}
            \/ coinsTip = Genesis /\ Committed[Best] = {}
        BY Zenon, <2>0, <2>1, <2>3, VerifiedBest
      <3>3. CASE CommitmentAllowed(b)
        <4>1. /\ cur' = WriteCommitment(cur, b)
              /\ main' = At(op, b, IF DIP0003Active(b) THEN "list" ELSE "end")
          BY Zenon, <1>1, <2>3, <3>3 DEF BeginConnect
        <4>2. Good(WriteCommitment(cur, b))
          BY Zenon, CommitmentGood DEF EvoInv
        <4>3. Good(cur)'
          BY Zenon, <4>1, <4>2 DEF Good, Maps, Disjoint
        <4>4. /\ main' = At(main'.op, main'.block, main'.step)
              /\ main'.op = op /\ main'.block = b
          BY Zenon, <4>1 DEF At
        <4>. QED
          BY Zenon, <2>0, <3>1, <3>2, <4>3, <4>4, OpenStep
      <3>4. CASE ~CommitmentAllowed(b)
        <4>1. UNCHANGED <<cur, main>>
          BY Zenon, <1>1, <2>3, <3>4 DEF BeginConnect
        <4>. QED
          BY Zenon, <3>1, <4>1, QuietStep DEF dbVars
      <3>. QED
        BY Zenon, <3>3, <3>4
    <2>. QED
      BY Zenon, <2>2, <2>3
  <1>2. CASE ConnectList
    <2>1. /\ status = "running" /\ main.op \in {"connect", "test"}
          /\ UNCHANGED <<disk, root, coinsTip, status>>
      BY Zenon, <1>2 DEF ConnectList, Running
    <2>2. main'.op = main.op /\ main'.block = main.block
          /\ main' = At(main'.op, main'.block, main'.step)
      BY Zenon, <1>2 DEF ConnectList, EvoInv, At
    <2>3. Good(cur) /\ Good(WriteList(cur, lists', main.block))
      BY Zenon, ListGood DEF EvoInv
    <2>4. cur' = WriteList(cur, lists', main.block) \/ cur' = cur
      BY Zenon, <1>2 DEF ConnectList
    <2>5. Good(cur)'
      BY Zenon, <2>3, <2>4 DEF Good, Maps, Disjoint
    <2>6. main.block \in Blocks \ {Genesis}
      BY Zenon, <2>1 DEF EvoInv, MainOK
    <2>. QED
      BY Zenon, <2>1, <2>2, <2>5, <2>6, OpenBest, OpenStep
  <1>3. CASE ConnectCleanup
    BY Zenon, <1>3, QuietStep DEF ConnectCleanup
  <1>4. CASE EndConnect
    <2>1. /\ status = "running" /\ main.op \in {"connect", "test"}
          /\ UNCHANGED <<disk, status>> /\ main' = Idle /\ cur' = Clean
      BY Zenon, <1>4 DEF EndConnect, Running
    <2>2. main.block \in Blocks
      BY Zenon, <2>1 DEF EvoInv, MainOK
    <2>3. CASE /\ root' = CommitInto(Write(cur, Best, {main.block}), root)
               /\ coinsTip' = main.block
      <3>0. Good(cur) /\ Good(root)
        BY Zenon DEF EvoInv
      <3> DEFINE after == CommitInto(Write(cur, Best, {main.block}), root)
      <3>1. Good(after) /\ View(disk.evo, after)[Best] = {main.block}
        <4> DEFINE v == {main.block}
        <4>1. v # {}
          OBVIOUS
        <4> HIDE DEF v
        <4>2. /\ Good(CommitInto(Write(cur, Best, v), root))
              /\ View(disk.evo, CommitInto(Write(cur, Best, v), root))[Best] = v
          BY ONLY <3>0, <4>1, CommitBest
        <4>. QED
          BY ONLY Zenon, <4>2 DEF after, v
      <3> HIDE DEF after
      <3>2. Good(root)' /\ Committed'[Best] = {coinsTip'}
        <4>1. root' = after
          BY Zenon, <2>3 DEF after
        <4>. QED
          BY Zenon, <2>1, <2>3, <3>1, <4>1 DEF Committed, Good, Maps, Disjoint
      <3>. QED
        BY Zenon, <2>1, <2>2, <2>3, <3>2, CloseStep
    <2>4. CASE UNCHANGED <<root, coinsTip>>
      <3>1. Committed' = Committed
        BY Zenon, <2>1, <2>4 DEF Committed
      <3>2. Good(root)' /\ coinsTip' \in Blocks
        BY Zenon, <2>4 DEF EvoInv, Good, Maps, Disjoint
      <3>. QED
        BY Zenon, <2>1, <2>4, <3>1, <3>2, OpenBest, CloseStep
    <2>. QED
      BY Zenon, <1>4, <2>3, <2>4 DEF EndConnect
  <1>. QED
    BY Zenon, <1>1, <1>2, <1>3, <1>4

LEMMA DisconnectPreserves ==
  ASSUME EvoInv, BeginDisconnect \/ DisconnectQuorum \/ EndDisconnect
  PROVE  EvoInv'
  <1>1. CASE BeginDisconnect
    <2>0. status = "running" /\ main = Idle /\ coinsTip \in Blocks /\ coinsTip # Genesis
      BY Zenon, <1>1 DEF BeginDisconnect, Running, EvoInv
    <2>1. Height[coinsTip] \in Nat
      BY Zenon, <2>0, HeightPositive
    <2>2. CASE cur # Clean \/ ~VerifyBestBlock(Current, coinsTip, Height[coinsTip])
      <3>1. Die
        BY Zenon, <1>1, <2>2 DEF BeginDisconnect
      <3>. QED
        BY Zenon, <2>0, <2>1, <2>2, <3>1, DieTorn, DieStep
    <2>3. CASE ~(cur # Clean \/ ~VerifyBestBlock(Current, coinsTip, Height[coinsTip]))
      <3>1. /\ cur' = EraseList(cur, coinsTip)
            /\ main' = At("disconnect", coinsTip, "quorum")
            /\ UNCHANGED <<disk, root, coinsTip, status>>
        BY Zenon, <1>1, <2>3 DEF BeginDisconnect
      <3>2. Good(EraseList(cur, coinsTip))
        BY Zenon, ListGood DEF EvoInv
      <3>3. Good(cur)'
        BY Zenon, <3>1, <3>2 DEF Good, Maps, Disjoint
      <3>4. /\ main' = At(main'.op, main'.block, main'.step)
            /\ main'.op = "disconnect" /\ main'.block = coinsTip
        BY Zenon, <3>1 DEF At
      <3>. QED
        BY Zenon, <2>0, <2>1, <2>3, <3>1, <3>3, <3>4, VerifiedBest, OpenStep
    <2>. QED
      BY Zenon, <2>2, <2>3
  <1>2. CASE DisconnectQuorum
    <2>1. /\ status = "running" /\ main.op = "disconnect"
          /\ UNCHANGED <<disk, root, coinsTip, status>>
          /\ cur' = EraseCommitment(cur, main.block)
      BY Zenon, <1>2 DEF DisconnectQuorum, Running
    <2>2. /\ main'.op = main.op /\ main'.block = main.block
          /\ main' = At(main'.op, main'.block, main'.step)
      BY Zenon, <1>2 DEF DisconnectQuorum, EvoInv, At
    <2>3. Good(EraseCommitment(cur, main.block))
      BY Zenon, CommitmentGood DEF EvoInv
    <2>4. Good(cur)'
      BY Zenon, <2>1, <2>3 DEF Good, Maps, Disjoint
    <2>5. main.block \in Blocks \ {Genesis}
      BY Zenon, <2>1 DEF EvoInv, MainOK
    <2>. QED
      BY Zenon, <2>1, <2>2, <2>4, <2>5, OpenBest, OpenStep
  <1>3. CASE EndDisconnect
    <2>1. /\ status = "running" /\ main.op = "disconnect"
          /\ UNCHANGED <<disk, status>> /\ main' = Idle /\ cur' = Clean
          /\ root' = CommitInto(Write(cur, Best, {Parent[main.block]}), root)
          /\ coinsTip' = Parent[main.block]
      BY Zenon, <1>3 DEF EndDisconnect, Running
    <2>2. Parent[main.block] \in Blocks
      BY Zenon, <2>1, HeightPositive DEF EvoInv, MainOK
    <2>3. Good(cur) /\ Good(root)
      BY Zenon DEF EvoInv
    <2> DEFINE after == CommitInto(Write(cur, Best, {Parent[main.block]}), root)
    <2>4. Good(after) /\ View(disk.evo, after)[Best] = {Parent[main.block]}
      <3> DEFINE v == {Parent[main.block]}
      <3>1. v # {}
        OBVIOUS
      <3> HIDE DEF v
      <3>2. /\ Good(CommitInto(Write(cur, Best, v), root))
            /\ View(disk.evo, CommitInto(Write(cur, Best, v), root))[Best] = v
        BY ONLY <2>3, <3>1, CommitBest
      <3>. QED
        BY ONLY Zenon, <3>2 DEF after, v
    <2> HIDE DEF after
    <2>5. Good(root)' /\ Committed'[Best] = {coinsTip'}
      <3>1. root' = after
        BY Zenon, <2>1 DEF after
      <3>. QED
        BY Zenon, <2>1, <2>4, <3>1 DEF Committed, Good, Maps, Disjoint
    <2>. QED
      BY Zenon, <2>1, <2>2, <2>5, CloseStep
  <1>. QED
    BY Zenon, <1>1, <1>2, <1>3

LEMMA FlushPreserves ==
  ASSUME EvoInv, FlushCoins \/ FlushEvo
  PROVE  EvoInv'
  <1>1. CASE FlushCoins
    <2>1. /\ status = "running" /\ main = Idle
          /\ disk' = [disk EXCEPT !.coins = coinsTip]
          /\ main' = At("flush", coinsTip, "evo")
          /\ UNCHANGED <<root, cur, coinsTip, status>>
      BY Zenon, <1>1 DEF FlushCoins, Running
    <2>2. /\ disk' = [coins |-> coinsTip, evo |-> disk.evo]
          /\ disk'.coins = coinsTip /\ disk'.evo = disk.evo
      BY Zenon, <2>1 DEF EvoInv
    <2>3. Committed' = Committed
      BY Zenon, <2>1, <2>2 DEF Committed
    <2>4. (Good(root) /\ Good(cur))'
      BY Zenon, <2>1 DEF EvoInv, Good, Maps, Disjoint
    <2>5. cur = Clean
      BY Zenon, <2>1 DEF EvoInv, MainOK, Idle
    <2>6. MainOK'
      BY Zenon, <2>1, <2>2, <2>5 DEF MainOK, At
    <2>7. BestOK'
      BY Zenon, <2>1, <2>2, <2>3 DEF EvoInv, BestOK, At, Has
    <2>8. DeadOnlyIfTorn'
      BY Zenon, <2>1 DEF DeadOnlyIfTorn
    <2>. QED
      BY Zenon, <2>1, <2>2, <2>4, <2>6, <2>7, <2>8 DEF EvoInv, At
  <1>2. CASE FlushEvo
    <2>0. cur = Clean
      BY Zenon, <1>2 DEF FlushEvo, Running, EvoInv, MainOK
    <2>1. /\ status = "running" /\ main.op = "flush"
          /\ disk' = [disk EXCEPT !.evo = CommitToDisk(root, @)]
          /\ root' = Clean /\ main' = Idle
          /\ UNCHANGED <<cur, coinsTip, status>>
      BY Zenon, <1>2, <2>0 DEF FlushEvo, Running
    <2>2. CommitToDisk(root, disk.evo) = Committed
      BY Zenon, CommitIsTransparent DEF EvoInv, Good, Committed
    <2>3. /\ disk' = [coins |-> disk.coins, evo |-> Committed]
          /\ disk'.coins = disk.coins /\ disk'.evo = Committed
      BY Zenon, <2>1, <2>2 DEF EvoInv
    <2>4. Committed'[Best] = Committed[Best]
      BY Zenon, <2>1, <2>3, BestIsKey DEF Committed, View, Clean, NoEntries
    <2>5. (Good(root) /\ Good(cur))'
      BY Zenon, <2>0, <2>1, CleanMaps DEF Good, Maps, Disjoint
    <2>6. MainOK'
      BY Zenon, <2>0, <2>1 DEF MainOK, Idle
    <2>7. root = Clean => Committed[Best] = disk.evo[Best]
      BY BestIsKey DEF View, Clean, NoEntries, Committed
    <2>8. BestOK'
      BY Zenon, <2>1, <2>3, <2>4, <2>7 DEF EvoInv, BestOK, Idle, Has
    <2>9. DeadOnlyIfTorn'
      BY Zenon, <2>1 DEF DeadOnlyIfTorn
    <2>. QED
      BY Zenon, <2>1, <2>3, <2>5, <2>6, <2>8, <2>9 DEF EvoInv, Idle, At
  <1>. QED
    BY Zenon, <1>1, <1>2

LEMMA CrashPreserves ==
  ASSUME EvoInv, Crash
  PROVE  EvoInv'
  <1>1. (Good(root) /\ Good(cur))'
    BY Zenon, CleanMaps DEF Crash, Good, Maps, Disjoint
  <1>2. DeadOnlyIfTorn'
    BY Zenon DEF Crash, DeadOnlyIfTorn
  <1>. QED
    BY Zenon, <1>1, <1>2 DEF EvoInv, Crash, Idle, At

\* A start leaves the best block of the EvoDB as it was, or repairs a missing one.
LEMMA UpgradesBest ==
  ASSUME NEW evo
  PROVE  /\ UpgradeDBIfNeeded(evo)[Best] = IF Has(evo, Best) THEN evo[Best] ELSE {coinsTip}
         /\ UpgradeDB(evo)[Best] = evo[Best]
  <1>1. Best # BestUpgrade /\ \A x : Best # MinedCommitment(x) /\ Best # InversedHeightKey(x)
    BY Zenon DEF Best, BestUpgrade, MinedCommitment, InversedHeightKey
  <1>2. UpgradeDBIfNeeded(evo)[Best] = IF Has(evo, Best) THEN evo[Best] ELSE {coinsTip}
    BY Zenon, BestIsKey DEF UpgradeDBIfNeeded
  <1>3. UpgradeDB(evo)[Best] = evo[Best]
    BY Zenon, <1>1, BestIsKey DEF UpgradeDB
  <1>. QED
    BY Zenon, <1>2, <1>3

LEMMA StartPreserves ==
  ASSUME EvoInv, Start
  PROVE  EvoInv'
  <1> DEFINE evo == UpgradeDBIfNeeded(disk.evo)
             verified == coinsTip = Genesis \/ VerifyBestBlock(evo, coinsTip, Height[coinsTip])
  <1>1. /\ status = "down"
        /\ disk' = [disk EXCEPT !.evo = IF verified THEN UpgradeDB(evo) ELSE evo]
        /\ status' = IF verified THEN "running" ELSE "dead"
        /\ UNCHANGED <<root, cur, coinsTip, main>>
    BY Zenon DEF Start
  <1>2. root = Clean /\ cur = Clean /\ coinsTip = disk.coins /\ main = Idle
    BY Zenon, <1>1 DEF EvoInv
  <1>3. evo[Best] = IF Has(disk.evo, Best) THEN disk.evo[Best] ELSE {coinsTip}
    BY Zenon, UpgradesBest
  <1>4. UpgradeDB(evo)[Best] = evo[Best]
    BY Zenon, UpgradesBest
  <1> HIDE DEF evo
  <1>5. /\ disk' = [coins |-> disk.coins, evo |-> disk'.evo]
        /\ disk'.coins = disk.coins /\ disk'.evo[Best] = evo[Best]
    BY Zenon, <1>1, <1>4 DEF EvoInv
  <1>6. (Good(root) /\ Good(cur))'
    BY Zenon, <1>1 DEF EvoInv, Good, Maps, Disjoint
  <1>7. Committed'[Best] = evo[Best]
    BY Zenon, <1>1, <1>2, <1>5, BestIsKey DEF Committed, View, Clean, NoEntries
  <1>8. evo[Best] # {}
    BY Zenon, <1>3 DEF Has
  <1>9. verified => MainOK' /\ BestOK'
    <2> SUFFICES ASSUME verified PROVE MainOK' /\ BestOK'
      OBVIOUS
    <2>1. MainOK'
      BY Zenon, <1>1, <1>2 DEF MainOK, Idle
    <2>2. CASE evo[Best] = {coinsTip}
      BY Zenon, <1>1, <1>7, <2>1, <2>2 DEF BestOK
    <2>3. CASE evo[Best] # {coinsTip}
      <3>1. coinsTip = Genesis
        BY Zenon, <1>8, <2>3 DEF VerifyBestBlock, Has
      <3>. QED
        BY Zenon, <1>1, <1>2, <1>5, <1>8, <2>1, <2>3, <3>1 DEF BestOK, Has, Idle
    <2>. QED
      BY Zenon, <2>1, <2>2, <2>3
  <1>10. DeadOnlyIfTorn'
    <2> SUFFICES ASSUME ~verified PROVE DeadOnlyIfTorn'
      BY Zenon, <1>1 DEF DeadOnlyIfTorn
    <2>1. evo[Best] # {coinsTip}
      BY Zenon, <1>8 DEF VerifyBestBlock, Has
    <2>. QED
      BY Zenon, <1>2, <1>5, <1>8, <2>1 DEF DeadOnlyIfTorn, Has
  <1>. QED
    BY Zenon, <1>1, <1>2, <1>5, <1>6, <1>9, <1>10 DEF EvoInv, Idle, At

LEMMA EvoInvNext == EvoInv /\ [Next]_vars => EvoInv'
  <1> SUFFICES ASSUME EvoInv, [Next]_vars PROVE EvoInv'
    OBVIOUS
  <1>1. CASE MainThread
    BY Zenon, <1>1, ConnectPreserves, DisconnectPreserves, FlushPreserves DEF MainThread
  <1>2. CASE OtherThreads
    <2>1. UNCHANGED <<dbVars, main, status>>
      BY Zenon, <1>2 DEF OtherThreads, ReaderLookup, ReaderStore, UpdatedBlockTip,
         GetListAtChainTip, FinalizeCommitment, ProcessMessage
    <2>. QED
      BY Zenon, <2>1, QuietStep
  <1>3. CASE Crash
    BY Zenon, <1>3, CrashPreserves
  <1>4. CASE Start
    BY Zenon, <1>4, StartPreserves
  <1>5. CASE UNCHANGED vars
    BY Zenon, <1>5, QuietStep DEF vars, dbVars
  <1>. QED
    BY Zenon, <1>1, <1>2, <1>3, <1>4, <1>5 DEF Next

\* A running node's EvoDB names the block that its coins name, after any sequence of
\* connections, disconnections, tests, flushes, crashes and starts.
THEOREM EvoFollowsCoins == EvoSpec => []BestBlocksAgree
  <1>1. EvoInv => BestBlocksAgree
    BY Zenon DEF EvoInv, BestOK, BestBlocksAgree
  <1>. QED
    BY <1>1, EvoInvInit, EvoInvNext, PTL DEF EvoSpec

\* A node refuses to go on only when a crash tore its disk: never because of a transaction
\* left open, a test, a reorganisation or a crash at any other moment.
THEOREM NoFalseAlarm == EvoSpec => []DeadOnlyIfTorn
  <1>1. EvoInv => DeadOnlyIfTorn
    BY Zenon DEF EvoInv
  <1>. QED
    BY <1>1, EvoInvInit, EvoInvNext, PTL DEF EvoSpec

-----------------------------------------------------------------------------
(* Chains and sessions                                                     *)

ChainMined(t, q) == {a \in Ancestors[t] : Mines(a, q)}

\* The rule for every block of the chain that ends in t.
Rule(t) ==
  \A b \in Ancestors[t] : DIP0003Active(b) =>
    ((Commitment[b] # "none") <=>
       /\ IsMiningPhase(b)
       /\ \E q \in QuorumBlock(b) : \A a \in Ancestors[b] \ {b} : ~Mines(a, q))

LEMMA StartOfInterval ==
  ASSUME NEW h \in Nat, NEW n \in Nat \ {0}
  PROVE  (h - (h % n)) % n = 0
  <1>1. h \div n \in Nat
    OBVIOUS
  <1>2. h - (h % n) = n * (h \div n)
    OBVIOUS
  <1>3. ASSUME NEW k \in Nat PROVE (n * k) % n = 0
    OBVIOUS
  <1>. QED
    BY Zenon, <1>1, <1>2, <1>3

\* A block has at most one quorum block, and it is the first of a session.
LEMMA QuorumBlockUnique ==
  ASSUME NEW b \in Blocks, NEW q \in QuorumBlock(b)
  PROVE  /\ q \in Sessions /\ q \in Blocks
         /\ \A r \in QuorumBlock(b) : r = q
  <1>1. q \in Blocks /\ Height[q] = Height[b] - (Height[b] % DkgInterval)
    BY Zenon, EvoAssumption DEF QuorumBlock
  <1>2. Height[q] % DkgInterval = 0
    BY <1>1, StartOfInterval, EvoAssumption
  <1>3. ASSUME NEW r \in QuorumBlock(b) PROVE r = q
    <2>1. /\ r \in Ancestors[b] /\ q \in Ancestors[b] /\ Height[r] = Height[q]
          /\ r \in Blocks
      BY Zenon, <1>1, <1>3, EvoAssumption DEF QuorumBlock
    <2>2. r \in Ancestors[q] \/ q \in Ancestors[r]
      BY Zenon, <2>1, EvoAssumption
    <2>3. Height[r] \in Nat /\ Height[q] \in Nat
      BY Zenon, <1>1, <2>1, EvoAssumption
    <2>. QED
      BY <1>1, <2>1, <2>2, <2>3, EvoAssumption
  <1>. QED
    BY Zenon, <1>1, <1>2, <1>3 DEF Sessions

LEMMA AncestorsOfChild ==
  ASSUME NEW b \in Blocks, b # Genesis
  PROVE  /\ Ancestors[b] = {b} \cup Ancestors[Parent[b]]
         /\ Ancestors[b] \ {b} = Ancestors[Parent[b]]
         /\ b \notin Ancestors[Parent[b]]
         /\ Parent[b] \in Blocks
  <1>1. Parent[b] \in Blocks /\ Height[b] = Height[Parent[b]] + 1 /\ Height[Parent[b]] \in Nat
    BY Zenon, EvoAssumption
  <1>2. \A a \in Ancestors[Parent[b]] : a = Parent[b] \/ Height[a] < Height[Parent[b]]
    BY Zenon, <1>1, EvoAssumption
  <1>3. b \notin Ancestors[Parent[b]]
    BY ONLY <1>1, <1>2
  <1>4. Ancestors[b] = {b} \cup Ancestors[Parent[b]]
    BY Zenon, EvoAssumption
  <1>. QED
    BY ONLY Zenon, <1>1, <1>3, <1>4

LEMMA AncestorsDown ==
  ASSUME NEW t \in Blocks, t # Genesis
  PROVE  Rule(t) => Rule(Parent[t])
  BY Zenon, AncestorsOfChild DEF Rule

\* On a chain that keeps the rule, no block below one that mines q mines it.
LEMMA MinedOnce ==
  ASSUME NEW t \in Blocks, Rule(t), NEW b \in Ancestors[t], NEW q, Mines(b, q)
  PROVE  \A a \in Ancestors[b] \ {b} : ~Mines(a, q)
  <1>1. b \in Blocks /\ DIP0003Active(b) /\ Commitment[b] # "none" /\ q \in QuorumBlock(b)
    BY Zenon, EvoAssumption DEF Mines
  <1>2. PICK r \in QuorumBlock(b) : \A a \in Ancestors[b] \ {b} : ~Mines(a, r)
    BY Zenon, <1>1 DEF Rule
  <1>3. r = q
    BY Zenon, <1>1, <1>2, QuorumBlockUnique
  <1>. QED
    BY Zenon, <1>2, <1>3

LEMMA MinedUnique ==
  ASSUME NEW t \in Blocks, Rule(t), NEW q,
         NEW x \in ChainMined(t, q), NEW y \in ChainMined(t, q)
  PROVE  x = y
  <1>1. x \in Ancestors[t] /\ y \in Ancestors[t] /\ Mines(x, q) /\ Mines(y, q)
    BY Zenon DEF ChainMined
  <1>2. x \in Ancestors[y] \/ y \in Ancestors[x]
    BY Zenon, <1>1, EvoAssumption
  <1>. QED
    BY Zenon, <1>1, <1>2, MinedOnce

\* Nothing is mined below the activation height.
LEMMA NothingMinedBelow ==
  ASSUME NEW t \in Blocks, ~DIP0003Active(t), NEW q
  PROVE  ChainMined(t, q) = {}
  <1>1. ASSUME NEW a \in Ancestors[t] PROVE ~Mines(a, q)
    <2>1. a = t \/ Height[a] < Height[t]
      BY Zenon, <1>1, EvoAssumption
    <2>2. Height[t] \in Nat /\ Height[a] \in Nat /\ DIP0003Height \in Nat
      BY Zenon, <1>1, EvoAssumption
    <2>. QED
      BY ONLY <2>1, <2>2, ~DIP0003Active(t) DEF Mines, DIP0003Active
  <1>. QED
    BY Zenon, <1>1 DEF ChainMined

LEMMA ChainMinedStep ==
  ASSUME NEW b \in Blocks, b # Genesis, NEW q
  PROVE  ChainMined(b, q) = ChainMined(Parent[b], q) \cup (IF Mines(b, q) THEN {b} ELSE {})
  BY AncestorsOfChild DEF ChainMined

-----------------------------------------------------------------------------
(* The inductive invariants                                                *)

\* What is cached agrees with what is read inside and outside the open transaction.
Agrees(c, q) ==
  c # "unknown" => /\ c = Answer(Has(Committed, MinedCommitment(q)))
                   /\ c = Answer(Has(Current, MinedCommitment(q)))

CacheInv ==
  /\ mined = [q \in Sessions |-> mined[q]]
  /\ reader = NoReader \/ reader.quorum \in Sessions
  /\ status = "down" => \A q \in Sessions : mined[q] = "unknown"
  /\ raced \in BOOLEAN
  /\ status = "running" /\ ~raced => \A q \in Sessions : Agrees(mined[q], q)

\* A store that names t holds the commitments of the chain that ends in t.
Names(s, t) == s[Best] = {t} \/ (s[Best] = {} /\ t = Genesis)
Holds(s, t) == \A q \in Sessions : s[MinedCommitment(q)] = ChainMined(t, q)
Exact(s) == \E t \in Blocks : Names(s, t) /\ Holds(s, t)

\* Inside an operation, the transaction holds those of the chain it is leading to.
TxExact ==
  /\ main.op \in {"connect", "test"} =>
       /\ coinsTip = Parent[main.block] /\ Rule(main.block)
       /\ Holds(Current, main.block)
  /\ main.op = "disconnect" =>
       /\ coinsTip = main.block
       /\ Holds(Current, IF main.step = "quorum" THEN main.block ELSE Parent[main.block])

ChainExact ==
  /\ Rule(coinsTip) /\ Rule(disk.coins) /\ Exact(disk.evo)
  /\ status = "running" => Exact(Committed) /\ TxExact

ChainInv == upgraded \in BOOLEAN /\ (~raced /\ ~upgraded => ChainExact)

-----------------------------------------------------------------------------
(* The entry of a commitment through the writes of the block processors    *)

LEMMA SessionKey ==
  ASSUME NEW q \in Sessions
  PROVE  /\ q \in Blocks /\ MinedCommitment(q) \in Keys
         /\ MinedCommitment(q) # Best /\ MinedCommitment(q) # BestUpgrade
  BY Zenon DEF Sessions, Keys, MinedCommitment, Best, BestUpgrade

LEMMA OtherKeys ==
  ASSUME NEW q, NEW b
  PROVE  /\ MinedCommitment(q) # InversedHeightKey(b)
         /\ MinedCommitment(q) # Diff(b) /\ MinedCommitment(q) # Snapshot(b)
         /\ b # q => MinedCommitment(q) # MinedCommitment(b)
  BY Zenon DEF MinedCommitment, InversedHeightKey, Diff, Snapshot

LEMMA CleanView ==
  ASSUME NEW s, NEW k \in Keys
  PROVE  View(s, Clean)[k] = s[k]
  BY Zenon DEF View, Clean, NoEntries

LEMMA WriteOther ==
  ASSUME NEW tx, Good(tx), NEW k \in Keys, NEW x, x # k, NEW v, NEW s
  PROVE  View(s, Write(tx, x, v))[k] = View(s, tx)[k]
  BY DEF Good, Maps, Write, View

LEMMA WriteSame ==
  ASSUME NEW tx, Good(tx), NEW k \in Keys, NEW v, v # {}, NEW s
  PROVE  View(s, Write(tx, k, v))[k] = v
  BY DEF Good, Maps, Write, View

LEMMA EraseOther ==
  ASSUME NEW tx, Good(tx), NEW k \in Keys, NEW x, x # k, NEW s
  PROVE  View(s, Erase(tx, x))[k] = View(s, tx)[k]
  BY DEF Good, Maps, Erase, View

LEMMA EraseSame ==
  ASSUME NEW tx, NEW k \in Keys, NEW s
  PROVE  View(s, Erase(tx, k))[k] = {}
  BY Zenon DEF Erase, View

LEMMA MinesUnique ==
  ASSUME NEW b \in Blocks, NEW q, Mines(b, q)
  PROVE  q \in Sessions /\ q \in Blocks /\ (CHOOSE x \in Blocks : Mines(b, x)) = q
  <1>1. q \in Sessions /\ q \in Blocks /\ \A r : Mines(b, r) => r = q
    BY Zenon, QuorumBlockUnique DEF Mines
  <1>. QED
    BY Zenon, <1>1

\* CQuorumBlockProcessor::ProcessBlock
LEMMA WriteCommitmentView ==
  ASSUME NEW tx, Good(tx), NEW b \in Blocks, NEW q \in Sessions, NEW s
  PROVE  View(s, WriteCommitment(tx, b))[MinedCommitment(q)] =
           IF Mines(b, q) THEN {b} ELSE View(s, tx)[MinedCommitment(q)]
  <1> DEFINE k == MinedCommitment(q)
             r == CHOOSE x \in Blocks : Mines(b, x)
             one == Write(tx, MinedCommitment(r), {b})
             two == Write(one, InversedHeightKey(b), {r})
             after == IF \E x \in Blocks : Mines(b, x) THEN two ELSE tx
  <1>1. WriteCommitment(tx, b) = Write(after, BestUpgrade, {b})
    BY Zenon DEF WriteCommitment
  <1>2. Good(one) /\ Good(two) /\ Good(after)
    BY Zenon, WriteGood
  <1>3. /\ k \in Keys /\ k # BestUpgrade /\ k # InversedHeightKey(b)
        /\ r # q => MinedCommitment(r) # k
        /\ q \in Blocks
    <2> HIDE DEF r
    <2>. QED
      BY Zenon, SessionKey, OtherKeys
  <1>4. Mines(b, q) => r = q
    BY Zenon, MinesUnique
  <1>5. (\E x \in Blocks : Mines(b, x)) /\ ~Mines(b, q) => r # q
    OBVIOUS
  <1>6. View(s, two)[k] = View(s, one)[k]
    <2> DEFINE key == InversedHeightKey(b)
               v == {r}
    <2> HIDE DEF key, v, one, k
    <2>1. View(s, Write(one, key, v))[k] = View(s, one)[k]
      BY <1>2, <1>3, WriteOther DEF key
    <2>. QED
      BY Zenon, <2>1 DEF key, v
  <1>7. r # q => View(s, one)[k] = View(s, tx)[k]
    <2> DEFINE key == MinedCommitment(r)
               v == {b}
    <2> HIDE DEF key, v, k
    <2>1. key # k => View(s, Write(tx, key, v))[k] = View(s, tx)[k]
      BY <1>3, WriteOther
    <2>. QED
      BY Zenon, <1>3, <2>1 DEF key, v
  <1>8. r = q => View(s, one)[k] = {b}
    <2> DEFINE v == {b}
    <2>1. v # {}
      OBVIOUS
    <2> HIDE DEF v, k
    <2>2. View(s, Write(tx, k, v))[k] = v
      BY <1>3, <2>1, WriteSame
    <2>. QED
      BY Zenon, <2>2 DEF v, k
  <1>9. View(s, Write(after, BestUpgrade, {b}))[k] = View(s, after)[k]
    <2> DEFINE v == {b}
    <2> HIDE DEF after, v, k
    <2>1. View(s, Write(after, BestUpgrade, v))[k] = View(s, after)[k]
      BY <1>2, <1>3, WriteOther
    <2>. QED
      BY Zenon, <2>1 DEF v
  <1>10. Mines(b, q) => after = two
    BY Zenon, <1>3
  <1>11. ~Mines(b, q) => View(s, after)[k] = View(s, tx)[k]
    <2> HIDE DEF two, r, k
    <2>. QED
      BY Zenon, <1>5, <1>6, <1>7
  <1>12. Mines(b, q) => View(s, after)[k] = {b}
    <2> HIDE DEF two, r, k, after
    <2>. QED
      BY Zenon, <1>4, <1>6, <1>8, <1>10
  <1> HIDE DEF after, k
  <1>. QED
    BY Zenon, <1>1, <1>9, <1>11, <1>12 DEF k

\* CQuorumBlockProcessor::UndoBlock
LEMMA EraseCommitmentView ==
  ASSUME NEW tx, Good(tx), NEW b \in Blocks, NEW q \in Sessions, NEW s
  PROVE  View(s, EraseCommitment(tx, b))[MinedCommitment(q)] =
           IF Mines(b, q) THEN {} ELSE View(s, tx)[MinedCommitment(q)]
  <1> DEFINE k == MinedCommitment(q)
             r == CHOOSE x \in Blocks : Mines(b, x)
             one == Erase(tx, MinedCommitment(r))
             two == Erase(one, InversedHeightKey(b))
             after == IF \E x \in Blocks : Mines(b, x) THEN two ELSE tx
  <1>1. EraseCommitment(tx, b) = Write(after, BestUpgrade, {Parent[b]})
    BY Zenon DEF EraseCommitment
  <1>2. Good(one) /\ Good(two) /\ Good(after)
    BY Zenon, EraseGood
  <1>3. /\ k \in Keys /\ k # BestUpgrade /\ k # InversedHeightKey(b)
        /\ r # q => MinedCommitment(r) # k
        /\ q \in Blocks
    <2> HIDE DEF r
    <2>. QED
      BY Zenon, SessionKey, OtherKeys
  <1>4. Mines(b, q) => r = q
    BY Zenon, MinesUnique
  <1>5. (\E x \in Blocks : Mines(b, x)) /\ ~Mines(b, q) => r # q
    OBVIOUS
  <1>6. View(s, two)[k] = View(s, one)[k]
    <2> HIDE DEF one, k
    <2>. QED
      BY Zenon, <1>2, <1>3, EraseOther
  <1>7. r # q => View(s, one)[k] = View(s, tx)[k]
    <2> DEFINE key == MinedCommitment(r)
    <2> HIDE DEF key, k
    <2>1. key # k => View(s, Erase(tx, key))[k] = View(s, tx)[k]
      BY Zenon, <1>3, EraseOther
    <2>. QED
      BY Zenon, <1>3, <2>1 DEF key
  <1>8. r = q => View(s, one)[k] = {}
    <2> HIDE DEF k
    <2>1. View(s, Erase(tx, k))[k] = {}
      BY Zenon, <1>3, EraseSame
    <2>. QED
      BY Zenon, <2>1 DEF k
  <1>9. View(s, Write(after, BestUpgrade, {Parent[b]}))[k] = View(s, after)[k]
    <2> DEFINE v == {Parent[b]}
    <2> HIDE DEF after, v, k
    <2>1. View(s, Write(after, BestUpgrade, v))[k] = View(s, after)[k]
      BY <1>2, <1>3, WriteOther
    <2>. QED
      BY Zenon, <2>1 DEF v
  <1>10. Mines(b, q) => after = two
    BY Zenon, <1>3
  <1>11. ~Mines(b, q) => View(s, after)[k] = View(s, tx)[k]
    <2> HIDE DEF two, r, k
    <2>. QED
      BY Zenon, <1>5, <1>6, <1>7
  <1>12. Mines(b, q) => View(s, after)[k] = {}
    <2> HIDE DEF two, r, k, after
    <2>. QED
      BY Zenon, <1>4, <1>6, <1>8, <1>10
  <1> HIDE DEF after, k
  <1>. QED
    BY Zenon, <1>1, <1>9, <1>11, <1>12 DEF k

\* The masternode lists are kept under other keys.
LEMMA ListView ==
  ASSUME NEW tx, Good(tx), NEW c, NEW b, NEW q \in Sessions, NEW s
  PROVE  /\ View(s, WriteList(tx, c, b))[MinedCommitment(q)] = View(s, tx)[MinedCommitment(q)]
         /\ View(s, EraseList(tx, b))[MinedCommitment(q)] = View(s, tx)[MinedCommitment(q)]
  <1> DEFINE k == MinedCommitment(q)
  <1>1. k \in Keys /\ Diff(b) # k /\ Snapshot(b) # k
    BY Zenon, SessionKey, OtherKeys
  <1> HIDE DEF k
  <1>2. ASSUME NEW v PROVE View(s, Write(tx, Diff(b), v))[k] = View(s, tx)[k]
    BY <1>1, WriteOther
  <1>3. ASSUME NEW v, NEW w
        PROVE  View(s, Write(Write(tx, Diff(b), v), Snapshot(b), w))[k] = View(s, tx)[k]
    <2> DEFINE one == Write(tx, Diff(b), v)
    <2>1. Good(one)
      BY Zenon, WriteGood
    <2> HIDE DEF one
    <2>2. View(s, Write(one, Snapshot(b), w))[k] = View(s, one)[k]
      BY <1>1, <2>1, WriteOther
    <2>. QED
      BY Zenon, <1>2, <2>2 DEF one
  <1>4. View(s, WriteList(tx, c, b))[k] = View(s, tx)[k]
    BY Zenon, <1>2, <1>3 DEF WriteList
  <1>5. View(s, EraseList(tx, b))[k] = View(s, tx)[k]
    <2> DEFINE one == Erase(tx, Diff(b))
    <2>1. Good(one)
      BY Zenon, EraseGood
    <2>2. View(s, one)[k] = View(s, tx)[k]
      BY Zenon, <1>1, EraseOther
    <2> HIDE DEF one
    <2>3. View(s, Erase(one, Snapshot(b)))[k] = View(s, one)[k]
      BY Zenon, <1>1, <2>1, EraseOther
    <2>. QED
      BY Zenon, <2>2, <2>3 DEF EraseList, one
  <1>. QED
    BY Zenon, <1>4, <1>5 DEF k

LEMMA CommitView ==
  ASSUME NEW tx, Good(tx), NEW target, NEW v, NEW q \in Sessions, NEW s
  PROVE  View(s, CommitInto(Write(tx, Best, v), target))[MinedCommitment(q)] =
           View(View(s, target), tx)[MinedCommitment(q)]
  <1> DEFINE k == MinedCommitment(q)
             w == Write(tx, Best, v)
             below == View(s, target)
  <1>1. k \in Keys /\ Best # k
    BY Zenon, SessionKey
  <1>2. Disjoint(w)
    BY Zenon, WriteGood DEF Good
  <1>3. View(s, CommitInto(w, target)) = View(below, w)
    BY <1>2, CommitIsTransparent
  <1> HIDE DEF k, below
  <1>4. View(below, w)[k] = View(below, tx)[k]
    BY <1>1, WriteOther
  <1>. QED
    BY Zenon, <1>3, <1>4 DEF k, below

-----------------------------------------------------------------------------
(* What the steps do to the commitments that are read                      *)

LEMMA IdleViews ==
  ASSUME EvoInv, status = "running", main.op \in {"idle", "flush"}, NEW q \in Sessions
  PROVE  cur = Clean /\ Current[MinedCommitment(q)] = Committed[MinedCommitment(q)]
  <1>1. cur = Clean
    BY Zenon DEF EvoInv, MainOK
  <1>. QED
    BY Zenon, <1>1, SessionKey, CleanView DEF Current

\* A step that begins, or does, the part of the quorum blocks.
LEMMA BeginConnectViews ==
  ASSUME EvoInv, NEW b \in Blocks, UNCHANGED <<disk, root>>, cur' = WriteCommitment(cur, b),
         NEW q \in Sessions
  PROVE  /\ Committed' = Committed
         /\ Current'[MinedCommitment(q)] =
              IF Mines(b, q) THEN {b} ELSE Current[MinedCommitment(q)]
  <1>1. Committed' = Committed
    BY Zenon DEF Committed
  <1>2. Current' = View(Committed, WriteCommitment(cur, b))
    BY Zenon, <1>1 DEF Current
  <1> DEFINE s == Committed
  <1> HIDE DEF s
  <1>3. View(s, WriteCommitment(cur, b))[MinedCommitment(q)] =
          IF Mines(b, q) THEN {b} ELSE View(s, cur)[MinedCommitment(q)]
    BY Zenon, WriteCommitmentView DEF EvoInv
  <1>. QED
    BY Zenon, <1>1, <1>2, <1>3 DEF s, Current

LEMMA DisconnectQuorumViews ==
  ASSUME EvoInv, DisconnectQuorum, NEW q \in Sessions
  PROVE  /\ Committed' = Committed
         /\ Current'[MinedCommitment(q)] =
              IF Mines(main.block, q) THEN {} ELSE Current[MinedCommitment(q)]
  <1>0. /\ UNCHANGED <<disk, root>> /\ cur' = EraseCommitment(cur, main.block)
        /\ main.block \in Blocks
    BY Zenon DEF DisconnectQuorum, Running, EvoInv, MainOK
  <1>1. Committed' = Committed
    BY Zenon, <1>0 DEF Committed
  <1>2. Current' = View(Committed, EraseCommitment(cur, main.block))
    BY Zenon, <1>0, <1>1 DEF Current
  <1> DEFINE s == Committed
             b == main.block
  <1> HIDE DEF s, b
  <1>3. View(s, EraseCommitment(cur, b))[MinedCommitment(q)] =
          IF Mines(b, q) THEN {} ELSE View(s, cur)[MinedCommitment(q)]
    BY <1>0, EraseCommitmentView DEF EvoInv, b
  <1>. QED
    BY Zenon, <1>1, <1>2, <1>3 DEF s, b, Current

\* A step that works on the masternode lists.
LEMMA ListViews ==
  ASSUME EvoInv, UNCHANGED <<disk, root>>, NEW c, NEW b, NEW q \in Sessions,
         cur' \in {cur, WriteList(cur, c, b), EraseList(cur, b)}
  PROVE  /\ Committed' = Committed
         /\ Current'[MinedCommitment(q)] = Current[MinedCommitment(q)]
  <1>1. Committed' = Committed
    BY Zenon DEF Committed
  <1>2. Current' = View(Committed, cur')
    BY Zenon, <1>1 DEF Current
  <1> DEFINE s == Committed
  <1> HIDE DEF s
  <1>3. View(s, cur')[MinedCommitment(q)] = View(s, cur)[MinedCommitment(q)]
    BY ListView DEF EvoInv
  <1>. QED
    BY Zenon, <1>1, <1>2, <1>3 DEF s, Current

\* A step that ends the transaction: with a commit the open view becomes the committed
\* one, with a rollback it is given up.
LEMMA CommitViews ==
  ASSUME EvoInv, UNCHANGED disk, NEW v, cur' = Clean,
         root' = CommitInto(Write(cur, Best, v), root), NEW q \in Sessions
  PROVE  /\ Committed'[MinedCommitment(q)] = Current[MinedCommitment(q)]
         /\ Current'[MinedCommitment(q)] = Current[MinedCommitment(q)]
  <1> DEFINE s == disk.evo
  <1>1. Committed' = View(s, CommitInto(Write(cur, Best, v), root))
    BY Zenon DEF Committed
  <1>2. Current = View(View(s, root), cur)
    BY Zenon DEF Current, Committed
  <1> HIDE DEF s
  <1>3. Committed'[MinedCommitment(q)] = Current[MinedCommitment(q)]
    BY <1>1, <1>2, CommitView DEF EvoInv
  <1>4. Current'[MinedCommitment(q)] = Committed'[MinedCommitment(q)]
    BY Zenon, SessionKey, CleanView DEF Current
  <1>. QED
    BY Zenon, <1>3, <1>4

LEMMA RollbackViews ==
  ASSUME UNCHANGED <<disk, root>>, cur' = Clean, NEW q \in Sessions
  PROVE  /\ Committed' = Committed
         /\ Current'[MinedCommitment(q)] = Committed[MinedCommitment(q)]
  <1>1. Committed' = Committed
    BY Zenon DEF Committed
  <1>2. Current'[MinedCommitment(q)] = Committed'[MinedCommitment(q)]
    BY Zenon, SessionKey, CleanView DEF Current
  <1>. QED
    BY Zenon, <1>1, <1>2

LEMMA FlushEvoViews ==
  ASSUME EvoInv, FlushEvo, NEW k \in Keys
  PROVE  /\ disk' = [coins |-> disk.coins, evo |-> Committed]
         /\ Committed'[k] = Committed[k]
         /\ Current'[k] = Committed[k]
  <1>1. cur = Clean
    BY Zenon DEF FlushEvo, Running, EvoInv, MainOK
  <1>2. /\ disk' = [disk EXCEPT !.evo = CommitToDisk(root, @)]
        /\ root' = Clean /\ cur' = Clean
    BY Zenon, <1>1 DEF FlushEvo
  <1>3. CommitToDisk(root, disk.evo) = Committed
    BY Zenon, CommitIsTransparent DEF EvoInv, Good, Committed
  <1>4. disk' = [coins |-> disk.coins, evo |-> Committed] /\ disk'.evo = Committed
    BY Zenon, <1>2, <1>3 DEF EvoInv
  <1>5. Committed' = View(disk'.evo, Clean)
    BY Zenon, <1>2 DEF Committed
  <1> DEFINE s == Committed
  <1>6. Committed'[k] = Committed[k]
    <2> HIDE DEF s
    <2>1. View(s, Clean)[k] = s[k]
      BY Zenon, CleanView
    <2>. QED
      BY Zenon, <1>4, <1>5, <2>1 DEF s
  <1>7. Current'[k] = Committed'[k]
    BY Zenon, <1>2, CleanView DEF Current
  <1>. QED
    BY Zenon, <1>4, <1>6, <1>7

-----------------------------------------------------------------------------
(* The cache                                                               *)

LEMMA CacheInvInit == Init => CacheInv
  BY Zenon DEF Init, CacheInv, Agrees

\* A step of a running node that keeps the agreement, session by session.
LEMMA CacheStep ==
  ASSUME CacheInv, status = "running", status' = "running", UNCHANGED <<reader, raced>>,
         mined' = [q \in Sessions |-> mined'[q]],
         \A q \in Sessions : Agrees(mined[q], q) => Agrees(mined[q], q)'
  PROVE  CacheInv'
  BY Zenon DEF CacheInv

\* Each of the two views is afterwards what one of them was before.
LEMMA CacheKept ==
  ASSUME CacheInv, status = "running", status' = "running", UNCHANGED <<mined, reader, raced>>,
         \A q \in Sessions :
           /\ Committed'[MinedCommitment(q)]
                \in {Committed[MinedCommitment(q)], Current[MinedCommitment(q)]}
           /\ Current'[MinedCommitment(q)]
                \in {Committed[MinedCommitment(q)], Current[MinedCommitment(q)]}
  PROVE  CacheInv'
  <1>1. ASSUME NEW q \in Sessions, Agrees(mined[q], q)
        PROVE  Agrees(mined[q], q)'
    BY Zenon, <1>1 DEF Agrees, Has
  <1>2. mined' = [q \in Sessions |-> mined'[q]]
    BY Zenon DEF CacheInv
  <1>. QED
    BY Zenon, <1>1, <1>2, CacheStep

\* The verdict on a block puts what is read into the cache.
LEMMA LookedAgrees ==
  ASSUME NEW b, NEW q \in Sessions, Agrees(mined[q], q),
         Current[MinedCommitment(q)] = Committed[MinedCommitment(q)]
  PROVE  Agrees(Looked(b)[q], q)
  <1>1. Looked(b)[q] = mined[q] \/ Looked(b)[q] = Answer(HasMinedCommitment(q))
    BY Zenon DEF Looked
  <1>2. Answer(HasMinedCommitment(q)) = Answer(Has(Current, MinedCommitment(q)))
    BY Zenon DEF HasMinedCommitment, Agrees, Answer
  <1>. QED
    BY Zenon, <1>1, <1>2 DEF Agrees, Has

LEMMA BeginConnectCache ==
  ASSUME EvoInv, CacheInv, NEW op \in {"connect", "test"}, NEW b \in Blocks, BeginConnect(op, b)
  PROVE  CacheInv'
  <1>0. status = "running" /\ main.op = "idle"
    BY Zenon DEF BeginConnect, Running, Idle
  <1>1. CASE cur # Clean \/ ~VerifyBestBlock(Current, Parent[b], Height[b])
    BY Zenon, <1>1 DEF BeginConnect, Die, CacheInv, cacheVars
  <1>2. CASE ~(cur # Clean \/ ~VerifyBestBlock(Current, Parent[b], Height[b]))
    <2>1. UNCHANGED <<disk, root, status, reader, raced>>
      BY Zenon, <1>2 DEF BeginConnect
    <2>2. CASE CommitmentAllowed(b)
      <3>1. cur' = WriteCommitment(cur, b) /\ mined' = Forget(Looked(b), b)
        BY Zenon, <1>2, <2>2 DEF BeginConnect
      <3>2. ASSUME NEW q \in Sessions, Agrees(mined[q], q) PROVE Agrees(mined[q], q)'
        <4>1. mined'[q] = IF Mines(b, q) THEN "unknown" ELSE Looked(b)[q]
          BY Zenon, <3>1 DEF Forget
        <4>2. /\ Committed' = Committed
              /\ ~Mines(b, q) => Current'[MinedCommitment(q)] = Current[MinedCommitment(q)]
          BY Zenon, <2>1, <3>1, BeginConnectViews
        <4>3. Agrees(Looked(b)[q], q)
          BY Zenon, <1>0, <3>2, IdleViews, LookedAgrees
        <4>. QED
          BY Zenon, <4>1, <4>2, <4>3 DEF Agrees, Has
      <3>3. mined' = [q \in Sessions |-> mined'[q]]
        BY Zenon, <3>1 DEF Forget
      <3>. QED
        BY Zenon, <1>0, <2>1, <3>2, <3>3, CacheStep
    <2>3. CASE ~CommitmentAllowed(b)
      <3>1. cur' = cur /\ mined' = Looked(b)
        BY Zenon, <1>2, <2>3 DEF BeginConnect
      <3>2. Committed' = Committed /\ Current' = Current
        BY Zenon, <2>1, <3>1 DEF Committed, Current
      <3>3. ASSUME NEW q \in Sessions, Agrees(mined[q], q) PROVE Agrees(mined[q], q)'
        <4>1. Agrees(Looked(b)[q], q)
          BY Zenon, <1>0, <3>3, IdleViews, LookedAgrees
        <4>. QED
          BY Zenon, <3>1, <3>2, <4>1 DEF Agrees, Has
      <3>4. mined' = [q \in Sessions |-> mined'[q]]
        BY Zenon, <3>1 DEF Looked
      <3>. QED
        BY Zenon, <1>0, <2>1, <3>3, <3>4, CacheStep
    <2>. QED
      BY Zenon, <2>2, <2>3
  <1>. QED
    BY Zenon, <1>1, <1>2

LEMMA MainThreadCache ==
  ASSUME EvoInv, CacheInv, MainThread
  PROVE  CacheInv'
  <1>1. CASE \E op \in {"connect", "test"}, b \in Blocks : BeginConnect(op, b)
    BY Zenon, <1>1, BeginConnectCache
  <1>2. CASE ConnectList
    <2>1. /\ status = "running" /\ UNCHANGED <<disk, root, status, mined, reader, raced>>
          /\ cur' \in {cur, WriteList(cur, lists', main.block), EraseList(cur, main.block)}
      BY Zenon, <1>2 DEF ConnectList, Running
    <2>. QED
      BY Zenon, <2>1, ListViews, CacheKept
  <1>3. CASE ConnectCleanup
    <2>1. /\ status = "running" /\ UNCHANGED <<status, mined, reader, raced>>
          /\ Committed' = Committed /\ Current' = Current
      BY Zenon, <1>3 DEF ConnectCleanup, Running, dbVars, Committed, Current
    <2>. QED
      BY Zenon, <2>1, CacheKept
  <1>4. CASE EndConnect
    <2>1. /\ status = "running" /\ UNCHANGED <<disk, status, mined, reader, raced>>
          /\ cur' = Clean
      BY Zenon, <1>4 DEF EndConnect, Running, cacheVars
    <2>2. CASE root' = CommitInto(Write(cur, Best, {main.block}), root)
      <3> DEFINE v == {main.block}
      <3>1. root' = CommitInto(Write(cur, Best, v), root)
        BY Zenon, <2>2
      <3> HIDE DEF v
      <3>. QED
        BY Zenon, <2>1, <3>1, CommitViews, CacheKept
    <2>3. CASE UNCHANGED root
      BY Zenon, <2>1, <2>3, RollbackViews, CacheKept
    <2>. QED
      BY Zenon, <1>4, <2>2, <2>3 DEF EndConnect
  <1>5. CASE BeginDisconnect
    <2>1. CASE cur # Clean \/ ~VerifyBestBlock(Current, coinsTip, Height[coinsTip])
      <3>1. Die
        BY Zenon, <1>5, <2>1 DEF BeginDisconnect
      <3>. QED
        BY Zenon, <3>1 DEF Die, CacheInv, cacheVars
    <2>2. CASE ~(cur # Clean \/ ~VerifyBestBlock(Current, coinsTip, Height[coinsTip]))
      <3>1. /\ status = "running" /\ UNCHANGED <<disk, root, status, mined, reader, raced>>
            /\ cur' \in {cur, WriteList(cur, lists, coinsTip), EraseList(cur, coinsTip)}
        BY Zenon, <1>5, <2>2 DEF BeginDisconnect, Running
      <3>. QED
        BY Zenon, <3>1, ListViews, CacheKept
    <2>. QED
      BY Zenon, <2>1, <2>2
  <1>6. CASE DisconnectQuorum
    <2>1. /\ status = "running" /\ UNCHANGED <<status, reader, raced>>
          /\ mined' = Forget(mined, main.block)
      BY Zenon, <1>6 DEF DisconnectQuorum, Running
    <2>2. ASSUME NEW q \in Sessions, Agrees(mined[q], q) PROVE Agrees(mined[q], q)'
      <3>1. mined'[q] = IF Mines(main.block, q) THEN "unknown" ELSE mined[q]
        BY Zenon, <2>1 DEF Forget
      <3>. QED
        BY Zenon, <1>6, <2>2, <3>1, DisconnectQuorumViews DEF Agrees, Has
    <2>3. mined' = [q \in Sessions |-> mined'[q]]
      BY Zenon, <2>1 DEF Forget
    <2>. QED
      BY Zenon, <2>1, <2>2, <2>3, CacheStep
  <1>7. CASE EndDisconnect
    <2> DEFINE v == {Parent[main.block]}
    <2>1. /\ status = "running" /\ UNCHANGED <<disk, status, mined, reader, raced>>
          /\ cur' = Clean /\ root' = CommitInto(Write(cur, Best, v), root)
      BY Zenon, <1>7 DEF EndDisconnect, Running, cacheVars
    <2> HIDE DEF v
    <2>. QED
      BY Zenon, <2>1, CommitViews, CacheKept
  <1>8. CASE FlushCoins
    <2>1. /\ status = "running" /\ UNCHANGED <<root, cur, status, mined, reader, raced>>
          /\ disk'.evo = disk.evo
      BY Zenon, <1>8 DEF FlushCoins, Running, cacheVars, EvoInv
    <2>2. Committed' = Committed /\ Current' = Current
      BY Zenon, <2>1 DEF Committed, Current
    <2>. QED
      BY Zenon, <2>1, <2>2, CacheKept
  <1>9. CASE FlushEvo
    <2>1. cur = Clean
      BY Zenon, <1>9 DEF FlushEvo, Running, EvoInv, MainOK
    <2>2. status = "running" /\ UNCHANGED <<status, mined, reader, raced>>
      BY Zenon, <1>9, <2>1 DEF FlushEvo, Running, cacheVars
    <2>3. ASSUME NEW q \in Sessions
          PROVE  /\ Committed'[MinedCommitment(q)] = Committed[MinedCommitment(q)]
                 /\ Current'[MinedCommitment(q)] = Committed[MinedCommitment(q)]
      BY Zenon, <1>9, SessionKey, FlushEvoViews
    <2>. QED
      BY Zenon, <2>2, <2>3, CacheKept
  <1>. QED
    BY Zenon, <1>1, <1>2, <1>3, <1>4, <1>5, <1>6, <1>7, <1>8, <1>9 DEF MainThread

LEMMA CacheInvNext == EvoInv /\ CacheInv /\ [Next]_vars => CacheInv'
  <1> SUFFICES ASSUME EvoInv, CacheInv, [Next]_vars PROVE CacheInv'
    OBVIOUS
  <1>1. CASE MainThread
    BY Zenon, <1>1, MainThreadCache
  <1>2. ASSUME NEW q \in Sessions, ReaderLookup(q) PROVE CacheInv'
    <2>1. /\ status = "running" /\ UNCHANGED <<status, mined, raced>>
          /\ reader'.quorum \in Sessions
          /\ Committed' = Committed /\ Current' = Current
      BY Zenon, <1>2 DEF ReaderLookup, Running, cacheVars, dbVars, Committed, Current
    <2>. QED
      BY Zenon, <2>1 DEF CacheInv, Agrees
  <1>3. CASE ReaderStore
    <2> DEFINE r == reader.quorum
               new == mined[r] = "unknown"
               overtaken == \E s \in {Current, Committed} :
                              reader.found # Has(s, MinedCommitment(r))
    <2>1. /\ status = "running" /\ UNCHANGED status /\ reader' = NoReader /\ r \in Sessions
          /\ mined' = [mined EXCEPT ![r] = IF new THEN Answer(reader.found) ELSE @]
          /\ raced' = (raced \/ (new /\ overtaken))
          /\ Committed' = Committed /\ Current' = Current
      BY Zenon, <1>3 DEF ReaderStore, Running, dbVars, Committed, Current, CacheInv
    <2> HIDE DEF r
    <2>2. ASSUME ~raced', NEW q \in Sessions PROVE Agrees(mined[q], q)'
      <3>1. Agrees(mined[q], q)
        BY Zenon, <2>1, <2>2 DEF CacheInv
      <3>2. CASE q = r /\ new
        <4>1. mined'[q] = Answer(reader.found)
          BY Zenon, <2>1, <3>2 DEF CacheInv
        <4>2. /\ reader.found = Has(Current, MinedCommitment(q))
              /\ reader.found = Has(Committed, MinedCommitment(q))
          BY Zenon, <2>1, <2>2, <3>2
        <4>. QED
          BY Zenon, <2>1, <4>1, <4>2 DEF Agrees, Has
      <3>3. CASE ~(q = r /\ new)
        <4>1. mined'[q] = mined[q]
          BY Zenon, <2>1, <3>3 DEF CacheInv
        <4>. QED
          BY Zenon, <2>1, <3>1, <4>1 DEF Agrees, Has
      <3>. QED
        BY Zenon, <3>2, <3>3
    <2>3. mined' = [q \in Sessions |-> mined'[q]]
      BY Zenon, <2>1 DEF CacheInv
    <2>. QED
      BY Zenon, <2>1, <2>2, <2>3 DEF CacheInv
  <1>4. CASE \/ UpdatedBlockTip \/ GetListAtChainTip \/ UNCHANGED vars
             \/ \E q \in Sessions, n \in 1..MaxSigners : FinalizeCommitment(q, n) \/ ProcessMessage(q, n)
    <2>1. UNCHANGED <<disk, root, cur, status, mined, reader, raced>>
      BY Zenon, <1>4 DEF UpdatedBlockTip, GetListAtChainTip, FinalizeCommitment, ProcessMessage,
         cacheVars, dbVars, vars
    <2>2. Committed' = Committed /\ Current' = Current
      BY Zenon, <2>1 DEF Committed, Current
    <2>. QED
      BY Zenon, <2>1, <2>2 DEF CacheInv, Agrees
  <1>5. CASE Crash
    BY Zenon, <1>5 DEF Crash, CacheInv
  <1>6. CASE Start
    BY Zenon, <1>6 DEF Start, CacheInv, Agrees
  <1>. QED
    BY Zenon, <1>1, <1>2, <1>3, <1>4, <1>5, <1>6 DEF Next, OtherThreads

\* HasMinedCommitment's cache agrees with the EvoDB between two operations, through every
\* connection, test, rollback, disconnection and crash, unless a lookup was overtaken.
THEOREM MinedCacheAgrees == EvoSpec => []CacheAgrees
  <1>1. CacheInv => CacheAgrees
    BY Zenon DEF CacheInv, CacheAgrees, Settled, Agrees
  <1>. QED
    BY <1>1, EvoInvInit, EvoInvNext, CacheInvInit, CacheInvNext, PTL DEF EvoSpec

-----------------------------------------------------------------------------
(* The commitments of the chain                                            *)

LEMMA ExactAt ==
  ASSUME NEW s, Exact(s), NEW t \in Blocks, Names(s, t)
  PROVE  Holds(s, t)
  <1>1. PICK u \in Blocks : Names(s, u) /\ Holds(s, u)
    BY Zenon DEF Exact
  <1>2. u = t
    BY <1>1 DEF Names
  <1>. QED
    BY Zenon, <1>1, <1>2

\* A block that ProcessBlock accepts on a chain that keeps the rule keeps it.
LEMMA AllowedKeepsRule ==
  ASSUME CacheInv, status = "running", ~raced,
         NEW b \in Blocks, b # Genesis, coinsTip = Parent[b],
         Holds(Committed, coinsTip), Holds(Current, coinsTip), Rule(coinsTip),
         CommitmentAllowed(b)
  PROVE  Rule(b)
  <1>1. ASSUME NEW q \in QuorumBlock(b)
        PROVE  HasMinedCommitment(q) <=> ~(\A a \in Ancestors[b] \ {b} : ~Mines(a, q))
    <2>1. q \in Sessions
      BY Zenon, <1>1, QuorumBlockUnique
    <2>2. Agrees(mined[q], q)
      BY Zenon, <2>1 DEF CacheInv
    <2>3. HasMinedCommitment(q) <=> Has(Current, MinedCommitment(q))
      BY Zenon, <2>2 DEF HasMinedCommitment, Agrees, Answer
    <2>4. Current[MinedCommitment(q)] = ChainMined(coinsTip, q)
      BY Zenon, <2>1 DEF Holds
    <2>5. ChainMined(coinsTip, q) = {a \in Ancestors[b] \ {b} : Mines(a, q)}
      BY Zenon, AncestorsOfChild DEF ChainMined
    <2>. QED
      BY Zenon, <2>3, <2>4, <2>5 DEF Has
  <1>2. DIP0003Active(b) =>
          ((Commitment[b] # "none") <=>
             /\ IsMiningPhase(b)
             /\ \E q \in QuorumBlock(b) : \A a \in Ancestors[b] \ {b} : ~Mines(a, q))
    BY Zenon, <1>1 DEF CommitmentAllowed, IsCommitmentRequired
  <1>. QED
    BY Zenon, <1>2, AncestorsOfChild DEF Rule

\* What the chain mined, before and after its last block.
LEMMA LastMined ==
  ASSUME NEW b \in Blocks, b # Genesis, Rule(b), NEW q
  PROVE  /\ Mines(b, q) => ChainMined(b, q) = {b} /\ ChainMined(Parent[b], q) = {}
         /\ ~Mines(b, q) => ChainMined(b, q) = ChainMined(Parent[b], q)
  <1>1. b \in Ancestors[b]
    BY Zenon, EvoAssumption
  <1>2. Mines(b, q) => \A a \in Ancestors[b] \ {b} : ~Mines(a, q)
    BY Zenon, <1>1, MinedOnce
  <1>3. Mines(b, q) => ChainMined(Parent[b], q) = {}
    BY Zenon, <1>2, AncestorsOfChild DEF ChainMined
  <1>. QED
    BY <1>3, ChainMinedStep

LEMMA ChainInvInit == Init => ChainInv
  <1> SUFFICES ASSUME Init PROVE ChainInv
    OBVIOUS
  <1>1. Genesis \in Blocks /\ ~DIP0003Active(Genesis)
    BY EvoAssumption DEF DIP0003Active
  <1>2. ASSUME NEW b \in Ancestors[Genesis] PROVE ~DIP0003Active(b)
    <2>1. b \in Blocks /\ Height[b] \in Nat
      BY Zenon, <1>1, EvoAssumption
    <2>2. b = Genesis \/ Height[b] < Height[Genesis]
      BY Zenon, <1>1, EvoAssumption
    <2>. QED
      BY <1>1, <2>1, <2>2, EvoAssumption
  <1>3. Rule(Genesis)
    BY Zenon, <1>2 DEF Rule
  <1>4. ASSUME NEW s, \A k \in Keys : s[k] = {} PROVE Exact(s)
    <2>1. Names(s, Genesis)
      BY Zenon, <1>4, BestIsKey DEF Names
    <2>2. ASSUME NEW q \in Sessions PROVE s[MinedCommitment(q)] = ChainMined(Genesis, q)
      BY Zenon, <1>1, <1>4, NothingMinedBelow, SessionKey
    <2>. QED
      BY Zenon, <1>1, <2>1, <2>2 DEF Exact, Holds
  <1>5. \A k \in Keys : disk.evo[k] = {} /\ Committed[k] = {}
    BY Zenon, CleanView DEF Init, NoEntries, Committed
  <1>6. Exact(disk.evo) /\ Exact(Committed)
    BY Zenon, <1>4, <1>5
  <1>7. TxExact
    BY Zenon DEF Init, Idle, TxExact
  <1>. QED
    BY Zenon, <1>3, <1>6, <1>7 DEF Init, ChainInv, ChainExact

\* Steps that leave the databases and the main thread's operation alone.
LEMMA QuietExact ==
  ASSUME ChainExact, UNCHANGED <<disk, root, coinsTip, status>>,
         \/ UNCHANGED <<cur, main>>
         \/ /\ main.op \in {"connect", "test"}
            /\ main'.op = main.op /\ main'.block = main.block
            /\ \A q \in Sessions :
                 Current'[MinedCommitment(q)] = Current[MinedCommitment(q)]
  PROVE  ChainExact'
  <1>1. Committed' = Committed
    BY Zenon DEF Committed
  <1>2. UNCHANGED <<cur, main>> => Current' = Current
    BY Zenon, <1>1 DEF Current
  <1>3. TxExact => TxExact'
    BY Zenon, <1>2 DEF TxExact, Holds
  <1>4. (Rule(coinsTip) /\ Rule(disk.coins) /\ Exact(disk.evo))'
    BY Zenon DEF ChainExact
  <1>5. Exact(Committed) => Exact(Committed')
    BY Zenon, <1>1
  <1>. QED
    BY Zenon, <1>3, <1>4, <1>5 DEF ChainExact

LEMMA DieExact ==
  ASSUME ChainExact, Die
  PROVE  ChainExact'
  BY Zenon DEF ChainExact, Die, dbVars

\* An operation of the main thread begins on the chain that the EvoDB holds.
LEMMA BeginExact ==
  ASSUME EvoInv, ChainExact, status = "running", main = Idle,
         NEW h \in Nat, VerifyBestBlock(Current, coinsTip, h)
  PROVE  /\ Holds(Committed, coinsTip) /\ Holds(Current, coinsTip)
         /\ Rule(coinsTip) /\ coinsTip \in Blocks
  <1>1. Names(Committed, coinsTip) /\ coinsTip \in Blocks
    BY Zenon, VerifiedBest DEF Names, EvoInv
  <1>2. Holds(Committed, coinsTip)
    BY Zenon, <1>1, ExactAt DEF ChainExact
  <1>3. Holds(Current, coinsTip)
    BY Zenon, <1>2, IdleViews DEF Holds, Idle
  <1>. QED
    BY Zenon, <1>1, <1>2, <1>3 DEF ChainExact

LEMMA BeginConnectExact ==
  ASSUME EvoInv, CacheInv, ChainExact, ~raced,
         NEW op \in {"connect", "test"}, NEW b \in Blocks, BeginConnect(op, b)
  PROVE  ChainExact'
  <1>0. /\ status = "running" /\ main = Idle /\ b # Genesis /\ coinsTip = Parent[b]
        /\ Height[b] \in Nat
    BY Zenon, HeightPositive DEF BeginConnect, Running
  <1>1. CASE cur # Clean \/ ~VerifyBestBlock(Current, Parent[b], Height[b])
    BY Zenon, <1>1, DieExact DEF BeginConnect
  <1>2. CASE ~(cur # Clean \/ ~VerifyBestBlock(Current, Parent[b], Height[b]))
    <2>1. UNCHANGED <<disk, root, coinsTip, status>>
      BY Zenon, <1>2 DEF BeginConnect
    <2>2. Holds(Committed, coinsTip) /\ Holds(Current, coinsTip) /\ Rule(coinsTip)
      BY Zenon, <1>0, <1>2, BeginExact
    <2>3. CASE CommitmentAllowed(b)
      <3>1. cur' = WriteCommitment(cur, b) /\ main'.op = op /\ main'.block = b
        BY Zenon, <1>2, <2>3, BeginConnectDoes
      <3>2. Rule(b)
        BY Zenon, <1>0, <2>2, <2>3, AllowedKeepsRule
      <3>3. Committed' = Committed
        BY Zenon, <2>1 DEF Committed
      <3>4. ASSUME NEW q \in Sessions
            PROVE  Current'[MinedCommitment(q)] = ChainMined(b, q)
        <4>1. Current'[MinedCommitment(q)] =
                IF Mines(b, q) THEN {b} ELSE Current[MinedCommitment(q)]
          BY Zenon, <2>1, <3>1, BeginConnectViews
        <4>2. Current[MinedCommitment(q)] = ChainMined(Parent[b], q)
          BY Zenon, <1>0, <2>2 DEF Holds
        <4>3. /\ Mines(b, q) => ChainMined(b, q) = {b}
              /\ ~Mines(b, q) => ChainMined(b, q) = ChainMined(Parent[b], q)
          BY Zenon, <1>0, <3>2, LastMined
        <4>. QED
          BY ONLY Zenon, <4>1, <4>2, <4>3
      <3>5. TxExact'
        BY Zenon, <1>0, <2>1, <3>1, <3>2, <3>4 DEF TxExact, Holds
      <3>. QED
        BY Zenon, <1>0, <2>1, <3>3, <3>5 DEF ChainExact
    <2>4. CASE ~CommitmentAllowed(b)
      BY Zenon, <1>2, <2>1, <2>4, QuietExact DEF BeginConnect
    <2>. QED
      BY Zenon, <2>3, <2>4
  <1>. QED
    BY Zenon, <1>1, <1>2

\* A commit puts the best block in place.
LEMMA CommitNames ==
  ASSUME EvoInv, UNCHANGED disk, NEW t, root' = CommitInto(Write(cur, Best, {t}), root)
  PROVE  Names(Committed', t)
  <1> DEFINE v == {t}
             s == disk.evo
  <1>1. v # {} /\ Committed' = View(s, CommitInto(Write(cur, Best, v), root))
    BY Zenon DEF Committed
  <1>2. Good(cur) /\ Good(root)
    BY Zenon DEF EvoInv
  <1> HIDE DEF v, s
  <1>3. View(s, CommitInto(Write(cur, Best, v), root))[Best] = v
    BY ONLY <1>1, <1>2, CommitBest
  <1>. QED
    BY Zenon, <1>1, <1>3 DEF Names, v

\* A step that ends an operation with a commit.
LEMMA CommitExact ==
  ASSUME EvoInv, ChainExact, status = "running", UNCHANGED <<disk, status>>,
         cur' = Clean, main' = Idle, NEW t \in Blocks, coinsTip' = t,
         root' = CommitInto(Write(cur, Best, {t}), root),
         Rule(t), Holds(Current, t)
  PROVE  ChainExact'
  <1>1. Names(Committed', t)
    BY Zenon, CommitNames
  <1>2. ASSUME NEW q \in Sessions
        PROVE  Committed'[MinedCommitment(q)] = ChainMined(t, q)
    <2> DEFINE v == {t}
    <2>1. root' = CommitInto(Write(cur, Best, v), root)
      OBVIOUS
    <2> HIDE DEF v
    <2>2. Committed'[MinedCommitment(q)] = Current[MinedCommitment(q)]
      BY Zenon, <2>1, CommitViews
    <2>. QED
      BY Zenon, <2>2 DEF Holds
  <1>3. Exact(Committed')
    BY Zenon, <1>1, <1>2 DEF Exact, Holds
  <1>4. TxExact'
    BY Zenon DEF TxExact, Idle
  <1>. QED
    BY Zenon, <1>3, <1>4 DEF ChainExact

LEMMA MainThreadExact ==
  ASSUME EvoInv, CacheInv, ChainExact, ~raced, MainThread
  PROVE  ChainExact'
  <1>1. CASE \E op \in {"connect", "test"}, b \in Blocks : BeginConnect(op, b)
    BY Zenon, <1>1, BeginConnectExact
  <1>2. CASE ConnectList
    <2>1. /\ UNCHANGED <<disk, root, coinsTip, status>>
          /\ cur' \in {cur, WriteList(cur, lists', main.block), EraseList(cur, main.block)}
          /\ main.op \in {"connect", "test"}
      BY Zenon, <1>2 DEF ConnectList
    <2>2. main'.op = main.op /\ main'.block = main.block
      BY Zenon, <1>2 DEF ConnectList, EvoInv, At
    <2>3. \A q \in Sessions : Current'[MinedCommitment(q)] = Current[MinedCommitment(q)]
      BY Zenon, <2>1, ListViews
    <2>. QED
      BY Zenon, <2>1, <2>2, <2>3, QuietExact
  <1>3. CASE ConnectCleanup
    <2>1. /\ UNCHANGED <<disk, root, coinsTip, status>> /\ Current' = Current
          /\ main.op = "connect"
      BY Zenon, <1>3 DEF ConnectCleanup, dbVars, Current, Committed
    <2>2. main'.op = main.op /\ main'.block = main.block
      BY Zenon, <1>3 DEF ConnectCleanup, EvoInv, At
    <2>. QED
      BY Zenon, <2>1, <2>2, QuietExact
  <1>4. CASE EndConnect
    <2>1. /\ status = "running" /\ main.op \in {"connect", "test"}
          /\ UNCHANGED <<disk, status>> /\ main' = Idle /\ cur' = Clean
      BY Zenon, <1>4 DEF EndConnect, Running
    <2>2. /\ main.block \in Blocks /\ Rule(main.block) /\ Holds(Current, main.block)
      BY Zenon, <2>1 DEF EvoInv, MainOK, ChainExact, TxExact
    <2>3. CASE /\ root' = CommitInto(Write(cur, Best, {main.block}), root)
               /\ coinsTip' = main.block
      BY Zenon, <2>1, <2>2, <2>3, CommitExact
    <2>4. CASE UNCHANGED <<root, coinsTip>>
      <3>1. Committed' = Committed
        BY Zenon, <2>1, <2>4 DEF Committed
      <3>2. TxExact'
        BY Zenon, <2>1 DEF TxExact, Idle
      <3>. QED
        BY Zenon, <2>1, <2>4, <3>1, <3>2 DEF ChainExact
    <2>. QED
      BY Zenon, <1>4, <2>3, <2>4 DEF EndConnect
  <1>5. CASE BeginDisconnect
    <2>0. status = "running" /\ main = Idle /\ Height[coinsTip] \in Nat
      BY Zenon, <1>5, EvoAssumption DEF BeginDisconnect, Running, EvoInv
    <2>1. CASE cur # Clean \/ ~VerifyBestBlock(Current, coinsTip, Height[coinsTip])
      <3>1. Die
        BY Zenon, <1>5, <2>1 DEF BeginDisconnect
      <3>. QED
        BY Zenon, <3>1, DieExact
    <2>2. CASE ~(cur # Clean \/ ~VerifyBestBlock(Current, coinsTip, Height[coinsTip]))
      <3>1. /\ UNCHANGED <<disk, root, coinsTip, status>>
            /\ cur' \in {cur, WriteList(cur, lists, coinsTip), EraseList(cur, coinsTip)}
            /\ main' = At("disconnect", coinsTip, "quorum")
        BY Zenon, <1>5, <2>2 DEF BeginDisconnect
      <3>2. main'.op = "disconnect" /\ main'.block = coinsTip /\ main'.step = "quorum"
        BY Zenon, <3>1 DEF At
      <3>3. Holds(Current, coinsTip)
        BY Zenon, <2>0, <2>2, BeginExact
      <3>4. Committed' = Committed
        BY Zenon, <3>1 DEF Committed
      <3>5. \A q \in Sessions : Current'[MinedCommitment(q)] = Current[MinedCommitment(q)]
        BY Zenon, <3>1, ListViews
      <3>6. TxExact'
        BY Zenon, <3>1, <3>2, <3>3, <3>5 DEF TxExact, Holds
      <3>. QED
        BY Zenon, <2>0, <3>1, <3>4, <3>6 DEF ChainExact
    <2>. QED
      BY Zenon, <2>1, <2>2
  <1>6. CASE DisconnectQuorum
    <2>1. /\ status = "running" /\ main.op = "disconnect" /\ main.step = "quorum"
          /\ UNCHANGED <<disk, root, coinsTip, status>>
      BY Zenon, <1>6 DEF DisconnectQuorum, Running
    <2>2. /\ main'.op = "disconnect" /\ main'.block = main.block /\ main'.step = "end"
      BY Zenon, <1>6, <2>1 DEF DisconnectQuorum, EvoInv, At
    <2>3. /\ main.block \in Blocks /\ main.block # Genesis
          /\ coinsTip = main.block /\ Rule(main.block) /\ Holds(Current, main.block)
      BY Zenon, <2>1 DEF EvoInv, MainOK, ChainExact, TxExact
    <2>4. ASSUME NEW q \in Sessions
          PROVE  Current'[MinedCommitment(q)] = ChainMined(Parent[main.block], q)
      <3>1. Current'[MinedCommitment(q)] =
              IF Mines(main.block, q) THEN {} ELSE Current[MinedCommitment(q)]
        BY Zenon, <1>6, DisconnectQuorumViews
      <3>2. Current[MinedCommitment(q)] = ChainMined(main.block, q)
        BY Zenon, <2>3 DEF Holds
      <3>. QED
        BY Zenon, <2>3, <3>1, <3>2, LastMined
    <2>5. Committed' = Committed
      BY Zenon, <2>1 DEF Committed
    <2>6. TxExact'
      BY Zenon, <2>1, <2>2, <2>3, <2>4 DEF TxExact, Holds
    <2>. QED
      BY Zenon, <2>1, <2>5, <2>6 DEF ChainExact
  <1>7. CASE EndDisconnect
    <2>1. /\ status = "running" /\ main.op = "disconnect" /\ main.step = "end"
          /\ UNCHANGED <<disk, status>> /\ main' = Idle /\ cur' = Clean
          /\ root' = CommitInto(Write(cur, Best, {Parent[main.block]}), root)
          /\ coinsTip' = Parent[main.block]
      BY Zenon, <1>7 DEF EndDisconnect, Running
    <2>2. /\ main.block \in Blocks /\ main.block # Genesis /\ Parent[main.block] \in Blocks
          /\ Rule(main.block) /\ Holds(Current, Parent[main.block])
      BY Zenon, <2>1, HeightPositive DEF EvoInv, MainOK, ChainExact, TxExact
    <2>3. Rule(Parent[main.block])
      BY Zenon, <2>2, AncestorsDown
    <2>. QED
      BY Zenon, <2>1, <2>2, <2>3, CommitExact
  <1>8. CASE FlushCoins
    <2>1. /\ status = "running" /\ UNCHANGED <<root, cur, coinsTip, status>>
          /\ disk'.evo = disk.evo /\ disk'.coins = coinsTip /\ main'.op = "flush"
      BY Zenon, <1>8 DEF FlushCoins, Running, EvoInv, At
    <2>2. Committed' = Committed
      BY Zenon, <2>1 DEF Committed
    <2>3. TxExact'
      BY Zenon, <2>1 DEF TxExact
    <2>. QED
      BY Zenon, <2>1, <2>2, <2>3 DEF ChainExact
  <1>9. CASE FlushEvo
    <2>1. cur = Clean
      BY Zenon, <1>9 DEF FlushEvo, Running, EvoInv, MainOK
    <2>2. status = "running" /\ UNCHANGED <<status, coinsTip>> /\ main' = Idle
      BY Zenon, <1>9, <2>1 DEF FlushEvo, Running
    <2>3. /\ disk' = [coins |-> disk.coins, evo |-> Committed]
          /\ \A k \in Keys : Committed'[k] = Committed[k]
      BY Zenon, <1>9, FlushEvoViews, BestIsKey
    <2>4. disk'.coins = disk.coins /\ disk'.evo = Committed
      BY Zenon, <2>3
    <2>5. Exact(Committed')
      <3>1. PICK t \in Blocks : Names(Committed, t) /\ Holds(Committed, t)
        BY Zenon, <2>2 DEF ChainExact, Exact
      <3>2. Names(Committed', t)
        BY Zenon, <2>3, <3>1, BestIsKey DEF Names
      <3>3. Holds(Committed', t)
        BY Zenon, <2>3, <3>1, SessionKey DEF Holds
      <3>. QED
        BY Zenon, <3>2, <3>3 DEF Exact
    <2>6. TxExact'
      BY Zenon, <2>2 DEF TxExact, Idle
    <2>. QED
      BY Zenon, <2>2, <2>4, <2>5, <2>6 DEF ChainExact
  <1>. QED
    BY Zenon, <1>1, <1>2, <1>3, <1>4, <1>5, <1>6, <1>7, <1>8, <1>9 DEF MainThread

\* UpgradeDBIfNeeded leaves the commitments alone; an EvoDB without a best block belongs to
\* a chain on which none was mined yet.
LEMMA IfNeededExact ==
  ASSUME EvoInv, Exact(disk.evo), Has(disk.evo, Best) \/ ~DIP0003Active(coinsTip)
  PROVE  Exact(UpgradeDBIfNeeded(disk.evo))
  <1> DEFINE s == disk.evo
             evo == UpgradeDBIfNeeded(s)
  <1>1. CASE Has(s, Best)
    BY Zenon, <1>1 DEF UpgradeDBIfNeeded
  <1>2. CASE ~Has(s, Best)
    <2>1. Names(s, Genesis) /\ coinsTip \in Blocks /\ Genesis \in Blocks
      BY Zenon, <1>2, EvoAssumption DEF Names, Has, EvoInv
    <2>2. Holds(s, Genesis)
      BY Zenon, <2>1, ExactAt
    <2>3. ASSUME NEW q \in Sessions PROVE evo[MinedCommitment(q)] = s[MinedCommitment(q)]
      BY Zenon, <1>2, SessionKey, OtherKeys DEF UpgradeDBIfNeeded
    <2>4. evo[Best] = {coinsTip}
      BY Zenon, <1>2, UpgradesBest
    <2>5. ASSUME NEW q \in Sessions
          PROVE  ChainMined(coinsTip, q) = {} /\ ChainMined(Genesis, q) = {}
      <3>1. ~DIP0003Active(Genesis) /\ ~DIP0003Active(coinsTip)
        BY <1>2, EvoAssumption DEF DIP0003Active
      <3>. QED
        BY Zenon, <2>1, <3>1, NothingMinedBelow
    <2> HIDE DEF evo, s
    <2>6. Holds(evo, coinsTip)
      BY Zenon, <2>2, <2>3, <2>5 DEF Holds
    <2>7. Exact(evo)
      BY Zenon, <2>1, <2>4, <2>6 DEF Exact, Names
    <2>. QED
      BY Zenon, <2>7 DEF evo, s
  <1>. QED
    BY Zenon, <1>1, <1>2

\* UpgradeDB writes again what is there already.
LEMMA UpgradeDBExact ==
  ASSUME NEW evo, Exact(evo), coinsTip \in Blocks, Rule(coinsTip),
         evo[Best] = {coinsTip} \/ coinsTip = Genesis
  PROVE  Exact(UpgradeDB(evo))
  <1> DEFINE blocks == ActiveAt(EnforcementHeight)
             new == UpgradeDB(evo)
  <1>1. CASE evo[BestUpgrade] = {coinsTip} \/ blocks = {}
    BY Zenon, <1>1 DEF UpgradeDB
  <1>2. CASE ~(evo[BestUpgrade] = {coinsTip} \/ blocks = {})
    <2>1. coinsTip # Genesis
      <3>1. PICK b \in Ancestors[coinsTip] : Height[b] >= EnforcementHeight
        BY Zenon, <1>2 DEF ActiveAt
      <3>2. b \in Blocks /\ (b = coinsTip \/ Height[b] < Height[coinsTip])
        BY Zenon, <3>1, EvoAssumption
      <3>3. /\ Height[b] \in Nat /\ Height[coinsTip] \in Nat /\ Height[Genesis] = 0
            /\ EnforcementHeight \in Nat /\ DIP0003Height \in Nat
            /\ DIP0003Height >= 2 /\ EnforcementHeight >= DIP0003Height
        BY Zenon, <3>2, EvoAssumption
      <3>. QED
        BY ONLY <3>1, <3>2, <3>3
    <2>2. Holds(evo, coinsTip)
      BY Zenon, <2>1, ExactAt DEF Names
    <2>3. ASSUME NEW q \in Sessions PROVE new[MinedCommitment(q)] = ChainMined(coinsTip, q)
      <3> DEFINE k == MinedCommitment(q)
                 by == {b \in blocks : Mines(b, q)}
      <3>1. k \in Keys /\ k # BestUpgrade /\ \A b : k # InversedHeightKey(b)
        BY Zenon, SessionKey, OtherKeys
      <3>2. \A r \in Sessions : k = MinedCommitment(r) <=> r = q
        BY Zenon DEF MinedCommitment
      <3>3. new[k] = IF by # {} THEN by ELSE evo[k]
        <4>1. new[k] =
                IF \E b \in blocks, r \in Sessions : (b \in blocks /\ Mines(b, r)) /\ k = MinedCommitment(r)
                THEN {b \in blocks : \E r \in Sessions : (b \in blocks /\ Mines(b, r)) /\ k = MinedCommitment(r)}
                ELSE evo[k]
          <5> HIDE DEF k
          <5>. QED
            BY Zenon, <1>2, <3>1 DEF UpgradeDB
        <4> HIDE DEF k, new, blocks
        <4>. QED
          BY Zenon, <3>2, <4>1
      <3>4. by \subseteq ChainMined(coinsTip, q)
        BY Zenon DEF ActiveAt, ChainMined
      <3>5. \A x, y \in ChainMined(coinsTip, q) : x = y
        BY Zenon, MinedUnique
      <3>6. evo[k] = ChainMined(coinsTip, q)
        BY Zenon, <2>2 DEF Holds
      <3> HIDE DEF by, k, new
      <3>7. by # {} => by = ChainMined(coinsTip, q)
        BY Zenon, <3>4, <3>5
      <3>8. new[k] = ChainMined(coinsTip, q)
        BY Zenon, <3>3, <3>6, <3>7
      <3>. QED
        BY Zenon, <3>8 DEF k
    <2>4. new[Best] = evo[Best]
      BY Zenon, UpgradesBest
    <2> HIDE DEF new
    <2>5. Exact(new)
      BY Zenon, <2>1, <2>3, <2>4 DEF Exact, Names, Holds
    <2>. QED
      BY Zenon, <2>5 DEF new
  <1>. QED
    BY Zenon, <1>1, <1>2

LEMMA StartExact ==
  ASSUME EvoInv, ChainExact, Start, ~upgraded'
  PROVE  ChainExact'
  <1> DEFINE evo == UpgradeDBIfNeeded(disk.evo)
             verified == coinsTip = Genesis \/ VerifyBestBlock(evo, coinsTip, Height[coinsTip])
  <1>1. /\ status = "down"
        /\ disk' = [disk EXCEPT !.evo = IF verified THEN UpgradeDB(evo) ELSE evo]
        /\ Has(disk.evo, Best) \/ ~DIP0003Active(coinsTip)
        /\ UNCHANGED <<root, cur, coinsTip, main>>
    BY Zenon DEF Start
  <1>2. root = Clean /\ main = Idle /\ coinsTip \in Blocks
    BY Zenon, <1>1 DEF EvoInv
  <1>3. Exact(evo)
    BY Zenon, <1>1, IfNeededExact DEF ChainExact
  <1>4. evo[Best] # {}
    BY Zenon, UpgradesBest DEF Has
  <1> HIDE DEF evo
  <1>5. verified => Exact(UpgradeDB(evo))
    <2>1. verified => evo[Best] = {coinsTip} \/ coinsTip = Genesis
      BY Zenon, <1>4 DEF VerifyBestBlock, Has
    <2>. QED
      BY Zenon, <1>2, <1>3, <2>1, UpgradeDBExact DEF ChainExact
  <1>6. disk'.coins = disk.coins /\ disk'.evo = IF verified THEN UpgradeDB(evo) ELSE evo
    BY Zenon, <1>1 DEF EvoInv
  <1>7. Exact(disk'.evo)
    BY Zenon, <1>3, <1>5, <1>6
  <1>8. Exact(Committed')
    <2> DEFINE s == disk'.evo
    <2>1. Committed' = View(s, Clean)
      BY Zenon, <1>1, <1>2 DEF Committed
    <2> HIDE DEF s
    <2>2. PICK t \in Blocks : Names(s, t) /\ Holds(s, t)
      BY Zenon, <1>7 DEF Exact, s
    <2>3. Names(View(s, Clean), t)
      BY Zenon, <2>2, BestIsKey, CleanView DEF Names
    <2>4. Holds(View(s, Clean), t)
      BY Zenon, <2>2, SessionKey, CleanView DEF Holds
    <2>. QED
      BY Zenon, <2>1, <2>3, <2>4 DEF Exact
  <1>9. TxExact'
    BY Zenon, <1>1, <1>2 DEF TxExact, Idle
  <1>. QED
    BY Zenon, <1>1, <1>6, <1>7, <1>8, <1>9 DEF ChainExact

LEMMA ChainInvNext == EvoInv /\ CacheInv /\ ChainInv /\ [Next]_vars => ChainInv'
  <1> SUFFICES ASSUME EvoInv, CacheInv, ChainInv, [Next]_vars PROVE ChainInv'
    OBVIOUS
  <1>1. CASE MainThread
    <2>1. UNCHANGED <<raced, upgraded>>
      BY Zenon, <1>1 DEF MainThread, BeginConnect, ConnectList, ConnectCleanup, EndConnect,
         BeginDisconnect, DisconnectQuorum, EndDisconnect, FlushCoins, FlushEvo, Die
    <2>. QED
      BY Zenon, <1>1, <2>1, MainThreadExact DEF ChainInv
  <1>2. CASE OtherThreads \/ UNCHANGED vars
    <2>1. UNCHANGED <<disk, root, coinsTip, status, cur, main, upgraded>>
      BY Zenon, <1>2 DEF OtherThreads, ReaderLookup, ReaderStore, UpdatedBlockTip,
         GetListAtChainTip, FinalizeCommitment, ProcessMessage, dbVars, vars
    <2>2. raced => raced'
      BY Zenon, <1>2 DEF OtherThreads, ReaderLookup, ReaderStore, UpdatedBlockTip,
         GetListAtChainTip, FinalizeCommitment, ProcessMessage, vars
    <2>. QED
      BY Zenon, <2>1, <2>2, QuietExact DEF ChainInv
  <1>3. CASE Crash
    <2>1. /\ UNCHANGED <<disk, raced, upgraded>> /\ status' = "down" /\ coinsTip' = disk.coins
      BY Zenon, <1>3 DEF Crash
    <2>. QED
      BY Zenon, <2>1 DEF ChainInv, ChainExact
  <1>4. CASE Start
    <2>1. UNCHANGED raced /\ upgraded' \in BOOLEAN /\ (upgraded => upgraded')
      BY Zenon, <1>4 DEF Start
    <2>. QED
      BY Zenon, <1>4, <2>1, StartExact DEF ChainInv
  <1>. QED
    BY Zenon, <1>1, <1>2, <1>3, <1>4 DEF Next

\* On every chain that a running node has reached, a block carries a commitment exactly
\* when ProcessBlock's rule asks for one, although the rule is judged by a database and a
\* cache that crashes, tests and reorganisations have gone through.
THEOREM CommitmentsFollowRule == EvoSpec => []CommitmentRule
  <1>1. ChainInv => CommitmentRule
    BY Zenon DEF ChainInv, ChainExact, Rule, CommitmentRule, ActiveAt, DIP0003Active
  <1>. QED
    BY <1>1, EvoInvInit, EvoInvNext, CacheInvInit, CacheInvNext, ChainInvInit, ChainInvNext,
       PTL DEF EvoSpec

\* Between two operations, the commitments in the EvoDB are those of the active chain.
CommitmentsStored ==
  Settled /\ ~raced /\ ~upgraded /\ coinsTip # Genesis =>
    \A q \in Sessions : Committed[MinedCommitment(q)] = ChainMined(coinsTip, q)

\* HasMinedCommitment answers for the active chain: what EvoMatchesChain says of the
\* entries by quorum, for every tree of blocks.
THEOREM StoredCommitmentsAreTheChains == EvoSpec => []CommitmentsStored
  <1>1. EvoInv /\ ChainInv => CommitmentsStored
    <2> SUFFICES ASSUME EvoInv, ChainInv, Settled, ~raced, ~upgraded, coinsTip # Genesis
                 PROVE  Holds(Committed, coinsTip)
      BY Zenon DEF CommitmentsStored, Holds
    <2>1. Names(Committed, coinsTip) /\ coinsTip \in Blocks
      BY Zenon DEF EvoInv, BestOK, Settled, Names
    <2>. QED
      BY Zenon, <2>1, ExactAt DEF ChainInv, ChainExact, Settled
  <1>. QED
    BY <1>1, EvoInvInit, EvoInvNext, CacheInvInit, CacheInvNext, ChainInvInit, ChainInvNext,
       PTL DEF EvoSpec

-----------------------------------------------------------------------------
(* The keys and the chains that the other entries rest on                  *)

\* The quorum blocks are kept under other keys.
LEMMA CommitmentOther ==
  ASSUME NEW tx, Good(tx), NEW b, NEW s, NEW k \in Keys, k # BestUpgrade,
         \A q \in Blocks : Mines(b, q) => k # MinedCommitment(q) /\ k # InversedHeightKey(b)
  PROVE  /\ View(s, WriteCommitment(tx, b))[k] = View(s, tx)[k]
         /\ View(s, EraseCommitment(tx, b))[k] = View(s, tx)[k]
  <1> DEFINE r == CHOOSE x \in Blocks : Mines(b, x)
             any == \E x \in Blocks : Mines(b, x)
             mc == MinedCommitment(r)
             ih == InversedHeightKey(b)
  <1>1. any => mc # k /\ ih # k
    <2>1. any => r \in Blocks /\ Mines(b, r)
      OBVIOUS
    <2> HIDE DEF r
    <2>. QED
      BY Zenon, <2>1
  <1> HIDE DEF mc, ih, r, any
  <1>2. ASSUME NEW t, Good(t), NEW v PROVE View(s, Write(t, BestUpgrade, v))[k] = View(s, t)[k]
    BY <1>2, WriteOther
  <1>3. ASSUME any, NEW v, NEW w
        PROVE  LET t == Write(Write(tx, mc, v), ih, w) IN Good(t) /\ View(s, t)[k] = View(s, tx)[k]
    <2> DEFINE one == Write(tx, mc, v)
    <2>1. Good(one) /\ View(s, one)[k] = View(s, tx)[k]
      BY <1>1, <1>3, WriteGood, WriteOther
    <2> HIDE DEF one
    <2>2. Good(Write(one, ih, w)) /\ View(s, Write(one, ih, w))[k] = View(s, one)[k]
      BY <1>1, <1>3, <2>1, WriteGood, WriteOther
    <2>. QED
      BY Zenon, <2>1, <2>2 DEF one
  <1>4. ASSUME any
        PROVE  LET t == Erase(Erase(tx, mc), ih) IN Good(t) /\ View(s, t)[k] = View(s, tx)[k]
    <2> DEFINE one == Erase(tx, mc)
    <2>1. Good(one) /\ View(s, one)[k] = View(s, tx)[k]
      BY Zenon, <1>1, <1>4, EraseGood, EraseOther
    <2> HIDE DEF one
    <2>2. Good(Erase(one, ih)) /\ View(s, Erase(one, ih))[k] = View(s, one)[k]
      BY Zenon, <1>1, <1>4, <2>1, EraseGood, EraseOther
    <2>. QED
      BY Zenon, <2>1, <2>2 DEF one
  <1> DEFINE w == IF any THEN Write(Write(tx, mc, {b}), ih, {r}) ELSE tx
             e == IF any THEN Erase(Erase(tx, mc), ih) ELSE tx
  <1>5. /\ WriteCommitment(tx, b) = Write(w, BestUpgrade, {b})
        /\ EraseCommitment(tx, b) = Write(e, BestUpgrade, {Parent[b]})
    BY Zenon DEF WriteCommitment, EraseCommitment, mc, ih, r, any
  <1>6. Good(w) /\ View(s, w)[k] = View(s, tx)[k]
    BY Zenon, <1>3
  <1>7. Good(e) /\ View(s, e)[k] = View(s, tx)[k]
    BY Zenon, <1>4
  <1> HIDE DEF w, e
  <1>. QED
    BY <1>2, <1>5, <1>6, <1>7

LEMMA GenesisInactive == Genesis \in Blocks /\ ~DIP0003Active(Genesis)
  BY EvoAssumption DEF DIP0003Active

\* The facts about chains that the walk rests on.
LEMMA ChainFacts ==
  ASSUME NEW x \in Blocks, NEW a \in Ancestors[x]
  PROVE  /\ a \in Blocks /\ Height[a] \in Nat /\ Height[x] \in Nat /\ Height[a] <= Height[x]
         /\ a = x \/ Height[a] < Height[x]
         /\ Ancestors[a] \subseteq Ancestors[x]
         /\ \A y \in Ancestors[x] : Height[y] <= Height[a] => y \in Ancestors[a]
  <1>1. /\ a \in Blocks /\ Height[a] \in Nat /\ Height[x] \in Nat
        /\ a = x \/ Height[a] < Height[x]
    BY Zenon, EvoAssumption
  <1>2. Ancestors[a] \subseteq Ancestors[x]
    BY Zenon, EvoAssumption
  <1>3. ASSUME NEW y \in Ancestors[x], Height[y] <= Height[a] PROVE y \in Ancestors[a]
    <2>1. y \in Blocks /\ Height[y] \in Nat
      BY Zenon, <1>3, EvoAssumption
    <2>2. y \in Ancestors[a] \/ a \in Ancestors[y]
      BY Zenon, <1>3, EvoAssumption
    <2>3. CASE a \in Ancestors[y]
      <3>1. a = y \/ Height[a] < Height[y]
        BY Zenon, <2>1, <2>3, EvoAssumption
      <3>2. a = y
        BY <1>1, <1>3, <2>1, <3>1
      <3>. QED
        BY Zenon, <1>1, <3>2, EvoAssumption
    <2>. QED
      BY Zenon, <2>2, <2>3
  <1>. QED
    BY <1>1, <1>2, <1>3

\* What a step of the main thread makes of the lists that are read.
LEMMA OpenViews ==
  ASSUME UNCHANGED <<disk, root>>, NEW tx, cur' = tx
  PROVE  Committed' = Committed /\ Current' = View(Committed, tx)
  BY Zenon DEF Committed, Current

-----------------------------------------------------------------------------
(* The other entries of the quorum blocks: by height, and the upgrade mark *)

HeightKey(h) == <<"q_mcih", h>>
OtherQuorumKeys ==
  {BestUpgrade} \cup {HeightKey(h) : h \in Heights} \cup {MinedCommitment(q) : q \in Blocks \ Sessions}

HeightMined(t, h) == {q \in Blocks : \E b \in Ancestors[t] : Mines(b, q) /\ Height[b] = h}
HoldsHeights(s, t) ==
  /\ DIP0003Active(t) => s[BestUpgrade] = {t}
  /\ \A h \in Heights : s[HeightKey(h)] = HeightMined(t, h)
  /\ \A q \in Blocks \ Sessions : s[MinedCommitment(q)] = {}
ExactHeights(s) == \E t \in Blocks : Names(s, t) /\ HoldsHeights(s, t)
TxHeights ==
  /\ main.op \in {"connect", "test"} =>
       coinsTip = Parent[main.block] /\ HoldsHeights(Current, main.block)
  /\ main.op = "disconnect" =>
       /\ coinsTip = main.block
       /\ HoldsHeights(Current, IF main.step = "quorum" THEN main.block ELSE Parent[main.block])
HeightsExact ==
  /\ ExactHeights(disk.evo)
  /\ status = "running" => ExactHeights(Committed) /\ TxHeights
HeightInv == upgraded \in BOOLEAN /\ (~upgraded => HeightsExact)

SameHeights(r, s) == \A k \in OtherQuorumKeys : r[k] = s[k]

LEMMA OtherQuorumKey ==
  ASSUME NEW k \in OtherQuorumKeys
  PROVE  k \in Keys /\ k # Best /\ \A a : k # Diff(a) /\ k # Snapshot(a)
  <1>1. CASE k = BestUpgrade
    BY Zenon, <1>1 DEF Keys, Best, BestUpgrade, Diff, Snapshot
  <1>2. CASE k \in {HeightKey(h) : h \in Heights}
    BY <1>2 DEF Keys, Best, HeightKey, Diff, Snapshot
  <1>3. CASE k \in {MinedCommitment(q) : q \in Blocks \ Sessions}
    BY <1>3 DEF Keys, Best, MinedCommitment, Diff, Snapshot
  <1>. QED
    BY Zenon, <1>1, <1>2, <1>3 DEF OtherQuorumKeys

LEMMA HeightKeysDiffer ==
  ASSUME NEW h, NEW q
  PROVE  /\ HeightKey(h) # BestUpgrade /\ HeightKey(h) # MinedCommitment(q)
         /\ MinedCommitment(q) # BestUpgrade
         /\ \A i : i # h => HeightKey(i) # HeightKey(h)
         /\ \A b : InversedHeightKey(b) = HeightKey(Height[b])
         /\ \A x : x # q => MinedCommitment(x) # MinedCommitment(q)
  BY Zenon DEF HeightKey, BestUpgrade, MinedCommitment, InversedHeightKey

LEMMA SameHeightsHold ==
  ASSUME NEW r, NEW s, SameHeights(r, s), NEW t, HoldsHeights(s, t)
  PROVE  HoldsHeights(r, t)
  <1>1. r[BestUpgrade] = s[BestUpgrade]
    BY Zenon DEF SameHeights, OtherQuorumKeys
  <1>2. \A h \in Heights : r[HeightKey(h)] = s[HeightKey(h)]
    BY Zenon DEF SameHeights, OtherQuorumKeys
  <1>3. \A q \in Blocks \ Sessions : r[MinedCommitment(q)] = s[MinedCommitment(q)]
    BY Zenon DEF SameHeights, OtherQuorumKeys
  <1>. QED
    BY Zenon, <1>1, <1>2, <1>3 DEF HoldsHeights

LEMMA HeightsAt ==
  ASSUME NEW s, ExactHeights(s), NEW t \in Blocks, Names(s, t)
  PROVE  HoldsHeights(s, t)
  <1>1. PICK u \in Blocks : Names(s, u) /\ HoldsHeights(s, u)
    BY Zenon DEF ExactHeights
  <1>2. u = t
    BY <1>1 DEF Names
  <1>. QED
    BY Zenon, <1>1, <1>2

\* The blocks of a chain have different heights.
LEMMA HeightMinedStep ==
  ASSUME NEW b \in Blocks, b # Genesis, NEW h
  PROVE  /\ h # Height[b] => HeightMined(b, h) = HeightMined(Parent[b], h)
         /\ h = Height[b] => /\ HeightMined(b, h) = {q \in Blocks : Mines(b, q)}
                             /\ HeightMined(Parent[b], h) = {}
  <1>1. /\ Ancestors[b] = {b} \cup Ancestors[Parent[b]] /\ Parent[b] \in Blocks
        /\ Height[b] = Height[Parent[b]] + 1 /\ Height[Parent[b]] \in Nat
    BY Zenon, EvoAssumption
  <1>2. ASSUME NEW a \in Ancestors[Parent[b]] PROVE Height[a] # Height[b]
    <2>1. Height[a] <= Height[Parent[b]] /\ Height[a] \in Nat
      BY Zenon, <1>1, ChainFacts
    <2>. QED
      BY <1>1, <2>1
  <1>. QED
    BY Zenon, <1>1, <1>2 DEF HeightMined

LEMMA NoHeightsBelow ==
  ASSUME NEW t \in Blocks, ~DIP0003Active(t), NEW h
  PROVE  HeightMined(t, h) = {}
  <1>1. ASSUME NEW a \in Ancestors[t], NEW q PROVE ~Mines(a, q)
    BY <1>1, ChainFacts, EvoAssumption DEF Mines, DIP0003Active
  <1>. QED
    BY Zenon, <1>1 DEF HeightMined

\* CQuorumBlockProcessor::ProcessBlock and UndoBlock: the entry by height.
LEMMA CommitmentHeightView ==
  ASSUME NEW tx, Good(tx), NEW b \in Blocks, NEW q, Mines(b, q), NEW s
  PROVE  /\ View(s, WriteCommitment(tx, b))[HeightKey(Height[b])] = {q}
         /\ View(s, EraseCommitment(tx, b))[HeightKey(Height[b])] = {}
  <1> DEFINE k == HeightKey(Height[b])
             mc == MinedCommitment(q)
             vq == {q}
             vb == {b}
             vp == {Parent[b]}
             one == Write(tx, mc, vb)
             two == Write(one, k, vq)
             oneE == Erase(tx, mc)
             twoE == Erase(oneE, k)
  <1>0. vq # {}
    OBVIOUS
  <1>1. q \in Blocks /\ (CHOOSE x \in Blocks : Mines(b, x)) = q
    BY Zenon, MinesUnique
  <1>2. InversedHeightKey(b) = k /\ k \in Keys /\ k # BestUpgrade
    BY Zenon, HeightKeysDiffer, OtherQuorumKey DEF OtherQuorumKeys, Heights
  <1>3. /\ WriteCommitment(tx, b) = Write(two, BestUpgrade, vb)
        /\ EraseCommitment(tx, b) = Write(twoE, BestUpgrade, vp)
    BY Zenon, <1>1, <1>2 DEF WriteCommitment, EraseCommitment
  <1> HIDE DEF k, vq, vb, vp
  <1>4. Good(one) /\ Good(two) /\ Good(oneE) /\ Good(twoE)
    BY Zenon, WriteGood, EraseGood
  <1> HIDE DEF one, oneE
  <1>5. View(s, two)[k] = vq
    BY ONLY <1>0, <1>2, <1>4, WriteSame
  <1>6. View(s, twoE)[k] = {}
    BY ONLY Zenon, <1>2, <1>4, EraseSame
  <1> HIDE DEF two, twoE
  <1>7. View(s, Write(two, BestUpgrade, vb))[k] = View(s, two)[k]
    BY ONLY <1>2, <1>4, WriteOther
  <1>8. View(s, Write(twoE, BestUpgrade, vp))[k] = View(s, twoE)[k]
    BY ONLY <1>2, <1>4, WriteOther
  <1>. QED
    BY Zenon, <1>3, <1>5, <1>6, <1>7, <1>8 DEF k, vq

LEMMA CommitmentMarkView ==
  ASSUME NEW tx, Good(tx), NEW b, NEW s
  PROVE  /\ View(s, WriteCommitment(tx, b))[BestUpgrade] = {b}
         /\ View(s, EraseCommitment(tx, b))[BestUpgrade] = {Parent[b]}
  <1>1. BestUpgrade \in Keys
    BY Zenon DEF Keys
  <1>2. \E w : Good(w) /\ WriteCommitment(tx, b) = Write(w, BestUpgrade, {b})
    BY Zenon, WriteGood DEF WriteCommitment
  <1>3. \E w : Good(w) /\ EraseCommitment(tx, b) = Write(w, BestUpgrade, {Parent[b]})
    BY Zenon, EraseGood DEF EraseCommitment
  <1>4. ASSUME NEW w, Good(w), NEW x PROVE View(s, Write(w, BestUpgrade, {x}))[BestUpgrade] = {x}
    <2> DEFINE v == {x}
    <2>1. v # {}
      OBVIOUS
    <2> HIDE DEF v
    <2>2. View(s, Write(w, BestUpgrade, v))[BestUpgrade] = v
      BY <1>1, <1>4, <2>1, WriteSame
    <2>. QED
      BY Zenon, <2>2 DEF v
  <1>. QED
    BY Zenon, <1>2, <1>3, <1>4

LEMMA ListOther ==
  ASSUME NEW tx, Good(tx), NEW c, NEW b, NEW s, NEW k \in Keys, k # Diff(b), k # Snapshot(b)
  PROVE  /\ View(s, WriteList(tx, c, b))[k] = View(s, tx)[k]
         /\ View(s, EraseList(tx, b))[k] = View(s, tx)[k]
  <1>1. ASSUME NEW v, NEW w
        PROVE  /\ View(s, Write(tx, Diff(b), v))[k] = View(s, tx)[k]
               /\ View(s, Write(Write(tx, Diff(b), v), Snapshot(b), w))[k] = View(s, tx)[k]
    <2> DEFINE one == Write(tx, Diff(b), v)
               d == Diff(b)
    <2>0. Good(Write(tx, d, v)) /\ View(s, Write(tx, d, v))[k] = View(s, tx)[k]
      <3>1. k # d /\ Good(tx) /\ k \in Keys
        OBVIOUS
      <3> HIDE DEF d
      <3>2. Good(Write(tx, d, v))
        BY ONLY Zenon, <3>1, WriteGood
      <3>3. View(s, Write(tx, d, v))[k] = View(s, tx)[k]
        BY ONLY <3>1, WriteOther
      <3>. QED
        BY Zenon, <3>2, <3>3
    <2>1. Good(one) /\ View(s, one)[k] = View(s, tx)[k]
      BY Zenon, <2>0
    <2> HIDE DEF one
    <2>2. View(s, Write(one, Snapshot(b), w))[k] = View(s, one)[k]
      BY <2>1, WriteOther
    <2>. QED
      BY Zenon, <2>1, <2>2 DEF one
  <1>2. View(s, WriteList(tx, c, b))[k] = View(s, tx)[k]
    BY Zenon, <1>1 DEF WriteList
  <1>3. View(s, EraseList(tx, b))[k] = View(s, tx)[k]
    <2> DEFINE one == Erase(tx, Diff(b))
    <2>1. Good(one) /\ View(s, one)[k] = View(s, tx)[k]
      BY Zenon, EraseGood, EraseOther
    <2> HIDE DEF one
    <2>2. View(s, Erase(one, Snapshot(b)))[k] = View(s, one)[k]
      BY <2>1, EraseOther
    <2>. QED
      BY Zenon, <2>1, <2>2 DEF EraseList, one
  <1>. QED
    BY Zenon, <1>2, <1>3

LEMMA WriteCommitmentHolds ==
  ASSUME NEW tx, Good(tx), NEW s, NEW b \in Blocks, b # Genesis,
         HoldsHeights(View(s, tx), Parent[b])
  PROVE  HoldsHeights(View(s, WriteCommitment(tx, b)), b)
  <1> DEFINE new == View(s, WriteCommitment(tx, b))
             old == View(s, tx)
  <1>1. new[BestUpgrade] = {b}
    BY CommitmentMarkView
  <1>2. ASSUME NEW h \in Heights PROVE new[HeightKey(h)] = HeightMined(b, h)
    <2>0. HeightKey(h) \in Keys /\ old[HeightKey(h)] = HeightMined(Parent[b], h)
      BY Zenon, OtherQuorumKey DEF HoldsHeights, OtherQuorumKeys
    <2>1. CASE h = Height[b] /\ \E q \in Blocks : Mines(b, q)
      <3>1. PICK q \in Blocks : Mines(b, q)
        BY Zenon, <2>1
      <3>2. new[HeightKey(h)] = {q}
        BY <2>1, <3>1, CommitmentHeightView
      <3>3. {x \in Blocks : Mines(b, x)} = {q}
        BY <3>1, QuorumBlockUnique DEF Mines
      <3>. QED
        BY Zenon, <2>1, <3>2, <3>3, HeightMinedStep
    <2>2. CASE ~(h = Height[b] /\ \E q \in Blocks : Mines(b, q))
      <3>1. \A q \in Blocks : Mines(b, q) =>
              HeightKey(h) # MinedCommitment(q) /\ HeightKey(h) # InversedHeightKey(b)
        BY Zenon, <2>2, HeightKeysDiffer
      <3>2. new[HeightKey(h)] = old[HeightKey(h)]
        <4> DEFINE k == HeightKey(h)
        <4>1. k # BestUpgrade /\ k \in Keys /\ Good(tx)
          BY Zenon, <2>0, HeightKeysDiffer
        <4>2. \A q \in Blocks : Mines(b, q) => k # MinedCommitment(q) /\ k # InversedHeightKey(b)
          BY Zenon, <3>1
        <4> HIDE DEF k
        <4>3. /\ View(s, WriteCommitment(tx, b))[k] = View(s, tx)[k]
              /\ View(s, EraseCommitment(tx, b))[k] = View(s, tx)[k]
          BY ONLY Zenon, <4>1, <4>2, CommitmentOther
        <4>. QED
          BY Zenon, <4>3 DEF k
      <3>3. HeightMined(b, h) = HeightMined(Parent[b], h)
        BY Zenon, <2>2, HeightMinedStep
      <3>. QED
        BY Zenon, <2>0, <3>2, <3>3
    <2>. QED
      BY Zenon, <2>1, <2>2
  <1>3. ASSUME NEW q \in Blocks \ Sessions PROVE new[MinedCommitment(q)] = {}
    <2>1. /\ MinedCommitment(q) \in Keys /\ MinedCommitment(q) # BestUpgrade
          /\ old[MinedCommitment(q)] = {}
      BY Zenon, <1>3, OtherQuorumKey, HeightKeysDiffer DEF HoldsHeights, OtherQuorumKeys
    <2>2. \A x \in Blocks : Mines(b, x) =>
            MinedCommitment(q) # MinedCommitment(x) /\ MinedCommitment(q) # InversedHeightKey(b)
      BY Zenon, <1>3, MinesUnique, HeightKeysDiffer
    <2> DEFINE k == MinedCommitment(q)
    <2>3. /\ k # BestUpgrade /\ k \in Keys /\ Good(tx)
          /\ \A x \in Blocks : Mines(b, x) => k # MinedCommitment(x) /\ k # InversedHeightKey(b)
      BY Zenon, <2>1, <2>2
    <2> HIDE DEF k
    <2>4. /\ View(s, WriteCommitment(tx, b))[k] = View(s, tx)[k]
          /\ View(s, EraseCommitment(tx, b))[k] = View(s, tx)[k]
      BY ONLY Zenon, <2>3, CommitmentOther
    <2>. QED
      BY Zenon, <2>1, <2>4 DEF k
  <1> HIDE DEF new
  <1>4. HoldsHeights(new, b)
    BY Zenon, <1>1, <1>2, <1>3 DEF HoldsHeights
  <1>. QED
    BY Zenon, <1>4 DEF new

LEMMA EraseCommitmentHolds ==
  ASSUME NEW tx, Good(tx), NEW s, NEW b \in Blocks, b # Genesis, HoldsHeights(View(s, tx), b)
  PROVE  HoldsHeights(View(s, EraseCommitment(tx, b)), Parent[b])
  <1> DEFINE new == View(s, EraseCommitment(tx, b))
             old == View(s, tx)
  <1>1. new[BestUpgrade] = {Parent[b]}
    BY CommitmentMarkView
  <1>2. ASSUME NEW h \in Heights PROVE new[HeightKey(h)] = HeightMined(Parent[b], h)
    <2>0. HeightKey(h) \in Keys /\ old[HeightKey(h)] = HeightMined(b, h)
      BY Zenon, OtherQuorumKey DEF HoldsHeights, OtherQuorumKeys
    <2>1. CASE h = Height[b] /\ \E q \in Blocks : Mines(b, q)
      <3>1. new[HeightKey(h)] = {}
        BY Zenon, <2>1, CommitmentHeightView
      <3>. QED
        BY Zenon, <2>1, <3>1, HeightMinedStep
    <2>2. CASE ~(h = Height[b] /\ \E q \in Blocks : Mines(b, q))
      <3>1. \A q \in Blocks : Mines(b, q) =>
              HeightKey(h) # MinedCommitment(q) /\ HeightKey(h) # InversedHeightKey(b)
        BY Zenon, <2>2, HeightKeysDiffer
      <3>2. new[HeightKey(h)] = old[HeightKey(h)]
        <4> DEFINE k == HeightKey(h)
        <4>1. k # BestUpgrade /\ k \in Keys /\ Good(tx)
          BY Zenon, <2>0, HeightKeysDiffer
        <4>2. \A q \in Blocks : Mines(b, q) => k # MinedCommitment(q) /\ k # InversedHeightKey(b)
          BY Zenon, <3>1
        <4> HIDE DEF k
        <4>3. /\ View(s, WriteCommitment(tx, b))[k] = View(s, tx)[k]
              /\ View(s, EraseCommitment(tx, b))[k] = View(s, tx)[k]
          BY ONLY <4>1, <4>2, CommitmentOther
        <4>. QED
          BY Zenon, <4>3 DEF k
      <3>3. HeightMined(b, h) = HeightMined(Parent[b], h)
        BY Zenon, <2>2, HeightMinedStep
      <3>. QED
        BY Zenon, <2>0, <3>2, <3>3
    <2>. QED
      BY Zenon, <2>1, <2>2
  <1>3. ASSUME NEW q \in Blocks \ Sessions PROVE new[MinedCommitment(q)] = {}
    <2>1. /\ MinedCommitment(q) \in Keys /\ MinedCommitment(q) # BestUpgrade
          /\ old[MinedCommitment(q)] = {}
      BY Zenon, <1>3, OtherQuorumKey, HeightKeysDiffer DEF HoldsHeights, OtherQuorumKeys
    <2>2. \A x \in Blocks : Mines(b, x) =>
            MinedCommitment(q) # MinedCommitment(x) /\ MinedCommitment(q) # InversedHeightKey(b)
      BY Zenon, <1>3, MinesUnique, HeightKeysDiffer
    <2> DEFINE k == MinedCommitment(q)
    <2>3. /\ k # BestUpgrade /\ k \in Keys /\ Good(tx)
          /\ \A x \in Blocks : Mines(b, x) => k # MinedCommitment(x) /\ k # InversedHeightKey(b)
      BY Zenon, <2>1, <2>2
    <2> HIDE DEF k
    <2>4. /\ View(s, WriteCommitment(tx, b))[k] = View(s, tx)[k]
          /\ View(s, EraseCommitment(tx, b))[k] = View(s, tx)[k]
      BY ONLY <2>3, CommitmentOther
    <2>. QED
      BY Zenon, <2>1, <2>4 DEF k
  <1> HIDE DEF new
  <1>4. HoldsHeights(new, Parent[b])
    BY Zenon, <1>1, <1>2, <1>3 DEF HoldsHeights
  <1>. QED
    BY Zenon, <1>4 DEF new

LEMMA HeightInvInit == Init => HeightInv
  <1> SUFFICES ASSUME Init PROVE HeightInv
    OBVIOUS
  <1>1. ASSUME NEW s, \A k \in Keys : s[k] = {} PROVE ExactHeights(s)
    <2>1. Names(s, Genesis)
      BY Zenon, <1>1, BestIsKey DEF Names
    <2>2. \A h : HeightMined(Genesis, h) = {}
      BY Zenon, GenesisInactive, NoHeightsBelow
    <2>3. \A k \in OtherQuorumKeys : s[k] = {}
      BY Zenon, <1>1, OtherQuorumKey
    <2>4. HoldsHeights(s, Genesis)
      BY Zenon, <2>2, <2>3, GenesisInactive DEF HoldsHeights, OtherQuorumKeys
    <2>. QED
      BY Zenon, <2>1, <2>4, GenesisInactive DEF ExactHeights
  <1>2. \A k \in Keys : disk.evo[k] = {} /\ Committed[k] = {}
    BY Zenon, CleanView DEF Init, NoEntries, Committed
  <1>3. ExactHeights(disk.evo) /\ ExactHeights(Committed)
    BY Zenon, <1>1, <1>2
  <1>4. TxHeights
    BY Zenon DEF Init, Idle, TxHeights
  <1>. QED
    BY Zenon, <1>3, <1>4 DEF Init, HeightInv, HeightsExact

\* Steps that leave these entries and the main thread's operation alone.
LEMMA QuietHeights ==
  ASSUME HeightsExact, UNCHANGED <<disk, root, coinsTip, status>>,
         \/ UNCHANGED <<cur, main>>
         \/ /\ main.op \in {"connect", "test"}
            /\ main'.op = main.op /\ main'.block = main.block
            /\ SameHeights(Current', Current)
  PROVE  HeightsExact'
  <1>1. Committed' = Committed
    BY Zenon DEF Committed
  <1>2. UNCHANGED <<cur, main>> => Current' = Current
    BY Zenon, <1>1 DEF Current
  <1>3. TxHeights => TxHeights'
    BY Zenon, <1>2, SameHeightsHold DEF TxHeights
  <1>4. ExactHeights(disk.evo)' /\ (ExactHeights(Committed) => ExactHeights(Committed'))
    BY Zenon, <1>1 DEF HeightsExact
  <1>. QED
    BY Zenon, <1>3, <1>4 DEF HeightsExact

LEMMA CommitHeightsExact ==
  ASSUME EvoInv, HeightsExact, status = "running", UNCHANGED <<disk, status>>,
         cur' = Clean, main' = Idle, NEW t \in Blocks,
         root' = CommitInto(Write(cur, Best, {t}), root), HoldsHeights(Current, t)
  PROVE  HeightsExact'
  <1>1. Names(Committed', t)
    BY Zenon, CommitNames
  <1>2. SameHeights(Committed', Current)
    <2> DEFINE s == disk.evo
               w == Write(cur, Best, {t})
               below == View(s, root)
    <2>1. Good(cur)
      BY Zenon DEF EvoInv
    <2>2. Disjoint(w)
      BY Zenon, <2>1, WriteGood DEF Good
    <2>3. Committed' = View(s, CommitInto(w, root)) /\ Current = View(below, cur)
      BY Zenon DEF Committed, Current
    <2> HIDE DEF s
    <2>4. View(s, CommitInto(w, root)) = View(below, w)
      BY <2>2, CommitIsTransparent
    <2> HIDE DEF below
    <2>5. ASSUME NEW k \in Keys, k # Best PROVE View(below, w)[k] = View(below, cur)[k]
      BY <2>1, <2>5, WriteOther
    <2>. QED
      BY Zenon, <2>3, <2>4, <2>5, OtherQuorumKey DEF SameHeights
  <1>3. ExactHeights(Committed')
    BY Zenon, <1>1, <1>2, SameHeightsHold DEF ExactHeights
  <1>4. TxHeights'
    BY Zenon DEF TxHeights, Idle
  <1>. QED
    BY Zenon, <1>3, <1>4 DEF HeightsExact

LEMMA BeginHeights ==
  ASSUME EvoInv, HeightsExact, status = "running", main = Idle, Names(Committed, coinsTip)
  PROVE  HoldsHeights(Committed, coinsTip) /\ HoldsHeights(Current, coinsTip)
  <1>1. HoldsHeights(Committed, coinsTip)
    BY Zenon, HeightsAt DEF HeightsExact, EvoInv
  <1>2. cur = Clean
    BY Zenon DEF EvoInv, MainOK, Idle
  <1>3. SameHeights(Current, Committed)
    <2> DEFINE s == Committed
    <2>1. Current = View(s, Clean)
      BY Zenon, <1>2 DEF Current
    <2> HIDE DEF s
    <2>2. \A k \in Keys : View(s, Clean)[k] = s[k]
      BY Zenon, CleanView
    <2>. QED
      BY Zenon, <2>1, <2>2, OtherQuorumKey DEF SameHeights, s
  <1>. QED
    BY Zenon, <1>1, <1>3, SameHeightsHold

LEMMA MainThreadHeights ==
  ASSUME EvoInv, HeightsExact, MainThread
  PROVE  HeightsExact'
  <1>0. Good(cur)
    BY Zenon DEF EvoInv
  <1>1. ASSUME NEW op \in {"connect", "test"}, NEW b \in Blocks, BeginConnect(op, b)
        PROVE  HeightsExact'
    <2>0. /\ status = "running" /\ main = Idle /\ b # Genesis /\ coinsTip = Parent[b]
          /\ Height[b] \in Nat
      BY Zenon, <1>1, HeightPositive DEF BeginConnect, Running
    <2>1. CASE cur # Clean \/ ~VerifyBestBlock(Current, Parent[b], Height[b])
      BY Zenon, <1>1, <2>1 DEF BeginConnect, Die, HeightsExact, dbVars
    <2>2. CASE ~(cur # Clean \/ ~VerifyBestBlock(Current, Parent[b], Height[b]))
      <3>1. UNCHANGED <<disk, root, coinsTip, status>>
        BY Zenon, <1>1, <2>2 DEF BeginConnect
      <3>2. Names(Committed, coinsTip)
        BY Zenon, <2>0, <2>2, VerifiedBest DEF Names
      <3>3. HoldsHeights(Current, Parent[b])
        BY Zenon, <2>0, <3>2, BeginHeights
      <3>4. CASE CommitmentAllowed(b)
        <4>1. cur' = WriteCommitment(cur, b) /\ main'.op = op /\ main'.block = b
          BY Zenon, <1>1, <2>2, <3>4, BeginConnectDoes
        <4>2. Committed' = Committed /\ HoldsHeights(Current', b)
          <5> DEFINE s == Committed
          <5>1. /\ Committed' = s /\ Current' = View(s, WriteCommitment(cur, b))
                /\ HoldsHeights(View(s, cur), Parent[b])
            BY Zenon, <3>1, <3>3, <4>1, OpenViews DEF Current
          <5> HIDE DEF s
          <5>2. HoldsHeights(View(s, WriteCommitment(cur, b)), b)
            BY Zenon, <1>0, <2>0, <5>1, WriteCommitmentHolds
          <5>. QED
            BY Zenon, <5>1, <5>2 DEF s
        <4>3. TxHeights'
          BY Zenon, <2>0, <3>1, <4>1, <4>2 DEF TxHeights
        <4>. QED
          BY Zenon, <2>0, <3>1, <4>2, <4>3 DEF HeightsExact
      <3>5. CASE ~CommitmentAllowed(b)
        BY Zenon, <1>1, <2>2, <3>1, <3>5, QuietHeights DEF BeginConnect
      <3>. QED
        BY Zenon, <3>4, <3>5
    <2>. QED
      BY Zenon, <2>1, <2>2
  <1>2. CASE ConnectList
    <2>1. /\ UNCHANGED <<disk, root, coinsTip, status>>
          /\ cur' \in {cur, WriteList(cur, lists', main.block)}
          /\ main.op \in {"connect", "test"}
      BY Zenon, <1>2 DEF ConnectList
    <2>2. main'.op = main.op /\ main'.block = main.block
      BY Zenon, <1>2 DEF ConnectList, EvoInv, At
    <2>3. SameHeights(Current', Current)
      <3> DEFINE s == Committed
                 c == lists'
                 b == main.block
                 tx == cur'
      <3>1. Current' = View(s, tx) /\ Current = View(s, cur) /\ tx \in {cur, WriteList(cur, c, b)}
        BY Zenon, <2>1, OpenViews DEF Current
      <3> HIDE DEF s, c, b, tx
      <3>2. \A k \in OtherQuorumKeys : View(s, tx)[k] = View(s, cur)[k]
        BY <1>0, <3>1, OtherQuorumKey, ListOther
      <3>. QED
        BY Zenon, <3>1, <3>2 DEF SameHeights
    <2>. QED
      BY Zenon, <2>1, <2>2, <2>3, QuietHeights
  <1>3. CASE ConnectCleanup
    <2>1. /\ UNCHANGED <<disk, root, coinsTip, status>> /\ Current' = Current
          /\ main.op = "connect"
      BY Zenon, <1>3 DEF ConnectCleanup, dbVars, Current, Committed
    <2>2. main'.op = main.op /\ main'.block = main.block
      BY Zenon, <1>3 DEF ConnectCleanup, EvoInv, At
    <2>. QED
      BY Zenon, <2>1, <2>2, QuietHeights DEF SameHeights
  <1>4. CASE EndConnect
    <2>1. /\ status = "running" /\ main.op \in {"connect", "test"}
          /\ UNCHANGED <<disk, status>> /\ main' = Idle /\ cur' = Clean
      BY Zenon, <1>4 DEF EndConnect, Running
    <2>2. main.block \in Blocks /\ HoldsHeights(Current, main.block)
      BY Zenon, <2>1 DEF EvoInv, MainOK, HeightsExact, TxHeights
    <2>3. CASE root' = CommitInto(Write(cur, Best, {main.block}), root)
      BY Zenon, <2>1, <2>2, <2>3, CommitHeightsExact
    <2>4. CASE UNCHANGED root
      <3>1. Committed' = Committed
        BY Zenon, <2>1, <2>4 DEF Committed
      <3>2. TxHeights'
        BY Zenon, <2>1 DEF TxHeights, Idle
      <3>. QED
        BY Zenon, <2>1, <3>1, <3>2 DEF HeightsExact
    <2>. QED
      BY Zenon, <1>4, <2>3, <2>4 DEF EndConnect
  <1>5. CASE BeginDisconnect
    <2>0. status = "running" /\ main = Idle /\ Height[coinsTip] \in Nat
      BY Zenon, <1>5, EvoAssumption DEF BeginDisconnect, Running, EvoInv
    <2>1. CASE cur # Clean \/ ~VerifyBestBlock(Current, coinsTip, Height[coinsTip])
      <3>1. Die
        BY Zenon, <1>5, <2>1 DEF BeginDisconnect
      <3>. QED
        BY Zenon, <3>1 DEF Die, HeightsExact, dbVars
    <2>2. CASE ~(cur # Clean \/ ~VerifyBestBlock(Current, coinsTip, Height[coinsTip]))
      <3>1. /\ UNCHANGED <<disk, root, coinsTip, status>> /\ cur' = EraseList(cur, coinsTip)
            /\ main'.op = "disconnect" /\ main'.block = coinsTip /\ main'.step = "quorum"
        BY Zenon, <1>5, <2>2, BeginDisconnectDoes
      <3>2. HoldsHeights(Current, coinsTip)
        BY Zenon, <2>0, <2>2, VerifiedBest, BeginHeights DEF Names
      <3>3. Committed' = Committed /\ SameHeights(Current', Current)
        <4> DEFINE s == Committed
        <4>1. Committed' = s /\ Current' = View(s, EraseList(cur, coinsTip)) /\ Current = View(s, cur)
          BY Zenon, <3>1, OpenViews DEF Current
        <4> HIDE DEF s
        <4>2. \A k \in OtherQuorumKeys : View(s, EraseList(cur, coinsTip))[k] = View(s, cur)[k]
          BY <1>0, OtherQuorumKey, ListOther
        <4>. QED
          BY Zenon, <4>1, <4>2 DEF SameHeights, s
      <3>4. TxHeights'
        BY Zenon, <3>1, <3>2, <3>3, SameHeightsHold DEF TxHeights
      <3>. QED
        BY Zenon, <2>0, <3>1, <3>3, <3>4 DEF HeightsExact
    <2>. QED
      BY Zenon, <2>1, <2>2
  <1>6. CASE DisconnectQuorum
    <2> DEFINE b == main.block
    <2>1. /\ status = "running" /\ main.op = "disconnect" /\ main.step = "quorum"
          /\ UNCHANGED <<disk, root, coinsTip, status>> /\ cur' = EraseCommitment(cur, b)
      BY Zenon, <1>6 DEF DisconnectQuorum, Running
    <2>2. main'.op = "disconnect" /\ main'.block = b /\ main'.step = "end"
      BY Zenon, <1>6, <2>1 DEF DisconnectQuorum, EvoInv, At
    <2>3. b \in Blocks /\ b # Genesis /\ coinsTip = b /\ HoldsHeights(Current, b)
      BY Zenon, <2>1 DEF EvoInv, MainOK, HeightsExact, TxHeights
    <2>4. Committed' = Committed /\ HoldsHeights(Current', Parent[b])
      <3> DEFINE s == Committed
      <3>1. /\ Committed' = s /\ Current' = View(s, EraseCommitment(cur, b))
            /\ HoldsHeights(View(s, cur), b)
        BY Zenon, <2>1, <2>3, OpenViews DEF Current
      <3> HIDE DEF s, b
      <3>2. HoldsHeights(View(s, EraseCommitment(cur, b)), Parent[b])
        BY Zenon, <1>0, <2>3, <3>1, EraseCommitmentHolds
      <3>. QED
        BY Zenon, <3>1, <3>2 DEF s
    <2>5. TxHeights'
      BY Zenon, <2>1, <2>2, <2>3, <2>4 DEF TxHeights
    <2>. QED
      BY Zenon, <2>1, <2>4, <2>5 DEF HeightsExact
  <1>7. CASE EndDisconnect
    <2>1. /\ status = "running" /\ main.op = "disconnect" /\ main.step = "end"
          /\ UNCHANGED <<disk, status>> /\ main' = Idle /\ cur' = Clean
          /\ root' = CommitInto(Write(cur, Best, {Parent[main.block]}), root)
      BY Zenon, <1>7 DEF EndDisconnect, Running
    <2>2. Parent[main.block] \in Blocks /\ HoldsHeights(Current, Parent[main.block])
      BY Zenon, <2>1, HeightPositive DEF EvoInv, MainOK, HeightsExact, TxHeights
    <2>. QED
      BY Zenon, <2>1, <2>2, CommitHeightsExact
  <1>8. CASE FlushCoins
    <2>1. /\ status = "running" /\ UNCHANGED <<root, cur, coinsTip, status>>
          /\ disk'.evo = disk.evo /\ main'.op = "flush"
      BY Zenon, <1>8 DEF FlushCoins, Running, EvoInv, At
    <2>2. Committed' = Committed
      BY Zenon, <2>1 DEF Committed
    <2>3. TxHeights'
      BY Zenon, <2>1 DEF TxHeights
    <2>. QED
      BY Zenon, <2>1, <2>2, <2>3 DEF HeightsExact
  <1>9. CASE FlushEvo
    <2>1. cur = Clean /\ status = "running"
      BY Zenon, <1>9 DEF FlushEvo, Running, EvoInv, MainOK
    <2>2. UNCHANGED status /\ main' = Idle
      BY Zenon, <1>9, <2>1 DEF FlushEvo
    <2>3. /\ disk' = [coins |-> disk.coins, evo |-> Committed]
          /\ \A k \in Keys : Committed'[k] = Committed[k]
      BY Zenon, <1>9, FlushEvoViews, BestIsKey
    <2>4. disk'.evo = Committed
      BY Zenon, <2>3
    <2>5. PICK t \in Blocks : Names(Committed, t) /\ HoldsHeights(Committed, t)
      BY Zenon, <2>1 DEF HeightsExact, ExactHeights
    <2>6. SameHeights(Committed', Committed) /\ Names(Committed', t)
      BY Zenon, <2>3, <2>5, BestIsKey, OtherQuorumKey DEF SameHeights, Names
    <2>7. ExactHeights(Committed')
      BY Zenon, <2>5, <2>6, SameHeightsHold DEF ExactHeights
    <2>8. TxHeights'
      BY Zenon, <2>2 DEF TxHeights, Idle
    <2>. QED
      BY Zenon, <2>1, <2>2, <2>4, <2>7, <2>8 DEF HeightsExact
  <1>. QED
    BY <1>1, <1>2, <1>3, <1>4, <1>5, <1>6, <1>7, <1>8, <1>9 DEF MainThread

\* The upgrade mark is in place wherever UpgradeDB looks at it, so that it does nothing.
LEMMA StartHeights ==
  ASSUME EvoInv, HeightsExact, Start, ~upgraded'
  PROVE  HeightsExact'
  <1> DEFINE s == disk.evo
             evo == UpgradeDBIfNeeded(s)
             verified == coinsTip = Genesis \/ VerifyBestBlock(evo, coinsTip, Height[coinsTip])
  <1>1. /\ status = "down"
        /\ disk' = [disk EXCEPT !.evo = IF verified THEN UpgradeDB(evo) ELSE evo]
        /\ Has(s, Best) \/ ~DIP0003Active(coinsTip)
        /\ UNCHANGED <<root, cur, coinsTip, main>>
    BY Zenon DEF Start
  <1>2. root = Clean /\ main = Idle /\ coinsTip \in Blocks
    BY Zenon, <1>1 DEF EvoInv
  <1>3. ExactHeights(evo)
    <2>1. CASE Has(s, Best)
      BY Zenon, <2>1 DEF UpgradeDBIfNeeded, HeightsExact
    <2>2. CASE ~Has(s, Best)
      <3>1. Names(s, Genesis) /\ Genesis \in Blocks /\ ~DIP0003Active(Genesis)
        BY Zenon, <2>2, GenesisInactive DEF Names, Has
      <3>2. HoldsHeights(s, Genesis)
        BY Zenon, <3>1, HeightsAt DEF HeightsExact
      <3>3. \A h : HeightMined(Genesis, h) = {} /\ HeightMined(coinsTip, h) = {}
        BY Zenon, <1>1, <1>2, <2>2, <3>1, NoHeightsBelow
      <3>4. \A k \in OtherQuorumKeys : evo[k] = s[k]
        BY Zenon, <2>2, OtherQuorumKey DEF UpgradeDBIfNeeded
      <3>5. evo[Best] = {coinsTip}
        BY Zenon, <2>2, UpgradesBest
      <3> HIDE DEF evo, s
      <3>6. HoldsHeights(evo, Genesis)
        BY Zenon, <3>2, <3>4, SameHeightsHold DEF SameHeights
      <3>7. HoldsHeights(evo, coinsTip)
        BY Zenon, <1>1, <2>2, <3>3, <3>6 DEF HoldsHeights
      <3>8. ExactHeights(evo)
        BY Zenon, <1>2, <3>5, <3>7 DEF ExactHeights, Names
      <3>. QED
        BY Zenon, <3>8 DEF evo
    <2>. QED
      BY Zenon, <2>1, <2>2
  <1>4. evo[Best] # {}
    BY Zenon, UpgradesBest DEF Has
  <1> HIDE DEF evo
  <1>5. verified => UpgradeDB(evo) = evo
    <2> SUFFICES ASSUME verified, ActiveAt(EnforcementHeight) # {}
                 PROVE  evo[BestUpgrade] = {coinsTip}
      BY Zenon DEF UpgradeDB
    <2>1. PICK b \in Ancestors[coinsTip] : Height[b] >= EnforcementHeight
      BY Zenon DEF ActiveAt
    <2>2. DIP0003Active(coinsTip)
      BY <1>2, <2>1, ChainFacts, EvoAssumption DEF DIP0003Active
    <2>3. coinsTip # Genesis
      BY Zenon, <2>2, GenesisInactive
    <2>4. Names(evo, coinsTip)
      BY Zenon, <1>4, <2>3 DEF VerifyBestBlock, Has, Names
    <2>. QED
      BY Zenon, <1>2, <1>3, <2>2, <2>4, HeightsAt DEF HoldsHeights
  <1>6. disk'.evo = evo
    BY Zenon, <1>1, <1>5 DEF EvoInv
  <1>7. ExactHeights(Committed')
    <2>1. Committed' = View(evo, Clean)
      BY Zenon, <1>1, <1>2, <1>6 DEF Committed
    <2>2. \A k \in Keys : View(evo, Clean)[k] = evo[k]
      BY Zenon, CleanView
    <2>3. PICK t \in Blocks : Names(evo, t) /\ HoldsHeights(evo, t)
      BY Zenon, <1>3 DEF ExactHeights
    <2> DEFINE new == View(evo, Clean)
    <2> HIDE DEF new
    <2>4. Names(new, t) /\ SameHeights(new, evo)
      BY Zenon, <2>2, <2>3, BestIsKey, OtherQuorumKey DEF new, Names, SameHeights
    <2>5. ExactHeights(new)
      BY Zenon, <2>3, <2>4, SameHeightsHold DEF ExactHeights
    <2>. QED
      BY Zenon, <2>1, <2>5 DEF new
  <1>8. TxHeights'
    BY Zenon, <1>1, <1>2 DEF TxHeights, Idle
  <1>. QED
    BY Zenon, <1>3, <1>6, <1>7, <1>8 DEF HeightsExact

LEMMA HeightInvNext == EvoInv /\ HeightInv /\ [Next]_vars => HeightInv'
  <1> SUFFICES ASSUME EvoInv, HeightInv, [Next]_vars PROVE HeightInv'
    OBVIOUS
  <1>1. CASE MainThread
    <2>1. UNCHANGED upgraded
      BY Zenon, <1>1 DEF MainThread, BeginConnect, ConnectList, ConnectCleanup, EndConnect,
         BeginDisconnect, DisconnectQuorum, EndDisconnect, FlushCoins, FlushEvo, Die
    <2>. QED
      BY Zenon, <1>1, <2>1, MainThreadHeights DEF HeightInv
  <1>2. CASE OtherThreads \/ UNCHANGED vars
    <2>1. UNCHANGED <<disk, root, coinsTip, status, cur, main, upgraded>>
      BY Zenon, <1>2 DEF OtherThreads, ReaderLookup, ReaderStore, UpdatedBlockTip,
         GetListAtChainTip, FinalizeCommitment, ProcessMessage, dbVars, vars
    <2>. QED
      BY Zenon, <2>1, QuietHeights DEF HeightInv
  <1>3. CASE Crash
    BY Zenon, <1>3 DEF Crash, HeightInv, HeightsExact
  <1>4. CASE Start
    <2>1. upgraded' \in BOOLEAN /\ (upgraded => upgraded')
      BY Zenon, <1>4 DEF Start, HeightInv
    <2>. QED
      BY Zenon, <1>4, <2>1, StartHeights DEF HeightInv
  <1>. QED
    BY Zenon, <1>1, <1>2, <1>3, <1>4 DEF Next

=============================================================================
