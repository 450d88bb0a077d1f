-------------------------- MODULE EvoDbListProofs --------------------------
(***************************************************************************)
(* For every tree of blocks and every order of the steps: the EvoDB holds  *)
(* the diffs and the snapshots of the active chain, and the masternode     *)
(* list that GetListForBlock rebuilds from them and from mnListsCache is   *)
(* the list of the tip.  With the commitments and the entries by height    *)
(* the whole EvoDB is, key by key, what the blocks of the active chain     *)
(* define, and the commitment of a disconnected block can be mined again.  *)
(***************************************************************************)
EXTENDS EvoDbProofs, WellFoundedInduction

-----------------------------------------------------------------------------
(* The masternode lists: what the EvoDB of a chain holds                   *)

\* The blocks of the chain that ends in t whose changes are in its list.
Listed(t) == {a \in Ancestors[t] : DIP0003Active(a)}
Due(b) == Height[b] % SnapshotPeriod = 0 \/ Height[b] = DIP0003Height
SnapshotOf(t, a) == IF a \in Listed(t) /\ Due(a) THEN ListOf(a) ELSE {}
HoldsLists(s, t) ==
  \A a \in Blocks : s[Diff(a)] = {a} \cap Listed(t) /\ s[Snapshot(a)] = SnapshotOf(t, a)
ExactLists(s) == \E t \in Blocks : Names(s, t) /\ HoldsLists(s, t)

\* Inside an operation, what the transaction shows: ProcessBlock writes the list of a
\* block that is connected, not of one that is tested.
Written == main.op = "connect" /\ main.step \in {"cleanup", "end"}
TxLists ==
  /\ main.op \in {"connect", "test"} =>
       /\ coinsTip = Parent[main.block]
       /\ HoldsLists(Current, IF Written THEN main.block ELSE coinsTip)
       /\ main.step # "end" => DIP0003Active(main.block)
  /\ main.op = "disconnect" => coinsTip = main.block /\ HoldsLists(Current, Parent[main.block])

-----------------------------------------------------------------------------
(* The entries of the lists through the writes of the block processors     *)

LEMMA ListKeys ==
  ASSUME NEW a \in Blocks
  PROVE  /\ Diff(a) \in Keys /\ Snapshot(a) \in Keys
         /\ Diff(a) \notin {Best, BestUpgrade} /\ Snapshot(a) \notin {Best, BestUpgrade}
  BY Zenon DEF Keys, Diff, Snapshot, Best, BestUpgrade

LEMMA ListKeysDiffer ==
  ASSUME NEW a, NEW b
  PROVE  /\ Diff(a) # Snapshot(b) /\ Diff(a) # MinedCommitment(b) /\ Diff(a) # InversedHeightKey(b)
         /\ Snapshot(a) # MinedCommitment(b) /\ Snapshot(a) # InversedHeightKey(b)
         /\ a # b => Diff(a) # Diff(b) /\ Snapshot(a) # Snapshot(b)
  BY Zenon DEF Diff, Snapshot, MinedCommitment, InversedHeightKey

\* CDeterministicMNManager::ProcessBlock
LEMMA WriteListView ==
  ASSUME NEW tx, Good(tx), NEW c, NEW b \in Blocks, NEW a \in Blocks, NEW s
  PROVE  LET due == Height[b] % SnapshotPeriod = 0 \/ c[Parent[b]].height = -1
             new == View(s, WriteList(tx, c, b))
         IN  /\ a = b => new[Diff(a)] = {b}
             /\ a # b => new[Diff(a)] = View(s, tx)[Diff(a)]
             /\ a = b /\ due => new[Snapshot(a)] = c[Parent[b]].list \cup {b}
             /\ a # b \/ ~due => new[Snapshot(a)] = View(s, tx)[Snapshot(a)]
  <1> DEFINE due == Height[b] % SnapshotPeriod = 0 \/ c[Parent[b]].height = -1
             l == c[Parent[b]].list \cup {b}
             one == Write(tx, Diff(b), {b})
             two == Write(one, Snapshot(b), l)
  <1>1. Good(one) /\ Good(two)
    BY Zenon, WriteGood
  <1>2. WriteList(tx, c, b) = IF due THEN two ELSE one
    BY Zenon DEF WriteList
  <1>3. View(s, one)[Diff(b)] = {b}
    <2> DEFINE v == {b}
    <2>1. v # {} /\ Diff(b) \in Keys
      BY Zenon, ListKeys
    <2> HIDE DEF v
    <2>2. View(s, Write(tx, Diff(b), v))[Diff(b)] = v
      BY <2>1, WriteSame
    <2>. QED
      BY Zenon, <2>2 DEF v
  <1>4. l # {}
    OBVIOUS
  <1>5. ASSUME NEW k \in Keys, k # Diff(b) PROVE View(s, one)[k] = View(s, tx)[k]
    BY <1>5, WriteOther
  <1> HIDE DEF l, one
  <1>6. View(s, two)[Snapshot(b)] = l
    BY <1>1, <1>4, ListKeys, WriteSame
  <1>7. ASSUME NEW k \in Keys, k # Snapshot(b) PROVE View(s, two)[k] = View(s, one)[k]
    BY <1>1, <1>7, WriteOther
  <1>8. /\ Diff(a) \in Keys /\ Snapshot(a) \in Keys /\ Diff(a) # Snapshot(b) /\ Snapshot(a) # Diff(b)
        /\ a # b => Diff(a) # Diff(b) /\ Snapshot(a) # Snapshot(b)
    BY Zenon, ListKeys, ListKeysDiffer
  <1>9. /\ View(s, two)[Diff(a)] = View(s, one)[Diff(a)]
        /\ View(s, one)[Snapshot(a)] = View(s, tx)[Snapshot(a)]
        /\ a # b => /\ View(s, one)[Diff(a)] = View(s, tx)[Diff(a)]
                    /\ View(s, two)[Snapshot(a)] = View(s, one)[Snapshot(a)]
    BY Zenon, <1>5, <1>7, <1>8
  <1> HIDE DEF two, due
  <1>10. /\ a = b => View(s, WriteList(tx, c, b))[Diff(a)] = {b}
         /\ a # b => View(s, WriteList(tx, c, b))[Diff(a)] = View(s, tx)[Diff(a)]
         /\ a = b /\ due => View(s, WriteList(tx, c, b))[Snapshot(a)] = l
         /\ a # b \/ ~due => View(s, WriteList(tx, c, b))[Snapshot(a)] = View(s, tx)[Snapshot(a)]
    BY Zenon, <1>2, <1>3, <1>6, <1>9
  <1>. QED
    BY Zenon, <1>10 DEF due, l

\* CDeterministicMNManager::UndoBlock
LEMMA EraseListView ==
  ASSUME NEW tx, Good(tx), NEW b \in Blocks, NEW a \in Blocks, NEW s
  PROVE  LET new == View(s, EraseList(tx, b))
         IN  /\ a = b => new[Diff(a)] = {} /\ new[Snapshot(a)] = {}
             /\ a # b => /\ new[Diff(a)] = View(s, tx)[Diff(a)]
                         /\ new[Snapshot(a)] = View(s, tx)[Snapshot(a)]
  <1> DEFINE one == Erase(tx, Diff(b))
  <1>1. Good(one) /\ EraseList(tx, b) = Erase(one, Snapshot(b))
    BY Zenon, EraseGood DEF EraseList
  <1>2. ASSUME NEW k \in Keys, k # Diff(b) PROVE View(s, one)[k] = View(s, tx)[k]
    BY Zenon, <1>2, EraseOther
  <1>3. View(s, one)[Diff(b)] = {}
    BY Zenon, ListKeys, EraseSame
  <1> HIDE DEF one
  <1>4. ASSUME NEW k \in Keys, k # Snapshot(b)
        PROVE  View(s, Erase(one, Snapshot(b)))[k] = View(s, one)[k]
    BY <1>1, <1>4, EraseOther
  <1>5. View(s, Erase(one, Snapshot(b)))[Snapshot(b)] = {}
    BY Zenon, ListKeys, EraseSame
  <1>6. /\ Diff(a) \in Keys /\ Snapshot(a) \in Keys /\ Diff(a) # Snapshot(b) /\ Snapshot(a) # Diff(b)
        /\ a # b => Diff(a) # Diff(b) /\ Snapshot(a) # Snapshot(b)
    BY Zenon, ListKeys, ListKeysDiffer
  <1>7. /\ View(s, Erase(one, Snapshot(b)))[Diff(a)] = View(s, one)[Diff(a)]
        /\ View(s, one)[Snapshot(a)] = View(s, tx)[Snapshot(a)]
        /\ a # b => /\ View(s, one)[Diff(a)] = View(s, tx)[Diff(a)]
                    /\ View(s, Erase(one, Snapshot(b)))[Snapshot(a)] = View(s, one)[Snapshot(a)]
    BY Zenon, <1>2, <1>4, <1>6
  <1>. QED
    BY <1>1, <1>3, <1>5, <1>7

-----------------------------------------------------------------------------
(* GetListForBlock                                                         *)

Empty == [height |-> -1, list |-> {Genesis}]
Right(a) == IF DIP0003Active(a) THEN [height |-> Height[a], list |-> ListOf(a)] ELSE Empty

LEMMA HighestExists ==
  ASSUME NEW S \in SUBSET Blocks, S # {}, NEW k \in Nat, \A a \in S : Height[a] <= k
  PROVE  \E a \in S : \A x \in S : Height[x] <= Height[a]
  <1> DEFINE T == {k - Height[a] : a \in S}
  <1>1. \A a \in S : Height[a] \in Nat /\ k - Height[a] \in Nat
    BY EvoAssumption
  <1>2. T \subseteq Nat /\ T # {}
    BY Zenon, <1>1
  <1>3. PICK x \in T : \A y \in T : ~(<<y, x>> \in OpToRel(<, Nat))
    <2> HIDE DEF T
    <2>. QED
      BY <1>2, WFMin, NatLessThanWellFounded, Zenon
  <1>4. \A y \in T : ~(y < x)
    BY <1>2, <1>3, Zenon DEF OpToRel
  <1>5. PICK a \in S : x = k - Height[a]
    OBVIOUS
  <1>6. ASSUME NEW b \in S PROVE Height[b] <= Height[a]
    <2>1. ~(k - Height[b] < k - Height[a])
      BY Zenon, <1>4, <1>5, <1>6
    <2>. QED
      BY <1>1, <1>5, <2>1
  <1>. QED
    BY Zenon, <1>6

\* Where the walk may stop, when the EvoDB holds the lists of the chain that ends in t.
Stops(c, x) == {a \in Ancestors[x] : \/ Cached(c, a)
                                     \/ Has(Current, Snapshot(a))
                                     \/ ~Has(Current, Diff(a))}

LEMMA BaseExists ==
  ASSUME NEW t \in Blocks, HoldsLists(Current, t), NEW c, NEW x \in Blocks
  PROVE  /\ BaseOf(c, x) \in Stops(c, x)
         /\ \A a \in Stops(c, x) : Height[a] <= Height[BaseOf(c, x)]
         /\ BaseOf(c, x) \in Blocks /\ BaseOf(c, x) \in Ancestors[x]
  <1>1. Genesis \in Stops(c, x)
    <2>1. Current[Diff(Genesis)] = {Genesis} \cap Listed(t)
      BY Zenon, GenesisInactive DEF HoldsLists
    <2>2. ~Has(Current, Diff(Genesis))
      BY Zenon, <2>1, GenesisInactive DEF Has, Listed
    <2>. QED
      BY Zenon, <2>2, EvoAssumption DEF Stops
  <1>2. Stops(c, x) \in SUBSET Blocks /\ Stops(c, x) \subseteq Ancestors[x]
    BY EvoAssumption DEF Stops
  <1>3. Height[x] \in Nat /\ \A a \in Stops(c, x) : Height[a] <= Height[x]
    <2>1. Height[x] \in Nat
      BY Zenon, EvoAssumption
    <2>2. ASSUME NEW a \in Stops(c, x) PROVE Height[a] <= Height[x]
      <3>1. a \in Blocks /\ Height[a] \in Nat /\ (a = x \/ Height[a] < Height[x])
        BY Zenon, <1>2, EvoAssumption
      <3>. QED
        BY <2>1, <3>1
    <2>. QED
      BY Zenon, <2>1, <2>2
  <1>4. BaseOf(c, x) = CHOOSE a \in Stops(c, x) : \A y \in Stops(c, x) : Height[y] <= Height[a]
    BY Zenon DEF BaseOf, Stops
  <1>5. \E a \in Stops(c, x) : \A y \in Stops(c, x) : Height[y] <= Height[a]
    <2> DEFINE S == Stops(c, x)
    <2> HIDE DEF S
    <2>1. S \in SUBSET Blocks /\ S # {} /\ \A a \in S : Height[a] <= Height[x]
      BY <1>1, <1>2, <1>3 DEF S
    <2>2. \E a \in S : \A y \in S : Height[y] <= Height[a]
      BY <1>3, <2>1, HighestExists
    <2>. QED
      BY Zenon, <2>2 DEF S
  <1>6. BaseOf(c, x) \in Stops(c, x) /\ \A a \in Stops(c, x) : Height[a] <= Height[BaseOf(c, x)]
    BY <1>4, <1>5, Zenon
  <1>. QED
    BY Zenon, <1>2, <1>6

LEMMA EmptyBelow ==
  ASSUME NEW a \in Blocks, ~DIP0003Active(a)
  PROVE  ListOf(a) = {Genesis} /\ Listed(a) = {}
  <1>1. ASSUME NEW y \in Ancestors[a] PROVE ~DIP0003Active(y)
    BY <1>1, ChainFacts, EvoAssumption DEF DIP0003Active
  <1>. QED
    BY Zenon, <1>1 DEF ListOf, Listed

\* What the cache may hold while the EvoDB holds the lists of the chain that ends in t.
Sane(c, t) ==
  \A a \in Blocks :
    \/ c[a] \in {NotCached, Right(a)}
    \/ c[a] = Empty /\ (~Has(Current, Diff(a)) \/ a = t)

LEMMA EntriesDiffer ==
  ASSUME NEW a \in Blocks
  PROVE  /\ Empty # NotCached /\ Right(a) # NotCached
         /\ Right(a).height = -1 <=> ~DIP0003Active(a)
  BY EvoAssumption DEF Empty, NotCached, Right

\* A walk that stops where it starts.
LEMMA NoWalk ==
  ASSUME NEW t \in Blocks, HoldsLists(Current, t), NEW c, NEW x \in Blocks, x \in Stops(c, x)
  PROVE  /\ GetListForBlock(c, x) = [a \in Blocks |-> IF a = x THEN BaseList(c, x) ELSE c[a]]
         /\ \/ BaseList(c, x) = c[x]
            \/ BaseList(c, x) = Right(x) /\ Has(Current, Diff(x))
            \/ BaseList(c, x) = Empty /\ ~Has(Current, Diff(x))
         /\ Cached(c, x) \/ BaseList(c, x) \in {Right(x), Empty}
  <1> DEFINE base == BaseOf(c, x)
             path == {a \in Ancestors[x] : Height[a] > Height[base]}
  <1>1. base \in Ancestors[x] /\ Height[x] <= Height[base]
    BY Zenon, BaseExists
  <1>2. base = x
    BY <1>1, ChainFacts
  <1>3. path = {}
    <2>1. ASSUME NEW a \in Ancestors[x] PROVE ~(Height[a] > Height[x])
      BY <2>1, ChainFacts
    <2>. QED
      BY Zenon, <1>2, <2>1
  <1>4. GetListForBlock(c, x) =
          [a \in Blocks |->
             IF a \in path
               THEN [height |-> Height[a],
                     list |-> BaseList(c, base).list \cup {y \in path : y \in Ancestors[a]}]
             ELSE IF a = base THEN BaseList(c, base) ELSE c[a]]
    BY Zenon DEF GetListForBlock
  <1> HIDE DEF base, path
  <1>5. GetListForBlock(c, x) = [a \in Blocks |-> IF a = x THEN BaseList(c, x) ELSE c[a]]
    BY Zenon, <1>2, <1>3, <1>4
  <1>6. CASE Cached(c, x)
    BY Zenon, <1>5, <1>6 DEF BaseList
  <1>7. CASE ~Cached(c, x) /\ Has(Current, Snapshot(x))
    <2>1. Current[Snapshot(x)] = SnapshotOf(t, x) /\ Current[Diff(x)] = {x} \cap Listed(t)
      BY Zenon DEF HoldsLists
    <2>2. x \in Listed(t) /\ Current[Snapshot(x)] = ListOf(x)
      BY Zenon, <1>7, <2>1 DEF SnapshotOf, Has
    <2>3. BaseList(c, x) = Right(x)
      BY Zenon, <1>7, <2>2 DEF BaseList, Right, Listed
    <2>4. Has(Current, Diff(x))
      BY <2>1, <2>2 DEF Has
    <2>. QED
      BY Zenon, <1>5, <2>3, <2>4
  <1>8. CASE ~Cached(c, x) /\ ~Has(Current, Snapshot(x))
    <2>1. ~Has(Current, Diff(x)) /\ BaseList(c, x) = Empty
      BY Zenon, <1>8 DEF Stops, BaseList, Empty
    <2>. QED
      BY Zenon, <1>5, <2>1
  <1>. QED
    BY Zenon, <1>6, <1>7, <1>8

\* A walk that goes back: it stops at a block of the chain that has a list.
LEMMA WalkBase ==
  ASSUME NEW t \in Blocks, HoldsLists(Current, t), NEW c, Sane(c, t), NEW x \in Blocks,
         x \notin Stops(c, x)
  PROVE  /\ x \in Listed(t)
         /\ DIP0003Active(BaseOf(c, x))
         /\ BaseList(c, BaseOf(c, x)) = Right(BaseOf(c, x))
         /\ BaseOf(c, x) # x /\ Height[BaseOf(c, x)] < Height[x]
  <1> DEFINE base == BaseOf(c, x)
  <1>0. /\ base \in Stops(c, x) /\ base \in Blocks /\ base \in Ancestors[x]
        /\ \A a \in Stops(c, x) : Height[a] <= Height[base]
    BY Zenon, BaseExists
  <1> HIDE DEF base
  <1>1. x \in Ancestors[x]
    BY Zenon, EvoAssumption
  <1>2. Has(Current, Diff(x)) /\ x \in Listed(t)
    <2>1. Has(Current, Diff(x))
      BY Zenon, <1>1 DEF Stops
    <2>. QED
      BY <2>1 DEF HoldsLists, Has
  <1>3. base # x /\ Height[base] < Height[x]
    BY Zenon, <1>0, ChainFacts
  <1>4. PICK d \in Ancestors[x] : Height[d] = DIP0003Height
    <2>1. DIP0003Height \in 0..Height[x]
      BY <1>2, EvoAssumption DEF Listed, DIP0003Active
    <2>. QED
      BY Zenon, <2>1, EvoAssumption
  <1>5. d \in Blocks /\ d \in Listed(t) /\ Due(d)
    <2>1. d \in Blocks /\ d \in Ancestors[t]
      BY Zenon, <1>2, ChainFacts DEF Listed
    <2>2. DIP0003Active(d) /\ Due(d)
      BY <1>4, EvoAssumption DEF DIP0003Active, Due
    <2>. QED
      BY Zenon, <2>1, <2>2 DEF Listed
  <1>6. d \in Stops(c, x)
    <2>1. Current[Snapshot(d)] = ListOf(d)
      BY Zenon, <1>5 DEF HoldsLists, SnapshotOf
    <2>2. Genesis \in ListOf(d)
      BY Zenon DEF ListOf
    <2>. QED
      BY Zenon, <2>1, <2>2 DEF Stops, Has
  <1>7. DIP0003Active(base)
    BY Zenon, <1>0, <1>4, <1>6 DEF DIP0003Active
  <1>8. base \in Listed(t)
    BY Zenon, <1>0, <1>2, <1>7, ChainFacts DEF Listed
  <1>9. Current[Diff(base)] = {base} /\ Current[Snapshot(base)] = SnapshotOf(t, base)
    BY <1>0, <1>8 DEF HoldsLists
  <1>10. base # t
    BY <1>2, <1>3, ChainFacts DEF Listed
  <1>11. c[base] \in {NotCached, Right(base)}
    BY Zenon, <1>0, <1>9, <1>10 DEF Sane, Has
  <1>12. BaseList(c, base) = Right(base)
    <2>1. CASE Cached(c, base)
      BY Zenon, <1>11, <2>1 DEF BaseList, Cached
    <2>2. CASE ~Cached(c, base)
      <3>1. Has(Current, Snapshot(base))
        BY Zenon, <1>0, <1>9, <2>2 DEF Stops, Has
      <3>2. Current[Snapshot(base)] = ListOf(base)
        BY Zenon, <1>9, <3>1 DEF SnapshotOf, Has
      <3>. QED
        BY Zenon, <1>7, <2>2, <3>1, <3>2 DEF BaseList, Right
    <2>. QED
      BY Zenon, <2>1, <2>2
  <1>. QED
    BY <1>2, <1>3, <1>7, <1>12 DEF base

LEMMA WalkList ==
  ASSUME NEW x \in Blocks, NEW base \in Ancestors[x], DIP0003Active(base),
         NEW a \in Ancestors[x], Height[a] > Height[base]
  PROVE  LET path == {y \in Ancestors[x] : Height[y] > Height[base]}
         IN  /\ ListOf(base) \cup {y \in path : y \in Ancestors[a]} = ListOf(a)
             /\ DIP0003Active(a)
  <1> DEFINE path == {y \in Ancestors[x] : Height[y] > Height[base]}
  <1>1. /\ a \in Blocks /\ base \in Blocks /\ Height[a] \in Nat /\ Height[base] \in Nat
        /\ base \in Ancestors[a]
    BY ChainFacts
  <1>2. Ancestors[base] \subseteq Ancestors[a] /\ Ancestors[a] \subseteq Ancestors[x]
    BY Zenon, <1>1, ChainFacts
  <1>3. \A y \in Ancestors[x] : Height[y] \in Nat
    BY Zenon, ChainFacts
  <1>4. DIP0003Active(a) /\ \A y \in path : DIP0003Active(y)
    BY <1>1, <1>3, EvoAssumption DEF DIP0003Active
  <1>5. \A y \in Ancestors[a] : y \in path \/ y \in Ancestors[base]
    <2> SUFFICES ASSUME NEW y \in Ancestors[a], y \notin path PROVE y \in Ancestors[base]
      OBVIOUS
    <2>1. y \in Ancestors[x] /\ Height[y] <= Height[base]
      BY <1>1, <1>2, <1>3
    <2>. QED
      BY Zenon, <2>1, ChainFacts
  <1> HIDE DEF path
  <1>6. ListOf(base) \cup {y \in path : y \in Ancestors[a]} = ListOf(a)
    BY Zenon, <1>2, <1>4, <1>5 DEF ListOf
  <1>. QED
    BY Zenon, <1>4, <1>6 DEF path

\* The cache after GetListForBlock(x): what it adds is right, except an empty list for a
\* block that has no changes in the EvoDB.
LEMMA GetListFills ==
  ASSUME NEW t \in Blocks, HoldsLists(Current, t), NEW c, Sane(c, t), NEW x \in Blocks
  PROVE  LET n == GetListForBlock(c, x)
         IN  /\ n = [a \in Blocks |-> n[a]]
             /\ \A a \in Blocks :
                  \/ n[a] \in {c[a], Right(a)}
                  \/ a = x /\ n[a] = Empty /\ ~Has(Current, Diff(x))
             /\ n[x] \in {Right(x), Empty}
             /\ Has(Current, Diff(x)) /\ c[x] \in {NotCached, Right(x)} => n[x] = Right(x)
  <1> DEFINE n == GetListForBlock(c, x)
             base == BaseOf(c, x)
             path == {a \in Ancestors[x] : Height[a] > Height[base]}
  <1>1. CASE x \in Stops(c, x)
    <2>1. /\ n = [a \in Blocks |-> IF a = x THEN BaseList(c, x) ELSE c[a]]
          /\ \/ BaseList(c, x) = c[x]
             \/ BaseList(c, x) = Right(x) /\ Has(Current, Diff(x))
             \/ BaseList(c, x) = Empty /\ ~Has(Current, Diff(x))
          /\ Cached(c, x) \/ BaseList(c, x) \in {Right(x), Empty}
      BY Zenon, <1>1, NoWalk
    <2> HIDE DEF n
    <2>2. n[x] = BaseList(c, x) /\ \A a \in Blocks \ {x} : n[a] = c[a]
      BY Zenon, <2>1
    <2>3. Cached(c, x) => c[x] \in {Right(x), Empty}
      BY Zenon DEF Sane, Cached
    <2>4. Cached(c, x) => BaseList(c, x) = c[x]
      BY Zenon DEF BaseList
    <2>5. n[x] \in {Right(x), Empty}
      BY <2>1, <2>2, <2>3, <2>4
    <2>6. Has(Current, Diff(x)) /\ c[x] \in {NotCached, Right(x)} => n[x] = Right(x)
      BY <2>1, <2>2, <2>4, EntriesDiffer DEF Cached
    <2>7. n = [a \in Blocks |-> n[a]]
      BY Zenon, <2>1
    <2>. QED
      BY <2>1, <2>2, <2>5, <2>6, <2>7 DEF n
  <1>2. CASE x \notin Stops(c, x)
    <2>1. /\ DIP0003Active(base) /\ BaseList(c, base) = Right(base)
          /\ base # x /\ Height[base] < Height[x] /\ x \in Listed(t)
      BY <1>2, WalkBase
    <2>2. base \in Ancestors[x] /\ base \in Blocks
      BY Zenon, BaseExists
    <2>3. n = [a \in Blocks |->
                 IF a \in path
                   THEN [height |-> Height[a],
                         list |-> BaseList(c, base).list \cup {y \in path : y \in Ancestors[a]}]
                 ELSE IF a = base THEN BaseList(c, base) ELSE c[a]]
      BY Zenon DEF GetListForBlock
    <2>4. BaseList(c, base).list = ListOf(base)
      BY <2>1 DEF Right
    <2> HIDE DEF base
    <2>5. ASSUME NEW a \in path
          PROVE  /\ a \in Blocks
                 /\ ListOf(base) \cup {y \in path : y \in Ancestors[a]} = ListOf(a)
                 /\ DIP0003Active(a)
      <3>1. a \in Blocks
        BY <2>5, ChainFacts
      <3>. QED
        BY <2>1, <2>2, <3>1, WalkList
    <2>6. x \in path
      <3>1. Height[base] \in Nat /\ Height[x] \in Nat /\ x \in Ancestors[x]
        BY Zenon, <2>2, EvoAssumption
      <3>. QED
        BY <2>1, <3>1
    <2> HIDE DEF n, path
    <2>7. ASSUME NEW a \in path PROVE n[a] = Right(a)
      BY Zenon, <2>3, <2>4, <2>5, <2>7 DEF Right
    <2>8. \A a \in Blocks : n[a] \in {c[a], Right(a)}
      BY <2>1, <2>3, <2>7
    <2>9. n = [a \in Blocks |-> n[a]]
      BY Zenon, <2>3
    <2>. QED
      BY <2>6, <2>7, <2>8, <2>9 DEF n
  <1>. QED
    BY Zenon, <1>1, <1>2

-----------------------------------------------------------------------------
(* The inductive invariant                                                 *)

\* The blocks for which an empty list may be cached: those that have no changes in the
\* EvoDB, and one that is connected, until CleanupCache is called.
Doubtful(a) ==
  ~Has(Current, Diff(a)) \/ (main.op = "connect" /\ main.step = "cleanup" /\ a = main.block)
CachedOK ==
  \A a \in Blocks :
    \/ lists[a] \in {NotCached, Right(a)}
    \/ Doubtful(a) /\ lists[a] = Empty /\ Height[a] >= ListsCacheSize

ListsExact ==
  /\ ExactLists(disk.evo)
  /\ status = "down" => \A a \in Blocks : lists[a] = NotCached
  /\ status = "running" => ExactLists(Committed) /\ TxLists /\ CachedOK

ListInv ==
  /\ lists = [a \in Blocks |-> lists[a]]
  /\ tipIndex \in Blocks \cup {NoBlock}
  /\ main.op \in {"idle", "connect", "test", "disconnect", "flush"}
  /\ upgraded \in BOOLEAN /\ early \in BOOLEAN
  /\ ~upgraded /\ ~early => ListsExact

SameLists(r, s) ==
  \A a \in Blocks : r[Diff(a)] = s[Diff(a)] /\ r[Snapshot(a)] = s[Snapshot(a)]

LEMMA SameListsHold ==
  ASSUME NEW r, NEW s, SameLists(r, s), NEW t, HoldsLists(s, t)
  PROVE  HoldsLists(r, t)
  BY Zenon DEF SameLists, HoldsLists

LEMMA SameKeys ==
  ASSUME NEW r, NEW s, \A k \in Keys : r[k] = s[k]
  PROVE  SameLists(r, s) /\ \A t : Names(s, t) => Names(r, t)
  BY ListKeys, BestIsKey DEF SameLists, Names

LEMMA ListsAt ==
  ASSUME NEW s, ExactLists(s), NEW t \in Blocks, Names(s, t)
  PROVE  HoldsLists(s, t)
  <1>1. PICK u \in Blocks : Names(s, u) /\ HoldsLists(s, u)
    BY Zenon DEF ExactLists
  <1>2. u = t
    BY <1>1 DEF Names
  <1>. QED
    BY <1>1, <1>2

LEMMA IdleLists ==
  ASSUME EvoInv, status = "running", main.op \in {"idle", "flush"}
  PROVE  SameLists(Current, Committed)
  <1>1. cur = Clean
    BY Zenon DEF EvoInv, MainOK
  <1> DEFINE s == Committed
  <1>2. Current = View(s, Clean)
    BY Zenon, <1>1 DEF Current
  <1> HIDE DEF s
  <1>3. \A k \in Keys : View(s, Clean)[k] = s[k]
    BY Zenon, CleanView
  <1>. QED
    BY <1>2, <1>3, SameKeys DEF s

\* At every moment the open view holds the lists of some chain, and the cache suits it.
LEMMA SomeLists ==
  ASSUME EvoInv, ListInv, ListsExact, status = "running"
  PROVE  \E t \in Blocks : HoldsLists(Current, t) /\ Sane(lists, t)
  <1>1. \E t \in Blocks :
           /\ HoldsLists(Current, t)
           /\ main.op = "connect" /\ main.step = "cleanup" => t = main.block
    <2>1. CASE main.op \in {"idle", "flush"}
      <3>1. PICK t \in Blocks : HoldsLists(Committed, t)
        BY Zenon DEF ListsExact, ExactLists
      <3>2. HoldsLists(Current, t)
        BY Zenon, <2>1, <3>1, IdleLists, SameListsHold
      <3>. QED
        BY Zenon, <2>1, <3>2
    <2>2. CASE main.op \in {"connect", "test"}
      <3>1. main.block \in Blocks /\ coinsTip \in Blocks
        BY Zenon, <2>2 DEF EvoInv, MainOK
      <3>2. HoldsLists(Current, IF Written THEN main.block ELSE coinsTip)
        BY Zenon, <2>2 DEF ListsExact, TxLists
      <3>. QED
        BY <3>1, <3>2 DEF Written
    <2>3. CASE main.op = "disconnect"
      <3>1. Parent[main.block] \in Blocks
        BY <2>3, HeightPositive DEF EvoInv, MainOK
      <3>. QED
        BY <2>3, <3>1 DEF ListsExact, TxLists
    <2>. QED
      BY Zenon, <2>1, <2>2, <2>3 DEF ListInv
  <1>2. PICK t \in Blocks :
           /\ HoldsLists(Current, t)
           /\ main.op = "connect" /\ main.step = "cleanup" => t = main.block
    BY Zenon, <1>1
  <1>3. Sane(lists, t)
    BY Zenon, <1>2 DEF Sane, ListsExact, CachedOK, Doubtful
  <1>. QED
    BY Zenon, <1>2, <1>3

\* Between two operations the open view holds the lists of the active chain.
LEMMA BeginLists ==
  ASSUME EvoInv, ListInv, ListsExact, status = "running", main = Idle,
         Names(Committed, coinsTip)
  PROVE  /\ HoldsLists(Committed, coinsTip) /\ HoldsLists(Current, coinsTip)
         /\ Sane(lists, coinsTip)
         /\ \A a \in Blocks : Has(Current, Diff(a)) => lists[a] \in {NotCached, Right(a)}
  <1>1. HoldsLists(Committed, coinsTip)
    BY Zenon, ListsAt DEF ListsExact, EvoInv
  <1>2. HoldsLists(Current, coinsTip)
    BY Zenon, <1>1, IdleLists, SameListsHold DEF Idle
  <1>3. \A a \in Blocks : Doubtful(a) => ~Has(Current, Diff(a))
    BY Zenon DEF Doubtful, Idle
  <1>. QED
    BY <1>1, <1>2, <1>3 DEF Sane, ListsExact, CachedOK

\* GetListForBlock for a block of the chain.
LEMMA GetListOnChain ==
  ASSUME NEW t \in Blocks, HoldsLists(Current, t), NEW c, Sane(c, t), NEW x \in Ancestors[t]
  PROVE  LET n == GetListForBlock(c, x)
         IN  /\ n = [a \in Blocks |-> n[a]]
             /\ \A a \in Blocks : n[a] \in {c[a], Right(a)}
             /\ c[x] \in {NotCached, Right(x)} => n[x] = Right(x)
             /\ Sane(n, t)
  <1> DEFINE n == GetListForBlock(c, x)
  <1>0. x \in Blocks
    BY Zenon, ChainFacts
  <1>1. /\ n = [a \in Blocks |-> n[a]]
        /\ \A a \in Blocks :
             \/ n[a] \in {c[a], Right(a)}
             \/ a = x /\ n[a] = Empty /\ ~Has(Current, Diff(x))
        /\ n[x] \in {Right(x), Empty}
        /\ Has(Current, Diff(x)) /\ c[x] \in {NotCached, Right(x)} => n[x] = Right(x)
    BY Zenon, <1>0, GetListFills
  <1> HIDE DEF n
  <1>2. Has(Current, Diff(x)) \/ Right(x) = Empty
    <2>1. CASE DIP0003Active(x)
      <3>1. x \in Listed(t) /\ Current[Diff(x)] = {x} \cap Listed(t)
        BY Zenon, <1>0, <2>1 DEF Listed, HoldsLists
      <3>. QED
        BY Zenon, <3>1 DEF Has
    <2>2. CASE ~DIP0003Active(x)
      BY Zenon, <2>2 DEF Right
    <2>. QED
      BY Zenon, <2>1, <2>2
  <1>3. \A a \in Blocks : n[a] \in {c[a], Right(a)}
    BY <1>1, <1>2
  <1>4. c[x] \in {NotCached, Right(x)} => n[x] = Right(x)
    BY <1>1, <1>2
  <1>5. Sane(n, t)
    BY Zenon, <1>3 DEF Sane
  <1>. QED
    BY Zenon, <1>1, <1>3, <1>4, <1>5 DEF n

LEMMA EntriesKept ==
  ASSUME CachedOK, \A a \in Blocks : lists'[a] \in {lists[a], NotCached, Right(a)},
         \A a \in Blocks : Doubtful(a) => Doubtful(a)'
  PROVE  CachedOK'
  BY Zenon DEF CachedOK, Right, Empty, NotCached, ListOf, DIP0003Active

-----------------------------------------------------------------------------
(* The lists of a chain, before and after its last block                   *)

LEMMA ListedStep ==
  ASSUME NEW b \in Blocks, b # Genesis
  PROVE  /\ Parent[b] \in Blocks /\ b \notin Listed(Parent[b])
         /\ Listed(b) = Listed(Parent[b]) \cup (IF DIP0003Active(b) THEN {b} ELSE {})
         /\ DIP0003Active(b) => ListOf(b) = ListOf(Parent[b]) \cup {b}
         /\ DIP0003Active(b) => (DIP0003Active(Parent[b]) <=> Height[b] # DIP0003Height)
  <1>1. /\ Ancestors[b] = {b} \cup Ancestors[Parent[b]] /\ b \notin Ancestors[Parent[b]]
        /\ Parent[b] \in Blocks
    BY AncestorsOfChild, EvoAssumption
  <1>2. Height[b] = Height[Parent[b]] + 1 /\ Height[Parent[b]] \in Nat
    BY <1>1, EvoAssumption
  <1>3. DIP0003Active(b) => (DIP0003Active(Parent[b]) <=> Height[b] # DIP0003Height)
    BY <1>2, EvoAssumption DEF DIP0003Active
  <1>. QED
    BY <1>1, <1>3 DEF Listed, ListOf

\* ProcessBlock writes a snapshot exactly when one is due.
LEMMA WriteListHolds ==
  ASSUME NEW tx, Good(tx), NEW s, NEW b \in Blocks, b # Genesis, DIP0003Active(b),
         HoldsLists(View(s, tx), Parent[b]), NEW c, c[Parent[b]] = Right(Parent[b])
  PROVE  HoldsLists(View(s, WriteList(tx, c, b)), b)
  <1> DEFINE due == Height[b] % SnapshotPeriod = 0 \/ c[Parent[b]].height = -1
             new == View(s, WriteList(tx, c, b))
             old == View(s, tx)
  <1>1. due <=> Due(b)
    BY Zenon, ListedStep, EntriesDiffer DEF Due
  <1>2. c[Parent[b]].list \cup {b} = ListOf(b)
    <2>1. Right(Parent[b]).list = ListOf(Parent[b])
      BY Zenon, ListedStep, EmptyBelow DEF Right, Empty
    <2>. QED
      BY Zenon, <2>1, ListedStep
  <1>3. ASSUME NEW a \in Blocks
        PROVE  /\ a = b => new[Diff(a)] = {b}
               /\ a # b => new[Diff(a)] = old[Diff(a)]
               /\ a = b /\ due => new[Snapshot(a)] = ListOf(b)
               /\ a # b \/ ~due => new[Snapshot(a)] = old[Snapshot(a)]
    <2>1. /\ a = b => new[Diff(a)] = {b}
          /\ a # b => new[Diff(a)] = old[Diff(a)]
          /\ a = b /\ due => new[Snapshot(a)] = c[Parent[b]].list \cup {b}
          /\ a # b \/ ~due => new[Snapshot(a)] = old[Snapshot(a)]
      BY ONLY WriteListView, Good(tx), a \in Blocks, b \in Blocks
    <2>. QED
      BY Zenon, <1>2, <2>1
  <1>4. \A a \in Blocks : /\ old[Diff(a)] = {a} \cap Listed(Parent[b])
                          /\ old[Snapshot(a)] = SnapshotOf(Parent[b], a)
    BY Zenon DEF HoldsLists
  <1> HIDE DEF new, old, due
  <1>5. ASSUME NEW a \in Blocks
        PROVE  new[Diff(a)] = {a} \cap Listed(b) /\ new[Snapshot(a)] = SnapshotOf(b, a)
    <2>1. Listed(b) = Listed(Parent[b]) \cup {b} /\ b \notin Listed(Parent[b])
      BY ListedStep
    <2>2. CASE a = b
      <3>1. a \in Listed(b) /\ a \notin Listed(Parent[b])
        BY ONLY Zenon, <2>1, <2>2
      <3>2. SnapshotOf(b, a) = (IF Due(b) THEN ListOf(b) ELSE {}) /\ SnapshotOf(Parent[b], a) = {}
        BY ONLY <2>2, <3>1 DEF SnapshotOf
      <3>3. /\ new[Diff(a)] = {b}
            /\ due => new[Snapshot(a)] = ListOf(b)
            /\ ~due => new[Snapshot(a)] = old[Snapshot(a)]
        BY Zenon, <1>3, <2>2
      <3>4. old[Snapshot(a)] = {}
        BY Zenon, <1>4, <3>2
      <3>. QED
        BY ONLY <1>1, <2>2, <3>1, <3>2, <3>3, <3>4
    <2>3. CASE a # b
      <3>1. a \in Listed(b) <=> a \in Listed(Parent[b])
        BY ONLY Zenon, <2>1, <2>3
      <3>2. SnapshotOf(b, a) = SnapshotOf(Parent[b], a)
        BY ONLY Zenon, <3>1 DEF SnapshotOf
      <3>3. new[Diff(a)] = old[Diff(a)] /\ new[Snapshot(a)] = old[Snapshot(a)]
        BY Zenon, <1>3, <2>3
      <3>4. old[Diff(a)] = {a} \cap Listed(Parent[b]) /\ old[Snapshot(a)] = SnapshotOf(Parent[b], a)
        BY Zenon, <1>4
      <3>. QED
        BY ONLY <3>1, <3>2, <3>3, <3>4
    <2>. QED
      BY <2>2, <2>3
  <1>. QED
    BY Zenon, <1>5 DEF HoldsLists, new

LEMMA EraseListHolds ==
  ASSUME NEW tx, Good(tx), NEW s, NEW b \in Blocks, b # Genesis, HoldsLists(View(s, tx), b)
  PROVE  HoldsLists(View(s, EraseList(tx, b)), Parent[b])
  <1> DEFINE new == View(s, EraseList(tx, b))
             old == View(s, tx)
  <1>1. ASSUME NEW a \in Blocks
        PROVE  /\ a = b => new[Diff(a)] = {} /\ new[Snapshot(a)] = {}
               /\ a # b => new[Diff(a)] = old[Diff(a)] /\ new[Snapshot(a)] = old[Snapshot(a)]
    BY EraseListView
  <1>2. \A a \in Blocks : /\ old[Diff(a)] = {a} \cap Listed(b)
                          /\ old[Snapshot(a)] = SnapshotOf(b, a)
    BY Zenon DEF HoldsLists
  <1> HIDE DEF new, old
  <1>3. ASSUME NEW a \in Blocks
        PROVE  /\ new[Diff(a)] = {a} \cap Listed(Parent[b])
               /\ new[Snapshot(a)] = SnapshotOf(Parent[b], a)
    <2>1. a # b => (a \in Listed(b) <=> a \in Listed(Parent[b]))
      BY ListedStep
    <2>2. b \notin Listed(Parent[b])
      BY Zenon, ListedStep
    <2>3. CASE a = b
      BY Zenon, <1>1, <2>2, <2>3 DEF SnapshotOf
    <2>4. CASE a # b
      <3>1. SnapshotOf(b, a) = SnapshotOf(Parent[b], a)
        BY Zenon, <2>1, <2>4 DEF SnapshotOf
      <3>. QED
        BY <1>1, <1>2, <2>1, <2>4, <3>1
    <2>. QED
      BY Zenon, <2>3, <2>4
  <1>. QED
    BY Zenon, <1>3 DEF HoldsLists, new

LEMMA InactiveHolds ==
  ASSUME NEW b \in Blocks, b # Genesis, ~DIP0003Active(b), NEW s, HoldsLists(s, Parent[b])
  PROVE  HoldsLists(s, b)
  <1>1. Listed(b) = Listed(Parent[b])
    BY ListedStep
  <1>. QED
    BY Zenon, <1>1 DEF HoldsLists, SnapshotOf

LEMMA CommitmentLists ==
  ASSUME NEW tx, Good(tx), NEW s, NEW b
  PROVE  /\ SameLists(View(s, WriteCommitment(tx, b)), View(s, tx))
         /\ SameLists(View(s, EraseCommitment(tx, b)), View(s, tx))
  <1>1. ASSUME NEW a \in Blocks, NEW k \in {Diff(a), Snapshot(a)}
        PROVE  /\ View(s, WriteCommitment(tx, b))[k] = View(s, tx)[k]
               /\ View(s, EraseCommitment(tx, b))[k] = View(s, tx)[k]
    <2>1. /\ k \in Keys /\ k # BestUpgrade /\ k # InversedHeightKey(b)
          /\ \A q : k # MinedCommitment(q)
      BY Zenon, <1>1, ListKeys, ListKeysDiffer
    <2>. QED
      BY <2>1, CommitmentOther
  <1>. QED
    BY Zenon, <1>1 DEF SameLists

LEMMA CommitLists ==
  ASSUME EvoInv, UNCHANGED disk, NEW v, cur' = Clean,
         root' = CommitInto(Write(cur, Best, v), root)
  PROVE  SameLists(Committed', Current) /\ SameLists(Current', Current)
  <1> DEFINE s == disk.evo
             w == Write(cur, Best, v)
             below == View(s, root)
  <1>1. Good(cur)
    BY Zenon DEF EvoInv
  <1>2. Disjoint(w)
    BY <1>1, WriteGood DEF Good
  <1>3. Committed' = View(s, CommitInto(w, root)) /\ Current = View(below, cur)
    BY Zenon DEF Committed, Current
  <1> HIDE DEF s
  <1>4. View(s, CommitInto(w, root)) = View(below, w)
    BY <1>2, CommitIsTransparent
  <1> HIDE DEF below
  <1>5. ASSUME NEW k \in Keys, k # Best PROVE View(below, w)[k] = View(below, cur)[k]
    BY <1>1, <1>5, WriteOther
  <1>6. SameLists(Committed', Current)
    BY Zenon, <1>3, <1>4, <1>5, ListKeys DEF SameLists
  <1>7. SameLists(Current', Committed')
    <2> DEFINE r == Committed'
    <2>1. Current' = View(r, Clean)
      BY Zenon DEF Current
    <2> HIDE DEF r
    <2>2. \A k \in Keys : View(r, Clean)[k] = r[k]
      BY Zenon, CleanView
    <2>. QED
      BY Zenon, <2>1, <2>2, SameKeys DEF r
  <1>. QED
    BY <1>6, <1>7 DEF SameLists

-----------------------------------------------------------------------------
(* The steps                                                               *)

LEMMA ListInvInit == Init => ListInv
  <1> SUFFICES ASSUME Init PROVE ListInv
    OBVIOUS
  <1>1. ASSUME NEW s, \A k \in Keys : s[k] = {} PROVE ExactLists(s)
    <2>1. Names(s, Genesis)
      BY <1>1, BestIsKey DEF Names
    <2>2. Listed(Genesis) = {}
      BY GenesisInactive, EmptyBelow
    <2>3. HoldsLists(s, Genesis)
      BY Zenon, <1>1, <2>2, ListKeys DEF HoldsLists, SnapshotOf
    <2>. QED
      BY <2>1, <2>3, GenesisInactive DEF ExactLists
  <1>2. \A k \in Keys : disk.evo[k] = {} /\ Committed[k] = {}
    BY Zenon, CleanView DEF Init, NoEntries, Committed
  <1>3. ExactLists(disk.evo) /\ ExactLists(Committed)
    BY Zenon, <1>1, <1>2
  <1>4. TxLists
    BY Zenon DEF Init, Idle, TxLists
  <1>5. CachedOK
    BY Zenon DEF Init, CachedOK
  <1>. QED
    BY Zenon, <1>3, <1>4, <1>5, EvoAssumption DEF Init, ListInv, ListsExact, Idle

LEMMA GetListIsMap ==
  ASSUME NEW c, NEW x
  PROVE  GetListForBlock(c, x) = [a \in Blocks |-> GetListForBlock(c, x)[a]]
  BY Zenon DEF GetListForBlock

LEMMA ListTypeNext ==
  ASSUME EvoInv, ListInv, [Next]_vars
  PROVE  /\ lists' = [a \in Blocks |-> lists'[a]]
         /\ tipIndex' \in Blocks \cup {NoBlock}
         /\ main'.op \in {"idle", "connect", "test", "disconnect", "flush"}
         /\ upgraded' \in BOOLEAN /\ early' \in BOOLEAN
         /\ (upgraded => upgraded') /\ (early => early')
  <1> USE DEF ListInv
  <1>1. ASSUME NEW op \in {"connect", "test"}, NEW b \in Blocks, BeginConnect(op, b)
        PROVE  /\ lists' = [a \in Blocks |-> lists'[a]]
               /\ main'.op \in {"idle", "connect", "test"}
               /\ UNCHANGED <<tipIndex, upgraded, early>>
    <2>1. \/ Die \/ UNCHANGED lists
          \/ \E q : lists' = GetListForBlock(lists, q)
      BY Zenon, <1>1 DEF BeginConnect
    <2>2. lists' = [a \in Blocks |-> lists'[a]]
      BY <2>1, GetListIsMap DEF Die, cacheVars
    <2>3. main' \in {Idle, main} \/ main'.op = op
      BY <1>1 DEF BeginConnect, Die, At
    <2>. QED
      BY <1>1, <2>2, <2>3 DEF BeginConnect, Die, Idle
  <1>2. CASE ConnectList \/ ConnectCleanup
    <2>1. main'.op = main.op
      BY <1>2 DEF ConnectList, ConnectCleanup, EvoInv, At
    <2>2. lists' = [a \in Blocks |-> lists'[a]]
      BY <1>2, GetListIsMap DEF ConnectList, ConnectCleanup, CleanupCache
    <2>. QED
      BY Zenon, <1>2, <2>1, <2>2 DEF ConnectList, ConnectCleanup
  <1>3. CASE BeginDisconnect
    <2>1. CASE Die
      BY Zenon, <2>1 DEF Die, cacheVars, Idle
    <2>2. CASE ~Die
      <3> DEFINE from == IF Has(Current, Diff(coinsTip))
                           THEN GetListForBlock(GetListForBlock(lists, coinsTip), Parent[coinsTip])
                           ELSE lists
      <3>1. lists' = [from EXCEPT ![coinsTip] = NotCached] /\ main'.op = "disconnect"
            /\ UNCHANGED <<tipIndex, upgraded, early>>
        BY <1>3, <2>2 DEF BeginDisconnect, At
      <3>2. from = [a \in Blocks |-> from[a]]
        BY GetListIsMap
      <3> HIDE DEF from
      <3>. QED
        BY Zenon, <3>1, <3>2
    <2>. QED
      BY Zenon, <2>1, <2>2
  <1>4. CASE EndConnect \/ EndDisconnect \/ FlushCoins \/ FlushEvo
    BY <1>4 DEF EndConnect, EndDisconnect, FlushCoins, FlushEvo, Die, cacheVars, Idle, At
  <1>5. CASE DisconnectQuorum
    <2>1. main'.op = main.op
      BY Zenon, <1>5 DEF DisconnectQuorum, EvoInv, At
    <2>. QED
      BY Zenon, <1>5, <2>1 DEF DisconnectQuorum
  <1>6. CASE Crash
    BY Zenon, <1>6 DEF Crash, Idle
  <1>7. CASE Start
    BY Zenon, <1>7 DEF Start, EvoInv
  <1>8. CASE GetListAtChainTip
    BY <1>8, GetListIsMap DEF GetListAtChainTip
  <1>9. CASE \/ \E q \in Sessions : ReaderLookup(q)
             \/ ReaderStore \/ UpdatedBlockTip \/ UNCHANGED vars
             \/ \E q \in Sessions, n \in 1..MaxSigners : FinalizeCommitment(q, n) \/ ProcessMessage(q, n)
    BY Zenon, <1>9 DEF ReaderLookup, ReaderStore, UpdatedBlockTip, FinalizeCommitment,
       ProcessMessage, cacheVars, vars, EvoInv
  <1>. QED
    BY Zenon, <1>1, <1>2, <1>3, <1>4, <1>5, <1>6, <1>7, <1>8, <1>9 DEF Next, MainThread,
       OtherThreads

LEMMA DieLists ==
  ASSUME ListsExact, Die
  PROVE  ListsExact'
  BY Zenon DEF ListsExact, Die, dbVars

\* A step that changes neither the databases nor the cache.
LEMMA QuietLists ==
  ASSUME ListsExact, UNCHANGED <<disk, root, cur, coinsTip, status, main, lists>>
  PROVE  ListsExact'
  <1>1. Committed' = Committed /\ Current' = Current
    BY Zenon DEF Committed, Current
  <1>2. ExactLists(disk.evo)' /\ (ExactLists(Committed) => ExactLists(Committed'))
    BY Zenon, <1>1 DEF ListsExact
  <1>3. TxLists => TxLists'
    BY Zenon, <1>1 DEF TxLists, Written
  <1>4. CachedOK => CachedOK'
    BY Zenon, <1>1 DEF CachedOK, Doubtful
  <1>. QED
    BY <1>2, <1>3, <1>4 DEF ListsExact

\* A step inside an operation.
LEMMA OpenLists ==
  ASSUME ListsExact, status = "running", UNCHANGED <<disk, root, status>>, TxLists',
         \A a \in Blocks : lists'[a] \in {lists[a], NotCached, Right(a)},
         \A a \in Blocks : Doubtful(a) => Doubtful(a)'
  PROVE  ListsExact'
  <1>1. Committed' = Committed
    BY Zenon DEF Committed
  <1>2. CachedOK'
    BY Zenon, EntriesKept DEF ListsExact
  <1>. QED
    BY Zenon, <1>1, <1>2 DEF ListsExact

LEMMA SameDoubts ==
  ASSUME SameLists(Current', Current), main.step # "cleanup", NEW a \in Blocks, Doubtful(a)
  PROVE  Doubtful(a)'
  BY Zenon DEF SameLists, Doubtful, Has

LEMMA BeginConnectLists ==
  ASSUME EvoInv, ListInv, ListsExact, NEW op \in {"connect", "test"}, NEW b \in Blocks,
         BeginConnect(op, b)
  PROVE  ListsExact'
  <1>0. /\ status = "running" /\ main = Idle /\ b # Genesis /\ coinsTip = Parent[b]
        /\ Height[b] \in Nat
    BY Zenon, HeightPositive DEF BeginConnect, Running
  <1>1. CASE cur # Clean \/ ~VerifyBestBlock(Current, Parent[b], Height[b])
    BY Zenon, <1>1, DieLists DEF BeginConnect
  <1>2. CASE ~(cur # Clean \/ ~VerifyBestBlock(Current, Parent[b], Height[b]))
    <2>1. UNCHANGED <<disk, root, coinsTip, status>>
      BY <1>2 DEF BeginConnect
    <2>2. Names(Committed, coinsTip) /\ coinsTip \in Blocks
      BY <1>0, <1>2, VerifiedBest DEF Names, EvoInv
    <2>3. HoldsLists(Current, coinsTip) /\ Sane(lists, coinsTip)
      BY <1>0, <2>2, BeginLists
    <2>4. CASE CommitmentAllowed(b)
      <3>1. /\ cur' = WriteCommitment(cur, b) /\ main'.op = op /\ main'.block = b
            /\ main'.step = IF DIP0003Active(b) THEN "list" ELSE "end"
        BY <1>2, <2>4, BeginConnectDoes
      <3>2. SameLists(Current', Current)
        <4> DEFINE s == Committed
        <4>1. Current' = View(s, WriteCommitment(cur, b)) /\ Current = View(s, cur)
          BY <2>1, <3>1, OpenViews DEF Current
        <4> HIDE DEF s
        <4>. QED
          BY <4>1, CommitmentLists DEF EvoInv
      <3>3. HoldsLists(Current', coinsTip)
        BY <2>3, <3>2, SameListsHold
      <3>4. TxLists'
        <4>1. DIP0003Active(b) => ~Written'
          BY <3>1 DEF Written
        <4>2. ~DIP0003Active(b) => HoldsLists(Current', b)
          BY <1>0, <3>3, InactiveHolds
        <4>3. (HoldsLists(Current, IF Written THEN main.block ELSE coinsTip))'
          BY <2>1, <3>1, <3>3, <4>1, <4>2 DEF HoldsLists
        <4>. QED
          BY <1>0, <2>1, <3>1, <4>3 DEF TxLists
      <3>5. ASSUME NEW a \in Blocks PROVE lists'[a] \in {lists[a], NotCached, Right(a)}
        <4> DEFINE q == CHOOSE x \in Blocks : Mines(b, x)
        <4>1. CASE \E x \in Blocks : Mines(b, x)
          <5>1. lists' = GetListForBlock(lists, q) /\ Mines(b, q)
            BY Zenon, <1>2, <2>4, <4>1 DEF BeginConnect
          <5>2. q \in Ancestors[coinsTip]
            BY Zenon, <1>0, <5>1, AncestorsOfChild DEF Mines, QuorumBlock
          <5> HIDE DEF q
          <5>. QED
            BY <2>2, <2>3, <5>1, <5>2, GetListOnChain
        <4>2. CASE ~\E x \in Blocks : Mines(b, x)
          BY Zenon, <1>2, <2>4, <4>2 DEF BeginConnect
        <4>. QED
          BY Zenon, <4>1, <4>2
      <3>6. \A a \in Blocks : Doubtful(a) => Doubtful(a)'
        BY Zenon, <1>0, <3>2, SameDoubts DEF Idle
      <3>. QED
        BY Zenon, <1>0, <2>1, <3>4, <3>5, <3>6, OpenLists
    <2>5. CASE ~CommitmentAllowed(b)
      BY Zenon, <1>2, <2>1, <2>5, QuietLists DEF BeginConnect
    <2>. QED
      BY Zenon, <2>4, <2>5
  <1>. QED
    BY Zenon, <1>1, <1>2

LEMMA ConnectListLists ==
  ASSUME EvoInv, ListInv, ListsExact, ConnectList
  PROVE  ListsExact'
  <1> DEFINE b == main.block
             p == Parent[main.block]
  <1>0. /\ status = "running" /\ main.op \in {"connect", "test"} /\ main.step = "list"
        /\ UNCHANGED <<disk, root, coinsTip, status>>
        /\ lists' = GetListForBlock(lists, p)
    BY Zenon DEF ConnectList, Running
  <1>1. b \in Blocks /\ b # Genesis /\ p \in Blocks
    BY <1>0, HeightPositive DEF EvoInv, MainOK
  <1>2. /\ coinsTip = p /\ DIP0003Active(b) /\ HoldsLists(Current, p)
    BY Zenon, <1>0 DEF ListsExact, TxLists, Written
  <1>3. main'.op = main.op /\ main'.block = b /\ main'.step = IF main.op = "connect" THEN "cleanup" ELSE "end"
    BY Zenon, <1>0 DEF ConnectList, EvoInv, At
  <1>4. Sane(lists, p)
    BY Zenon, <1>0 DEF Sane, ListsExact, CachedOK, Doubtful
  <1>5. p \in Ancestors[p]
    BY Zenon, <1>1, EvoAssumption
  <1>6. /\ \A a \in Blocks : lists'[a] \in {lists[a], Right(a)}
        /\ lists[p] \in {NotCached, Right(p)} => lists'[p] = Right(p)
    <2> HIDE DEF p
    <2>. QED
      BY Zenon, <1>0, <1>1, <1>2, <1>4, <1>5, GetListOnChain
  <1>7. lists[p] \in {NotCached, Right(p)}
    <2>1. ~DIP0003Active(p) => Right(p) = Empty
      BY Zenon DEF Right
    <2>2. DIP0003Active(p) => Has(Current, Diff(p))
      BY Zenon, <1>1, <1>2, <1>5 DEF HoldsLists, Has, Listed
    <2>. QED
      BY Zenon, <1>0, <1>1, <2>1, <2>2 DEF ListsExact, CachedOK, Doubtful
  <1>8. CASE main.op = "connect"
    <2>1. cur' = WriteList(cur, lists', b)
      BY Zenon, <1>8 DEF ConnectList
    <2>2. HoldsLists(Current', b)
      <3> DEFINE s == Committed
                 c == lists'
      <3>1. Current' = View(s, WriteList(cur, c, b)) /\ HoldsLists(View(s, cur), p)
        BY Zenon, <1>0, <1>2, <2>1, OpenViews DEF Current
      <3>2. c[p] = Right(p) /\ Good(cur)
        BY Zenon, <1>6, <1>7 DEF EvoInv
      <3> HIDE DEF s, c, b
      <3>. QED
        BY Zenon, <1>1, <1>2, <3>1, <3>2, WriteListHolds DEF b
    <2>3. TxLists'
      <3>1. Written'
        BY Zenon, <1>3, <1>8 DEF Written
      <3>. QED
        BY Zenon, <1>0, <1>2, <1>3, <1>8, <2>2, <3>1 DEF TxLists
    <2>4. ASSUME NEW a \in Blocks, Doubtful(a) PROVE Doubtful(a)'
      <3>1. CASE a = b
        BY Zenon, <1>3, <1>8, <3>1 DEF Doubtful
      <3>2. CASE a # b
        <4>1. Current[Diff(a)] = {a} \cap Listed(p) /\ Current'[Diff(a)] = {a} \cap Listed(b)
          BY Zenon, <1>2, <2>2 DEF HoldsLists
        <4>2. a \in Listed(b) <=> a \in Listed(p)
          BY <1>1, <3>2, ListedStep
        <4>3. ~Has(Current, Diff(a))
          BY Zenon, <1>0, <2>4 DEF Doubtful
        <4>4. ~(Has(Current, Diff(a)))'
          BY Zenon, <4>1, <4>2, <4>3 DEF Has
        <4>. QED
          BY Zenon, <4>4 DEF Doubtful
      <3>. QED
        BY Zenon, <3>1, <3>2
    <2>. QED
      BY Zenon, <1>0, <1>6, <2>3, <2>4, OpenLists
  <1>9. CASE main.op = "test"
    <2>1. cur' = cur
      BY Zenon, <1>9 DEF ConnectList
    <2>2. Current' = Current
      BY <1>0, <2>1 DEF Current, Committed
    <2>3. TxLists'
      <3>1. ~Written'
        BY Zenon, <1>3, <1>9 DEF Written
      <3>. QED
        BY Zenon, <1>0, <1>2, <1>3, <1>9, <2>2, <3>1 DEF TxLists
    <2>4. \A a \in Blocks : Doubtful(a) => Doubtful(a)'
      BY <1>0, <2>2 DEF Doubtful
    <2>. QED
      BY <1>0, <1>6, <2>3, <2>4, OpenLists
  <1>. QED
    BY <1>0, <1>8, <1>9

\* CleanupCache removes the empty list that another thread may have left for the block.
LEMMA CleanupLists ==
  ASSUME EvoInv, ListInv, ListsExact, ConnectCleanup
  PROVE  ListsExact'
  <1> DEFINE b == main.block
  <1>0. /\ status = "running" /\ main.op = "connect" /\ main.step = "cleanup"
        /\ UNCHANGED <<disk, root, cur, coinsTip, status>>
        /\ lists' = CleanupCache(lists, Height[b])
    BY Zenon DEF ConnectCleanup, Running, dbVars
  <1>1. b \in Blocks /\ Height[b] \in Nat
    BY Zenon, <1>0, EvoAssumption DEF EvoInv, MainOK
  <1>2. main'.op = "connect" /\ main'.block = b /\ main'.step = "end"
    BY Zenon, <1>0 DEF ConnectCleanup, EvoInv, At
  <1>3. Committed' = Committed /\ Current' = Current
    BY Zenon, <1>0 DEF Committed, Current
  <1>4. TxLists'
    <2>1. Written /\ Written'
      BY Zenon, <1>0, <1>2 DEF Written
    <2>. QED
      BY Zenon, <1>0, <1>2, <1>3, <2>1 DEF ListsExact, TxLists
  <1>5. CachedOK'
    <2> SUFFICES ASSUME NEW a \in Blocks
                 PROVE  \/ lists'[a] \in {NotCached, Right(a)}
                        \/ Doubtful(a)' /\ lists'[a] = Empty /\ Height[a] >= ListsCacheSize
      BY Zenon DEF CachedOK, Right, Empty, NotCached, ListOf, DIP0003Active
    <2>1. lists'[a] = IF lists[a].height + ListsCacheSize < Height[b] THEN NotCached ELSE lists[a]
      BY Zenon, <1>0 DEF CleanupCache
    <2>2. \/ lists[a] \in {NotCached, Right(a)}
          \/ Doubtful(a) /\ lists[a] = Empty /\ Height[a] >= ListsCacheSize
      BY Zenon, <1>0 DEF ListsExact, CachedOK
    <2>3. CASE lists[a] \in {NotCached, Right(a)}
      BY Zenon, <2>1, <2>3
    <2>4. CASE Doubtful(a) /\ lists[a] = Empty /\ Height[a] >= ListsCacheSize
      <3>1. CASE a = b
        <4>1. lists[a].height + ListsCacheSize < Height[b]
          BY <1>1, <2>4, <3>1, EvoAssumption DEF Empty
        <4>. QED
          BY Zenon, <2>1, <4>1
      <3>2. CASE a # b
        <4>1. Doubtful(a)'
          BY Zenon, <1>3, <2>4, <3>2 DEF Doubtful
        <4>. QED
          BY Zenon, <2>1, <2>4, <4>1
      <3>. QED
        BY Zenon, <3>1, <3>2
    <2>. QED
      BY Zenon, <2>2, <2>3, <2>4
  <1>. QED
    BY <1>0, <1>3, <1>4, <1>5 DEF ListsExact

\* A commit: the cache suits the committed view as it suited the open one.
LEMMA CommitListsExact ==
  ASSUME EvoInv, ListsExact, status = "running", UNCHANGED <<disk, status, lists>>,
         cur' = Clean, main' = Idle, NEW t \in Blocks, main.step = "end",
         root' = CommitInto(Write(cur, Best, {t}), root), HoldsLists(Current, t)
  PROVE  ListsExact'
  <1>1. Names(Committed', t)
    BY Zenon, CommitNames
  <1>2. SameLists(Committed', Current) /\ SameLists(Current', Current)
    <2> DEFINE v == {t}
    <2>1. root' = CommitInto(Write(cur, Best, v), root)
      OBVIOUS
    <2> HIDE DEF v
    <2>. QED
      BY Zenon, <2>1, CommitLists
  <1>3. ExactLists(Committed')
    BY Zenon, <1>1, <1>2, SameListsHold DEF ExactLists
  <1>4. TxLists'
    BY Zenon DEF TxLists, Idle
  <1>5. CachedOK'
    BY Zenon, <1>2, SameDoubts, EntriesKept DEF ListsExact
  <1>. QED
    BY Zenon, <1>3, <1>4, <1>5 DEF ListsExact

LEMMA EndConnectLists ==
  ASSUME EvoInv, ListInv, ListsExact, EndConnect
  PROVE  ListsExact'
  <1> DEFINE b == main.block
  <1>1. /\ status = "running" /\ main.op \in {"connect", "test"} /\ main.step = "end"
        /\ UNCHANGED <<disk, status, lists>> /\ main' = Idle /\ cur' = Clean
    BY Zenon DEF EndConnect, Running, cacheVars
  <1>2. b \in Blocks /\ b # Genesis /\ coinsTip \in Blocks /\ coinsTip = Parent[b]
    BY Zenon, <1>1 DEF EvoInv, MainOK, ListsExact, TxLists
  <1>3. CASE /\ main.op = "connect"
             /\ root' = CommitInto(Write(cur, Best, {main.block}), root)
    <2>1. HoldsLists(Current, b)
      BY Zenon, <1>1, <1>3 DEF ListsExact, TxLists, Written
    <2>. QED
      BY Zenon, <1>1, <1>2, <1>3, <2>1, CommitListsExact
  <1>4. CASE UNCHANGED <<root, coinsTip>>
    <2>1. Committed' = Committed
      BY Zenon, <1>1, <1>4 DEF Committed
    <2>2. Names(Committed, coinsTip)
      BY Zenon, <1>1, OpenBest DEF Names
    <2>3. HoldsLists(Committed, coinsTip)
      BY Zenon, <1>1, <1>2, <2>2, ListsAt DEF ListsExact
    <2>4. SameLists(Current', Committed)
      <3> DEFINE s == Committed
      <3>1. Current' = View(s, Clean)
        BY Zenon, <1>1, <2>1 DEF Current
      <3> HIDE DEF s
      <3>2. \A k \in Keys : View(s, Clean)[k] = s[k]
        BY Zenon, CleanView
      <3>. QED
        BY Zenon, <3>1, <3>2, SameKeys DEF s
    <2>5. ASSUME NEW a \in Blocks, Doubtful(a) PROVE Doubtful(a)'
      <3>1. ~Has(Current, Diff(a))
        BY Zenon, <1>1, <2>5 DEF Doubtful
      <3>2. HoldsLists(Current, b) \/ HoldsLists(Current, coinsTip)
        BY Zenon, <1>1 DEF ListsExact, TxLists
      <3>3. a \notin Listed(coinsTip)
        BY <1>2, <3>1, <3>2, ListedStep DEF HoldsLists, Has
      <3>4. Current'[Diff(a)] = {}
        BY Zenon, <2>3, <2>4, <3>3 DEF SameLists, HoldsLists
      <3>. QED
        BY Zenon, <3>4 DEF Doubtful, Has
    <2>6. TxLists'
      BY Zenon, <1>1 DEF TxLists, Idle
    <2>7. CachedOK'
      BY Zenon, <1>1, <2>5, EntriesKept DEF ListsExact
    <2>. QED
      BY <1>1, <2>1, <2>6, <2>7 DEF ListsExact
  <1>. QED
    BY Zenon, <1>3, <1>4 DEF EndConnect

LEMMA BeginDisconnectLists ==
  ASSUME EvoInv, ListInv, ListsExact, BeginDisconnect
  PROVE  ListsExact'
  <1> DEFINE b == coinsTip
  <1>0. /\ status = "running" /\ main = Idle /\ b \in Blocks /\ b # Genesis
        /\ Height[b] \in Nat /\ Parent[b] \in Blocks
    BY Zenon, HeightPositive DEF BeginDisconnect, Running, EvoInv
  <1>1. CASE cur # Clean \/ ~VerifyBestBlock(Current, coinsTip, Height[coinsTip])
    <2>1. Die
      BY Zenon, <1>1 DEF BeginDisconnect
    <2>. QED
      BY Zenon, <2>1, DieLists
  <1>2. CASE ~(cur # Clean \/ ~VerifyBestBlock(Current, coinsTip, Height[coinsTip]))
    <2> DEFINE one == GetListForBlock(lists, b)
               filled == GetListForBlock(one, Parent[b])
               from == IF Has(Current, Diff(b)) THEN filled ELSE lists
    <2>0. lists' = [from EXCEPT ![b] = NotCached]
      BY Zenon, <1>2 DEF BeginDisconnect
    <2>1. /\ UNCHANGED <<disk, root, coinsTip, status>>
          /\ cur' = EraseList(cur, b)
          /\ main'.op = "disconnect" /\ main'.block = b /\ main'.step = "quorum"
          /\ lists' = [from EXCEPT ![b] = NotCached]
      BY Zenon, <1>2, <2>0, BeginDisconnectDoes
    <2>2. Names(Committed, coinsTip)
      BY Zenon, <1>0, <1>2, VerifiedBest DEF Names
    <2>3. HoldsLists(Current, b) /\ Sane(lists, b)
      BY Zenon, <1>0, <2>2, BeginLists
    <2>4. HoldsLists(Current', Parent[b])
      <3> DEFINE s == Committed
      <3>1. Current' = View(s, EraseList(cur, b)) /\ HoldsLists(View(s, cur), b) /\ Good(cur)
        BY Zenon, <2>1, <2>3, OpenViews DEF Current, EvoInv
      <3> HIDE DEF s
      <3>. QED
        BY Zenon, <1>0, <3>1, EraseListHolds
    <2>5. TxLists'
      BY Zenon, <2>1, <2>4 DEF TxLists
    <2>6. b \in Ancestors[b] /\ Parent[b] \in Ancestors[b]
      BY <1>0, EvoAssumption
    <2>7. /\ one = [a \in Blocks |-> one[a]] /\ Sane(one, b)
          /\ \A a \in Blocks : one[a] \in {lists[a], Right(a)}
      BY Zenon, <1>0, <2>3, <2>6, GetListOnChain
    <2>8. /\ filled = [a \in Blocks |-> filled[a]]
          /\ \A a \in Blocks : filled[a] \in {one[a], Right(a)}
      <3> DEFINE p == Parent[b]
      <3>1. p \in Ancestors[b]
        BY Zenon, <2>6
      <3> HIDE DEF one, p
      <3>2. LET n == GetListForBlock(one, p)
            IN  /\ n = [a \in Blocks |-> n[a]]
                /\ \A a \in Blocks : n[a] \in {one[a], Right(a)}
        BY ZenonT(40), <1>0, <2>3, <2>7, <3>1, GetListOnChain
      <3>. QED
        BY Zenon, <3>2 DEF p
    <2> HIDE DEF one, filled
    <2>9. /\ from = [a \in Blocks |-> from[a]]
          /\ \A a \in Blocks : from[a] \in {lists[a], Right(a)}
      BY Zenon, <2>7, <2>8 DEF ListInv
    <2> HIDE DEF from
    <2>10. \A a \in Blocks : lists'[a] \in {lists[a], NotCached, Right(a)}
      BY Zenon, <2>1, <2>9
    <2>11. ASSUME NEW a \in Blocks, Doubtful(a) PROVE Doubtful(a)'
      <3>1. ~Has(Current, Diff(a))
        BY Zenon, <1>0, <2>11 DEF Doubtful, Idle
      <3>2. a \notin Listed(Parent[b])
        BY <1>0, <2>3, <3>1, ListedStep DEF HoldsLists, Has
      <3>3. Current'[Diff(a)] = {}
        BY <2>4, <3>2 DEF HoldsLists
      <3>. QED
        BY Zenon, <3>3 DEF Doubtful, Has
    <2>. QED
      BY Zenon, <1>0, <2>1, <2>5, <2>10, <2>11, OpenLists
  <1>. QED
    BY Zenon, <1>1, <1>2

LEMMA DisconnectQuorumLists ==
  ASSUME EvoInv, ListInv, ListsExact, DisconnectQuorum
  PROVE  ListsExact'
  <1> DEFINE b == main.block
  <1>1. /\ status = "running" /\ main.op = "disconnect" /\ main.step = "quorum"
        /\ UNCHANGED <<disk, root, coinsTip, status, lists>>
        /\ cur' = EraseCommitment(cur, b)
    BY Zenon DEF DisconnectQuorum, Running
  <1>2. main'.op = "disconnect" /\ main'.block = b
    BY <1>1 DEF DisconnectQuorum, EvoInv, At
  <1>3. SameLists(Current', Current)
    <2> DEFINE s == Committed
    <2>1. Current' = View(s, EraseCommitment(cur, b)) /\ Current = View(s, cur) /\ Good(cur)
      BY Zenon, <1>1, OpenViews DEF Current, EvoInv
    <2> HIDE DEF s, b
    <2>. QED
      BY Zenon, <2>1, CommitmentLists
  <1>4. coinsTip = b /\ HoldsLists(Current, Parent[b])
    BY Zenon, <1>1 DEF ListsExact, TxLists
  <1>5. TxLists'
    BY Zenon, <1>1, <1>2, <1>3, <1>4, SameListsHold DEF TxLists
  <1>6. \A a \in Blocks : Doubtful(a) => Doubtful(a)'
    BY Zenon, <1>1, <1>3, SameDoubts
  <1>. QED
    BY Zenon, <1>1, <1>5, <1>6, OpenLists

LEMMA MainThreadLists ==
  ASSUME EvoInv, ListInv, ListsExact, MainThread
  PROVE  ListsExact'
  <1>1. CASE EndDisconnect
    <2>1. /\ status = "running" /\ main.op = "disconnect" /\ main.step = "end"
          /\ UNCHANGED <<disk, status, lists>> /\ main' = Idle /\ cur' = Clean
          /\ root' = CommitInto(Write(cur, Best, {Parent[main.block]}), root)
      BY Zenon, <1>1 DEF EndDisconnect, Running, cacheVars
    <2>2. Parent[main.block] \in Blocks /\ HoldsLists(Current, Parent[main.block])
      BY Zenon, <2>1, HeightPositive DEF EvoInv, MainOK, ListsExact, TxLists
    <2>. QED
      BY Zenon, <2>1, <2>2, CommitListsExact
  <1>2. CASE FlushCoins
    <2>1. /\ status = "running" /\ UNCHANGED <<root, cur, coinsTip, status, lists>>
          /\ disk'.evo = disk.evo /\ main'.op = "flush" /\ main = Idle
      BY Zenon, <1>2 DEF FlushCoins, Running, EvoInv, At, cacheVars
    <2>2. Committed' = Committed /\ Current' = Current
      BY Zenon, <2>1 DEF Committed, Current
    <2>3. TxLists'
      BY Zenon, <2>1 DEF TxLists
    <2>4. \A a \in Blocks : Doubtful(a) => Doubtful(a)'
      BY <2>1, <2>2 DEF Doubtful, Idle
    <2>5. CachedOK'
      BY <2>1, <2>4, EntriesKept DEF ListsExact
    <2>. QED
      BY <2>1, <2>2, <2>3, <2>5 DEF ListsExact
  <1>3. CASE FlushEvo
    <2>1. cur = Clean /\ status = "running" /\ main.op = "flush"
      BY Zenon, <1>3 DEF FlushEvo, Running, EvoInv, MainOK
    <2>2. UNCHANGED <<status, coinsTip, lists>> /\ main' = Idle
      BY Zenon, <1>3, <2>1 DEF FlushEvo, cacheVars
    <2>3. /\ disk' = [coins |-> disk.coins, evo |-> Committed]
          /\ \A k \in Keys : Committed'[k] = Committed[k] /\ Current'[k] = Committed[k]
      BY <1>3, FlushEvoViews, BestIsKey
    <2>4. disk'.evo = Committed
      BY Zenon, <2>3
    <2>5. SameLists(Committed', Committed) /\ SameLists(Current', Committed)
      BY Zenon, <2>3, ListKeys DEF SameLists
    <2>6. ExactLists(Committed')
      <3>1. PICK t \in Blocks : Names(Committed, t) /\ HoldsLists(Committed, t)
        BY Zenon, <2>1 DEF ListsExact, ExactLists
      <3>2. Names(Committed', t)
        BY Zenon, <2>3, <3>1, BestIsKey DEF Names
      <3>. QED
        BY Zenon, <2>5, <3>1, <3>2, SameListsHold DEF ExactLists
    <2>7. TxLists'
      BY Zenon, <2>2 DEF TxLists, Idle
    <2>8. ASSUME NEW a \in Blocks, Doubtful(a) PROVE Doubtful(a)'
      <3>1. SameLists(Current, Committed)
        BY Zenon, <2>1, IdleLists
      <3>. QED
        BY Zenon, <2>1, <2>5, <2>8, <3>1 DEF Doubtful, SameLists, Has
    <2>9. CachedOK'
      BY Zenon, <2>1, <2>2, <2>8, EntriesKept DEF ListsExact
    <2>. QED
      BY Zenon, <2>1, <2>2, <2>4, <2>6, <2>7, <2>9 DEF ListsExact
  <1>. QED
    BY Zenon, <1>1, <1>2, <1>3, BeginConnectLists, ConnectListLists, CleanupLists, EndConnectLists,
       BeginDisconnectLists, DisconnectQuorumLists DEF MainThread

\* A start finds the lists as they were, unless it takes the EvoDB for an old one.
LEMMA StartLists ==
  ASSUME EvoInv, ListInv, ListsExact, Start, ~upgraded'
  PROVE  ListsExact'
  <1> DEFINE s == disk.evo
             evo == UpgradeDBIfNeeded(s)
             verified == coinsTip = Genesis \/ VerifyBestBlock(evo, coinsTip, Height[coinsTip])
  <1>1. /\ status = "down"
        /\ disk' = [disk EXCEPT !.evo = IF verified THEN UpgradeDB(evo) ELSE evo]
        /\ Has(s, Best) \/ ~DIP0003Active(coinsTip)
        /\ status' = IF verified THEN "running" ELSE "dead"
        /\ UNCHANGED <<root, cur, coinsTip, main, lists>>
    BY Zenon DEF Start
  <1>2. root = Clean /\ main = Idle /\ coinsTip \in Blocks
    BY Zenon, <1>1 DEF EvoInv
  <1>3. disk'.evo = IF verified THEN UpgradeDB(evo) ELSE evo
    BY Zenon, <1>1 DEF EvoInv
  <1>4. ExactLists(evo)
    <2>1. CASE Has(s, Best)
      BY Zenon, <2>1 DEF UpgradeDBIfNeeded, ListsExact
    <2>2. CASE ~Has(s, Best)
      <3>1. Names(s, Genesis) /\ Genesis \in Blocks /\ ~DIP0003Active(Genesis)
        BY Zenon, <2>2, GenesisInactive DEF Names, Has
      <3>2. HoldsLists(s, Genesis)
        BY Zenon, <3>1, ListsAt DEF ListsExact
      <3>3. Listed(Genesis) = {} /\ Listed(coinsTip) = {}
        BY Zenon, <1>1, <1>2, <2>2, <3>1, EmptyBelow
      <3>4. ActiveAt(DIP0003Height) = {}
        BY Zenon, <3>3 DEF ActiveAt, Listed, DIP0003Active
      <3>5. \A k \in Keys : k # Best => evo[k] = s[k]
        BY Zenon, <2>2, <3>4 DEF UpgradeDBIfNeeded
      <3>6. evo[Best] = {coinsTip}
        BY <2>2, UpgradesBest
      <3> HIDE DEF evo, s
      <3>7. SameLists(evo, s)
        BY Zenon, <3>5, ListKeys DEF SameLists
      <3>8. HoldsLists(evo, coinsTip)
        BY Zenon, <3>2, <3>3, <3>7 DEF SameLists, HoldsLists, SnapshotOf
      <3>9. ExactLists(evo)
        BY Zenon, <1>2, <3>6, <3>8 DEF ExactLists, Names
      <3>. QED
        BY Zenon, <3>9 DEF evo
    <2>. QED
      BY Zenon, <2>1, <2>2
  <1> HIDE DEF evo
  <1>5. ExactLists(UpgradeDB(evo))
    <2>1. UpgradeDB(evo)[Best] = evo[Best]
      BY Zenon, UpgradesBest
    <2>2. ASSUME NEW a \in Blocks, NEW k \in {Diff(a), Snapshot(a)}
          PROVE  UpgradeDB(evo)[k] = evo[k]
      <3>1. k \in Keys /\ k # BestUpgrade
            /\ \A b : k # MinedCommitment(b) /\ k # InversedHeightKey(b)
        BY <2>2, ListKeys, ListKeysDiffer
      <3>. QED
        BY Zenon, <3>1 DEF UpgradeDB
    <2> DEFINE new == UpgradeDB(evo)
    <2>3. SameLists(new, evo)
      BY Zenon, <2>2 DEF SameLists
    <2> HIDE DEF new
    <2>4. PICK t \in Blocks : Names(evo, t) /\ HoldsLists(evo, t)
      BY Zenon, <1>4 DEF ExactLists
    <2>5. Names(new, t) /\ HoldsLists(new, t)
      BY Zenon, <2>1, <2>3, <2>4, SameListsHold DEF Names, new
    <2>6. ExactLists(new)
      BY Zenon, <2>5 DEF ExactLists
    <2>. QED
      BY Zenon, <2>6 DEF new
  <1>6. ExactLists(disk'.evo)
    BY Zenon, <1>3, <1>4, <1>5
  <1>7. ExactLists(Committed')
    <2> DEFINE r == disk'.evo
    <2>1. Committed' = View(r, Clean)
      BY Zenon, <1>1, <1>2 DEF Committed
    <2> HIDE DEF r
    <2>2. \A k \in Keys : View(r, Clean)[k] = r[k]
      BY Zenon, CleanView
    <2>3. PICK t \in Blocks : Names(r, t) /\ HoldsLists(r, t)
      BY Zenon, <1>6 DEF ExactLists, r
    <2> DEFINE new == View(r, Clean)
    <2> HIDE DEF new
    <2>4. Names(new, t) /\ HoldsLists(new, t)
      BY Zenon, <2>2, <2>3, SameKeys, SameListsHold DEF new
    <2>5. ExactLists(new)
      BY Zenon, <2>4 DEF ExactLists
    <2>. QED
      BY Zenon, <2>1, <2>5 DEF new
  <1>8. TxLists'
    BY Zenon, <1>1, <1>2 DEF TxLists, Idle
  <1>9. CachedOK'
    BY Zenon, <1>1 DEF ListsExact, CachedOK
  <1>. QED
    BY Zenon, <1>1, <1>6, <1>7, <1>8, <1>9 DEF ListsExact

\* Another thread asks for the list of the tip it was told of, which the main thread may
\* be disconnecting or have disconnected.
LEMMA GetListAtChainTipLists ==
  ASSUME EvoInv, ListInv, ListsExact, GetListAtChainTip, ~early'
  PROVE  ListsExact'
  <1> DEFINE x == tipIndex
  <1>1. /\ status = "running" /\ lists' = GetListForBlock(lists, x) /\ x \in Blocks
        /\ ~(Height[x] \in DIP0003Height..(ListsCacheSize - 1) /\ lists'[x].height = -1)
        /\ UNCHANGED <<disk, root, cur, coinsTip, status, main>>
    BY Zenon DEF GetListAtChainTip, Running, dbVars, ListInv
  <1>2. PICK t \in Blocks : HoldsLists(Current, t) /\ Sane(lists, t)
    BY Zenon, <1>1, SomeLists
  <1>3. \A a \in Blocks :
          \/ lists'[a] \in {lists[a], Right(a)}
          \/ a = x /\ lists'[a] = Empty /\ ~Has(Current, Diff(x))
    <2> HIDE DEF x
    <2>. QED
      BY <1>1, <1>2, GetListFills
  <1>4. Committed' = Committed /\ Current' = Current
    BY Zenon, <1>1 DEF Committed, Current
  <1>5. CachedOK'
    <2> SUFFICES ASSUME NEW a \in Blocks
                 PROVE  \/ lists'[a] \in {NotCached, Right(a)}
                        \/ Doubtful(a)' /\ lists'[a] = Empty /\ Height[a] >= ListsCacheSize
      BY Zenon DEF CachedOK, Right, Empty, NotCached, ListOf, DIP0003Active
    <2>1. Doubtful(a)' <=> Doubtful(a)
      BY Zenon, <1>1, <1>4 DEF Doubtful
    <2>2. CASE lists'[a] \in {lists[a], Right(a)}
      BY Zenon, <1>1, <2>1, <2>2 DEF ListsExact, CachedOK
    <2>3. CASE a = x /\ lists'[a] = Empty /\ ~Has(Current, Diff(x))
      <3>1. Doubtful(a)
        BY Zenon, <2>3 DEF Doubtful
      <3>2. DIP0003Active(a) => Height[a] >= ListsCacheSize
        <4>1. lists'[x].height = -1
          BY <2>3 DEF Empty
        <4>2. Height[a] \in Nat /\ DIP0003Height \in Nat /\ ListsCacheSize \in Nat
          BY Zenon, EvoAssumption
        <4>3. Height[x] \notin DIP0003Height..(ListsCacheSize - 1) /\ a = x
          BY Zenon, <1>1, <2>3, <4>1
        <4> HIDE DEF x
        <4>. QED
          BY ONLY <4>2, <4>3 DEF DIP0003Active
      <3>3. ~DIP0003Active(a) => Right(a) = Empty
        BY Zenon DEF Right
      <3>. QED
        BY Zenon, <2>1, <2>3, <3>1, <3>2, <3>3
    <2>. QED
      BY Zenon, <1>3, <2>2, <2>3
  <1>6. TxLists'
    BY Zenon, <1>1, <1>4 DEF ListsExact, TxLists, Written
  <1>. QED
    BY <1>1, <1>4, <1>5, <1>6 DEF ListsExact

LEMMA ListInvNext == EvoInv /\ ListInv /\ [Next]_vars => ListInv'
  <1> SUFFICES ASSUME EvoInv, ListInv, [Next]_vars, ~upgraded', ~early' PROVE ListsExact'
    BY Zenon, ListTypeNext DEF ListInv
  <1>0. ListsExact
    BY Zenon, ListTypeNext DEF ListInv
  <1>1. CASE MainThread
    BY Zenon, <1>0, <1>1, MainThreadLists
  <1>2. CASE GetListAtChainTip
    BY Zenon, <1>0, <1>2, GetListAtChainTipLists
  <1>3. CASE Start
    BY Zenon, <1>0, <1>3, StartLists
  <1>4. CASE Crash
    BY Zenon, <1>0, <1>4 DEF Crash, ListsExact
  <1>5. CASE \/ \E q \in Sessions : ReaderLookup(q)
             \/ ReaderStore \/ UpdatedBlockTip \/ UNCHANGED vars
             \/ \E q \in Sessions, n \in 1..MaxSigners : FinalizeCommitment(q, n) \/ ProcessMessage(q, n)
    <2>1. UNCHANGED <<disk, root, cur, coinsTip, status, main, lists>>
      BY Zenon, <1>5 DEF ReaderLookup, ReaderStore, UpdatedBlockTip, FinalizeCommitment,
         ProcessMessage, cacheVars, dbVars, vars
    <2>. QED
      BY Zenon, <1>0, <2>1, QuietLists
  <1>. QED
    BY Zenon, <1>1, <1>2, <1>3, <1>4, <1>5 DEF Next, OtherThreads

\* The masternode list of the active tip is the one its blocks define, whichever snapshots
\* and cached lists GetListForBlock starts from, and although other threads put empty lists
\* into the cache in the middle of a disconnection.
THEOREM TipListIsRight == EvoSpec => []ListIsRight
  <1>1. EvoInv /\ ListInv => ListIsRight
    <2> SUFFICES ASSUME EvoInv, ListInv, Settled, ~upgraded, ~early
                 PROVE  GetListForBlock(lists, coinsTip)[coinsTip].list = ListOf(coinsTip)
      BY Zenon DEF ListIsRight
    <2>0. ListsExact /\ status = "running" /\ main = Idle /\ coinsTip \in Blocks
      BY Zenon DEF ListInv, Settled, EvoInv
    <2>1. Right(coinsTip).list = ListOf(coinsTip)
      BY Zenon, <2>0, EmptyBelow DEF Right, Empty
    <2>2. CASE coinsTip = Genesis
      <3>1. PICK t \in Blocks : HoldsLists(Current, t) /\ Sane(lists, t)
        BY Zenon, <2>0, SomeLists
      <3>2. GetListForBlock(lists, coinsTip)[coinsTip] \in {Right(coinsTip), Empty}
        BY Zenon, <2>0, <3>1, GetListFills
      <3>3. Right(coinsTip) = Empty
        BY Zenon, <2>2, GenesisInactive DEF Right
      <3>. QED
        BY Zenon, <2>1, <3>2, <3>3
    <2>3. CASE coinsTip # Genesis
      <3>1. Names(Committed, coinsTip)
        BY Zenon, <2>0, <2>3 DEF EvoInv, BestOK, Names
      <3>2. /\ HoldsLists(Current, coinsTip) /\ Sane(lists, coinsTip)
            /\ Has(Current, Diff(coinsTip)) => lists[coinsTip] \in {NotCached, Right(coinsTip)}
        BY Zenon, <2>0, <3>1, BeginLists
      <3>3. coinsTip \in Ancestors[coinsTip]
        BY Zenon, <2>0, EvoAssumption
      <3>4. lists[coinsTip] \in {NotCached, Right(coinsTip)}
        <4>1. DIP0003Active(coinsTip) => Has(Current, Diff(coinsTip))
          BY Zenon, <2>0, <3>2, <3>3 DEF HoldsLists, Listed, Has
        <4>2. ~DIP0003Active(coinsTip) => Right(coinsTip) = Empty
          BY Zenon DEF Right
        <4>. QED
          BY Zenon, <2>0, <3>2, <4>1, <4>2 DEF Sane
      <3>5. GetListForBlock(lists, coinsTip)[coinsTip] = Right(coinsTip)
        BY <2>0, <3>2, <3>3, <3>4, GetListOnChain
      <3>. QED
        BY Zenon, <2>1, <3>5
    <2>. QED
      BY Zenon, <2>2, <2>3
  <1>. QED
    BY <1>1, EvoInvInit, EvoInvNext, ListInvInit, ListInvNext, PTL DEF EvoSpec

\* Between two operations of the main thread the whole EvoDB, key by key, is what the blocks
\* of the active chain define, after any sequence of connections, tests, disconnections,
\* flushes, crashes and starts.
THEOREM EvoIsTheChains == EvoSpec => []EvoMatchesChain
  <1>1. EvoInv /\ ChainInv /\ ListInv /\ HeightInv => EvoMatchesChain
    <2> SUFFICES ASSUME EvoInv, ChainInv, ListInv, HeightInv, Settled, DIP0003Active(coinsTip),
                        ~raced, ~upgraded, ~early
                 PROVE  Committed = EvoOf(coinsTip)
      BY Zenon DEF EvoMatchesChain
    <2> DEFINE chain == ActiveAt(DIP0003Height)
               s == Committed
    <2>0. status = "running" /\ main = Idle /\ coinsTip \in Blocks /\ coinsTip # Genesis
      BY GenesisInactive DEF Settled, EvoInv
    <2>1. Names(s, coinsTip) /\ s[Best] = {coinsTip}
      BY Zenon, <2>0 DEF EvoInv, BestOK, Names
    <2>2. Holds(s, coinsTip)
      BY Zenon, <2>0, <2>1, ExactAt DEF ChainInv, ChainExact
    <2>3. HoldsLists(s, coinsTip)
      BY <2>0, <2>1, ListsAt DEF ListInv, ListsExact
    <2>4. HoldsHeights(s, coinsTip)
      BY Zenon, <2>0, <2>1, HeightsAt DEF HeightInv, HeightsExact
    <2>5. chain = Listed(coinsTip)
      BY Zenon DEF ActiveAt, Listed, DIP0003Active
    <2>6. s = [k \in Keys |-> s[k]]
      BY Zenon DEF Committed, View
    <2> HIDE DEF s, chain
    <2> DEFINE due(x) == Height[x] % SnapshotPeriod = 0 \/ Height[x] = DIP0003Height
               of(k) ==
                 IF k \in {Best, BestUpgrade} THEN {coinsTip}
                 ELSE IF k[1] = "dmn_D" THEN {k[2]} \cap chain
                 ELSE IF k[1] = "dmn_S" THEN UNION {ListOf(b) : b \in {x \in chain \cap {k[2]} : due(x)}}
                 ELSE IF k[1] = "q_mc" THEN {b \in chain : Mines(b, k[2])}
                 ELSE {q \in Blocks : \E b \in chain : Mines(b, q) /\ Height[b] = k[2]}
    <2>7. EvoOf(coinsTip) = [k \in Keys |-> of(k)]
      BY Zenon DEF EvoOf, chain
    <2>8. \A k \in {Best, BestUpgrade} : s[k] = of(k)
      BY Zenon, <2>1, <2>4 DEF HoldsHeights
    <2>9. ASSUME NEW a \in Blocks PROVE s[Diff(a)] = of(Diff(a))
      <3>1. of(Diff(a)) = {a} \cap chain
        BY Zenon, ListKeys DEF Diff
      <3>. QED
        BY Zenon, <2>3, <2>5, <3>1 DEF HoldsLists
    <2>10. ASSUME NEW a \in Blocks PROVE s[Snapshot(a)] = of(Snapshot(a))
      <3>1. of(Snapshot(a)) = UNION {ListOf(b) : b \in {x \in chain \cap {a} : due(x)}}
        BY Zenon, ListKeys DEF Snapshot
      <3>2. UNION {ListOf(b) : b \in {x \in chain \cap {a} : due(x)}} =
              IF a \in chain /\ due(a) THEN ListOf(a) ELSE {}
        OBVIOUS
      <3>3. s[Snapshot(a)] = SnapshotOf(coinsTip, a)
        BY Zenon, <2>3 DEF HoldsLists
      <3>. QED
        BY Zenon, <2>5, <3>1, <3>2, <3>3 DEF SnapshotOf, Due
    <2>11. ASSUME NEW q \in Blocks PROVE s[MinedCommitment(q)] = of(MinedCommitment(q))
      <3>1. of(MinedCommitment(q)) = {b \in chain : Mines(b, q)}
        BY Zenon, HeightKeysDiffer DEF MinedCommitment, Best
      <3>2. {b \in chain : Mines(b, q)} = ChainMined(coinsTip, q)
        BY Zenon, <2>5 DEF Listed, ChainMined, Mines
      <3>3. q \in Sessions \/ ChainMined(coinsTip, q) = {}
        BY Zenon, <2>0, EvoAssumption, MinesUnique DEF ChainMined
      <3>. QED
        BY Zenon, <2>2, <2>4, <3>1, <3>2, <3>3 DEF Holds, HoldsHeights
    <2>12. ASSUME NEW h \in Heights PROVE s[HeightKey(h)] = of(HeightKey(h))
      <3>1. of(HeightKey(h)) = {q \in Blocks : \E b \in chain : Mines(b, q) /\ Height[b] = h}
        BY Zenon, HeightKeysDiffer DEF HeightKey, Best
      <3>2. {q \in Blocks : \E b \in chain : Mines(b, q) /\ Height[b] = h} = HeightMined(coinsTip, h)
        BY Zenon, <2>5 DEF Listed, HeightMined, Mines
      <3>. QED
        BY Zenon, <2>4, <3>1, <3>2 DEF HoldsHeights
    <2> HIDE DEF of
    <2>13. ASSUME NEW k \in Keys PROVE s[k] = of(k)
      <3>1. \/ k \in {Best, BestUpgrade}
            \/ \E a \in Blocks : k \in {Diff(a), Snapshot(a), MinedCommitment(a)}
            \/ \E h \in Heights : k = HeightKey(h)
        BY <2>13 DEF Keys, Diff, Snapshot, MinedCommitment, HeightKey
      <3>. QED
        BY Zenon, <2>8, <2>9, <2>10, <2>11, <2>12, <3>1
    <2>14. s = EvoOf(coinsTip)
      BY <2>6, <2>7, <2>13
    <2>. QED
      BY Zenon, <2>14 DEF s
  <1>. QED
    BY <1>1, EvoInvInit, EvoInvNext, CacheInvInit, CacheInvNext, ChainInvInit, ChainInvNext,
       ListInvInit, ListInvNext, HeightInvInit, HeightInvNext, PTL DEF EvoSpec

-----------------------------------------------------------------------------
(* minableCommitments.  What the main thread works on stays beside the tip,  *)
(* and the commitment of a block that is being disconnected has been added   *)
(* again when the tip moves.                                                 *)

Kept(b) == \A q \in Sessions : Mines(b, q) => minable[q] # 0

MinableInv ==
  /\ minable \in [Sessions -> 0..MaxSigners]
  /\ main.op \in {"idle", "connect", "test", "disconnect", "flush"}
  /\ main.op \in {"connect", "test"} =>
       main.block \in Blocks \ {Genesis} /\ coinsTip = Parent[main.block]
  /\ main.op = "disconnect" => main.block = coinsTip /\ (main.step = "end" => Kept(coinsTip))

\* The most signers among the commitments of q on a chain.
LEMMA MostSigners ==
  ASSUME NEW S \in SUBSET (1..MaxSigners), S # {}
  PROVE  (CHOOSE n \in S : \A m \in S : m <= n) \in S
  <1> DEFINE T == {MaxSigners - n : n \in S}
  <1>0. MaxSigners \in Nat
    BY Zenon, EvoAssumption
  <1>1. \A n \in S : n \in Nat /\ MaxSigners - n \in Nat
    BY <1>0
  <1>2. T \subseteq Nat /\ T # {}
    BY Zenon, <1>1
  <1>3. PICK x \in T : \A y \in T : ~(<<y, x>> \in OpToRel(<, Nat))
    <2> HIDE DEF T
    <2>. QED
      BY <1>2, WFMin, NatLessThanWellFounded, Zenon
  <1>4. \A y \in T : ~(y < x)
    BY <1>2, <1>3, Zenon DEF OpToRel
  <1>5. PICK n \in S : x = MaxSigners - n
    OBVIOUS
  <1>6. ASSUME NEW m \in S PROVE m <= n
    <2>1. ~(MaxSigners - m < MaxSigners - n)
      BY Zenon, <1>4, <1>5, <1>6
    <2>. QED
      BY <1>0, <1>1, <1>5, <2>1
  <1>. QED
    BY Zenon, <1>5, <1>6

LEMMA VerifiedMinableType ==
  ASSUME coinsTip \in Blocks, NEW q \in Sessions
  PROVE  VerifiedMinable(q) \in 0..MaxSigners
  <1> DEFINE S == {Signers[b] : b \in {x \in Ancestors[coinsTip] : Mines(x, q)}}
  <1>1. S \in SUBSET (1..MaxSigners) /\ MaxSigners \in Nat
    BY EvoAssumption
  <1> DEFINE most == CHOOSE n \in S : \A m \in S : m <= n
  <1>2. VerifiedMinable(q) = IF S = {} THEN 0 ELSE most
    BY Zenon DEF VerifiedMinable
  <1> HIDE DEF S
  <1>3. S # {} => most \in S
    BY Zenon, <1>1, MostSigners
  <1> HIDE DEF most
  <1>4. CASE S = {}
    BY <1>1, <1>2, <1>4
  <1>5. CASE S # {}
    <2>1. most \in 1..MaxSigners
      BY Zenon, <1>1, <1>3, <1>5
    <2>. QED
      BY <1>1, <1>2, <1>5, <2>1
  <1>. QED
    BY Zenon, <1>4, <1>5

\* AddMinableCommitment only ever raises the signers of one commitment.
LEMMA AddMinable ==
  ASSUME NEW known \in [Sessions -> 0..MaxSigners], NEW q \in Sessions, NEW n \in 1..MaxSigners
  PROVE  LET new == AddMinableCommitment(known, q, n)
         IN  /\ new \in [Sessions -> 0..MaxSigners]
             /\ \A r \in Sessions : new[r] >= known[r]
             /\ new[q] # 0
  <1>0. MaxSigners \in Nat
    BY Zenon, EvoAssumption
  <1>. QED
    BY <1>0 DEF AddMinableCommitment

\* UndoBlock raises the signers of the commitment of its block.
LEMMA DisconnectQuorumMinable ==
  ASSUME EvoInv, MinableInv, DisconnectQuorum
  PROVE  /\ minable' \in [Sessions -> 0..MaxSigners]
         /\ \A q \in Sessions : minable'[q] >= minable[q]
         /\ \A q \in Sessions : Mines(main.block, q) => minable'[q] # 0
  <1> DEFINE b == main.block
             n == Signers[b]
  <1>1. /\ minable' = [q \in Sessions |->
              IF Mines(b, q) THEN AddMinableCommitment(minable, q, n)[q] ELSE minable[q]]
        /\ main.op = "disconnect"
    BY Zenon DEF DisconnectQuorum
  <1>2. n \in 1..MaxSigners /\ MaxSigners \in Nat
    BY Zenon, <1>1, EvoAssumption DEF MinableInv, EvoInv
  <1> HIDE DEF b, n
  <1>3. ASSUME NEW q \in Sessions
        PROVE  /\ AddMinableCommitment(minable, q, n)[q] \in 0..MaxSigners
               /\ AddMinableCommitment(minable, q, n)[q] >= minable[q]
               /\ AddMinableCommitment(minable, q, n)[q] # 0
    BY <1>2, AddMinable DEF MinableInv
  <1>4. \A q \in Sessions : minable[q] \in 0..MaxSigners
    BY Zenon DEF MinableInv
  <1>. QED
    BY <1>1, <1>2, <1>3, <1>4 DEF b

\* What a step that the node is still running after may do.
MinableStep ==
  \A q \in Sessions :
    /\ minable'[q] >= minable[q]
    /\ Mines(coinsTip, q) /\ coinsTip' = Parent[coinsTip] => minable'[q] # 0

LEMMA SameMinable ==
  ASSUME MinableInv, EvoInv, UNCHANGED <<minable, coinsTip>>
  PROVE  MinableStep
  <1>1. \A q \in Sessions : minable'[q] >= minable[q]
    BY EvoAssumption DEF MinableInv
  <1>2. coinsTip = Parent[coinsTip] => coinsTip = Genesis
    BY EvoAssumption DEF EvoInv
  <1>. QED
    BY Zenon, <1>1, <1>2, GenesisInactive DEF MinableStep, Mines

LEMMA MinableMain ==
  ASSUME EvoInv, MinableInv, MainThread
  PROVE  MinableInv' /\ MinableStep
  <1>0. coinsTip \in Blocks /\ \A m, s : (m = At(m.op, m.block, m.step)) =>
          [m EXCEPT !.step = s] = At(m.op, m.block, s)
    BY DEF EvoInv, At
  <1>1. ASSUME UNCHANGED <<minable, coinsTip>>,
               \/ main' = Idle
               \/ \E b \in Blocks \ {Genesis}, op \in {"connect", "test"} :
                    coinsTip = Parent[b] /\ \E s : main' = At(op, b, s)
               \/ main' = At("disconnect", coinsTip, "quorum")
               \/ \E s : main' = At("flush", coinsTip, s)
        PROVE  MinableInv' /\ MinableStep
    <2>0. minable' \in [Sessions -> 0..MaxSigners]
      BY Zenon, <1>1 DEF MinableInv
    <2>1. ASSUME main' = Idle PROVE MinableInv'
      BY Zenon, <2>0, <2>1 DEF MinableInv, Idle
    <2>2. ASSUME NEW b \in Blocks \ {Genesis}, NEW op \in {"connect", "test"}, NEW s,
                 coinsTip = Parent[b], main' = At(op, b, s)
          PROVE  MinableInv'
      <3>1. main'.op = op /\ main'.block = b
        BY ONLY Zenon, <2>2 DEF At
      <3>. QED
        BY Zenon, <1>1, <2>0, <2>2, <3>1 DEF MinableInv
    <2>3. ASSUME NEW s, NEW op, main' = At(op, coinsTip, s),
                 op = "flush" \/ (op = "disconnect" /\ s = "quorum")
          PROVE  MinableInv'
      <3>1. main'.op = op /\ main'.block = coinsTip /\ main'.step = s
        BY ONLY Zenon, <2>3 DEF At
      <3>. QED
        BY Zenon, <1>1, <2>0, <2>3, <3>1 DEF MinableInv
    <2>4. MinableInv'
      BY Zenon, <1>1, <2>1, <2>2, <2>3
    <2>. QED
      BY Zenon, <1>1, <2>4, SameMinable
  <1>2. ASSUME Die PROVE MinableInv' /\ MinableStep
    BY Zenon, <1>1, <1>2 DEF Die, dbVars, cacheVars
  <1>3. ASSUME NEW op \in {"connect", "test"}, NEW b \in Blocks, BeginConnect(op, b)
        PROVE  MinableInv' /\ MinableStep
    <2>1. CASE Die
      BY Zenon, <1>2, <2>1
    <2>2. CASE UNCHANGED main
      BY Zenon, <1>1, <1>3, <2>2, <1>2 DEF BeginConnect
    <2>3. CASE \E s : main' = At(op, b, s)
      BY Zenon, <1>1, <1>3, <2>3, <1>2 DEF BeginConnect
    <2>. QED
      BY <1>3, <2>1, <2>2, <2>3 DEF BeginConnect
  <1>4. ASSUME ConnectList \/ ConnectCleanup PROVE MinableInv' /\ MinableStep
    <2>1. /\ UNCHANGED <<minable, coinsTip>> /\ main.op \in {"connect", "test"}
          /\ \E s : main' = [main EXCEPT !.step = s]
      BY Zenon, <1>4 DEF ConnectList, ConnectCleanup, dbVars
    <2>2. main = At(main.op, main.block, main.step)
      BY Zenon DEF EvoInv
    <2>3. \E s : main' = At(main.op, main.block, s)
      <3>1. PICK s : main' = [main EXCEPT !.step = s]
        BY Zenon, <2>1
      <3>. QED
        BY ONLY <2>2, <3>1 DEF At
    <2>. QED
      BY <1>1, <2>1, <2>3 DEF MinableInv
  <1>5. ASSUME EndConnect PROVE MinableInv' /\ MinableStep
    <2>1. /\ UNCHANGED minable /\ main' = Idle /\ main.op \in {"connect", "test"}
          /\ coinsTip' \in {coinsTip, main.block}
      BY Zenon, <1>5 DEF EndConnect, cacheVars
    <2>2. CASE coinsTip' = coinsTip
      BY Zenon, <1>1, <2>1, <2>2
    <2>3. CASE coinsTip' = main.block
      <3>1. MinableInv'
        BY Zenon, <2>1 DEF MinableInv, Idle
      <3>2. main.block \in Blocks \ {Genesis} /\ coinsTip = Parent[main.block]
        BY Zenon, <2>1 DEF MinableInv
      <3>3. main.block = Parent[coinsTip] => coinsTip = Genesis
        <4> DEFINE b == main.block
        <4>1. Height[b] = Height[coinsTip] + 1 /\ Height[b] \in Nat /\ Height[coinsTip] \in Nat
          BY Zenon, <1>0, <3>2, EvoAssumption
        <4>2. coinsTip # Genesis => Height[coinsTip] = Height[Parent[coinsTip]] + 1
          BY Zenon, <1>0, EvoAssumption
        <4>. QED
          BY ONLY <4>1, <4>2
      <3>4. \A q \in Sessions : minable'[q] >= minable[q]
        BY <2>1, EvoAssumption DEF MinableInv
      <3>. QED
        BY Zenon, <2>3, <3>1, <3>3, <3>4, GenesisInactive DEF MinableStep, Mines
    <2>. QED
      BY Zenon, <2>1, <2>2, <2>3
  <1>6. ASSUME BeginDisconnect PROVE MinableInv' /\ MinableStep
    <2>1. CASE Die
      BY Zenon, <1>2, <2>1
    <2>2. CASE main' = At("disconnect", coinsTip, "quorum")
      BY Zenon, <1>1, <1>2, <1>6, <2>2 DEF BeginDisconnect
    <2>. QED
      BY Zenon, <1>6, <2>1, <2>2 DEF BeginDisconnect
  <1>7. ASSUME DisconnectQuorum PROVE MinableInv' /\ MinableStep
    <2>1. /\ coinsTip' = coinsTip /\ main.op = "disconnect"
          /\ main' = [main EXCEPT !.step = "end"] /\ main.block = coinsTip
      BY Zenon, <1>7 DEF DisconnectQuorum, MinableInv
    <2>2. main' = At("disconnect", coinsTip, "end")
      BY <1>0, <2>1 DEF EvoInv
    <2>3. Kept(coinsTip)'
      BY Zenon, <1>7, <2>1, DisconnectQuorumMinable DEF Kept, Mines, QuorumBlock
    <2>4. MinableInv'
      BY Zenon, <1>7, <2>1, <2>2, <2>3, DisconnectQuorumMinable DEF MinableInv, At
    <2>. QED
      BY Zenon, <1>7, <2>1, <2>4, DisconnectQuorumMinable DEF MinableStep
  <1>8. ASSUME EndDisconnect PROVE MinableInv' /\ MinableStep
    <2>1. UNCHANGED minable /\ main' = Idle /\ Kept(coinsTip)
      BY Zenon, <1>8 DEF EndDisconnect, cacheVars, MinableInv
    <2>2. MinableInv'
      BY Zenon, <2>1 DEF MinableInv, Idle
    <2>3. \A q \in Sessions : minable'[q] >= minable[q]
      BY <2>1, EvoAssumption DEF MinableInv
    <2>. QED
      BY Zenon, <2>1, <2>2, <2>3 DEF MinableStep, Kept
  <1>9. ASSUME FlushCoins \/ FlushEvo PROVE MinableInv' /\ MinableStep
    <2>1. CASE Die
      BY Zenon, <1>2, <2>1
    <2>2. CASE ~Die
      BY Zenon, <1>1, <1>9, <2>2 DEF FlushCoins, FlushEvo, cacheVars
    <2>. QED
      BY Zenon, <2>1, <2>2
  <1>. QED
    BY Zenon, <1>3, <1>4, <1>5, <1>6, <1>7, <1>8, <1>9 DEF MainThread

LEMMA MinableOthers ==
  ASSUME EvoInv, MinableInv, OtherThreads \/ UNCHANGED vars
  PROVE  MinableInv' /\ MinableStep
  <1>1. CASE UNCHANGED <<minable, coinsTip, main>>
    BY Zenon, <1>1, SameMinable DEF MinableInv, Kept, Mines, QuorumBlock, DIP0003Active
  <1>2. ASSUME NEW q \in Sessions, NEW n \in 1..MaxSigners,
               FinalizeCommitment(q, n) \/ ProcessMessage(q, n)
        PROVE  MinableInv' /\ MinableStep
    <2>1. /\ minable' = AddMinableCommitment(minable, q, n)
          /\ UNCHANGED <<coinsTip, main>>
      BY Zenon, <1>2 DEF FinalizeCommitment, ProcessMessage, dbVars
    <2>2. /\ minable' \in [Sessions -> 0..MaxSigners]
          /\ \A r \in Sessions : minable'[r] >= minable[r]
      BY Zenon, <2>1, AddMinable DEF MinableInv
    <2>3. \A r \in Sessions : minable[r] # 0 => minable'[r] # 0
      BY <2>2, EvoAssumption DEF MinableInv
    <2>4. MinableInv'
      BY Zenon, <2>1, <2>2, <2>3 DEF MinableInv, Kept, Mines, QuorumBlock, DIP0003Active
    <2>5. coinsTip = Parent[coinsTip] => coinsTip = Genesis
      BY EvoAssumption DEF EvoInv
    <2>. QED
      BY Zenon, <2>1, <2>2, <2>4, <2>5, GenesisInactive DEF MinableStep, Mines
  <1>3. CASE UNCHANGED vars
    BY Zenon, <1>1, <1>3 DEF vars
  <1>4. CASE OtherThreads
    BY Zenon, <1>1, <1>2, <1>4 DEF OtherThreads, ReaderLookup, ReaderStore, UpdatedBlockTip,
       GetListAtChainTip, dbVars, cacheVars
  <1>. QED
    BY Zenon, <1>3, <1>4

LEMMA MinableNext ==
  ASSUME EvoInv, MinableInv, [Next]_vars
  PROVE  MinableInv' /\ (status = "running" /\ status' = "running" => MinableStep)
  <1>0. MaxSigners \in Nat /\ 0 \in 0..MaxSigners
    BY EvoAssumption
  <1>1. CASE MainThread
    BY Zenon, <1>1, MinableMain
  <1>2. CASE OtherThreads \/ UNCHANGED vars
    BY Zenon, <1>2, MinableOthers
  <1>3. CASE Crash
    <2>1. MinableInv'
      BY Zenon, <1>0, <1>3 DEF Crash, MinableInv, Idle
    <2>. QED
      BY Zenon, <1>3, <2>1 DEF Crash
  <1>4. CASE Start
    <2>1. /\ main' = Idle /\ status = "down"
          /\ \E v \in BOOLEAN : minable' = [q \in Sessions |-> IF v THEN VerifiedMinable(q) ELSE 0]
      BY Zenon, <1>4 DEF Start, EvoInv
    <2>2. \A q \in Sessions : VerifiedMinable(q) \in 0..MaxSigners
      BY Zenon, VerifiedMinableType DEF EvoInv
    <2>3. MinableInv'
      BY Zenon, <1>0, <2>1, <2>2 DEF MinableInv, Idle
    <2>. QED
      BY Zenon, <2>1, <2>3
  <1>. QED
    BY Zenon, <1>1, <1>2, <1>3, <1>4 DEF Next

\* Once the block that mined a commitment is disconnected there is one to mine again, and a
\* running node never replaces a minable commitment by one with fewer signers, in any
\* interleaving of the disconnection with the threads that add commitments.
THEOREM MinedIsMinableAgain == EvoSpec => CommitmentStaysMinable
  <1>1. Init => MinableInv
    BY EvoAssumption DEF Init, MinableInv, Idle
  <1>2. EvoInv /\ MinableInv /\ [Next]_vars => MinableInv'
    BY Zenon, MinableNext
  <1>3. EvoInv /\ MinableInv /\ [Next]_vars =>
          [status = "running" /\ status' = "running" =>
             \A q \in Sessions :
               /\ minable'[q] >= minable[q]
               /\ Mines(coinsTip, q) /\ coinsTip' = Parent[coinsTip] => minable'[q] # 0]_vars
    BY Zenon, MinableNext DEF MinableStep
  <1>. QED
    BY <1>1, <1>2, <1>3, EvoInvInit, EvoInvNext, PTL DEF EvoSpec, CommitmentStaysMinable

=============================================================================
