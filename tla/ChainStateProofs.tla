-------------------------- MODULE ChainStateProofs --------------------------
(***************************************************************************)
(* For every block tree, any number of threads and of RPC calls: only      *)
(* chains received from end to end are activated.  Without reconsiderblock *)
(* every marked block has an invalid ancestor.  With a single thread no    *)
(* marked block is ever active.                                            *)
(*                                                                         *)
(* The second part is about the two index structures of validation.cpp,    *)
(* for every order of arrival: mapBlocksUnlinked links what has become     *)
(* complete, and setBlockIndexCandidates leads a single thread to the best *)
(* chain without an assertion failing on the way.                          *)
(***************************************************************************)
EXTENDS ChainState, FiniteSetTheorems, WellFoundedInduction, TLAPS

\* A chain record in which linked blocks are received together with all their
\* ancestors, and candidates and the tip are linked.
Sound(c) ==
  /\ c \in ChainType
  /\ c.data \cup Failed(c) \subseteq c.headers
  /\ c.unlinked \subseteq c.data
  /\ Linked(c) \subseteq c.data
  /\ \A b \in Linked(c) : Ancestors[b] \subseteq Linked(c)
  /\ c.candidates \subseteq Linked(c) /\ c.tip \in Linked(c)

ThreadsTyped ==
  /\ pc \in [Threads -> {"idle", "activate"}]
  /\ mostWork \in [Threads -> Blocks \cup {NoBlock}]
  /\ aborted \in BOOLEAN
  /\ invalidated \in 0..MaxInvalidate /\ reconsidered \in 0..MaxReconsider

\* Targets kept over the release of cs_main are linked.
TargetsLinked == \A t \in Threads : mostWork[t] # NoBlock => mostWork[t] \in Linked(chain)

ChainInv == Sound(chain) /\ ThreadsTyped /\ TargetsLinked

-----------------------------------------------------------------------------
(* The block tree. *)

\* A block is its own ancestor, and its parent is one.
LEMMA AncestorsFacts ==
  /\ \A b \in Blocks : b \in Ancestors[b] /\ Ancestors[b] \subseteq Blocks
  /\ \A b \in Blocks \ {Genesis} : Parent[b] \in Ancestors[b] /\ Parent[b] \in Blocks
<1>1. \A b \in Blocks : b \in Ancestors[b] /\ Ancestors[b] \subseteq Blocks
  BY TreeAssumption
<1>2. \A b \in Blocks \ {Genesis} : Parent[b] \in Ancestors[b] /\ Parent[b] \in Blocks
  BY <1>1, TreeAssumption
<1>. QED  BY Zenon, <1>1, <1>2

\* A set of blocks has one with the least value of f.
LEMMA LeastExists ==
  ASSUME NEW S \in SUBSET Blocks, S # {}, NEW f \in [Blocks -> Nat]
  PROVE  \E b \in S : \A d \in S : f[b] <= f[d]
<1>. DEFINE T == {f[b] : b \in S}
<1>1. T \subseteq Nat /\ T # {}
  OBVIOUS
<1>2. PICK x \in T : \A y \in T : ~(<<y, x>> \in OpToRel(<, Nat))
  <2>. HIDE DEF T
  <2>. QED  BY <1>1, WFMin, NatLessThanWellFounded, Zenon
<1>3. \A y \in T : ~(y < x)
  BY <1>1, <1>2, Zenon DEF OpToRel
<1>4. PICK b \in S : x = f[b]
  BY Zenon
<1>5. \A d \in S : f[d] \in T
  BY Zenon
<1>6. ASSUME NEW d \in S PROVE f[b] <= f[d]
  <2>1. ~(f[d] < f[b])  BY Zenon, <1>3, <1>4, <1>5
  <2>2. f[d] \in Nat /\ f[b] \in Nat  OBVIOUS
  <2>. QED  BY ONLY <2>1, <2>2
<1>. QED  BY Zenon, <1>6

\* A set of blocks where f is bounded has one with the greatest value of f.
LEMMA GreatestExists ==
  ASSUME NEW S \in SUBSET Blocks, S # {}, NEW f \in [Blocks -> Nat],
         NEW k \in Nat, \A b \in S : f[b] <= k
  PROVE  \E b \in S : \A d \in S : f[d] <= f[b]
<1>. DEFINE h == [b \in Blocks |-> IF f[b] <= k THEN k - f[b] ELSE 0]
<1>1. h \in [Blocks -> Nat]
  OBVIOUS
<1>2. PICK b \in S : \A d \in S : h[b] <= h[d]
  <2>. HIDE DEF h
  <2>. QED  BY Zenon, <1>1, LeastExists
<1>3. \A d \in S : h[d] = k - f[d] /\ f[d] \in Nat
  OBVIOUS
<1>4. \A d \in S : f[d] <= f[b]
  <2>. HIDE DEF h
  <2>. TAKE d \in S
  <2>1. h[b] <= h[d]  BY Zenon, <1>2
  <2>2. k - f[b] <= k - f[d] /\ f[b] \in Nat /\ f[d] \in Nat  BY Zenon, <2>1, <1>3
  <2>. QED  BY <2>2
<1>. QED  BY Zenon, <1>4

-----------------------------------------------------------------------------
(* The operators on chain records. *)

\* ReceivedBlockTransactions links b and what waited for it, in every order.
LEMMA ReceivedSound ==
  ASSUME NEW c, Sound(c), NEW b \in c.headers \ c.data,
         NEW n \in ReceivedBlockTransactions(c, b)
  PROVE  Sound(n) /\ Linked(c) \subseteq Linked(n)
         /\ n.headers = c.headers /\ Failed(n) = Failed(c)
         /\ n.failedValid = c.failedValid /\ n.failedChild = c.failedChild
<1>. USE TreeAssumption, AncestorsFacts
<1>0. /\ c \in ChainType /\ Genesis \in c.data /\ b \in Blocks \ {Genesis}
      /\ Linked(c) \subseteq c.data /\ c.unlinked \subseteq c.data
  <2>1. c \in ChainType /\ Linked(c) \subseteq c.data /\ c.unlinked \subseteq c.data
    BY Zenon DEF Sound
  <2>2. c.tip \in Blocks /\ c.headers \subseteq Blocks  BY Zenon, <2>1 DEF ChainType
  <2>3. Genesis \in Ancestors[c.tip]  BY Zenon, <2>2, AncestryAssumption
  <2>4. Genesis \in Linked(c)  BY Zenon, <2>3 DEF Sound
  <2>. QED  BY <2>1, <2>2, <2>4
<1>1. CASE CanLink(c, b)
  <2>. DEFINE L == NewlyLinked(c, b)
              base == Cardinality(Linked(c))
  <2>1. PICK f \in LinkOrders(L) :
          n = [c EXCEPT !.data = @ \cup {b},
                        !.seq = [d \in Blocks |-> IF d \in L THEN base + f[d] ELSE @[d]],
                        !.unlinked = @ \ L,
                        !.candidates = @ \cup {d \in L : Work[d] > Work[c.tip]}]
    <3>1. n \in {[c EXCEPT !.data = @ \cup {b},
                           !.seq = [d \in Blocks |-> IF d \in L THEN base + f[d] ELSE @[d]],
                           !.unlinked = @ \ L,
                           !.candidates = @ \cup {d \in L : Work[d] > Work[c.tip]}] :
                   f \in LinkOrders(L)}
      BY ONLY Zenon, <1>1, n \in ReceivedBlockTransactions(c, b) DEF ReceivedBlockTransactions
    <3>. HIDE DEF L, base
    <3>. QED  BY ONLY <3>1, Zenon
  <2>2. base \in Nat
    <3>1. IsFiniteSet(Linked(c))  BY Zenon, FS_Subset, TreeAssumption DEF Linked
    <3>. QED  BY Zenon, <3>1, FS_CardinalityType
  <2>3. L \subseteq {b} \cup c.unlinked /\ L \subseteq Blocks
    BY <1>0 DEF NewlyLinked, ChainType
  <2>4. \A d \in L : f[d] \in Nat \ {0}
    <3>1. IsFiniteSet(L)  BY Zenon, <2>3, FS_Subset
    <3>2. Cardinality(L) \in Nat  BY Zenon, <3>1, FS_CardinalityType
    <3>3. f \in [L -> 1..Cardinality(L)]  BY Zenon DEF LinkOrders
    <3>. HIDE DEF L
    <3>. QED  BY <3>2, <3>3
  <2>5. n \in ChainType /\ n.data = c.data \cup {b} /\ n.headers = c.headers
        /\ n.failedValid = c.failedValid /\ n.failedChild = c.failedChild /\ n.unlinked = c.unlinked \ L /\ n.tip = c.tip
        /\ n.candidates = c.candidates \cup {d \in L : Work[d] > Work[c.tip]}
        /\ n.seq = [d \in Blocks |-> IF d \in L THEN base + f[d] ELSE c.seq[d]]
    <3>. HIDE DEF L, base
    <3>1. \A d \in Blocks : (IF d \in L THEN base + f[d] ELSE c.seq[d]) \in Nat
      BY ONLY <2>2, <2>3, <2>4, <1>0 DEF ChainType
    <3>2. {d \in L : Work[d] > Work[c.tip]} \subseteq Blocks  BY Zenon, <2>3
    <3>. QED  BY ONLY Zenon, <2>1, <3>1, <3>2, <1>0 DEF ChainType
  <2>6. Linked(n) = Linked(c) \cup L
    <3>. HIDE DEF L, base
    <3>. QED  BY <2>5, <2>2, <2>3, <2>4, <1>0 DEF Linked, ChainType
  <2>7. \A d \in L : Ancestors[d] \subseteq Linked(n)
    <3>. SUFFICES ASSUME NEW d \in L, NEW e \in Ancestors[d]
                  PROVE  e \in Linked(n)
      OBVIOUS
    <3>1. d \in Blocks /\ e \in Blocks /\ b \in Ancestors[d]
          /\ Ancestors[d] \ Ancestors[b] \subseteq c.unlinked
      BY Zenon, <2>3 DEF NewlyLinked
    <3>2. CASE e \in Ancestors[b]
      <4>1. e = b \/ e \in Ancestors[Parent[b]]  BY <3>2, <1>0
      <4>2. e = b => e \in L  BY Zenon, <1>0 DEF NewlyLinked
      <4>3. e \in Ancestors[Parent[b]] => e \in Linked(c)  BY Zenon, <1>1 DEF CanLink, Sound
      <4>. QED  BY Zenon, <4>1, <4>2, <4>3, <2>6
    <3>3. CASE e \notin Ancestors[b]
      <4>1. b \in Ancestors[e]  BY Zenon, <3>1, <3>3, AncestryAssumption
      <4>2. Ancestors[e] \subseteq Ancestors[d]  BY Zenon, <3>1, AncestryAssumption
      <4>3. e \in L  BY Zenon, <3>1, <3>3, <4>1, <4>2 DEF NewlyLinked
      <4>. QED  BY Zenon, <4>3, <2>6
    <3>. QED  BY Zenon, <3>2, <3>3
  <2>. HIDE DEF L, base
  <2>8. \A d \in Linked(n) : Ancestors[d] \subseteq Linked(n)
    BY Zenon, <2>6, <2>7 DEF Sound
  <2>9. Linked(n) \subseteq n.data
    BY Zenon, <2>3, <2>5, <2>6, <1>0
  <2>10. n.candidates \subseteq Linked(n) /\ n.tip \in Linked(n) /\ n.unlinked \subseteq n.data
         /\ n.data \cup Failed(n) \subseteq n.headers /\ Failed(n) = Failed(c)
    BY <2>5, <2>6 DEF Sound, Failed
  <2>. QED  BY Zenon, <2>5, <2>6, <2>8, <2>9, <2>10 DEF Sound
<1>2. CASE ~CanLink(c, b)
  <2>1. n = [c EXCEPT !.data = @ \cup {b},
                      !.unlinked = IF Waits(c, b) THEN @ \cup {b} ELSE @]
    BY Zenon, <1>2 DEF ReceivedBlockTransactions
  <2>2. Linked(n) = Linked(c) /\ Failed(n) = Failed(c) /\ n.tip = c.tip
        /\ n.failedValid = c.failedValid /\ n.failedChild = c.failedChild
        /\ n.candidates = c.candidates /\ n.headers = c.headers /\ n.data = c.data \cup {b}
        /\ n.unlinked \subseteq c.unlinked \cup {b} /\ n \in ChainType
    <3>1. /\ n.seq = c.seq /\ n.failedValid = c.failedValid /\ n.failedChild = c.failedChild
          /\ n.tip = c.tip /\ n.candidates = c.candidates /\ n.headers = c.headers
          /\ n.data = c.data \cup {b} /\ n.unlinked \in {c.unlinked, c.unlinked \cup {b}}
          /\ n \in ChainType
      BY ONLY Zenon, <2>1, <1>0 DEF ChainType
    <3>. QED  BY <3>1 DEF Linked, Failed
  <2>. QED  BY Zenon, <2>2 DEF Sound
<1>. QED  BY Zenon, <1>1, <1>2

\* AddToBlockIndex and the marking of a rejected block.
LEMMA AddSound ==
  ASSUME NEW c, Sound(c), NEW b \in Blocks
  PROVE  /\ Sound(AddToBlockIndex(c, b))
         /\ AddToBlockIndex(c, b).headers = c.headers \cup {b}
         /\ Linked(AddToBlockIndex(c, b)) = Linked(c)
         /\ Failed(AddToBlockIndex(c, b)) = Failed(c)
         /\ AddToBlockIndex(c, b).tip = c.tip /\ AddToBlockIndex(c, b).data = c.data
<1>. DEFINE n == AddToBlockIndex(c, b)
<1>1. n = [c EXCEPT !.headers = @ \cup {b}] /\ c \in ChainType
  BY Zenon DEF AddToBlockIndex, Sound
<1>. HIDE DEF n
<1>2. n \in ChainType /\ n.headers = c.headers \cup {b} /\ n.data = c.data /\ n.seq = c.seq
      /\ n.failedValid = c.failedValid /\ n.failedChild = c.failedChild
      /\ n.candidates = c.candidates /\ n.unlinked = c.unlinked /\ n.tip = c.tip
  BY ONLY Zenon, <1>1, b \in Blocks DEF ChainType
<1>3. Linked(n) = Linked(c) /\ Failed(n) = Failed(c)
  BY Zenon, <1>2 DEF Linked, Failed
<1>4. Sound(n)
  BY Zenon, <1>2, <1>3 DEF Sound
<1>. QED  BY Zenon, <1>2, <1>3, <1>4 DEF n

\* A block that ContextualCheckBlock rejects gets its mark.
LEMMA MarkSound ==
  ASSUME NEW c, Sound(c), NEW b \in c.headers, NEW n,
         n = [c EXCEPT !.failedValid = @ \cup {b}]
  PROVE  Sound(n) /\ Linked(n) = Linked(c) /\ n.tip = c.tip /\ n.headers = c.headers
         /\ n.failedValid = c.failedValid \cup {b} /\ n.failedChild = c.failedChild
<1>1. c \in ChainType /\ b \in Blocks
  BY Zenon DEF Sound, ChainType
<1>2. n \in ChainType /\ n.headers = c.headers /\ n.data = c.data /\ n.seq = c.seq
      /\ n.failedValid = c.failedValid \cup {b} /\ n.failedChild = c.failedChild
      /\ n.candidates = c.candidates /\ n.unlinked = c.unlinked /\ n.tip = c.tip
  BY ONLY Zenon, <1>1, n = [c EXCEPT !.failedValid = @ \cup {b}] DEF ChainType
<1>3. Linked(n) = Linked(c) /\ Failed(n) = Failed(c) \cup {b}
  BY Zenon, <1>2 DEF Linked, Failed
<1>. QED  BY Zenon, <1>2, <1>3 DEF Sound

\* What InvalidateBlock does to each field.
LEMMA InvalidateFields ==
  ASSUME NEW c, Sound(c), NEW b \in c.headers \ {Genesis}
  PROVE  LET n == InvalidateBlock(c, b)
             disconnected == {d \in Active(c) : b \in Ancestors[d]}
         IN  /\ Sound(n) /\ Linked(n) = Linked(c)
             /\ n.failedValid = c.failedValid \cup {b}
             /\ n.failedChild = c.failedChild \cup disconnected
             /\ n.tip = IF b \in Active(c) THEN Parent[b] ELSE c.tip
<1>. DEFINE disconnected == {d \in Active(c) : b \in Ancestors[d]}
            m == [c EXCEPT !.failedValid = @ \cup {b},
                           !.failedChild = @ \cup disconnected,
                           !.candidates = @ \ ({b} \cup disconnected),
                           !.tip = IF b \in Active(c) THEN Parent[b] ELSE @]
            added == {d \in Linked(m) : d \notin Failed(m) /\ ~Worse(m, d, m.tip)}
            n == InvalidateBlock(c, b)
<1>1. n = [m EXCEPT !.candidates = @ \cup added]
  BY Zenon DEF InvalidateBlock
<1>2. /\ c \in ChainType /\ b \in Blocks \ {Genesis} /\ Parent[b] \in Blocks
      /\ Active(c) \subseteq Linked(c) /\ Active(c) \subseteq Blocks
      /\ b \in Active(c) => Parent[b] \in Active(c)
  <2>1. c \in ChainType /\ b \in Blocks \ {Genesis} /\ c.tip \in Blocks
    BY Zenon DEF Sound, ChainType
  <2>2. Active(c) \subseteq Linked(c) /\ Active(c) \subseteq Blocks
    BY Zenon, <2>1, AncestorsFacts DEF Sound, Active
  <2>3. b \in Active(c) => Ancestors[b] \subseteq Active(c)
    BY Zenon, <2>1, AncestryAssumption DEF Active
  <2>. QED  BY Zenon, <2>1, <2>2, <2>3, AncestorsFacts
<1>3. disconnected \subseteq Active(c)  OBVIOUS
<1>. HIDE DEF disconnected
<1>4. m \in ChainType /\ m.headers = c.headers /\ m.data = c.data /\ m.seq = c.seq
      /\ m.failedValid = c.failedValid \cup {b} /\ m.failedChild = c.failedChild \cup disconnected
      /\ m.candidates \subseteq c.candidates /\ m.unlinked = c.unlinked
      /\ m.tip = IF b \in Active(c) THEN Parent[b] ELSE c.tip
  BY ONLY Zenon, <1>2, <1>3 DEF ChainType
<1>. HIDE DEF m
<1>5. Linked(m) = Linked(c) /\ added \subseteq Linked(c) /\ added \subseteq Blocks
  BY Zenon, <1>4 DEF Linked
<1>. HIDE DEF added
<1>6. n \in ChainType /\ n.headers = m.headers /\ n.data = m.data /\ n.seq = m.seq
      /\ n.failedValid = m.failedValid /\ n.failedChild = m.failedChild
      /\ n.candidates = m.candidates \cup added /\ n.unlinked = m.unlinked /\ n.tip = m.tip
  BY ONLY <1>1, <1>4, <1>5 DEF ChainType
<1>. HIDE DEF n
<1>7. Linked(n) = Linked(c) /\ Failed(n) = Failed(c) \cup {b} \cup disconnected
  BY Zenon, <1>4, <1>6 DEF Linked, Failed
<1>8. n.candidates \subseteq Linked(n) /\ n.tip \in Linked(n)
  BY Zenon, <1>2, <1>4, <1>5, <1>6, <1>7 DEF Sound
<1>9. n.data \cup Failed(n) \subseteq n.headers
  BY Zenon, <1>2, <1>3, <1>4, <1>6, <1>7 DEF Sound
<1>10. Sound(n)
  BY Zenon, <1>4, <1>6, <1>7, <1>8, <1>9 DEF Sound
<1>. QED  BY Zenon, <1>4, <1>6, <1>7, <1>10 DEF disconnected, n

\* ResetBlockFailureFlags only removes marks.
LEMMA ResetFields ==
  ASSUME NEW c, Sound(c), NEW b \in c.headers
  PROVE  LET n == ResetBlockFailureFlags(c, b)
         IN  /\ Sound(n) /\ Linked(n) = Linked(c) /\ n.tip = c.tip /\ n.headers = c.headers
             /\ Failed(n) \subseteq Failed(c)
<1>. DEFINE descendants == {d \in c.headers : b \in Ancestors[d]}
            cleared == descendants \cup Ancestors[b]
            added == {d \in descendants \cap Failed(c) \cap Linked(c) : Worse(c, c.tip, d)}
            n == ResetBlockFailureFlags(c, b)
<1>1. n = [c EXCEPT !.failedValid = @ \ cleared, !.failedChild = @ \ cleared,
                    !.candidates = @ \cup added]
  BY Zenon DEF ResetBlockFailureFlags
<1>2. added \subseteq Linked(c) /\ added \subseteq Blocks /\ c \in ChainType
  BY Zenon DEF Sound, Linked
<1>. HIDE DEF added, cleared
<1>3. n \in ChainType /\ n.headers = c.headers /\ n.data = c.data /\ n.seq = c.seq
      /\ n.failedValid = c.failedValid \ cleared /\ n.failedChild = c.failedChild \ cleared
      /\ n.candidates = c.candidates \cup added /\ n.unlinked = c.unlinked /\ n.tip = c.tip
  BY ONLY ZenonT(40), <1>1, <1>2 DEF ChainType
<1>. HIDE DEF n
<1>4. Linked(n) = Linked(c) /\ Failed(n) \subseteq Failed(c)
  BY Zenon, <1>3 DEF Linked, Failed
<1>5. Sound(n)
  BY Zenon, <1>2, <1>3, <1>4 DEF Sound
<1>. QED  BY Zenon, <1>3, <1>4, <1>5 DEF n

\* FindMostWorkChain marks blocks off the active chain that have a marked
\* block below them.
LEMMA PruneFailedFields ==
  ASSUME NEW c, Sound(c)
  PROVE  LET n == PruneFailedCandidates(c)
         IN  /\ Sound(n) /\ Linked(n) = Linked(c) /\ n.tip = c.tip /\ n.headers = c.headers
             /\ n.failedValid = c.failedValid
             /\ \A e \in n.failedChild \ c.failedChild :
                  /\ e \in Blocks \ Active(c)
                  /\ \E x \in Failed(c) : x \in Ancestors[e] /\ x \notin Active(c)
<1>. DEFINE marked == UNION {AboveFailure(c, d) : d \in GivenUp(c)}
            erased == marked \cup UNION {TopmostFailure(c, d) : d \in GivenUp(c)}
            n == PruneFailedCandidates(c)
<1>1. n = [c EXCEPT !.failedChild = @ \cup marked, !.candidates = @ \ erased]
  BY Zenon DEF PruneFailedCandidates
<1>2. \A e \in marked : /\ e \in Linked(c) /\ e \notin Active(c)
                        /\ \E x \in Failed(c) : x \in Ancestors[e] /\ x \notin Active(c)
  <2>. SUFFICES ASSUME NEW d \in GivenUp(c), NEW e \in AboveFailure(c, d)
                PROVE  /\ e \in Linked(c) /\ e \notin Active(c)
                       /\ \E x \in Failed(c) : x \in Ancestors[e] /\ x \notin Active(c)
    OBVIOUS
  <2>1. d \in Linked(c) /\ Path(c, d) \cap Failed(c) # {}
    BY Zenon DEF GivenUp, Usable, Sound
  <2>2. e \in Path(c, d) /\ Path(c, d) \cap Failed(c) \subseteq Ancestors[e]
    BY Zenon DEF AboveFailure
  <2>3. e \in Linked(c) /\ e \notin Active(c)
    BY Zenon, <2>1, <2>2 DEF Path, Sound
  <2>. QED  BY Zenon, <2>1, <2>2, <2>3 DEF Path
<1>3. marked \subseteq Blocks /\ c \in ChainType
  BY Zenon, <1>2 DEF Linked, Sound
<1>. HIDE DEF marked, erased
<1>4. n \in ChainType /\ n.headers = c.headers /\ n.data = c.data /\ n.seq = c.seq
      /\ n.failedValid = c.failedValid /\ n.failedChild = c.failedChild \cup marked
      /\ n.candidates \subseteq c.candidates /\ n.unlinked = c.unlinked /\ n.tip = c.tip
  BY ONLY Zenon, <1>1, <1>3 DEF ChainType
<1>. HIDE DEF n
<1>5. Linked(n) = Linked(c) /\ Failed(n) = Failed(c) \cup marked
  BY Zenon, <1>4 DEF Linked, Failed
<1>6. marked \subseteq c.headers
  BY Zenon, <1>2 DEF Sound
<1>7. Sound(n)
  BY Zenon, <1>4, <1>5, <1>6 DEF Sound
<1>8. \A e \in n.failedChild \ c.failedChild : e \in marked
  BY Zenon, <1>4
<1>. QED  BY Zenon, <1>2, <1>3, <1>4, <1>5, <1>7, <1>8 DEF n

\* The candidate set is finite and ordered, so FindMostWorkChain returns a best
\* usable candidate if there is one.
LEMMA BestCandidateIsBest ==
  ASSUME NEW c, Sound(c), Usable(c) # {}
  PROVE  /\ BestCandidate(c) \in Usable(c)
         /\ \A e \in Usable(c) : ~Worse(c, BestCandidate(c), e)
<1>. DEFINE U == Usable(c)
<1>1. U # {} /\ BestCandidate(c) = CHOOSE d \in U : \A e \in U : ~Worse(c, d, e)
  BY Zenon DEF BestCandidate
<1>2. U \subseteq Blocks /\ c.seq \in [Blocks -> Nat] /\ Work \in [Blocks -> Nat]
  BY Zenon, TreeAssumption DEF Usable, Sound, ChainType
<1>. HIDE DEF U
<1>3. PICK w \in Blocks : \A b \in Blocks : Work[b] <= Work[w]
  BY Zenon, AncestryAssumption
<1>4. Work[w] \in Nat  BY Zenon, <1>2, <1>3
<1>5. PICK p \in U : \A d \in U : Work[d] <= Work[p]
  BY Zenon, <1>1, <1>2, <1>3, <1>4, GreatestExists
<1>. DEFINE T == {d \in U : Work[d] = Work[p]}
<1>6. T \in SUBSET Blocks /\ T # {}
  BY Zenon, <1>2, <1>5
<1>7. PICK q \in T : \A d \in T : c.seq[q] <= c.seq[d]
  <2>. HIDE DEF T
  <2>. QED  BY Zenon, <1>2, <1>6, LeastExists
<1>8. q \in U /\ Work[q] = Work[p]
  BY Zenon, <1>7
<1>9. \A e \in U : ~Worse(c, q, e)
  <2>. SUFFICES ASSUME NEW e \in U, Worse(c, q, e)
                PROVE  FALSE
    OBVIOUS
  <2>1. Work[e] <= Work[q] /\ Work[e] \in Nat /\ Work[q] \in Nat
    BY Zenon, <1>2, <1>5, <1>8
  <2>2. Work[q] = Work[e] /\ c.seq[q] > c.seq[e]
    BY <2>1 DEF Worse
  <2>3. c.seq[q] <= c.seq[e] /\ c.seq[q] \in Nat /\ c.seq[e] \in Nat
    BY Zenon, <1>2, <1>7, <1>8, <2>2
  <2>. QED  BY <2>2, <2>3
<1>. QED  BY Zenon, <1>1, <1>8, <1>9 DEF U

LEMMA BestCandidateUsable ==
  ASSUME NEW c, Sound(c), BestCandidate(c) # NoBlock
  PROVE  BestCandidate(c) \in Usable(c)
BY Zenon, BestCandidateIsBest DEF BestCandidate

\* ActivateBestChainStep stays on the way from the fork to its target.
LEMMA StepTipOnPath ==
  ASSUME NEW c, Sound(c), NEW m \in Linked(c)
  PROVE  /\ StepTip(c, m) \in Ancestors[m]
         /\ Active(c) \cap Ancestors[m] \subseteq Ancestors[StepTip(c, m)]
         /\ StepTip(c, m) \in Connectable(c, m) \/ StepTip(c, m) = Fork(c, m)
         /\ Fork(c, m) \in Active(c) /\ Ancestors[Fork(c, m)] = Active(c) \cap Ancestors[m]
<1>. DEFINE F == Fork(c, m)
            good == Connectable(c, m) \cup {F}
            better == {b \in good : Work[b] > Work[c.tip]}
            t == StepTip(c, m)
<1>1. m \in Blocks /\ c.tip \in Blocks
  BY Zenon DEF Linked, Sound, ChainType
<1>2. F \in Blocks /\ Ancestors[F] = Active(c) \cap Ancestors[m]
  BY <1>1, AncestryAssumption, Zenon DEF Fork, Active
<1>3. F \in Ancestors[m] /\ F \in Active(c)
  BY Zenon, <1>2, AncestorsFacts
<1>4. Connectable(c, m) \subseteq Ancestors[m] \ Active(c)
  BY Zenon DEF Connectable, Path
<1>. HIDE DEF F
<1>5. good # {} /\ good \subseteq Ancestors[m] /\ good \subseteq Blocks
  BY Zenon, <1>1, <1>3, <1>4, AncestorsFacts
<1>6. t \in good
  <2>1. Height \in [Blocks -> Nat] /\ Height[m] \in Nat /\ \A b \in good : Height[b] <= Height[m]
    BY Zenon, <1>1, <1>5, TreeAssumption, AncestryAssumption
  <2>2. t = IF better # {} THEN CHOOSE b \in better : \A d \in better : Height[b] <= Height[d]
                          ELSE CHOOSE b \in good : \A d \in good : Height[d] <= Height[b]
    BY Zenon DEF StepTip, F
  <2>3. better \subseteq good  OBVIOUS
  <2>. HIDE DEF good, better, t
  <2>4. CASE better # {}
    <3>1. \E b \in better : \A d \in better : Height[b] <= Height[d]
      BY Zenon, <1>5, <2>1, <2>3, <2>4, LeastExists
    <3>. QED  BY Zenon, <2>2, <2>3, <2>4, <3>1
  <2>5. CASE better = {}
    <3>1. \E b \in good : \A d \in good : Height[d] <= Height[b]
      BY Zenon, <1>5, <2>1, GreatestExists
    <3>. QED  BY Zenon, <2>2, <2>5, <3>1
  <2>. QED  BY Zenon, <2>4, <2>5
<1>7. Ancestors[F] \subseteq Ancestors[t]
  <2>1. CASE t = F  BY Zenon, <2>1
  <2>2. CASE t \in Connectable(c, m)
    <3>1. t \in Ancestors[m] /\ t \notin Active(c)  BY Zenon, <2>2, <1>4
    <3>2. t \notin Ancestors[F]  BY Zenon, <3>1, <1>2
    <3>3. F \in Ancestors[t]  BY Zenon, <1>1, <1>3, <3>1, <3>2, AncestryAssumption
    <3>4. t \in Blocks  BY Zenon, <3>1, <1>1, AncestorsFacts
    <3>. QED  BY Zenon, <3>3, <3>4, AncestryAssumption
  <2>. HIDE DEF t
  <2>. QED  BY Zenon, <1>6, <2>1, <2>2
<1>8. t \in Connectable(c, m) \/ t = F  BY Zenon, <1>6
<1>. QED  BY Zenon, <1>2, <1>3, <1>5, <1>6, <1>7, <1>8 DEF F

\* What a step does to each field.
LEMMA StepFields ==
  ASSUME NEW c, Sound(c), NEW m \in Linked(c)
  PROVE  LET n == ActivateBestChainStep(c, m)
         IN  /\ Sound(n) /\ Linked(n) = Linked(c) /\ n.tip = StepTip(c, m)
             /\ n.headers = c.headers
             /\ n.failedValid = c.failedValid \cup StepFailure(c, m)
             /\ n.failedChild = c.failedChild
             /\ \A b \in StepFailure(c, m) : b \in Blocks \ {Genesis} /\ Parent[b] = n.tip
<1>. DEFINE t == StepTip(c, m)
            kept == IF t = Fork(c, m) THEN c.candidates ELSE PruneBlockIndexCandidates(c, t)
            bad == StepFailure(c, m)
            n == ActivateBestChainStep(c, m)
<1>1. n = [c EXCEPT !.tip = t, !.candidates = kept \ bad, !.failedValid = @ \cup bad]
  BY Zenon DEF ActivateBestChainStep
<1>2. kept \subseteq c.candidates
  BY Zenon DEF PruneBlockIndexCandidates
<1>3. m \in Blocks /\ c \in ChainType /\ Ancestors[m] \subseteq Linked(c)
      /\ Ancestors[m] \subseteq Blocks
  BY Zenon, AncestorsFacts DEF Linked, Sound
<1>4. t \in Linked(c) /\ t \in Blocks
  BY Zenon, <1>3, StepTipOnPath
<1>5. bad \subseteq Linked(c) /\ bad \subseteq Blocks
      /\ \A b \in bad : b \in Blocks \ {Genesis} /\ Parent[b] = t
  BY Zenon, <1>3, TreeAssumption DEF StepFailure, Path
<1>. HIDE DEF t, kept, bad
<1>6. n \in ChainType /\ n.headers = c.headers /\ n.data = c.data /\ n.seq = c.seq
      /\ n.failedValid = c.failedValid \cup bad /\ n.failedChild = c.failedChild
      /\ n.candidates \subseteq c.candidates /\ n.unlinked = c.unlinked /\ n.tip = t
  <2>. DEFINE left == kept \ bad
              marked == c.failedValid \cup bad
  <2>1. n = [c EXCEPT !.tip = t, !.candidates = left, !.failedValid = marked]
    BY ONLY Zenon, <1>1
  <2>2. left \subseteq c.candidates /\ left \in SUBSET Blocks /\ marked \in SUBSET Blocks
    BY ONLY Zenon, <1>2, <1>3, <1>5 DEF ChainType
  <2>3. marked = c.failedValid \cup bad  OBVIOUS
  <2>. HIDE DEF left, marked, n
  <2>. QED  BY ONLY Zenon, <1>3, <1>4, <2>1, <2>2, <2>3 DEF ChainType
<1>. HIDE DEF n
<1>7. Linked(n) = Linked(c) /\ Failed(n) = Failed(c) \cup bad
  BY Zenon, <1>6 DEF Linked, Failed
<1>8. Sound(n)
  BY Zenon, <1>4, <1>5, <1>6, <1>7 DEF Sound
<1>. QED  BY Zenon, <1>5, <1>6, <1>7, <1>8 DEF n, t, bad

-----------------------------------------------------------------------------
(* The actions. *)

\* An iteration of ActivateBestChain either returns or takes a step towards m
\* from c, which is the chain, or the chain after FindMostWorkChain.
LEMMA ActivateCases ==
  ASSUME ChainInv, NEW t \in Threads, ActivateBestChain(t)
  PROVE  \E c, m :
           /\ \/ c = chain /\ m = mostWork[t] /\ m # NoBlock
              \/ c = PruneFailedCandidates(chain) /\ m = BestCandidate(chain)
           /\ Sound(c) /\ Linked(c) = Linked(chain) /\ c.tip = chain.tip
           /\ c.headers = chain.headers
           /\ \/ chain' = c /\ mostWork' = [mostWork EXCEPT ![t] = NoBlock]
              \/ /\ m \in Linked(c) /\ m # NoBlock /\ chain' = ActivateBestChainStep(c, m)
                 /\ mostWork' = [mostWork EXCEPT ![t] = KeptMostWork(c, m)]
                 /\ pc' = [pc EXCEPT ![t] = IF StepTip(c, m) = m THEN "idle" ELSE @]
<1>. DEFINE c == Examined(t)
            m == Target(t)
<1>1. Sound(chain)  BY Zenon DEF ChainInv
<1>2. Sound(c) /\ Linked(c) = Linked(chain) /\ c.tip = chain.tip /\ c.headers = chain.headers
  BY Zenon, <1>1, PruneFailedFields DEF Examined
<1>3. m # NoBlock => m \in Linked(c)
  <2>1. CASE mostWork[t] # NoBlock
    BY Zenon, <2>1 DEF ChainInv, TargetsLinked, Examined, Target
  <2>2. CASE mostWork[t] = NoBlock
    <3>1. m # NoBlock => m \in Usable(chain)  BY Zenon, <1>1, <2>2, BestCandidateUsable DEF Target
    <3>2. Usable(chain) \subseteq Linked(chain)  BY Zenon, <1>1 DEF Usable, Sound
    <3>. QED  BY Zenon, <1>2, <3>1, <3>2
  <2>. QED  BY Zenon, <2>1, <2>2
<1>4. \/ chain' = c /\ mostWork' = [mostWork EXCEPT ![t] = NoBlock]
      \/ /\ m # NoBlock /\ chain' = ActivateBestChainStep(c, m)
         /\ mostWork' = [mostWork EXCEPT ![t] = KeptMostWork(c, m)]
         /\ pc' = [pc EXCEPT ![t] = IF StepTip(c, m) = m THEN "idle" ELSE @]
  BY Zenon DEF ActivateBestChain, NothingToDo
<1>5. \/ c = chain /\ m = mostWork[t] /\ m # NoBlock
      \/ c = PruneFailedCandidates(chain) /\ m = BestCandidate(chain)
  BY Zenon DEF Examined, Target
<1>. HIDE DEF c, m
<1>. QED  BY Zenon, <1>2, <1>3, <1>4, <1>5

\* ActivateBestChain preserves the invariant.
LEMMA ActivateInv ==
  ASSUME ChainInv, NEW t \in Threads, ActivateBestChain(t), UNCHANGED aborted
  PROVE  ChainInv'
<1>1. PICK c, m :
        /\ Sound(c) /\ Linked(c) = Linked(chain)
        /\ \/ chain' = c /\ mostWork' = [mostWork EXCEPT ![t] = NoBlock]
           \/ /\ m \in Linked(c) /\ m # NoBlock /\ chain' = ActivateBestChainStep(c, m)
              /\ mostWork' = [mostWork EXCEPT ![t] = KeptMostWork(c, m)]
  BY ActivateCases
<1>2. Sound(chain') /\ Linked(chain') = Linked(chain)
  BY <1>1, StepFields
<1>3. m \in Linked(c) => m \in Blocks /\ m \in Linked(chain)
  BY Zenon, <1>1 DEF Linked
<1>4. \E x \in Linked(chain) \cup {NoBlock} : mostWork' = [mostWork EXCEPT ![t] = x]
  BY Zenon, <1>1, <1>3 DEF KeptMostWork
<1>5. Linked(chain) \subseteq Blocks  BY Zenon DEF Linked
<1>6. pc' \in [Threads -> {"idle", "activate"}] /\ UNCHANGED <<invalidated, reconsidered>>
  BY Zenon DEF ActivateBestChain, ChainInv, ThreadsTyped
<1>7. ThreadsTyped' /\ TargetsLinked' /\ aborted' \in BOOLEAN
  BY Zenon, <1>2, <1>4, <1>5, <1>6 DEF ChainInv, ThreadsTyped, TargetsLinked
<1>. QED  BY Zenon, <1>2, <1>7 DEF ChainInv

\* Entering ActivateBestChain with a sound chain preserves the invariant.
LEMMA StartInv ==
  ASSUME ChainInv, NEW t \in Threads, NEW n, StartActivate(t, n), Sound(n), UNCHANGED aborted,
         Linked(chain) \subseteq Linked(n),
         invalidated' \in 0..MaxInvalidate, reconsidered' \in 0..MaxReconsider
  PROVE  ChainInv'
BY Zenon DEF StartActivate, ChainInv, ThreadsTyped, TargetsLinked

\* Every step preserves the invariant.
LEMMA ChainNextInv ==
  ASSUME ChainInv, [ChainNext]_chainVars
  PROVE  ChainInv'
<1>. USE DEF ChainInv
<1>0. Sound(chain) /\ chain.headers \subseteq Blocks
      /\ invalidated \in 0..MaxInvalidate /\ reconsidered \in 0..MaxReconsider
      /\ MaxInvalidate \in Nat /\ MaxReconsider \in Nat
  BY Zenon, TreeAssumption DEF Sound, ChainType, ThreadsTyped
<1>1. ASSUME NEW t \in Threads, NEW b \in Blocks, ProcessNewBlockHeaders(t, b),
             UNCHANGED aborted
      PROVE  ChainInv'
  BY Zenon, <1>0, <1>1, AddSound DEF ProcessNewBlockHeaders, ThreadsTyped, TargetsLinked
<1>2. ASSUME NEW t \in Threads, NEW b \in Blocks, NEW requested \in BOOLEAN,
             ProcessNewBlock(t, b, requested), UNCHANGED aborted
      PROVE  ChainInv'
  <2>. DEFINE c == AddToBlockIndex(chain, b)
  <2>1. Sound(c) /\ Linked(c) = Linked(chain) /\ b \in c.headers
    BY <1>0, AddSound
  <2>2. UNCHANGED <<invalidated, reconsidered>>
    BY Zenon, <1>2 DEF ProcessNewBlock
  <2>3. \/ StartActivate(t, c)
        \/ chain' = [c EXCEPT !.failedValid = @ \cup {b}] /\ UNCHANGED <<pc, mostWork>>
        \/ b \notin c.data /\ \E n \in ReceivedBlockTransactions(c, b) : StartActivate(t, n)
    BY Zenon, <1>2 DEF ProcessNewBlock, Ignored
  <2>. HIDE DEF c
  <2>4. CASE StartActivate(t, c)
    BY Zenon, <1>0, <1>2, <2>1, <2>2, <2>4, StartInv
  <2>5. CASE chain' = [c EXCEPT !.failedValid = @ \cup {b}] /\ UNCHANGED <<pc, mostWork>>
    BY <1>2, <2>1, <2>2, <2>5, MarkSound DEF ThreadsTyped, TargetsLinked
  <2>6. ASSUME b \notin c.data, NEW n \in ReceivedBlockTransactions(c, b), StartActivate(t, n)
        PROVE  ChainInv'
    <3>1. Sound(n) /\ Linked(chain) \subseteq Linked(n)
      BY Zenon, <2>1, <2>6, ReceivedSound
    <3>. QED  BY Zenon, <1>0, <1>2, <2>2, <2>6, <3>1, StartInv
  <2>. QED  BY Zenon, <2>3, <2>4, <2>5, <2>6
<1>3. ASSUME NEW t \in Threads, NEW b \in Blocks, invalidateblock(t, b), UNCHANGED aborted
      PROVE  ChainInv'
  <2>1. b \in chain.headers \ {Genesis} /\ StartActivate(t, InvalidateBlock(chain, b))
        /\ invalidated < MaxInvalidate /\ invalidated' = invalidated + 1
        /\ reconsidered' = reconsidered
    BY Zenon, <1>3 DEF invalidateblock
  <2>2. Sound(InvalidateBlock(chain, b)) /\ Linked(InvalidateBlock(chain, b)) = Linked(chain)
    BY Zenon, <1>0, <2>1, InvalidateFields
  <2>. QED  BY <1>0, <1>3, <2>1, <2>2, StartInv
<1>4. ASSUME NEW t \in Threads, NEW b \in Blocks, reconsiderblock(t, b), UNCHANGED aborted
      PROVE  ChainInv'
  <2>1. b \in chain.headers /\ StartActivate(t, ResetBlockFailureFlags(chain, b))
        /\ reconsidered < MaxReconsider /\ reconsidered' = reconsidered + 1
        /\ invalidated' = invalidated
    BY Zenon, <1>4 DEF reconsiderblock
  <2>2. Sound(ResetBlockFailureFlags(chain, b))
        /\ Linked(ResetBlockFailureFlags(chain, b)) = Linked(chain)
    BY Zenon, <1>0, <2>1, ResetFields
  <2>. QED  BY <1>0, <1>4, <2>1, <2>2, StartInv
<1>5. CASE UNCHANGED chainVars
  BY Zenon, <1>5 DEF chainVars, ThreadsTyped, TargetsLinked
<1>6. ASSUME NEW t \in Threads, Abort(t) PROVE ChainInv'
  BY Zenon, <1>6 DEF Abort, ThreadsTyped, TargetsLinked
<1>. QED  BY Zenon, <1>1, <1>2, <1>3, <1>4, <1>5, <1>6, ActivateInv DEF ChainNext, ChainStep

\* The genesis block alone is a sound chain.
LEMMA ChainInitInv == ChainInit => ChainInv
<1>. SUFFICES ASSUME ChainInit PROVE ChainInv
  OBVIOUS
<1>1. chain \in ChainType /\ Linked(chain) = {Genesis}
  BY TreeAssumption DEF ChainInit, GenesisChain, ChainType, Linked
<1>2. Sound(chain)
  BY Zenon, <1>1, TreeAssumption DEF ChainInit, GenesisChain, Sound, Failed
<1>3. aborted \in BOOLEAN
  BY Zenon DEF ChainInit
<1>4. ThreadsTyped /\ TargetsLinked
  BY <1>3, TreeAssumption DEF ChainInit, ThreadsTyped, TargetsLinked
<1>. QED  BY Zenon, <1>2, <1>4 DEF ChainInv

\* The inductive invariant: candidates, targets and the tip are linked, linked
\* blocks are received with all their ancestors.
THEOREM ChainInvariance == ChainSpec => []ChainInv
<1>. QED  BY ChainInitInv, ChainNextInv, PTL DEF ChainSpec

\* The block index is well formed: whatever is stored, linked, marked or a
\* candidate has an entry in mapBlockIndex.
THEOREM ChainTypeCorrect == ChainSpec => []ChainTypeOK
<1>1. ChainInv => ChainTypeOK
  BY Zenon DEF ChainInv, ChainTypeOK, Sound, ThreadsTyped
<1>. QED  BY <1>1, ChainInvariance, PTL

\* However blocks arrive, threads interleave and blocks are invalidated or
\* reconsidered, ActivateBestChain works towards, and activates, only chains
\* of which every block was received.
THEOREM OnlyCompleteChains == ChainSpec => []ChainsAreComplete
<1>1. ChainInv => ChainsAreComplete
  BY Zenon DEF ChainInv, ChainsAreComplete, Sound, TargetsLinked
<1>. QED  BY <1>1, ChainInvariance, PTL

-----------------------------------------------------------------------------
(* Marked blocks, as long as nobody calls reconsiderblock.                 *)

\* A block above one with an invalid ancestor has it as well.
LEMMA InvalidAncestorUp ==
  ASSUME NEW c, NEW b \in Blocks, NEW x \in Ancestors[b], HasInvalidAncestor(c, x)
  PROVE  HasInvalidAncestor(c, b)
BY Zenon, AncestryAssumption DEF HasInvalidAncestor

\* Marks are only set above an invalid block: MarksGrounded(c) is the
\* assertion of CheckBlockIndex for a chain record.
MarksGrounded(c) == \A b \in Failed(c) : HasInvalidAncestor(c, b)

\* FindMostWorkChain marks only what is above a mark.
LEMMA GroundedAfterPrune ==
  ASSUME NEW c, Sound(c), MarksGrounded(c)
  PROVE  MarksGrounded(PruneFailedCandidates(c))
<1>. DEFINE n == PruneFailedCandidates(c)
<1>1. n.failedValid = c.failedValid
      /\ \A e \in n.failedChild \ c.failedChild :
           e \in Blocks /\ \E x \in Failed(c) : x \in Ancestors[e]
  BY Zenon, PruneFailedFields
<1>. HIDE DEF n
<1>. SUFFICES ASSUME NEW e \in Failed(n) PROVE HasInvalidAncestor(n, e)
  BY Zenon DEF MarksGrounded, n
<1>2. CASE e \in Failed(c)
  BY Zenon, <1>1, <1>2 DEF MarksGrounded, HasInvalidAncestor
<1>3. CASE e \notin Failed(c)
  <2>1. e \in n.failedChild \ c.failedChild  BY Zenon, <1>1, <1>3 DEF Failed
  <2>2. PICK x \in Failed(c) : x \in Ancestors[e] /\ e \in Blocks  BY Zenon, <1>1, <2>1
  <2>3. HasInvalidAncestor(c, e)  BY Zenon, <2>2, InvalidAncestorUp DEF MarksGrounded
  <2>. QED  BY Zenon, <1>1, <2>3 DEF HasInvalidAncestor
<1>. QED  BY Zenon, <1>2, <1>3

\* An iteration of ActivateBestChain keeps the marks grounded.
LEMMA GroundedAfterActivate ==
  ASSUME ChainInv, MarksGrounded(chain), NEW t \in Threads, ActivateBestChain(t)
  PROVE  MarksGrounded(chain')
<1>1. PICK c, m :
        /\ c = chain \/ c = PruneFailedCandidates(chain)
        /\ Sound(c)
        /\ chain' = c \/ (m \in Linked(c) /\ chain' = ActivateBestChainStep(c, m))
  BY Zenon, ActivateCases
<1>2. MarksGrounded(c)
  BY Zenon, <1>1, GroundedAfterPrune DEF ChainInv
<1>3. CASE m \in Linked(c) /\ chain' = ActivateBestChainStep(c, m)
  <2>1. /\ chain'.failedValid = c.failedValid \cup StepFailure(c, m)
        /\ chain'.failedChild = c.failedChild
        /\ StepFailure(c, m) \subseteq Blocks
    BY Zenon, <1>1, <1>3, StepFields
  <2>. QED  BY Zenon, <1>2, <2>1, AncestorsFacts DEF MarksGrounded, HasInvalidAncestor, Failed
<1>. QED  BY Zenon, <1>1, <1>2, <1>3

\* So does every step that is not a reconsiderblock.
LEMMA GroundedNext ==
  ASSUME ChainInv, MarksGrounded(chain), [ChainNext]_chainVars, reconsidered' = reconsidered
  PROVE  MarksGrounded(chain')
<1>0. Sound(chain) /\ reconsidered \in Nat
  BY TreeAssumption DEF ChainInv, ThreadsTyped
<1>1. ASSUME NEW t \in Threads, NEW b \in Blocks, ProcessNewBlockHeaders(t, b)
      PROVE  MarksGrounded(chain')
  <2>1. chain' = [chain EXCEPT !.headers = @ \cup {b}] /\ chain \in ChainType
    BY Zenon, <1>0, <1>1 DEF ProcessNewBlockHeaders, AddToBlockIndex, Sound
  <2>2. chain'.failedValid = chain.failedValid /\ chain'.failedChild = chain.failedChild
    BY Zenon, <2>1 DEF ChainType
  <2>. QED  BY Zenon, <2>2 DEF MarksGrounded, HasInvalidAncestor, Failed
<1>2. ASSUME NEW t \in Threads, NEW b \in Blocks, NEW requested \in BOOLEAN,
             ProcessNewBlock(t, b, requested)
      PROVE  MarksGrounded(chain')
  <2>. DEFINE c == AddToBlockIndex(chain, b)
  <2>1. c = [chain EXCEPT !.headers = @ \cup {b}] /\ chain \in ChainType
    BY Zenon, <1>0 DEF AddToBlockIndex, Sound
  <2>2. Sound(c) /\ b \in c.headers
    BY <1>0, AddSound
  <2>3. \/ chain' = c
        \/ chain' = [c EXCEPT !.failedValid = @ \cup {b}]
        \/ b \notin c.data /\ chain' \in ReceivedBlockTransactions(c, b)
    BY Zenon, <1>2 DEF ProcessNewBlock, StartActivate, Ignored
  <2>. HIDE DEF c
  <2>4. c.failedValid = chain.failedValid /\ c.failedChild = chain.failedChild /\ c \in ChainType
    BY Zenon, <2>1, <2>2 DEF ChainType, Sound
  <2>5. CASE chain' = c
    BY Zenon, <2>4, <2>5 DEF MarksGrounded, HasInvalidAncestor, Failed
  <2>6. CASE chain' = [c EXCEPT !.failedValid = @ \cup {b}]
    <3>1. chain'.failedValid = chain.failedValid \cup {b}
          /\ chain'.failedChild = chain.failedChild
      BY <2>2, <2>4, <2>6, MarkSound
    <3>. QED  BY Zenon, <3>1, AncestorsFacts DEF MarksGrounded, HasInvalidAncestor, Failed
  <2>7. CASE b \notin c.data /\ chain' \in ReceivedBlockTransactions(c, b)
    <3>1. chain'.failedValid = c.failedValid /\ chain'.failedChild = c.failedChild
      BY Zenon, <2>2, <2>7, ReceivedSound
    <3>. QED  BY Zenon, <2>4, <3>1 DEF MarksGrounded, HasInvalidAncestor, Failed
  <2>. QED  BY Zenon, <2>3, <2>5, <2>6, <2>7
<1>3. ASSUME NEW t \in Threads, NEW b \in Blocks, invalidateblock(t, b)
      PROVE  MarksGrounded(chain')
  <2>1. b \in chain.headers \ {Genesis} /\ chain' = InvalidateBlock(chain, b)
    BY Zenon, <1>3 DEF invalidateblock, StartActivate
  <2>2. /\ chain'.failedValid = chain.failedValid \cup {b}
        /\ chain'.failedChild = chain.failedChild \cup {d \in Active(chain) : b \in Ancestors[d]}
    BY <1>0, <2>1, InvalidateFields
  <2>. QED  BY Zenon, <2>2, AncestorsFacts DEF MarksGrounded, HasInvalidAncestor, Failed
<1>4. \A t \in Threads, b \in Blocks : ~reconsiderblock(t, b)
  BY <1>0 DEF reconsiderblock
<1>5. CASE UNCHANGED chainVars
  BY Zenon, <1>5 DEF chainVars
<1>6. ASSUME NEW t \in Threads, Abort(t) PROVE MarksGrounded(chain')
  BY Zenon, <1>6 DEF Abort
<1>. QED  BY Zenon, <1>1, <1>2, <1>3, <1>4, <1>5, <1>6, GroundedAfterActivate DEF ChainNext, ChainStep

\* reconsidered counts the calls of reconsiderblock.
LEMMA ReconsideredCounts ==
  ASSUME ChainInv, [ChainNext]_chainVars, reconsidered' = 0
  PROVE  reconsidered = 0
<1>1. reconsidered \in Nat
  BY TreeAssumption DEF ChainInv, ThreadsTyped
<1>2. UNCHANGED reconsidered \/ reconsidered' = reconsidered + 1
  BY Zenon DEF ChainNext, ChainStep, chainVars, ProcessNewBlockHeaders, ProcessNewBlock,
     invalidateblock, reconsiderblock, ActivateBestChain, Abort
<1>. QED  BY <1>1, <1>2

\* Until reconsiderblock is called, BLOCK_FAILED_MASK is set only on blocks
\* with an ancestor marked BLOCK_FAILED_VALID, as CheckBlockIndex asserts: with
\* any number of threads and of invalidateblock calls.
THEOREM MarksHaveCause == ChainSpec => []FailedHasInvalidAncestor
<1>1. ChainInit => MarksGrounded(chain)
  BY DEF ChainInit, GenesisChain, MarksGrounded, Failed
<1>2. /\ FailedHasInvalidAncestor <=> (reconsidered = 0 => MarksGrounded(chain))
      /\ FailedHasInvalidAncestor' <=> (reconsidered' = 0 => MarksGrounded(chain'))
  BY Zenon DEF MarksGrounded, FailedHasInvalidAncestor
<1>3. ChainInv /\ FailedHasInvalidAncestor /\ [ChainNext]_chainVars
        => FailedHasInvalidAncestor'
  BY Zenon, GroundedNext, ReconsideredCounts, <1>2
<1>. QED  BY <1>1, <1>2, <1>3, ChainInvariance, PTL DEF ChainSpec

-----------------------------------------------------------------------------
(* A single thread.  The target it keeps between two iterations is still   *)
(* free of marks, since no other thread runs in between.                   *)

Clean(c) == Active(c) \cap Failed(c) = {}

TargetClean ==
  \A t \in Threads : mostWork[t] # NoBlock =>
    pc[t] = "activate" /\ Path(chain, mostWork[t]) \cap Failed(chain) = {}

CleanInv == Clean(chain) /\ TargetClean

\* The marks FindMostWorkChain sets are neither on the active chain nor on the
\* way to the candidate it returns.
LEMMA CleanAfterPrune ==
  ASSUME NEW c, Sound(c), Clean(c), NEW m \in Usable(c)
  PROVE  LET n == PruneFailedCandidates(c)
         IN  Clean(n) /\ Path(n, m) \cap Failed(n) = {}
<1>. DEFINE n == PruneFailedCandidates(c)
<1>1. /\ n.tip = c.tip /\ n.failedValid = c.failedValid
      /\ \A e \in n.failedChild \ c.failedChild :
           /\ e \in Blocks \ Active(c)
           /\ \E x \in Failed(c) : x \in Ancestors[e] /\ x \notin Active(c)
  BY Zenon, PruneFailedFields
<1>. HIDE DEF n
<1>2. Active(n) = Active(c) /\ Path(n, m) = Path(c, m)
  BY Zenon, <1>1 DEF Active, Path
<1>3. m \in Blocks /\ Path(c, m) \cap Failed(c) = {}
  BY Zenon DEF Usable, Sound, Linked
<1>4. \A e \in Failed(n) : e \in Failed(c) \/ e \in n.failedChild \ c.failedChild
  BY Zenon, <1>1 DEF Failed
<1>5. \A e \in n.failedChild \ c.failedChild : e \notin Active(c) /\ e \notin Path(c, m)
  <2>. SUFFICES ASSUME NEW e \in n.failedChild \ c.failedChild
                PROVE  e \notin Active(c) /\ e \notin Path(c, m)
    OBVIOUS
  <2>1. PICK x \in Failed(c) : x \in Ancestors[e] /\ x \notin Active(c)
    BY Zenon, <1>1
  <2>2. e \in Ancestors[m] => x \in Ancestors[m]
    BY Zenon, <1>3, <2>1, AncestryAssumption
  <2>. QED  BY Zenon, <1>1, <1>3, <2>1, <2>2 DEF Path
<1>. QED  BY Zenon, <1>2, <1>3, <1>4, <1>5 DEF Clean, n

\* FindMostWorkChain without a result.
LEMMA CleanAfterPruneOnly ==
  ASSUME NEW c, Sound(c), Clean(c)
  PROVE  Clean(PruneFailedCandidates(c))
BY Zenon, PruneFailedFields DEF Clean, Active, Failed

\* A step towards a target whose path has no marks.
LEMMA CleanAfterStep ==
  ASSUME NEW c, Sound(c), Clean(c), NEW m \in Linked(c), Path(c, m) \cap Failed(c) = {}
  PROVE  LET n == ActivateBestChainStep(c, m)
         IN  /\ Clean(n)
             /\ KeptMostWork(c, m) # NoBlock =>
                  KeptMostWork(c, m) = m /\ Path(n, m) \cap Failed(n) = {}
<1>. DEFINE n == ActivateBestChainStep(c, m)
<1>1. /\ n.tip = StepTip(c, m) /\ n.failedChild = c.failedChild
      /\ n.failedValid = c.failedValid \cup StepFailure(c, m)
      /\ \A b \in StepFailure(c, m) : b \in Blocks \ {Genesis} /\ Parent[b] = n.tip
  BY Zenon, StepFields
<1>2. /\ n.tip \in Ancestors[m] /\ m \in Blocks
      /\ Active(c) \cap Ancestors[m] \subseteq Ancestors[n.tip]
  BY <1>1, StepTipOnPath DEF Linked
<1>. HIDE DEF n
<1>3. Active(n) \subseteq Active(c) \cup Path(c, m) /\ Path(n, m) \subseteq Path(c, m)
  BY Zenon, <1>2, AncestryAssumption DEF Active, Path
<1>4. Active(n) \cap StepFailure(c, m) = {}
  BY Zenon, <1>1, TreeAssumption DEF Active
<1>5. Failed(n) = Failed(c) \cup StepFailure(c, m)
  BY Zenon, <1>1 DEF Failed
<1>6. Clean(n)
  BY Zenon, <1>3, <1>4, <1>5 DEF Clean
<1>7. KeptMostWork(c, m) # NoBlock => KeptMostWork(c, m) = m /\ StepFailure(c, m) = {}
  BY Zenon DEF KeptMostWork
<1>. QED  BY Zenon, <1>3, <1>5, <1>6, <1>7 DEF n

\* Invalidating a block takes it and what is above it off the active chain.
LEMMA CleanAfterInvalidate ==
  ASSUME NEW c, Sound(c), Clean(c), NEW b \in c.headers \ {Genesis}
  PROVE  Clean(InvalidateBlock(c, b))
<1>. DEFINE n == InvalidateBlock(c, b)
            disconnected == {d \in Active(c) : b \in Ancestors[d]}
<1>1. /\ n.failedValid = c.failedValid \cup {b}
      /\ n.failedChild = c.failedChild \cup disconnected
      /\ n.tip = IF b \in Active(c) THEN Parent[b] ELSE c.tip
  BY InvalidateFields
<1>2. b \in Blocks \ {Genesis} /\ c.tip \in Blocks
  BY Zenon DEF Sound, ChainType
<1>. HIDE DEF n
<1>3. CASE b \in Active(c)
  <2>1. Active(n) = Ancestors[Parent[b]]  BY Zenon, <1>1, <1>3 DEF Active
  <2>2. Active(n) \subseteq Active(c)
    BY Zenon, <1>2, <1>3, <2>1, AncestorsFacts, AncestryAssumption DEF Active
  <2>3. b \notin Active(n)  BY <1>2, <2>1, TreeAssumption
  <2>4. \A d \in Active(n) : b \notin Ancestors[d]
    <3>. SUFFICES ASSUME NEW d \in Ancestors[Parent[b]] PROVE b \notin Ancestors[d]
      BY Zenon, <2>1
    <3>1. Parent[b] \in Blocks  BY Zenon, <1>2, AncestorsFacts
    <3>2. Ancestors[d] \subseteq Ancestors[Parent[b]]  BY Zenon, <3>1, AncestryAssumption
    <3>. QED  BY Zenon, <2>1, <2>3, <3>2
  <2>. QED  BY Zenon, <1>1, <2>2, <2>3, <2>4 DEF Clean, Failed, n
<1>4. CASE b \notin Active(c)
  <2>1. disconnected = {}
    BY Zenon, <1>2, <1>4, AncestryAssumption DEF Active
  <2>2. Active(n) = Active(c)  BY Zenon, <1>1, <1>4 DEF Active
  <2>. QED  BY Zenon, <1>1, <1>4, <2>1, <2>2 DEF Clean, Failed, n
<1>. QED  BY Zenon, <1>3, <1>4

\* A thread that enters ActivateBestChain while no other one is inside.
LEMMA CleanStart ==
  ASSUME NEW t \in Threads, \A u \in Threads : u = t, mostWork \in [Threads -> Blocks \cup {NoBlock}],
         NEW n, StartActivate(t, n), Clean(n)
  PROVE  CleanInv'
BY Zenon DEF StartActivate, CleanInv, TargetClean

\* An iteration of the only thread keeps the active chain unmarked.
LEMMA CleanActivate ==
  ASSUME NEW t \in Threads, \A u \in Threads : u = t, ChainInv, CleanInv, ActivateBestChain(t)
  PROVE  CleanInv'
<1>1. PICK c, m :
        /\ \/ c = chain /\ m = mostWork[t] /\ m # NoBlock
           \/ c = PruneFailedCandidates(chain) /\ m = BestCandidate(chain)
        /\ Sound(c)
        /\ \/ chain' = c /\ mostWork' = [mostWork EXCEPT ![t] = NoBlock]
           \/ /\ m \in Linked(c) /\ m # NoBlock /\ chain' = ActivateBestChainStep(c, m)
              /\ mostWork' = [mostWork EXCEPT ![t] = KeptMostWork(c, m)]
              /\ pc' = [pc EXCEPT ![t] = IF StepTip(c, m) = m THEN "idle" ELSE @]
  BY ActivateCases
<1>2. Sound(chain) /\ Clean(chain) /\ mostWork \in [Threads -> Blocks \cup {NoBlock}]
  BY Zenon DEF ChainInv, CleanInv, ThreadsTyped
<1>3. Clean(c) /\ (m # NoBlock => Path(c, m) \cap Failed(c) = {})
  <2>1. CASE c = chain /\ m = mostWork[t] /\ m # NoBlock
    BY Zenon, <1>2, <2>1 DEF CleanInv, TargetClean
  <2>2. CASE c = PruneFailedCandidates(chain) /\ m = BestCandidate(chain)
    <3>1. m # NoBlock => m \in Usable(chain)  BY Zenon, <1>2, <2>2, BestCandidateUsable
    <3>. QED  BY Zenon, <1>2, <2>2, <3>1, CleanAfterPrune, CleanAfterPruneOnly
  <2>. QED  BY Zenon, <1>1, <2>1, <2>2
<1>4. CASE chain' = c /\ mostWork' = [mostWork EXCEPT ![t] = NoBlock]
  BY Zenon, <1>2, <1>3, <1>4 DEF CleanInv, TargetClean
<1>5. CASE /\ m \in Linked(c) /\ m # NoBlock /\ chain' = ActivateBestChainStep(c, m)
           /\ mostWork' = [mostWork EXCEPT ![t] = KeptMostWork(c, m)]
           /\ pc' = [pc EXCEPT ![t] = IF StepTip(c, m) = m THEN "idle" ELSE @]
  <2>1. Clean(chain') /\ (KeptMostWork(c, m) # NoBlock =>
                            Path(chain', KeptMostWork(c, m)) \cap Failed(chain') = {})
    BY Zenon, <1>1, <1>3, <1>5, CleanAfterStep
  <2>2. mostWork'[t] = KeptMostWork(c, m)
    BY Zenon, <1>2, <1>5
  <2>3. KeptMostWork(c, m) # NoBlock => pc'[t] = "activate"
    <3>1. KeptMostWork(c, m) # NoBlock => StepTip(c, m) # m  BY Zenon DEF KeptMostWork
    <3>2. pc[t] = "activate" /\ pc \in [Threads -> {"idle", "activate"}]
      BY Zenon DEF ActivateBestChain, ChainInv, ThreadsTyped
    <3>. QED  BY Zenon, <1>5, <3>1, <3>2
  <2>4. TargetClean'
    <3>. SUFFICES ASSUME NEW u \in Threads, mostWork'[u] # NoBlock
                  PROVE  pc'[u] = "activate" /\ Path(chain', mostWork'[u]) \cap Failed(chain') = {}
      BY Zenon DEF TargetClean
    <3>1. u = t  OBVIOUS
    <3>. QED  BY Zenon, <2>1, <2>2, <2>3, <3>1
  <2>. QED  BY Zenon, <2>1, <2>4 DEF CleanInv
<1>. QED  BY Zenon, <1>1, <1>4, <1>5

\* So does every step.
LEMMA CleanNext ==
  ASSUME \A t, u \in Threads : t = u, ChainInv, CleanInv, [ChainNext]_chainVars
  PROVE  CleanInv'
<1>0. /\ Sound(chain) /\ chain \in ChainType /\ Clean(chain)
      /\ mostWork \in [Threads -> Blocks \cup {NoBlock}]
  BY Zenon DEF ChainInv, CleanInv, ThreadsTyped, Sound
<1>1. ASSUME NEW t \in Threads, NEW b \in Blocks, ProcessNewBlockHeaders(t, b)
      PROVE  CleanInv'
  <2>1. chain' = AddToBlockIndex(chain, b) /\ UNCHANGED <<pc, mostWork>>
    BY Zenon, <1>1 DEF ProcessNewBlockHeaders
  <2>2. Failed(chain') = Failed(chain) /\ Active(chain') = Active(chain)
    BY Zenon, <1>0, <2>1, AddSound DEF Active
  <2>. QED  BY Zenon, <2>1, <2>2 DEF CleanInv, Clean, TargetClean, Path
<1>2. ASSUME NEW t \in Threads, NEW b \in Blocks, NEW requested \in BOOLEAN,
             ProcessNewBlock(t, b, requested)
      PROVE  CleanInv'
  <2>. DEFINE c == AddToBlockIndex(chain, b)
  <2>1. Sound(c) /\ b \in c.headers /\ Failed(c) = Failed(chain) /\ c.tip = chain.tip
    BY ONLY <1>0, b \in Blocks, AddSound
  <2>2. pc[t] = "idle" /\
        \/ StartActivate(t, c)
        \/ /\ b \notin c.data /\ chain' = [c EXCEPT !.failedValid = @ \cup {b}]
           /\ UNCHANGED <<pc, mostWork>>
        \/ \E n \in ReceivedBlockTransactions(c, b) : StartActivate(t, n)
    BY Zenon, <1>2 DEF ProcessNewBlock, Ignored
  <2>. HIDE DEF c
  <2>3. Clean(c)  BY Zenon, <1>0, <2>1 DEF Clean, Active
  <2>4. CASE StartActivate(t, c)
    BY Zenon, <1>0, <2>3, <2>4, CleanStart
  <2>5. CASE /\ b \notin c.data /\ chain' = [c EXCEPT !.failedValid = @ \cup {b}]
             /\ UNCHANGED <<pc, mostWork>>
    <3>1. Failed(chain') = Failed(c) \cup {b} /\ Active(chain') = Active(c)
      BY <2>1, <2>5, MarkSound DEF Failed, Active
    <3>2. b \notin Active(c)
      BY Zenon, <2>1, <2>5 DEF Active, Sound
    <3>3. mostWork[t] = NoBlock
      BY Zenon, <2>2 DEF CleanInv, TargetClean
    <3>. QED  BY Zenon, <2>3, <2>5, <3>1, <3>2, <3>3 DEF CleanInv, Clean, TargetClean
  <2>6. ASSUME NEW n \in ReceivedBlockTransactions(c, b), StartActivate(t, n)
        PROVE  CleanInv'
    <3>1. n.failedValid = c.failedValid /\ n.failedChild = c.failedChild /\ n.tip = c.tip
      BY Zenon, <2>1 DEF ReceivedBlockTransactions, ChainType, Sound
    <3>2. Clean(n)  BY Zenon, <2>3, <3>1 DEF Clean, Active, Failed
    <3>. QED  BY Zenon, <1>0, <2>6, <3>2, CleanStart
  <2>. QED  BY Zenon, <2>2, <2>4, <2>5, <2>6
<1>3. ASSUME NEW t \in Threads, NEW b \in Blocks, invalidateblock(t, b)
      PROVE  CleanInv'
  BY Zenon, <1>0, <1>3, CleanAfterInvalidate, CleanStart DEF invalidateblock
<1>4. ASSUME NEW t \in Threads, NEW b \in Blocks, reconsiderblock(t, b)
      PROVE  CleanInv'
  <2>1. b \in chain.headers /\ StartActivate(t, ResetBlockFailureFlags(chain, b))
    BY Zenon, <1>4 DEF reconsiderblock
  <2>2. Clean(ResetBlockFailureFlags(chain, b))
    BY Zenon, <1>0, <2>1, ResetFields DEF Clean, Active
  <2>. QED  BY Zenon, <1>0, <2>1, <2>2, CleanStart
<1>5. CASE UNCHANGED chainVars
  BY Zenon, <1>5 DEF chainVars, CleanInv, TargetClean
<1>6. ASSUME NEW t \in Threads, Abort(t) PROVE CleanInv'
  BY Zenon, <1>6 DEF Abort, CleanInv, TargetClean
<1>. QED  BY Zenon, <1>1, <1>2, <1>3, <1>4, <1>5, <1>6, CleanActivate DEF ChainNext, ChainStep

\* The inductive invariant of a single thread: no mark on the active chain or
\* on the path to the target it keeps.
THEOREM CleanInvariance ==
  ASSUME \A t, u \in Threads : t = u
  PROVE  ChainSpec => []CleanInv
<1>1. ChainInit => CleanInv
  BY DEF ChainInit, GenesisChain, CleanInv, Clean, Failed, TargetClean
<1>2. ChainInv /\ CleanInv /\ [ChainNext]_chainVars => CleanInv'
  BY Zenon, CleanNext
<1>. QED  BY <1>1, <1>2, ChainInvariance, PTL DEF ChainSpec

\* When one thread at a time is inside ActivateBestChain, a block that is marked
\* invalid is never part of the active chain: for every tree, every order of
\* arrival and any number of invalidateblock and reconsiderblock calls.
THEOREM ActiveIsValid ==
  ASSUME \A t, u \in Threads : t = u
  PROVE  ChainSpec => []ActiveChainIsValid
<1>1. CleanInv => ActiveChainIsValid
  BY Zenon DEF CleanInv, Clean, ActiveChainIsValid
<1>. QED  BY <1>1, CleanInvariance, PTL

-----------------------------------------------------------------------------
(* What the operators leave alone, and what they do to the candidates.     *)

LEMMA AddFields ==
  ASSUME NEW c, Sound(c), NEW b \in Blocks
  PROVE  LET n == AddToBlockIndex(c, b)
         IN  /\ n.data = c.data /\ n.seq = c.seq /\ n.unlinked = c.unlinked
             /\ n.candidates = c.candidates /\ n.tip = c.tip
             /\ n.failedValid = c.failedValid /\ n.failedChild = c.failedChild
<1>1. c \in ChainType  BY Zenon DEF Sound
<1>. QED  BY Zenon, <1>1 DEF AddToBlockIndex, ChainType

LEMMA MarkFields ==
  ASSUME NEW c, Sound(c), NEW b \in Blocks, NEW n,
         n = [c EXCEPT !.failedValid = @ \cup {b}]
  PROVE  /\ n.data = c.data /\ n.seq = c.seq /\ n.unlinked = c.unlinked
         /\ n.candidates = c.candidates /\ n.tip = c.tip
<1>1. c \in ChainType  BY Zenon DEF Sound
<1>. QED  BY Zenon, <1>1 DEF ChainType

\* InvalidateBlock keeps no candidate it has disconnected, and adds every
\* unmarked block that is no worse than the new tip.
LEMMA InvalidateCandidates ==
  ASSUME NEW c, Sound(c), NEW b \in c.headers \ {Genesis}
  PROVE  LET n == InvalidateBlock(c, b)
         IN  /\ n.data = c.data /\ n.seq = c.seq /\ n.unlinked = c.unlinked
             /\ \A d \in Linked(c) : d \notin Failed(n) /\ ~Worse(c, d, n.tip)
                                       => d \in n.candidates
             /\ \A d \in n.candidates : d \in c.candidates \/ ~Worse(c, d, n.tip)
<1>. DEFINE disconnected == {d \in Active(c) : b \in Ancestors[d]}
            m == [c EXCEPT !.failedValid = @ \cup {b},
                           !.failedChild = @ \cup disconnected,
                           !.candidates = @ \ ({b} \cup disconnected),
                           !.tip = IF b \in Active(c) THEN Parent[b] ELSE @]
            added == {d \in Linked(m) : d \notin Failed(m) /\ ~Worse(m, d, m.tip)}
            n == InvalidateBlock(c, b)
<1>1. n = [m EXCEPT !.candidates = @ \cup added]
  BY Zenon DEF InvalidateBlock
<1>2. c \in ChainType  BY Zenon DEF Sound
<1>. HIDE DEF disconnected
<1>3. /\ m.data = c.data /\ m.seq = c.seq /\ m.unlinked = c.unlinked
      /\ m.candidates = c.candidates \ ({b} \cup disconnected)
      /\ DOMAIN m = DOMAIN c
  BY ONLY Zenon, <1>2 DEF ChainType
<1>4. DOMAIN m = {"headers", "data", "seq", "failedValid", "failedChild", "candidates",
                  "unlinked", "tip"}
  BY ONLY Zenon, <1>2, <1>3 DEF ChainType
<1>. HIDE DEF m
<1>5. Linked(m) = Linked(c) /\ added = {d \in Linked(c) : d \notin Failed(m) /\ ~Worse(c, d, m.tip)}
  BY Zenon, <1>3 DEF Linked, Worse
<1>. HIDE DEF added
<1>6. /\ n.data = m.data /\ n.seq = m.seq /\ n.unlinked = m.unlinked /\ n.tip = m.tip
      /\ n.failedValid = m.failedValid /\ n.failedChild = m.failedChild
      /\ n.candidates = m.candidates \cup added
  BY ONLY Zenon, <1>1, <1>4
<1>. HIDE DEF n
<1>7. Failed(n) = Failed(m)  BY Zenon, <1>6 DEF Failed
<1>. QED  BY Zenon, <1>3, <1>5, <1>6, <1>7 DEF n

\* ResetBlockFailureFlags adds candidates that are better than the tip.
LEMMA ResetCandidates ==
  ASSUME NEW c, Sound(c), NEW b \in c.headers
  PROVE  LET n == ResetBlockFailureFlags(c, b)
         IN  /\ n.data = c.data /\ n.seq = c.seq /\ n.unlinked = c.unlinked
             /\ \A d \in n.candidates : d \in c.candidates \/ Worse(c, c.tip, d)
<1>. DEFINE descendants == {d \in c.headers : b \in Ancestors[d]}
            cleared == descendants \cup Ancestors[b]
            added == {d \in descendants \cap Failed(c) \cap Linked(c) : Worse(c, c.tip, d)}
            n == ResetBlockFailureFlags(c, b)
<1>1. n = [c EXCEPT !.failedValid = @ \ cleared, !.failedChild = @ \ cleared,
                    !.candidates = @ \cup added]
  BY Zenon DEF ResetBlockFailureFlags
<1>2. c \in ChainType /\ \A d \in added : Worse(c, c.tip, d)
  BY Zenon DEF Sound
<1>. HIDE DEF added, cleared, n
<1>3. n.data = c.data /\ n.seq = c.seq /\ n.unlinked = c.unlinked
      /\ n.candidates = c.candidates \cup added
  BY ONLY Zenon, <1>1, <1>2 DEF ChainType
<1>. QED  BY Zenon, <1>2, <1>3 DEF n

\* FindMostWorkChain removes only candidates at or above a marked block.
LEMMA PruneFailedCandidatesOnly ==
  ASSUME NEW c, Sound(c)
  PROVE  LET n == PruneFailedCandidates(c)
         IN  /\ n.data = c.data /\ n.seq = c.seq /\ n.unlinked = c.unlinked
             /\ n.candidates \subseteq c.candidates
             /\ \A d \in c.candidates \ n.candidates :
                  \E x \in Failed(c) : x \in Ancestors[d] /\ x \notin Active(c)
             /\ Failed(c) \subseteq Failed(n)
             /\ \A d \in Failed(n) \ Failed(c) :
                  /\ d \in Linked(c) /\ d \notin Active(c)
                  /\ \E x \in Failed(c) : x \in Ancestors[d] /\ x \notin Active(c)
<1>. DEFINE marked == UNION {AboveFailure(c, d) : d \in GivenUp(c)}
            topmost == UNION {TopmostFailure(c, d) : d \in GivenUp(c)}
            n == PruneFailedCandidates(c)
<1>1. n = [c EXCEPT !.failedChild = @ \cup marked, !.candidates = @ \ (marked \cup topmost)]
  BY Zenon DEF PruneFailedCandidates
<1>2. \A e \in marked : /\ e \in Linked(c) /\ e \notin Active(c)
                        /\ \E x \in Failed(c) : x \in Ancestors[e] /\ x \notin Active(c)
  <2>. SUFFICES ASSUME NEW d \in GivenUp(c), NEW e \in AboveFailure(c, d)
                PROVE  /\ e \in Linked(c) /\ e \notin Active(c)
                       /\ \E x \in Failed(c) : x \in Ancestors[e] /\ x \notin Active(c)
    OBVIOUS
  <2>1. d \in Linked(c) /\ Path(c, d) \cap Failed(c) # {}
    BY Zenon DEF GivenUp, Usable, Sound
  <2>2. e \in Path(c, d) /\ Path(c, d) \cap Failed(c) \subseteq Ancestors[e]
    BY Zenon DEF AboveFailure
  <2>. QED  BY Zenon, <2>1, <2>2 DEF Path, Sound
<1>3. \A e \in topmost : e \in Failed(c) /\ e \in Ancestors[e] /\ e \notin Active(c)
  <2>. SUFFICES ASSUME NEW d \in GivenUp(c), NEW e \in TopmostFailure(c, d)
                PROVE  e \in Failed(c) /\ e \in Ancestors[e] /\ e \notin Active(c)
    OBVIOUS
  <2>1. d \in Blocks  BY Zenon DEF GivenUp, Sound, Linked
  <2>2. e \in Path(c, d) \cap Failed(c)  BY Zenon DEF TopmostFailure
  <2>. QED  BY Zenon, <2>1, <2>2, AncestorsFacts DEF Path
<1>4. c \in ChainType  BY Zenon DEF Sound
<1>. HIDE DEF marked, topmost, n
<1>5. /\ n.data = c.data /\ n.seq = c.seq /\ n.unlinked = c.unlinked
      /\ n.failedValid = c.failedValid /\ n.failedChild = c.failedChild \cup marked
      /\ n.candidates = c.candidates \ (marked \cup topmost)
  BY ONLY Zenon, <1>1, <1>4 DEF ChainType
<1>6. Failed(n) = Failed(c) \cup marked  BY Zenon, <1>5 DEF Failed
<1>. QED  BY Zenon, <1>2, <1>3, <1>5, <1>6 DEF n

\* A step prunes the candidates only if it connects a block.
LEMMA StepCandidates ==
  ASSUME NEW c, Sound(c), NEW m \in Linked(c)
  PROVE  LET n == ActivateBestChainStep(c, m)
         IN  /\ n.data = c.data /\ n.seq = c.seq /\ n.unlinked = c.unlinked
             /\ n.candidates \subseteq c.candidates
             /\ n.tip # Fork(c, m) => \A d \in n.candidates : ~Worse(c, d, n.tip)
             /\ \A d \in c.candidates \ n.candidates :
                  d \in StepFailure(c, m) \/ (n.tip # Fork(c, m) /\ Worse(c, d, n.tip))
<1>. DEFINE t == StepTip(c, m)
            kept == IF t = Fork(c, m) THEN c.candidates ELSE PruneBlockIndexCandidates(c, t)
            bad == StepFailure(c, m)
            n == ActivateBestChainStep(c, m)
<1>1. n = [c EXCEPT !.tip = t, !.candidates = kept \ bad, !.failedValid = @ \cup bad]
  BY Zenon DEF ActivateBestChainStep
<1>2. /\ kept \subseteq c.candidates
      /\ t # Fork(c, m) => \A d \in kept : ~Worse(c, d, t)
      /\ \A d \in c.candidates \ kept : t # Fork(c, m) /\ Worse(c, d, t)
  BY Zenon DEF PruneBlockIndexCandidates
<1>3. c \in ChainType  BY Zenon DEF Sound
<1>. HIDE DEF t, kept, bad, n
<1>4. n.data = c.data /\ n.seq = c.seq /\ n.unlinked = c.unlinked /\ n.tip = t
      /\ n.candidates = kept \ bad
  BY ONLY Zenon, <1>1, <1>3 DEF ChainType
<1>. QED  BY Zenon, <1>2, <1>4 DEF n, bad

\* ReceivedBlockTransactions links b and what waited for it, with sequence
\* numbers above all earlier ones.
LEMMA ReceivedLinked ==
  ASSUME NEW c, Sound(c), NEW b \in c.headers \ c.data, CanLink(c, b),
         NEW n \in ReceivedBlockTransactions(c, b), NEW L, L = NewlyLinked(c, b)
  PROVE  /\ n.data = c.data \cup {b} /\ n.tip = c.tip
         /\ L \subseteq {b} \cup c.unlinked /\ L \subseteq Blocks
         /\ Linked(n) = Linked(c) \cup L /\ n.unlinked = c.unlinked \ L
         /\ n.candidates = c.candidates \cup {d \in L : Work[d] > Work[c.tip]}
         /\ \A d \in Blocks \ L : n.seq[d] = c.seq[d]
         /\ \A d \in L : n.seq[d] \in (Cardinality(Linked(c)) + 1)
                                        ..(Cardinality(Linked(c)) + Cardinality(L))
<1>. DEFINE base == Cardinality(Linked(c))
<1>1. c \in ChainType /\ c.headers \subseteq Blocks  BY Zenon DEF Sound, ChainType
<1>2. L \subseteq {b} \cup c.unlinked /\ L \subseteq Blocks
  BY Zenon, <1>1 DEF NewlyLinked, ChainType
<1>3. IsFiniteSet(L) /\ IsFiniteSet(Linked(c))
  <2>1. IsFiniteSet(Blocks)  BY Zenon, TreeAssumption
  <2>2. Linked(c) \subseteq Blocks  BY Zenon DEF Linked
  <2>. QED  BY Zenon, <1>2, <2>1, <2>2, FS_Subset
<1>4. base \in Nat /\ Cardinality(L) \in Nat
  BY Zenon, <1>3, FS_CardinalityType
<1>5. n \in {[c EXCEPT !.data = @ \cup {b},
                       !.seq = [d \in Blocks |-> IF d \in L THEN base + f[d] ELSE @[d]],
                       !.unlinked = @ \ L,
                       !.candidates = @ \cup {d \in L : Work[d] > Work[c.tip]}] :
               f \in LinkOrders(L)}
  <2>. DEFINE Records(S) ==
                {[c EXCEPT !.data = @ \cup {b},
                           !.seq = [d \in Blocks |-> IF d \in S THEN base + f[d] ELSE @[d]],
                           !.unlinked = @ \ S,
                           !.candidates = @ \cup {d \in S : Work[d] > Work[c.tip]}] :
                   f \in LinkOrders(S)}
  <2>1. n \in Records(NewlyLinked(c, b))
    BY ONLY Zenon, CanLink(c, b), n \in ReceivedBlockTransactions(c, b) DEF ReceivedBlockTransactions
  <2>2. n \in Records(L)
    <3>. HIDE DEF Records
    <3>. QED  BY ONLY Zenon, <2>1, L = NewlyLinked(c, b)
  <2>. QED  BY ONLY <2>2, Zenon
<1>6. \A f \in LinkOrders(L) : f \in [L -> 1..Cardinality(L)]
  BY Zenon DEF LinkOrders
<1>. HIDE DEF base
<1>7. PICK f \in LinkOrders(L) :
        n = [c EXCEPT !.data = @ \cup {b},
                      !.seq = [d \in Blocks |-> IF d \in L THEN base + f[d] ELSE @[d]],
                      !.unlinked = @ \ L,
                      !.candidates = @ \cup {d \in L : Work[d] > Work[c.tip]}]
  BY ONLY <1>5, Zenon
<1>8. /\ n.data = c.data \cup {b} /\ n.tip = c.tip /\ n.unlinked = c.unlinked \ L
      /\ n.candidates = c.candidates \cup {d \in L : Work[d] > Work[c.tip]}
      /\ n.seq = [d \in Blocks |-> IF d \in L THEN base + f[d] ELSE c.seq[d]]
  BY ONLY Zenon, <1>7, <1>1 DEF ChainType
<1>9. \A d \in L : f[d] \in 1..Cardinality(L)
  BY Zenon, <1>6, <1>7
<1>10. /\ \A d \in Blocks \ L : n.seq[d] = c.seq[d]
       /\ \A d \in L : n.seq[d] \in (base + 1)..(base + Cardinality(L))
  BY <1>2, <1>4, <1>8, <1>9
<1>11. Linked(n) = Linked(c) \cup L
  <2>1. \A d \in L : n.seq[d] # 0  BY <1>4, <1>10
  <2>. QED  BY Zenon, <1>2, <1>10, <2>1 DEF Linked
<1>. QED  BY Zenon, <1>2, <1>8, <1>10, <1>11 DEF base

\* Or it leaves b waiting.
LEMMA ReceivedQueued ==
  ASSUME NEW c, Sound(c), NEW b \in c.headers \ c.data, ~CanLink(c, b),
         NEW n \in ReceivedBlockTransactions(c, b)
  PROVE  /\ n.data = c.data \cup {b} /\ n.tip = c.tip
         /\ n.seq = c.seq /\ n.candidates = c.candidates
         /\ Waits(c, b) => n.unlinked = c.unlinked \cup {b}
         /\ ~Waits(c, b) => n.unlinked = c.unlinked
<1>1. c \in ChainType /\ c.headers \subseteq Blocks  BY Zenon DEF Sound, ChainType
<1>2. n = [c EXCEPT !.data = @ \cup {b},
                    !.unlinked = IF Waits(c, b) THEN @ \cup {b} ELSE @]
  BY Zenon DEF ReceivedBlockTransactions
<1>. QED  BY ONLY Zenon, <1>1, <1>2 DEF ChainType

\* A linked block does not wait.
LEMMA ReceivedWaiting ==
  ASSUME NEW c, Sound(c), NEW b \in c.headers \ c.data,
         NEW n \in ReceivedBlockTransactions(c, b)
  PROVE  /\ n.data = c.data \cup {b}
         /\ c.unlinked \cap Linked(c) = {} => n.unlinked \cap Linked(n) = {}
<1>1. b \notin Linked(c)  BY Zenon DEF Sound
<1>2. CASE CanLink(c, b)
  BY <1>2, ReceivedLinked
<1>3. CASE ~CanLink(c, b)
  <2>1. /\ n.data = c.data \cup {b} /\ n.seq = c.seq
        /\ n.unlinked \subseteq c.unlinked \cup {b}
    BY <1>3, ReceivedQueued
  <2>2. Linked(n) = Linked(c)  BY Zenon, <2>1 DEF Linked
  <2>. QED  BY Zenon, <1>1, <2>1, <2>2
<1>. QED  BY Zenon, <1>2, <1>3

-----------------------------------------------------------------------------
(* Linking.  X is a set of blocks that are excused, closed upwards: those   *)
(* above a block ContextualCheckBlock rejects, or above a marked one.       *)

ClosedUpwards(X) == \A b \in Blocks : \A x \in Ancestors[b] \cap X : b \in X

\* Outside X a block is linked once all its ancestors are there, and waits
\* until then.
LinkedOrWaiting(c, X) ==
  \A b \in Blocks \ X : /\ Ancestors[b] \subseteq c.data => b \in Linked(c)
                        /\ b \in c.data => b \in Linked(c) \cup c.unlinked

\* The arrival of a block, in any order, keeps it so: the blocks above b that
\* are complete now were all waiting, so the queue reaches them.
LEMMA ReceivedLinks ==
  ASSUME NEW c, Sound(c), NEW X, ClosedUpwards(X), LinkedOrWaiting(c, X),
         NEW b \in c.headers \ c.data,
         Parent[b] \in Failed(c) \ Linked(c) => b \in X,
         NEW n \in ReceivedBlockTransactions(c, b)
  PROVE  LinkedOrWaiting(n, X)
<1>. DEFINE L == NewlyLinked(c, b)
<1>1. /\ n.data = c.data \cup {b}
      /\ CanLink(c, b) => Linked(n) = Linked(c) \cup L /\ n.unlinked = c.unlinked \ L
      /\ ~CanLink(c, b) => /\ n.seq = c.seq /\ c.unlinked \subseteq n.unlinked
                           /\ Waits(c, b) => b \in n.unlinked
  <2>1. CASE CanLink(c, b)
    <3>. HIDE DEF L
    <3>. QED  BY <2>1, ReceivedLinked DEF L
  <2>2. CASE ~CanLink(c, b)
    BY <2>2, ReceivedQueued
  <2>. QED  BY Zenon, <2>1, <2>2
<1>2. b \in Blocks \ {Genesis} /\ Linked(c) \subseteq c.data
      /\ \A d \in Linked(c) : Ancestors[d] \subseteq c.data
  <2>1. c.tip \in Blocks /\ c.headers \subseteq Blocks  BY Zenon DEF Sound, ChainType
  <2>2. Genesis \in Linked(c)  BY Zenon, <2>1, AncestryAssumption DEF Sound
  <2>. QED  BY Zenon, <2>1, <2>2 DEF Sound
<1>3. Ancestors[b] = {b} \cup Ancestors[Parent[b]] /\ Parent[b] \in Blocks
  BY Zenon, <1>2, TreeAssumption
<1>4. ASSUME NEW d \in Blocks \ X, Ancestors[d] \subseteq c.data \cup {b}, b \in Ancestors[d]
      PROVE  CanLink(c, b) /\ d \in L
  <2>1. Ancestors[b] \subseteq Ancestors[d]  BY Zenon, <1>2, <1>4, AncestryAssumption
  <2>2. \A e \in Ancestors[d] : e \in Blocks \ X
    BY Zenon, <1>4, AncestorsFacts DEF ClosedUpwards
  <2>3. b \notin Ancestors[Parent[b]]  BY Zenon, <1>2, TreeAssumption
  <2>4. Parent[b] \in Ancestors[d] /\ Ancestors[Parent[b]] \subseteq c.data
    BY Zenon, <1>2, <1>3, <1>4, <2>1, <2>3, AncestorsFacts
  <2>5. CanLink(c, b)
    BY Zenon, <2>2, <2>4 DEF CanLink, LinkedOrWaiting
  <2>6. ASSUME NEW e \in Ancestors[d] \ Ancestors[b] PROVE e \in c.unlinked
    <3>1. e \in Blocks \ X /\ e \in c.data /\ e \in Blocks
      BY Zenon, <1>2, <1>4, <2>2, <2>6, AncestorsFacts
    <3>2. b \in Ancestors[e]  BY Zenon, <1>4, <2>6, AncestryAssumption
    <3>3. e \notin Linked(c)  BY Zenon, <1>2, <3>2
    <3>. QED  BY Zenon, <3>1, <3>3 DEF LinkedOrWaiting
  <2>7. d \in {b} \cup c.unlinked
    <3>1. CASE d \in Ancestors[b]
      <4>1. d = b \/ d \in Ancestors[Parent[b]]  BY Zenon, <1>3, <3>1
      <4>2. d \in Ancestors[Parent[b]] => Ancestors[d] \subseteq Ancestors[Parent[b]]
        BY Zenon, <1>3, AncestryAssumption
      <4>. QED  BY Zenon, <1>4, <2>3, <4>1, <4>2
    <3>2. CASE d \notin Ancestors[b]
      BY Zenon, <1>4, <2>6, <3>2, AncestorsFacts
    <3>. QED  BY Zenon, <3>1, <3>2
  <2>. QED  BY Zenon, <1>4, <2>5, <2>6, <2>7 DEF NewlyLinked
<1>5. Linked(c) \subseteq Linked(n)
  BY Zenon, <1>1 DEF Linked
<1>. SUFFICES ASSUME NEW d \in Blocks \ X
              PROVE  /\ Ancestors[d] \subseteq n.data => d \in Linked(n)
                     /\ d \in n.data => d \in Linked(n) \cup n.unlinked
  BY Zenon DEF LinkedOrWaiting
<1>6. Ancestors[d] \subseteq n.data => d \in Linked(n)
  <2>. HIDE DEF L
  <2>1. CASE b \in Ancestors[d]  BY Zenon, <1>1, <1>4, <2>1
  <2>2. CASE b \notin Ancestors[d]  BY Zenon, <1>1, <1>5, <2>2 DEF LinkedOrWaiting
  <2>. QED  BY Zenon, <2>1, <2>2
<1>7. d \in n.data => d \in Linked(n) \cup n.unlinked
  <2>1. CASE d \in c.data
    BY Zenon, <1>1, <1>5, <2>1 DEF LinkedOrWaiting
  <2>2. CASE d = b
    <3>1. CASE CanLink(c, b)
      <4>1. b \in L  BY Zenon, <1>2, AncestorsFacts DEF NewlyLinked
      <4>. QED  BY Zenon, <1>1, <2>2, <3>1, <4>1
    <3>2. CASE ~CanLink(c, b)
      <4>1. Waits(c, b)  BY Zenon, <2>2, <3>2 DEF Waits, CanLink
      <4>. QED  BY Zenon, <1>1, <2>2, <3>2, <4>1
    <3>. QED  BY Zenon, <3>1, <3>2
  <2>. QED  BY Zenon, <1>1, <2>1, <2>2
<1>. QED  BY Zenon, <1>6, <1>7

\* What a step does to the received and the linked blocks: nothing, or it
\* receives one.
LEMMA StepKinds ==
  ASSUME ChainInv, [ChainNext]_chainVars
  PROVE  \/ /\ chain'.data = chain.data /\ chain'.seq = chain.seq
            /\ chain'.unlinked = chain.unlinked
            /\ UNCHANGED reconsidered => chain.failedValid \subseteq chain'.failedValid
            /\ UNCHANGED invalidated =>
                 Failed(chain') \subseteq Failed(chain) \cup Linked(chain) \cup BadBlocks
         \/ \E c, b : /\ Sound(c) /\ c.data = chain.data /\ c.seq = chain.seq
                      /\ c.unlinked = chain.unlinked
                      /\ c.failedValid = chain.failedValid /\ c.failedChild = chain.failedChild
                      /\ b \in c.headers \ c.data /\ b \notin BadBlocks
                      /\ chain' \in ReceivedBlockTransactions(c, b)
                      /\ UNCHANGED <<invalidated, reconsidered>>
<1>. DEFINE Quiet == /\ chain'.data = chain.data /\ chain'.seq = chain.seq
                     /\ chain'.unlinked = chain.unlinked
                     /\ UNCHANGED reconsidered => chain.failedValid \subseteq chain'.failedValid
                     /\ UNCHANGED invalidated =>
                          Failed(chain') \subseteq Failed(chain) \cup Linked(chain) \cup BadBlocks
            Arrival(c, b) == /\ Sound(c) /\ c.data = chain.data /\ c.seq = chain.seq
                             /\ c.unlinked = chain.unlinked
                             /\ c.failedValid = chain.failedValid
                             /\ c.failedChild = chain.failedChild
                             /\ b \in c.headers \ c.data /\ b \notin BadBlocks
                             /\ chain' \in ReceivedBlockTransactions(c, b)
                             /\ UNCHANGED <<invalidated, reconsidered>>
<1>. SUFFICES Quiet \/ \E c, b : Arrival(c, b)
  OBVIOUS
<1>0. Sound(chain) /\ chain.headers \subseteq Blocks /\ invalidated \in Nat /\ reconsidered \in Nat
  BY TreeAssumption DEF ChainInv, Sound, ChainType, ThreadsTyped
<1>1. ASSUME NEW t \in Threads, NEW b \in Blocks, ProcessNewBlockHeaders(t, b)
      PROVE  Quiet
  BY Zenon, <1>0, <1>1, AddFields DEF ProcessNewBlockHeaders, Failed
<1>2. ASSUME NEW t \in Threads, NEW b \in Blocks, NEW requested \in BOOLEAN,
             ProcessNewBlock(t, b, requested)
      PROVE  Quiet \/ \E c, d : Arrival(c, d)
  <2>. DEFINE c == AddToBlockIndex(chain, b)
  <2>1. /\ Sound(c) /\ b \in c.headers /\ c.data = chain.data /\ c.seq = chain.seq
        /\ c.unlinked = chain.unlinked
        /\ c.failedValid = chain.failedValid /\ c.failedChild = chain.failedChild
    BY ONLY Zenon, <1>0, b \in Blocks, AddSound, AddFields
  <2>2. /\ \/ chain' = c
           \/ b \in BadBlocks /\ chain' = [c EXCEPT !.failedValid = @ \cup {b}]
           \/ /\ b \notin c.data /\ b \notin BadBlocks
              /\ chain' \in ReceivedBlockTransactions(c, b)
        /\ UNCHANGED <<invalidated, reconsidered>>
    BY Zenon, <1>2 DEF ProcessNewBlock, StartActivate, Ignored
  <2>. HIDE DEF c
  <2>3. CASE chain' = c
    BY Zenon, <2>1, <2>3 DEF Failed
  <2>4. CASE b \in BadBlocks /\ chain' = [c EXCEPT !.failedValid = @ \cup {b}]
    <3>1. /\ chain'.data = c.data /\ chain'.seq = c.seq /\ chain'.unlinked = c.unlinked
          /\ chain'.failedValid = c.failedValid \cup {b} /\ chain'.failedChild = c.failedChild
      BY <2>1, <2>4, MarkFields, MarkSound
    <3>. QED  BY Zenon, <2>1, <2>4, <3>1 DEF Failed
  <2>5. CASE /\ b \notin c.data /\ b \notin BadBlocks
             /\ chain' \in ReceivedBlockTransactions(c, b)
    <3>1. Arrival(c, b)  BY Zenon, <2>1, <2>2, <2>5
    <3>. HIDE DEF Arrival
    <3>. QED  BY Zenon, <3>1
  <2>. QED  BY Zenon, <2>2, <2>3, <2>4, <2>5
<1>3. ASSUME NEW t \in Threads, NEW b \in Blocks, invalidateblock(t, b)
      PROVE  Quiet
  <2>1. /\ b \in chain.headers \ {Genesis} /\ chain' = InvalidateBlock(chain, b)
        /\ invalidated' = invalidated + 1
    BY Zenon, <1>3 DEF invalidateblock, StartActivate
  <2>. QED  BY <1>0, <2>1, InvalidateFields, InvalidateCandidates
<1>4. ASSUME NEW t \in Threads, NEW b \in Blocks, reconsiderblock(t, b)
      PROVE  Quiet
  <2>1. /\ b \in chain.headers /\ chain' = ResetBlockFailureFlags(chain, b)
        /\ reconsidered' = reconsidered + 1
    BY Zenon, <1>4 DEF reconsiderblock, StartActivate
  <2>. QED  BY <1>0, <2>1, ResetFields, ResetCandidates
<1>5. ASSUME NEW t \in Threads, ActivateBestChain(t) PROVE Quiet
  <2>1. PICK c, m :
          /\ c = chain \/ c = PruneFailedCandidates(chain)
          /\ Sound(c) /\ Linked(c) = Linked(chain)
          /\ chain' = c \/ (m \in Linked(c) /\ chain' = ActivateBestChainStep(c, m))
    BY Zenon, <1>5, ActivateCases
  <2>2. /\ c.data = chain.data /\ c.seq = chain.seq /\ c.unlinked = chain.unlinked
        /\ c.failedValid = chain.failedValid
        /\ Failed(c) \subseteq Failed(chain) \cup Linked(chain)
    BY Zenon, <1>0, <2>1, PruneFailedCandidatesOnly, PruneFailedFields
  <2>3. CASE chain' = c  BY Zenon, <2>2, <2>3
  <2>4. CASE m \in Linked(c) /\ chain' = ActivateBestChainStep(c, m)
    <3>1. /\ chain'.data = c.data /\ chain'.seq = c.seq /\ chain'.unlinked = c.unlinked
          /\ chain'.failedValid = c.failedValid \cup StepFailure(c, m)
          /\ chain'.failedChild = c.failedChild
      BY Zenon, <2>1, <2>4, StepCandidates, StepFields
    <3>2. StepFailure(c, m) \subseteq Linked(c)
      BY Zenon, <2>1, <2>4 DEF StepFailure, Path, Sound
    <3>. QED  BY Zenon, <2>1, <2>2, <3>1, <3>2 DEF Failed
  <2>. QED  BY Zenon, <2>1, <2>3, <2>4
<1>6. CASE UNCHANGED chainVars  BY Zenon, <1>6 DEF chainVars
<1>7. ASSUME NEW t \in Threads, Abort(t) PROVE Quiet
  BY Zenon, <1>7 DEF Abort
<1>. HIDE DEF Quiet, Arrival
<1>. QED  BY Zenon, <1>1, <1>2, <1>3, <1>4, <1>5, <1>6, <1>7 DEF ChainNext, ChainStep

AboveBad == {b \in Blocks : Ancestors[b] \cap BadBlocks # {}}
AboveInvalid(c) == {b \in Blocks : HasInvalidAncestor(c, b)}

\* Before invalidateblock is called, only blocks that were linked, or rejected
\* before they were stored, are marked; before reconsiderblock is called, marks
\* excuse what is above them for good.
LinkInv ==
  /\ chain.unlinked \cap Linked(chain) = {} /\ chain.data \cap BadBlocks = {}
  /\ invalidated = 0 => /\ Failed(chain) \subseteq Linked(chain) \cup BadBlocks
                        /\ LinkedOrWaiting(chain, AboveBad)
  /\ reconsidered = 0 => LinkedOrWaiting(chain, AboveInvalid(chain))

LEMMA ExcusedClosed ==
  ClosedUpwards(AboveBad) /\ \A c : ClosedUpwards(AboveInvalid(c))
<1>1. ClosedUpwards(AboveBad)
  <2>. SUFFICES ASSUME NEW b \in Blocks, NEW x \in Ancestors[b] \cap AboveBad
                PROVE  b \in AboveBad
    BY Zenon DEF ClosedUpwards
  <2>1. Ancestors[x] \subseteq Ancestors[b]  BY Zenon, AncestryAssumption
  <2>. QED  BY Zenon, <2>1 DEF AboveBad
<1>2. \A c : ClosedUpwards(AboveInvalid(c))
  <2>. SUFFICES ASSUME NEW c, NEW b \in Blocks, NEW x \in Ancestors[b] \cap AboveInvalid(c)
                PROVE  b \in AboveInvalid(c)
    BY Zenon DEF ClosedUpwards
  <2>1. HasInvalidAncestor(c, x)  BY Zenon DEF AboveInvalid
  <2>2. HasInvalidAncestor(c, b)  BY Zenon, <2>1, InvalidAncestorUp
  <2>. QED  BY Zenon, <2>2 DEF AboveInvalid
<1>. QED  BY Zenon, <1>1, <1>2

\* invalidated counts the calls of invalidateblock.
LEMMA InvalidatedCounts ==
  ASSUME ChainInv, [ChainNext]_chainVars, invalidated' = 0
  PROVE  invalidated = 0
<1>1. invalidated \in Nat
  BY TreeAssumption DEF ChainInv, ThreadsTyped
<1>2. UNCHANGED invalidated \/ invalidated' = invalidated + 1
  BY Zenon DEF ChainNext, ChainStep, chainVars, ProcessNewBlockHeaders, ProcessNewBlock,
     invalidateblock, reconsiderblock, ActivateBestChain, Abort
<1>. QED  BY <1>1, <1>2

LEMMA LinkNext ==
  ASSUME ChainInv, FailedHasInvalidAncestor, LinkInv, [ChainNext]_chainVars
  PROVE  LinkInv'
<1>0. Sound(chain)  BY Zenon DEF ChainInv
<1>1. CASE /\ chain'.data = chain.data /\ chain'.seq = chain.seq
           /\ chain'.unlinked = chain.unlinked
           /\ UNCHANGED reconsidered => chain.failedValid \subseteq chain'.failedValid
           /\ UNCHANGED invalidated =>
                Failed(chain') \subseteq Failed(chain) \cup Linked(chain) \cup BadBlocks
  <2>1. Linked(chain') = Linked(chain)  BY Zenon, <1>1 DEF Linked
  <2>2. invalidated' = 0 => /\ Failed(chain') \subseteq Linked(chain') \cup BadBlocks
                            /\ LinkedOrWaiting(chain', AboveBad)
    BY Zenon, <1>1, <2>1, InvalidatedCounts DEF LinkInv, LinkedOrWaiting
  <2>3. reconsidered' = 0 => LinkedOrWaiting(chain', AboveInvalid(chain'))
    BY Zenon, <1>1, <2>1, ReconsideredCounts DEF LinkInv, LinkedOrWaiting, AboveInvalid,
       HasInvalidAncestor
  <2>. QED  BY Zenon, <1>1, <2>1, <2>2, <2>3 DEF LinkInv
<1>2. ASSUME NEW c, Sound(c), c.data = chain.data, c.seq = chain.seq,
             c.unlinked = chain.unlinked,
             c.failedValid = chain.failedValid, c.failedChild = chain.failedChild,
             NEW b \in c.headers \ c.data, b \notin BadBlocks,
             chain' \in ReceivedBlockTransactions(c, b),
             UNCHANGED <<invalidated, reconsidered>>
      PROVE  LinkInv'
  <2>1. Linked(c) = Linked(chain) /\ Failed(c) = Failed(chain)
    BY Zenon, <1>2 DEF Linked, Failed
  <2>2. /\ Linked(c) \subseteq Linked(chain') /\ Failed(chain') = Failed(c)
        /\ chain'.failedValid = c.failedValid
    BY Zenon, <1>2, ReceivedSound
  <2>3. b \in Blocks \ {Genesis} /\ Parent[b] \in Ancestors[b] /\ Linked(c) \subseteq c.data
    <3>1. c.tip \in Blocks /\ c.headers \subseteq Blocks  BY Zenon, <1>2 DEF Sound, ChainType
    <3>2. Genesis \in Linked(c)  BY Zenon, <1>2, <3>1, AncestryAssumption DEF Sound
    <3>. QED  BY Zenon, <1>2, <3>1, <3>2, AncestorsFacts DEF Sound
  <2>4. chain'.unlinked \cap Linked(chain') = {} /\ chain'.data \cap BadBlocks = {}
    <3>1. /\ chain'.data = c.data \cup {b}
          /\ c.unlinked \cap Linked(c) = {} => chain'.unlinked \cap Linked(chain') = {}
      BY Zenon, <1>2, ReceivedWaiting
    <3>. QED  BY Zenon, <1>2, <2>1, <3>1 DEF LinkInv
  <2>5. ASSUME invalidated' = 0
        PROVE  /\ Failed(chain') \subseteq Linked(chain') \cup BadBlocks
               /\ LinkedOrWaiting(chain', AboveBad)
    <3>1. /\ Failed(c) \subseteq Linked(c) \cup BadBlocks /\ LinkedOrWaiting(c, AboveBad)
      BY Zenon, <1>2, <2>1, <2>5 DEF LinkInv, LinkedOrWaiting
    <3>2. Parent[b] \in Failed(c) \ Linked(c) => b \in AboveBad
      BY Zenon, <2>3, <3>1 DEF AboveBad
    <3>. QED  BY Zenon, <1>2, <2>2, <3>1, <3>2, ExcusedClosed, ReceivedLinks
  <2>6. ASSUME reconsidered' = 0
        PROVE  LinkedOrWaiting(chain', AboveInvalid(chain'))
    <3>1. AboveInvalid(chain') = AboveInvalid(c) /\ AboveInvalid(c) = AboveInvalid(chain)
      BY Zenon, <1>2, <2>2 DEF AboveInvalid, HasInvalidAncestor
    <3>2. LinkedOrWaiting(c, AboveInvalid(c))
      BY Zenon, <1>2, <2>1, <2>6, <3>1 DEF LinkInv, LinkedOrWaiting
    <3>3. Parent[b] \in Failed(c) => b \in AboveInvalid(c)
      <4>1. Parent[b] \in Failed(c) => HasInvalidAncestor(c, Parent[b])
        BY Zenon, <1>2, <2>1, <2>6 DEF FailedHasInvalidAncestor, HasInvalidAncestor
      <4>. QED  BY Zenon, <2>3, <4>1, InvalidAncestorUp DEF AboveInvalid
    <3>. QED  BY Zenon, <1>2, <3>1, <3>2, <3>3, ExcusedClosed, ReceivedLinks
  <2>. QED  BY Zenon, <2>4, <2>5, <2>6 DEF LinkInv
<1>. QED  BY Zenon, <1>1, <1>2, StepKinds

\* mapBlocksUnlinked does what CheckBlockIndex expects of it.
THEOREM LinkInvariance == ChainSpec => []LinkInv
<1>1. ChainInit => LinkInv
  <2>. SUFFICES ASSUME ChainInit PROVE LinkInv  OBVIOUS
  <2>1. /\ Linked(chain) = {Genesis} /\ chain.data = {Genesis} /\ chain.unlinked = {}
        /\ Failed(chain) = {} /\ Genesis \notin BadBlocks
    BY TreeAssumption DEF ChainInit, GenesisChain, Linked, Failed
  <2>2. \A X : LinkedOrWaiting(chain, X)
    BY Zenon, <2>1, AncestorsFacts DEF LinkedOrWaiting
  <2>. QED  BY Zenon, <2>1, <2>2 DEF LinkInv
<1>2. ChainInv /\ FailedHasInvalidAncestor /\ LinkInv /\ [ChainNext]_chainVars => LinkInv'
  BY Zenon, LinkNext
<1>. QED  BY <1>1, <1>2, ChainInvariance, MarksHaveCause, PTL DEF ChainSpec

\* As long as no block is invalidated by hand, nChainTx is set exactly on the
\* blocks all of whose ancestors were received, in whatever order they came
\* and whichever of them ConnectBlock or ContextualCheckBlock rejected.
THEOREM LinkedIsComplete == ChainSpec => []LinkedIffAllData
<1>1. ChainInv /\ LinkInv => LinkedIffAllData
  <2>. SUFFICES ASSUME ChainInv, LinkInv, invalidated = 0, NEW b \in chain.headers
                PROVE  b \in Linked(chain) <=> Ancestors[b] \subseteq chain.data
    BY Zenon DEF LinkedIffAllData
  <2>1. Sound(chain) /\ b \in Blocks  BY Zenon DEF ChainInv, Sound, ChainType
  <2>2. b \in Linked(chain) => Ancestors[b] \subseteq chain.data  BY Zenon, <2>1 DEF Sound
  <2>3. Ancestors[b] \subseteq chain.data => b \notin AboveBad  BY Zenon DEF LinkInv, AboveBad
  <2>. QED  BY Zenon, <2>1, <2>2, <2>3 DEF LinkInv, LinkedOrWaiting
<1>. QED  BY <1>1, ChainInvariance, LinkInvariance, PTL

\* Until reconsiderblock is called, a received block waits in mapBlocksUnlinked
\* exactly while an ancestor is missing, unless one is invalid: also with
\* several threads and any number of invalidateblock calls.
THEOREM WaitingIsComplete == ChainSpec => []UnlinkedComplete
<1>1. ChainInv /\ LinkInv => UnlinkedComplete
  <2>. SUFFICES ASSUME ChainInv, LinkInv, reconsidered = 0, NEW b \in chain.headers
                PROVE  /\ ~HasInvalidAncestor(chain, b) /\ b \in chain.data =>
                            (b \in chain.unlinked <=> ~(Ancestors[b] \subseteq chain.data))
                       /\ b \notin chain.data => b \notin chain.unlinked
    BY Zenon DEF UnlinkedComplete
  <2>1. Sound(chain) /\ b \in Blocks  BY Zenon DEF ChainInv, Sound, ChainType
  <2>2. b \in Linked(chain) => Ancestors[b] \subseteq chain.data  BY Zenon, <2>1 DEF Sound
  <2>3. b \notin chain.data => b \notin chain.unlinked  BY Zenon, <2>1 DEF Sound
  <2>. QED  BY Zenon, <2>1, <2>2, <2>3 DEF LinkInv, LinkedOrWaiting, AboveInvalid
<1>. QED  BY <1>1, ChainInvariance, LinkInvariance, PTL

-----------------------------------------------------------------------------
(* The order of setBlockIndexCandidates.                                   *)

\* CBlockIndexWorkComparator is a strict order whose complement is transitive.
LEMMA WorseOrder ==
  ASSUME NEW c, c.seq \in [Blocks -> Nat], NEW x \in Blocks, NEW y \in Blocks, NEW z \in Blocks
  PROVE  /\ ~Worse(c, x, x)
         /\ Worse(c, x, y) => ~Worse(c, y, x)
         /\ ~Worse(c, x, y) /\ ~Worse(c, y, z) => ~Worse(c, x, z)
<1>1. /\ Work[x] \in Nat /\ Work[y] \in Nat /\ Work[z] \in Nat
      /\ c.seq[x] \in Nat /\ c.seq[y] \in Nat /\ c.seq[z] \in Nat
  BY Zenon, TreeAssumption
<1>. QED  BY <1>1 DEF Worse

\* A block below another one has less work.
LEMMA AncestorWork ==
  ASSUME NEW b \in Blocks, NEW d \in Ancestors[b], d # b
  PROVE  Work[d] < Work[b]
<1>1. b # Genesis  BY TreeAssumption
<1>2. d \in Ancestors[Parent[b]] /\ Parent[b] \in Blocks /\ Work[b] > Work[Parent[b]]
  BY <1>1, TreeAssumption
<1>3. Work[d] <= Work[Parent[b]]  BY Zenon, <1>2, AncestryAssumption
<1>4. d \in Blocks  BY Zenon, AncestorsFacts
<1>. QED  BY <1>2, <1>3, <1>4, TreeAssumption

LEMMA AncestorNotWorse ==
  ASSUME NEW c, Sound(c), NEW b \in Blocks, NEW d \in Ancestors[b]
  PROVE  ~Worse(c, b, d)
<1>1. d \in Blocks /\ c.seq \in [Blocks -> Nat]
  BY Zenon, AncestorsFacts DEF Sound, ChainType
<1>2. CASE d = b  BY Zenon, <1>1, <1>2, WorseOrder
<1>3. CASE d # b
  <2>1. Work[d] < Work[b] /\ Work[d] \in Nat /\ Work[b] \in Nat
    BY Zenon, <1>1, <1>3, AncestorWork, TreeAssumption
  <2>. QED  BY <2>1 DEF Worse
<1>. QED  BY Zenon, <1>2, <1>3

\* Linked blocks with no mark on or below them: the chains that may become
\* active.
Valid(c) == {b \in Linked(c) : Ancestors[b] \cap Failed(c) = {}}

\* The candidates are complete from w upwards: every valid block no worse than
\* w is there.  w is valid, is not rejected by ConnectBlock and is no worse
\* than the tip: it is the best tip since the candidates were last completed.
CompleteFrom(c, w) ==
  /\ w \in Valid(c) /\ Ancestors[w] \cap BadToConnect = {} /\ ~Worse(c, w, c.tip)
  /\ \A b \in Valid(c) : ~Worse(c, b, w) => b \in c.candidates

NoneWorse(c) == \A d \in c.candidates : ~Worse(c, d, c.tip)

IsBest(c, m) == \A d \in Usable(c) : ~Worse(c, m, d)

\* If they are complete from w, they are from any valid block no worse than w.
LEMMA CompleteMove ==
  ASSUME NEW c, Sound(c), NEW w, CompleteFrom(c, w), NEW v \in Valid(c),
         Ancestors[v] \cap BadToConnect = {}, ~Worse(c, v, c.tip), ~Worse(c, v, w)
  PROVE  CompleteFrom(c, v)
<1>1. c.seq \in [Blocks -> Nat] /\ Valid(c) \subseteq Blocks /\ w \in Blocks
  BY Zenon DEF Sound, ChainType, CompleteFrom, Valid, Linked
<1>2. \A b \in Valid(c) : ~Worse(c, b, v) => ~Worse(c, b, w)
  BY Zenon, <1>1, WorseOrder
<1>. QED  BY Zenon, <1>2 DEF CompleteFrom

\* The block they are complete from is a usable candidate.
LEMMA CompleteUsable ==
  ASSUME NEW c, Sound(c), NEW w, CompleteFrom(c, w)
  PROVE  w \in Usable(c) /\ w \in Blocks
<1>1. c.seq \in [Blocks -> Nat] /\ w \in Blocks /\ w \in Valid(c)
  BY Zenon DEF Sound, ChainType, CompleteFrom, Valid, Linked
<1>2. w \in c.candidates  BY Zenon, <1>1, WorseOrder DEF CompleteFrom
<1>. QED  BY Zenon, <1>1, <1>2 DEF Usable, Path, Valid

\* FindMostWorkChain takes no valid block out of the candidates, and keeps the
\* usable ones.
LEMMA CompleteAfterPrune ==
  ASSUME NEW c, Sound(c)
  PROVE  LET n == PruneFailedCandidates(c)
         IN  /\ \A w : CompleteFrom(c, w) => CompleteFrom(n, w)
             /\ NoneWorse(c) => NoneWorse(n)
             /\ Clean(c) => Usable(n) = Usable(c)
             /\ \A m : IsBest(c, m) /\ Clean(c) => IsBest(n, m)
<1>. DEFINE n == PruneFailedCandidates(c)
<1>1. /\ n.seq = c.seq /\ n.candidates \subseteq c.candidates
      /\ \A d \in c.candidates \ n.candidates :
           \E x \in Failed(c) : x \in Ancestors[d] /\ x \notin Active(c)
      /\ Failed(c) \subseteq Failed(n)
      /\ \A d \in Failed(n) \ Failed(c) :
           \E x \in Failed(c) : x \in Ancestors[d] /\ x \notin Active(c)
      /\ n.tip = c.tip /\ Linked(n) = Linked(c)
  BY Zenon, PruneFailedCandidatesOnly, PruneFailedFields
<1>2. \A b \in Valid(c) : b \in Valid(n) /\ (b \in c.candidates => b \in n.candidates)
  <2>. SUFFICES ASSUME NEW b \in Valid(c), NEW d \in Failed(n), d \in Ancestors[b] PROVE FALSE
    BY Zenon, <1>1 DEF Valid
  <2>1. b \in Blocks /\ Ancestors[b] \cap Failed(c) = {}  BY Zenon DEF Valid, Linked
  <2>2. PICK x \in Failed(c) : x \in Ancestors[d]  BY Zenon, <1>1, <2>1
  <2>3. x \in Ancestors[b]  BY Zenon, <2>1, <2>2, AncestryAssumption
  <2>. QED  BY Zenon, <2>1, <2>3
<1>3. Valid(n) \subseteq Valid(c)  BY Zenon, <1>1 DEF Valid
<1>4. \A a, b : Worse(n, a, b) <=> Worse(c, a, b)  BY Zenon, <1>1 DEF Worse
<1>. HIDE DEF n
<1>5. \A w : CompleteFrom(c, w) => CompleteFrom(n, w)
  BY Zenon, <1>1, <1>2, <1>3, <1>4 DEF CompleteFrom
<1>6. NoneWorse(c) => NoneWorse(n)
  BY Zenon, <1>1, <1>4 DEF NoneWorse
<1>7. \A d : Path(n, d) = Path(c, d)
  BY Zenon, <1>1 DEF Path, Active
<1>8. Usable(n) \subseteq Usable(c)
  BY Zenon, <1>1, <1>7 DEF Usable
<1>9. ASSUME Clean(c), NEW m \in Usable(c) PROVE m \in Usable(n)
  <2>1. m \in c.candidates /\ Path(c, m) \cap Failed(c) = {}  BY Zenon DEF Usable
  <2>2. m \in n.candidates  BY Zenon, <1>1, <2>1 DEF Path
  <2>3. Path(n, m) \cap Failed(n) = {}  BY Zenon, <1>9, CleanAfterPrune DEF n
  <2>. QED  BY Zenon, <2>2, <2>3 DEF Usable
<1>. QED  BY Zenon, <1>4, <1>5, <1>6, <1>8, <1>9 DEF n, IsBest

\* A step towards the best usable candidate: the assertion of
\* PruneBlockIndexCandidates holds, and m stays the best until it is reached.
LEMMA BestAfterStep ==
  ASSUME NEW c, Sound(c), Clean(c), NoneWorse(c), Active(c) \cap BadToConnect = {},
         NEW m \in Usable(c), IsBest(c, m)
  PROVE  LET n == ActivateBestChainStep(c, m)
         IN  /\ PruneAssertion(c, m)
             /\ NoneWorse(n) /\ Active(n) \cap BadToConnect = {}
             /\ IsBest(n, m)
             /\ StepFailure(c, m) = {} => m \in Usable(n)
<1>. DEFINE n == ActivateBestChainStep(c, m)
<1>0. /\ m \in c.candidates /\ m \in Linked(c) /\ m \in Blocks /\ c.tip \in Blocks
      /\ Path(c, m) \cap Failed(c) = {} /\ c.seq \in [Blocks -> Nat]
      /\ c.candidates \subseteq Blocks
  BY Zenon DEF Usable, Sound, Linked, ChainType
<1>1. /\ n.seq = c.seq /\ n.candidates \subseteq c.candidates
      /\ n.tip # Fork(c, m) => \A d \in n.candidates : ~Worse(c, d, n.tip)
      /\ \A d \in c.candidates \ n.candidates :
           d \in StepFailure(c, m) \/ (n.tip # Fork(c, m) /\ Worse(c, d, n.tip))
  BY Zenon, <1>0, StepCandidates
<1>2. /\ n.tip = StepTip(c, m) /\ n.failedChild = c.failedChild
      /\ n.failedValid = c.failedValid \cup StepFailure(c, m) /\ Sound(n)
  BY Zenon, <1>0, StepFields
<1>3. /\ n.tip \in Ancestors[m] /\ n.tip \in Blocks
      /\ Active(c) \cap Ancestors[m] \subseteq Ancestors[n.tip]
      /\ n.tip \in Connectable(c, m) \/ n.tip = Fork(c, m)
      /\ Fork(c, m) \in Active(c) /\ Ancestors[Fork(c, m)] = Active(c) \cap Ancestors[m]
  <2>1. /\ StepTip(c, m) \in Ancestors[m]
        /\ Active(c) \cap Ancestors[m] \subseteq Ancestors[StepTip(c, m)]
        /\ StepTip(c, m) \in Connectable(c, m) \/ StepTip(c, m) = Fork(c, m)
        /\ Fork(c, m) \in Active(c) /\ Ancestors[Fork(c, m)] = Active(c) \cap Ancestors[m]
    BY ONLY Zenon, <1>0, Sound(c), StepTipOnPath
  <2>2. StepTip(c, m) \in Blocks  BY ONLY Zenon, <1>0, <2>1, AncestorsFacts
  <2>3. n.tip = StepTip(c, m)  BY Zenon, <1>2
  <2>. QED  BY ONLY Zenon, <2>1, <2>2, <2>3
<1>4. Clean(n) /\ Failed(n) = Failed(c) \cup StepFailure(c, m)
  BY Zenon, <1>0, <1>2, CleanAfterStep DEF Failed
<1>. HIDE DEF n
<1>5. \A a, b : Worse(n, a, b) <=> Worse(c, a, b)  BY Zenon, <1>1 DEF Worse
<1>6. ~Worse(c, m, n.tip)
  BY Zenon, <1>0, <1>3, AncestorNotWorse
<1>7. PruneAssertion(c, m)
  BY Zenon, <1>0, <1>2, <1>6 DEF PruneAssertion, PruneBlockIndexCandidates
<1>8. NoneWorse(n)
  <2>1. CASE n.tip # Fork(c, m)
    BY Zenon, <1>1, <1>5, <2>1 DEF NoneWorse
  <2>2. CASE n.tip = Fork(c, m)
    <3>1. ~Worse(c, c.tip, n.tip)
      BY Zenon, <1>0, <1>3, <2>2, AncestorNotWorse DEF Active
    <3>2. \A d \in n.candidates : d \in Blocks /\ ~Worse(c, d, c.tip)
      BY Zenon, <1>0, <1>1 DEF NoneWorse
    <3>3. \A d \in n.candidates : ~Worse(c, d, n.tip)
      BY Zenon, <1>0, <1>3, <3>1, <3>2, WorseOrder
    <3>. QED  BY Zenon, <1>5, <3>3 DEF NoneWorse
  <2>. QED  BY Zenon, <2>1, <2>2
<1>9. Active(n) \cap BadToConnect = {}
  <2>1. CASE n.tip \in Connectable(c, m)
    <3>1. Ancestors[n.tip] \cap Path(c, m) \cap BadToConnect = {}
      BY Zenon, <2>1 DEF Connectable
    <3>2. Ancestors[n.tip] \subseteq Active(c) \cup Path(c, m)
      BY Zenon, <1>0, <1>3, AncestryAssumption DEF Path
    <3>. QED  BY Zenon, <3>1, <3>2 DEF Active
  <2>2. CASE n.tip = Fork(c, m)
    BY Zenon, <1>3, <2>2 DEF Active
  <2>. QED  BY Zenon, <1>3, <2>1, <2>2
<1>10. Usable(n) \subseteq Usable(c)
  BY Zenon, <1>1, <1>4 DEF Usable, Path, Clean
<1>11. IsBest(n, m)
  BY Zenon, <1>5, <1>10 DEF IsBest
<1>12. ASSUME StepFailure(c, m) = {} PROVE m \in Usable(n)
  <2>1. m \in n.candidates  BY Zenon, <1>0, <1>1, <1>6, <1>12
  <2>2. Path(n, m) \subseteq Path(c, m)  BY Zenon, <1>3 DEF Path, Active
  <2>. QED  BY Zenon, <1>0, <1>4, <1>12, <2>1, <2>2 DEF Usable
<1>. QED  BY Zenon, <1>7, <1>8, <1>9, <1>11, <1>12 DEF n

\* The candidates stay complete.  A step that fails may leave the tip below w;
\* a step that reaches m leaves none better than the tip behind.
LEMMA CompleteAfterStep ==
  ASSUME NEW c, Sound(c), Clean(c), NoneWorse(c), Active(c) \cap BadToConnect = {},
         NEW m \in Usable(c), IsBest(c, m), NEW w, CompleteFrom(c, w)
  PROVE  LET n == ActivateBestChainStep(c, m)
         IN  /\ \E v \in Blocks : CompleteFrom(n, v)
             /\ n.tip = m => CompleteFrom(n, n.tip)
<1>. DEFINE n == ActivateBestChainStep(c, m)
<1>0. /\ m \in Linked(c) /\ m \in Blocks /\ c.tip \in Blocks /\ c.seq \in [Blocks -> Nat]
      /\ w \in Blocks /\ w \in Usable(c)
  BY Zenon, CompleteUsable DEF Usable, Sound, Linked, ChainType
<1>1. /\ n.seq = c.seq
      /\ \A d \in c.candidates \ n.candidates :
           d \in StepFailure(c, m) \/ (n.tip # Fork(c, m) /\ Worse(c, d, n.tip))
  BY Zenon, <1>0, StepCandidates
<1>2. /\ n.tip = StepTip(c, m) /\ n.failedChild = c.failedChild
      /\ n.failedValid = c.failedValid \cup StepFailure(c, m)
      /\ Sound(n) /\ Linked(n) = Linked(c)
  BY Zenon, <1>0, StepFields
<1>3. /\ n.tip \in Ancestors[m] /\ n.tip \in Blocks /\ Fork(c, m) \in Active(c)
  <2>1. StepTip(c, m) \in Ancestors[m] /\ Fork(c, m) \in Active(c)
    BY ONLY Zenon, <1>0, Sound(c), StepTipOnPath
  <2>2. StepTip(c, m) \in Blocks  BY ONLY Zenon, <1>0, <2>1, AncestorsFacts
  <2>3. n.tip = StepTip(c, m)  BY Zenon, <1>2
  <2>. QED  BY ONLY Zenon, <2>1, <2>2, <2>3
<1>4. Clean(n) /\ Failed(n) = Failed(c) \cup StepFailure(c, m)
  BY Zenon, <1>0, <1>2, CleanAfterStep DEF Failed, Usable
<1>5. Active(n) \cap BadToConnect = {}
  BY Zenon, BestAfterStep
<1>6. StepFailure(c, m) \subseteq BadToConnect
  BY Zenon DEF StepFailure
<1>. HIDE DEF n
<1>7. \A a, b : Worse(n, a, b) <=> Worse(c, a, b)  BY Zenon, <1>1 DEF Worse
<1>8. Valid(n) \subseteq Valid(c) /\ Valid(c) \subseteq Blocks /\ w \in Valid(n)
  BY Zenon, <1>2, <1>4, <1>6 DEF Valid, Linked, CompleteFrom
<1>9. n.tip \in Valid(n)
  BY Zenon, <1>2, <1>4 DEF Valid, Clean, Active, Sound
<1>10. ASSUME ~Worse(c, w, n.tip) PROVE CompleteFrom(n, w)
  <2>1. \A b \in Valid(n) : ~Worse(c, b, w) => b \in n.candidates
    <3>. SUFFICES ASSUME NEW b \in Valid(n), ~Worse(c, b, w) PROVE b \in n.candidates
      OBVIOUS
    <3>1. b \in c.candidates  BY Zenon, <1>8 DEF CompleteFrom
    <3>2. b \in Blocks /\ b \notin StepFailure(c, m)
      BY Zenon, <1>4, <1>8, AncestorsFacts DEF Valid
    <3>3. ~Worse(c, b, n.tip)  BY Zenon, <1>0, <1>3, <1>10, <3>2, WorseOrder
    <3>. QED  BY Zenon, <1>1, <3>1, <3>2, <3>3
  <2>. QED  BY Zenon, <1>7, <1>8, <1>10, <2>1 DEF CompleteFrom
<1>11. ASSUME Worse(c, w, n.tip) PROVE CompleteFrom(n, n.tip)
  <2>1. \A b \in Valid(n) : ~Worse(c, b, n.tip) => b \in n.candidates
    <3>. SUFFICES ASSUME NEW b \in Valid(n), ~Worse(c, b, n.tip) PROVE b \in n.candidates
      OBVIOUS
    <3>1. b \in Blocks /\ b \notin StepFailure(c, m)
      BY Zenon, <1>4, <1>8, AncestorsFacts DEF Valid
    <3>2. ~Worse(c, n.tip, w)  BY Zenon, <1>0, <1>3, <1>11, WorseOrder
    <3>3. ~Worse(c, b, w)  BY Zenon, <1>0, <1>3, <3>1, <3>2, WorseOrder
    <3>4. b \in c.candidates  BY Zenon, <1>8, <3>3 DEF CompleteFrom
    <3>. QED  BY Zenon, <1>1, <3>1, <3>4
  <2>2. ~Worse(c, n.tip, n.tip)  BY Zenon, <1>0, <1>3, WorseOrder
  <2>. QED  BY Zenon, <1>5, <1>7, <1>9, <2>1, <2>2 DEF CompleteFrom, Active
<1>12. ASSUME n.tip = m, CompleteFrom(n, w) PROVE CompleteFrom(n, n.tip)
  <2>1. ~Worse(n, n.tip, w)  BY Zenon, <1>0, <1>7, <1>12 DEF IsBest
  <2>2. ~Worse(n, n.tip, n.tip)  BY Zenon, <1>0, <1>3, <1>7, WorseOrder
  <2>. QED  BY Zenon, <1>2, <1>5, <1>9, <1>12, <2>1, <2>2, CompleteMove DEF Active
<1>. QED  BY Zenon, <1>0, <1>3, <1>10, <1>11, <1>12 DEF n

\* Sequence numbers are given out in the order of linking.
SeqBounded(c) == \A b \in Linked(c) : c.seq[b] <= Cardinality(Linked(c))

\* A block that is linked late is no better than an earlier one of the same
\* work, so the candidates stay complete when it is added only if it has more
\* work than the tip.
LEMMA BestAfterReceive ==
  ASSUME NEW c, Sound(c), SeqBounded(c), c.unlinked \cap Linked(c) = {},
         NEW b \in c.headers \ c.data, NEW n \in ReceivedBlockTransactions(c, b)
  PROVE  /\ SeqBounded(n) /\ n.tip = c.tip
         /\ NoneWorse(c) => NoneWorse(n)
         /\ \A w : CompleteFrom(c, w) => CompleteFrom(n, w)
<1>. DEFINE L == NewlyLinked(c, b)
            base == Cardinality(Linked(c))
<1>1. L \subseteq {b} \cup c.unlinked /\ L \subseteq Blocks
  BY Zenon DEF NewlyLinked, Sound, ChainType
<1>2. Failed(n) = Failed(c) /\ Sound(n)  BY Zenon, ReceivedSound
<1>3. /\ c.seq \in [Blocks -> Nat] /\ n.seq \in [Blocks -> Nat] /\ c.tip \in Linked(c)
      /\ c.candidates \subseteq Linked(c) /\ Linked(c) \subseteq Blocks /\ b \notin Linked(c)
  BY Zenon, <1>2 DEF Sound, ChainType, Linked
<1>4. IsFiniteSet(L) /\ IsFiniteSet(Linked(c)) /\ base \in Nat /\ Cardinality(L) \in Nat
  <2>. HIDE DEF L
  <2>. QED  BY Zenon, <1>1, <1>3, FS_Subset, FS_CardinalityType, TreeAssumption
<1>5. CASE CanLink(c, b)
  <2>0. /\ n.tip = c.tip /\ Linked(n) = Linked(c) \cup L
        /\ n.candidates = c.candidates \cup {d \in L : Work[d] > Work[c.tip]}
        /\ \A d \in Blocks \ L : n.seq[d] = c.seq[d]
        /\ \A d \in L : n.seq[d] \in (base + 1)..(base + Cardinality(L))
    BY ONLY <1>5, Sound(c), b \in c.headers \ c.data,
            n \in ReceivedBlockTransactions(c, b), ReceivedLinked
  <2>1. L \cap Linked(c) = {}  BY Zenon, <1>1, <1>3
  <2>. HIDE DEF L, base
  <2>2. Cardinality(Linked(n)) = base + Cardinality(L)
    <3>1. Cardinality(Linked(c) \cap L) = 0  BY Zenon, <2>1, FS_EmptySet
    <3>2. Cardinality(Linked(c) \cup L)
            = Cardinality(Linked(c)) + Cardinality(L) - Cardinality(Linked(c) \cap L)
      BY Zenon, <1>4, FS_Union
    <3>3. Linked(n) = Linked(c) \cup L  BY Zenon, <2>0
    <3>. QED  BY ONLY <1>4, <3>1, <3>2, <3>3 DEF base
  <2>3. \A d \in Linked(c) : n.seq[d] = c.seq[d] /\ n.seq[d] <= base /\ n.seq[d] \in Nat
    BY Zenon, <1>3, <2>0, <2>1 DEF SeqBounded, base
  <2>4. \A d \in L : n.seq[d] \in Nat /\ n.seq[d] > base /\ n.seq[d] <= base + Cardinality(L)
    BY <1>4, <2>0
  <2>5. SeqBounded(n)
    BY <1>4, <2>0, <2>2, <2>3, <2>4 DEF SeqBounded
  <2>6. \A x, y \in Linked(c) : Worse(n, x, y) <=> Worse(c, x, y)
    BY Zenon, <2>3 DEF Worse
  <2>7. ASSUME NEW w \in Linked(c), NEW d \in L
        PROVE  ~Worse(n, d, w) <=> Work[d] > Work[w]
    <3>1. Work[d] \in Nat /\ Work[w] \in Nat  BY Zenon, <1>1, <1>3, TreeAssumption
    <3>2. n.seq[d] > n.seq[w]  BY <1>4, <2>3, <2>4
    <3>. QED  BY <3>1, <3>2 DEF Worse
  <2>8. NoneWorse(c) => NoneWorse(n)
    BY Zenon, <1>3, <2>0, <2>6, <2>7 DEF NoneWorse
  <2>9. ASSUME NEW w, CompleteFrom(c, w) PROVE CompleteFrom(n, w)
    <3>1. w \in Linked(c) /\ w \in Valid(c) /\ w \in Valid(n)
      BY Zenon, <1>2, <2>0, <2>9 DEF CompleteFrom, Valid
    <3>2. Work[c.tip] <= Work[w] /\ Work[c.tip] \in Nat /\ Work[w] \in Nat
      <4>1. Work[c.tip] \in Nat /\ Work[w] \in Nat  BY Zenon, <1>3, <3>1, TreeAssumption
      <4>2. ~Worse(c, w, c.tip)  BY Zenon, <2>9 DEF CompleteFrom
      <4>. QED  BY ONLY <4>1, <4>2 DEF Worse
    <3>. SUFFICES ASSUME NEW d \in Valid(n), ~Worse(n, d, w) PROVE d \in n.candidates
      BY Zenon, <1>3, <2>0, <2>6, <2>9, <3>1 DEF CompleteFrom
    <3>3. CASE d \in Linked(c)
      <4>1. d \in Valid(c)  BY Zenon, <1>2, <3>3 DEF Valid
      <4>. QED  BY Zenon, <2>0, <2>6, <2>9, <3>1, <3>3, <4>1 DEF CompleteFrom
    <3>4. CASE d \in L
      <4>1. Work[d] > Work[w] /\ Work[d] \in Nat  BY Zenon, <1>1, <2>7, <3>1, <3>4, TreeAssumption
      <4>2. Work[d] > Work[c.tip]  BY ONLY <3>2, <4>1
      <4>. QED  BY Zenon, <2>0, <3>4, <4>2
    <3>. QED  BY Zenon, <2>0, <3>3, <3>4 DEF Valid
  <2>. QED  BY Zenon, <2>0, <2>5, <2>8, <2>9
<1>6. CASE ~CanLink(c, b)
  <2>0. n.tip = c.tip /\ n.seq = c.seq /\ n.candidates = c.candidates
    BY <1>6, ReceivedQueued
  <2>1. Linked(n) = Linked(c)  BY Zenon, <2>0 DEF Linked
  <2>2. \A x, y : Worse(n, x, y) <=> Worse(c, x, y)  BY Zenon, <2>0 DEF Worse
  <2>3. Valid(n) = Valid(c)  BY Zenon, <1>2, <2>1 DEF Valid
  <2>. QED  BY Zenon, <2>0, <2>1, <2>2, <2>3 DEF SeqBounded, NoneWorse, CompleteFrom
<1>. QED  BY Zenon, <1>5, <1>6

\* InvalidateBlock completes the candidates from the new tip upwards.
LEMMA BestAfterInvalidate ==
  ASSUME NEW c, Sound(c), Clean(c), NoneWorse(c), Active(c) \cap BadToConnect = {},
         NEW b \in c.headers \ {Genesis}
  PROVE  LET n == InvalidateBlock(c, b)
         IN  /\ NoneWorse(n) /\ Active(n) \cap BadToConnect = {}
             /\ CompleteFrom(n, n.tip)
<1>. DEFINE n == InvalidateBlock(c, b)
<1>1. /\ Sound(n) /\ Linked(n) = Linked(c)
      /\ n.tip = IF b \in Active(c) THEN Parent[b] ELSE c.tip
  BY Zenon, InvalidateFields
<1>2. /\ n.seq = c.seq
      /\ \A d \in Linked(c) : d \notin Failed(n) /\ ~Worse(c, d, n.tip) => d \in n.candidates
      /\ \A d \in n.candidates : d \in c.candidates \/ ~Worse(c, d, n.tip)
  BY Zenon, InvalidateCandidates
<1>3. Clean(n)  BY Zenon, CleanAfterInvalidate
<1>4. /\ c.tip \in Blocks /\ b \in Blocks \ {Genesis} /\ c.seq \in [Blocks -> Nat]
      /\ c.candidates \subseteq Blocks
  BY Zenon DEF Sound, ChainType
<1>. HIDE DEF n
<1>5. n.tip \in Active(c) /\ n.tip \in Blocks
  <2>1. b \in Active(c) => Parent[b] \in Active(c)
    BY Zenon, <1>4, AncestorsFacts, AncestryAssumption DEF Active
  <2>2. c.tip \in Active(c)  BY Zenon, <1>4, AncestorsFacts DEF Active
  <2>. QED  BY Zenon, <1>1, <1>4, <2>1, <2>2, AncestorsFacts DEF Active
<1>6. Active(n) \subseteq Active(c)
  BY Zenon, <1>4, <1>5, AncestryAssumption DEF Active
<1>7. \A x, y : Worse(n, x, y) <=> Worse(c, x, y)  BY Zenon, <1>2 DEF Worse
<1>8. NoneWorse(n)
  <2>1. ~Worse(c, c.tip, n.tip)  BY Zenon, <1>4, <1>5, AncestorNotWorse DEF Active
  <2>2. \A d \in c.candidates : ~Worse(c, d, n.tip)
    BY Zenon, <1>4, <1>5, <2>1, WorseOrder DEF NoneWorse
  <2>. QED  BY Zenon, <1>2, <1>7, <2>2 DEF NoneWorse
<1>9. n.tip \in Valid(n) /\ ~Worse(c, n.tip, n.tip)
  BY Zenon, <1>1, <1>3, <1>4, <1>5, WorseOrder DEF Valid, Clean, Active, Sound
<1>10. \A d \in Valid(n) : d \in Linked(c) /\ d \notin Failed(n)
  BY Zenon, <1>1, AncestorsFacts DEF Valid, Linked
<1>11. CompleteFrom(n, n.tip)
  BY Zenon, <1>2, <1>6, <1>7, <1>9, <1>10 DEF CompleteFrom, Active
<1>. QED  BY Zenon, <1>6, <1>8, <1>11 DEF n

-----------------------------------------------------------------------------
(* A single thread finds the best chain.                                   *)

Ordered(c) == SeqBounded(c) /\ NoneWorse(c) /\ Active(c) \cap BadToConnect = {}

\* The target kept between two iterations is the best usable candidate.
TargetBest ==
  \A t \in Threads : mostWork[t] # NoBlock =>
    mostWork[t] \in Usable(chain) /\ IsBest(chain, mostWork[t])

\* Inside ActivateBestChain a failed reorganisation may leave the tip below w;
\* when it has returned, the candidates are complete from the tip itself.
BestInv ==
  /\ Ordered(chain) /\ TargetBest
  /\ reconsidered = 0 => \E w \in Blocks : CompleteFrom(chain, w)
  /\ reconsidered = 0 /\ Idle => CompleteFrom(chain, chain.tip) /\ IsBest(chain, chain.tip)

\* The state in which an iteration starts to move the tip.
LEMMA ExaminedBest ==
  ASSUME ChainInv, CleanInv, BestInv, NEW t \in Threads, NEW c, c = Examined(t),
         NEW m, m = Target(t)
  PROVE  /\ Sound(c) /\ Clean(c) /\ Ordered(c) /\ c.tip = chain.tip
         /\ m # NoBlock => m \in Usable(c) /\ IsBest(c, m) /\ m \in Linked(c)
         /\ reconsidered = 0 => m # NoBlock /\ \E w \in Blocks : CompleteFrom(c, w)
<1>0. Sound(chain) /\ Clean(chain) /\ Ordered(chain) /\ NoBlock \notin Blocks
  BY Zenon, TreeAssumption DEF ChainInv, CleanInv, BestInv
<1>1. CASE mostWork[t] # NoBlock
  <2>1. c = chain /\ m = mostWork[t]  BY Zenon, <1>1 DEF Examined, Target
  <2>2. m \in Usable(c) /\ IsBest(c, m)  BY Zenon, <1>1, <2>1 DEF BestInv, TargetBest
  <2>3. m \in Linked(c)  BY Zenon, <1>0, <2>1, <2>2 DEF Usable, Sound
  <2>. QED  BY Zenon, <1>0, <1>1, <2>1, <2>2, <2>3 DEF BestInv
<1>2. CASE mostWork[t] = NoBlock
  <2>1. c = PruneFailedCandidates(chain) /\ m = BestCandidate(chain)
    BY Zenon, <1>2 DEF Examined, Target
  <2>2. Sound(c) /\ Linked(c) = Linked(chain) /\ c.tip = chain.tip /\ c.seq = chain.seq
    BY Zenon, <1>0, <2>1, PruneFailedFields, PruneFailedCandidatesOnly
  <2>3. Clean(c)  BY Zenon, <1>0, <2>1, CleanAfterPruneOnly
  <2>4. Ordered(c)
    <3>1. NoneWorse(c)  BY Zenon, <1>0, <2>1, CompleteAfterPrune DEF Ordered
    <3>2. SeqBounded(c)  BY Zenon, <1>0, <2>2 DEF Ordered, SeqBounded
    <3>3. Active(c) = Active(chain)  BY Zenon, <2>2 DEF Active
    <3>. QED  BY Zenon, <1>0, <3>1, <3>2, <3>3 DEF Ordered
  <2>5. ASSUME m # NoBlock PROVE m \in Usable(c) /\ IsBest(c, m) /\ m \in Linked(c)
    <3>1. Usable(chain) # {}  BY Zenon, <2>1, <2>5 DEF BestCandidate
    <3>2. m \in Usable(chain) /\ IsBest(chain, m)
      BY Zenon, <1>0, <2>1, <3>1, BestCandidateIsBest DEF IsBest
    <3>3. m \in Usable(c) /\ IsBest(c, m)
      BY Zenon, <1>0, <2>1, <3>2, CompleteAfterPrune
    <3>. QED  BY Zenon, <2>2, <3>3 DEF Usable, Sound
  <2>6. ASSUME reconsidered = 0 PROVE m # NoBlock /\ \E w \in Blocks : CompleteFrom(c, w)
    <3>1. PICK w \in Blocks : CompleteFrom(chain, w)  BY Zenon, <2>6 DEF BestInv
    <3>2. Usable(chain) # {}  BY Zenon, <1>0, <3>1, CompleteUsable
    <3>3. m \in Usable(chain)  BY Zenon, <1>0, <2>1, <3>2, BestCandidateIsBest
    <3>4. m \in Blocks  BY Zenon, <1>0, <3>3 DEF Usable, Sound, Linked
    <3>5. CompleteFrom(c, w)  BY Zenon, <1>0, <2>1, <3>1, CompleteAfterPrune
    <3>. QED  BY Zenon, <1>0, <3>4, <3>5
  <2>. QED  BY Zenon, <2>2, <2>3, <2>4, <2>5, <2>6
<1>. QED  BY Zenon, <1>1, <1>2

\* The assertion of PruneBlockIndexCandidates cannot fail.
LEMMA NoAbortStep ==
  ASSUME ChainInv, CleanInv, BestInv, NEW t \in Threads
  PROVE  ~Abort(t)
<1>. DEFINE c == Examined(t)
            m == Target(t)
<1>1. /\ Sound(c) /\ Clean(c) /\ Ordered(c)
      /\ m # NoBlock => m \in Usable(c) /\ IsBest(c, m)
  <2>. HIDE DEF c, m
  <2>. QED  BY Zenon, ExaminedBest DEF c, m
<1>2. ~NothingToDo(t) => m # NoBlock  BY Zenon DEF NothingToDo
<1>3. ~NothingToDo(t) => PruneAssertion(c, m)
  <2>. HIDE DEF c, m
  <2>. QED  BY Zenon, <1>1, <1>2, BestAfterStep DEF Ordered
<1>. QED  BY Zenon, <1>3 DEF Abort

\* An iteration of the only thread.
LEMMA BestActivate ==
  ASSUME ChainInv, CleanInv, BestInv, NEW t \in Threads, \A u \in Threads : u = t,
         ActivateBestChain(t)
  PROVE  BestInv'
<1>. DEFINE c == Examined(t)
            m == Target(t)
<1>1. /\ Sound(c) /\ Clean(c) /\ Ordered(c) /\ c.tip = chain.tip
      /\ m # NoBlock => m \in Usable(c) /\ IsBest(c, m) /\ m \in Linked(c)
      /\ reconsidered = 0 => m # NoBlock /\ \E w \in Blocks : CompleteFrom(c, w)
  <2>. HIDE DEF c, m
  <2>. QED  BY Zenon, ExaminedBest DEF c, m
<1>2. /\ pc \in [Threads -> {"idle", "activate"}] /\ pc[t] = "activate"
      /\ mostWork \in [Threads -> Blocks \cup {NoBlock}] /\ reconsidered' = reconsidered
  BY Zenon DEF ActivateBestChain, ChainInv, ThreadsTyped
<1>3. CASE NothingToDo(t)
  <2>1. chain' = c /\ mostWork' = [mostWork EXCEPT ![t] = NoBlock]
        /\ (m = NoBlock \/ m = c.tip)
    BY Zenon, <1>1, <1>3 DEF ActivateBestChain, NothingToDo
  <2>. HIDE DEF c, m
  <2>2. TargetBest'  BY Zenon, <1>2, <2>1 DEF TargetBest
  <2>3. ASSUME reconsidered = 0
        PROVE  CompleteFrom(c, c.tip) /\ IsBest(c, c.tip)
    <3>1. m = c.tip /\ IsBest(c, c.tip)  BY Zenon, <1>1, <2>1, <2>3
    <3>2. PICK w \in Blocks : CompleteFrom(c, w)  BY Zenon, <1>1, <2>3
    <3>3. ~Worse(c, c.tip, w)  BY Zenon, <1>1, <3>1, <3>2, CompleteUsable DEF IsBest
    <3>4. c.tip \in Valid(c) /\ c.tip \in Blocks /\ c.seq \in [Blocks -> Nat]
      BY Zenon, <1>1 DEF Valid, Clean, Active, Sound, ChainType
    <3>5. ~Worse(c, c.tip, c.tip)  BY Zenon, <3>4, WorseOrder
    <3>. QED  BY Zenon, <1>1, <3>1, <3>2, <3>3, <3>4, <3>5, CompleteMove DEF Ordered, Active
  <2>. QED  BY Zenon, <1>1, <1>2, <2>1, <2>2, <2>3 DEF BestInv
<1>4. CASE ~NothingToDo(t)
  <2>1. /\ m # NoBlock /\ chain' = ActivateBestChainStep(c, m)
        /\ pc' = [pc EXCEPT ![t] = IF StepTip(c, m) = m THEN "idle" ELSE @]
        /\ mostWork' = [mostWork EXCEPT ![t] = KeptMostWork(c, m)]
    BY Zenon, <1>4 DEF ActivateBestChain, NothingToDo
  <2>. HIDE DEF c, m
  <2>2. /\ Linked(chain') = Linked(c) /\ chain'.seq = c.seq /\ chain'.tip = StepTip(c, m)
    <3>1. Sound(c) /\ m \in Linked(c)
      BY ONLY Zenon, <1>1, <2>1
    <3>2. LET n == ActivateBestChainStep(c, m)
          IN  Linked(n) = Linked(c) /\ n.tip = StepTip(c, m)
      BY ONLY Zenon, <3>1, StepFields
    <3>3. ActivateBestChainStep(c, m).seq = c.seq
      BY ONLY Zenon, <3>1, StepCandidates
    <3>. QED
      BY ONLY Zenon, <2>1, <3>2, <3>3
  <2>3. /\ NoneWorse(chain') /\ Active(chain') \cap BadToConnect = {} /\ IsBest(chain', m)
        /\ StepFailure(c, m) = {} => m \in Usable(chain')
    BY Zenon, <1>1, <2>1, BestAfterStep DEF Ordered
  <2>4. Ordered(chain')
    BY Zenon, <1>1, <2>2, <2>3 DEF Ordered, SeqBounded
  <2>5. TargetBest'
    <3>. SUFFICES ASSUME NEW u \in Threads, mostWork'[u] # NoBlock
                  PROVE  mostWork'[u] \in Usable(chain') /\ IsBest(chain', mostWork'[u])
      BY Zenon DEF TargetBest
    <3>1. mostWork'[u] = KeptMostWork(c, m)  BY Zenon, <1>2, <2>1
    <3>2. mostWork'[u] = m /\ StepFailure(c, m) = {}  BY Zenon, <3>1 DEF KeptMostWork
    <3>. QED  BY Zenon, <2>3, <3>2
  <2>6. ASSUME reconsidered = 0
        PROVE  /\ \E v \in Blocks : CompleteFrom(chain', v)
               /\ chain'.tip = m => CompleteFrom(chain', chain'.tip)
    <3>1. PICK w \in Blocks : CompleteFrom(c, w)  BY Zenon, <1>1, <2>6
    <3>. QED  BY Zenon, <1>1, <2>1, <3>1, CompleteAfterStep DEF Ordered
  <2>7. Idle' => chain'.tip = m
    BY Zenon, <1>2, <2>1, <2>2 DEF Idle
  <2>. QED  BY Zenon, <1>2, <2>3, <2>4, <2>5, <2>6, <2>7 DEF BestInv
<1>. QED  BY Zenon, <1>3, <1>4

\* The only thread enters ActivateBestChain.
LEMMA BestStart ==
  ASSUME ChainInv, NEW t \in Threads, \A u \in Threads : u = t, NEW n, StartActivate(t, n),
         Ordered(n), reconsidered' = 0 => \E w \in Blocks : CompleteFrom(n, w)
  PROVE  BestInv'
<1>1. /\ chain' = n /\ mostWork'[t] = NoBlock /\ pc'[t] = "activate"
  BY Zenon DEF StartActivate, ChainInv, ThreadsTyped
<1>2. TargetBest'  BY Zenon, <1>1 DEF TargetBest
<1>3. ~Idle'  BY Zenon, <1>1 DEF Idle
<1>. QED  BY Zenon, <1>1, <1>2, <1>3 DEF BestInv

\* Neither a new header nor the mark on a block that was not stored touches the
\* candidates, the active chain or a chain that may become active.
LEMMA BestUnchanged ==
  ASSUME NEW c, Sound(c), NEW n, n.data = c.data, n.seq = c.seq, n.candidates = c.candidates,
         n.tip = c.tip, Failed(c) \subseteq Failed(n), Failed(n) \cap c.data \subseteq Failed(c)
  PROVE  /\ Ordered(c) => Ordered(n)
         /\ Usable(n) = Usable(c)
         /\ \A w : CompleteFrom(c, w) => CompleteFrom(n, w)
         /\ \A m : IsBest(c, m) => IsBest(n, m)
<1>1. Linked(n) = Linked(c) /\ Active(n) = Active(c)  BY Zenon DEF Linked, Active
<1>2. \A x, y : Worse(n, x, y) <=> Worse(c, x, y)  BY Zenon DEF Worse
<1>3. \A b \in Linked(c) : Ancestors[b] \cap Failed(n) = Ancestors[b] \cap Failed(c)
  BY Zenon DEF Sound
<1>4. Valid(n) = Valid(c)  BY Zenon, <1>1, <1>3 DEF Valid
<1>5. Usable(n) = Usable(c)
  <2>1. c.candidates \subseteq Linked(c)  BY Zenon DEF Sound
  <2>2. \A d \in c.candidates : Path(n, d) \cap Failed(n) = Path(c, d) \cap Failed(c)
    BY Zenon, <1>1, <1>3, <2>1 DEF Path
  <2>. QED  BY Zenon, <2>2 DEF Usable
<1>6. Ordered(c) => Ordered(n)  BY Zenon, <1>1, <1>2 DEF Ordered, SeqBounded, NoneWorse
<1>7. \A w : CompleteFrom(c, w) => CompleteFrom(n, w)  BY Zenon, <1>2, <1>4 DEF CompleteFrom
<1>8. \A m : IsBest(c, m) => IsBest(n, m)  BY Zenon, <1>2, <1>5 DEF IsBest
<1>. QED  BY Zenon, <1>5, <1>6, <1>7, <1>8

LEMMA BestQuiet ==
  ASSUME ChainInv, BestInv, chain'.data = chain.data, chain'.seq = chain.seq,
         chain'.candidates = chain.candidates, chain'.tip = chain.tip,
         Failed(chain) \subseteq Failed(chain'), Failed(chain') \cap chain.data \subseteq Failed(chain),
         UNCHANGED <<pc, mostWork, reconsidered>>
  PROVE  BestInv'
<1>0. Sound(chain)  BY Zenon DEF ChainInv
<1>1. /\ Ordered(chain')
      /\ Usable(chain') = Usable(chain)
      /\ \A w : CompleteFrom(chain, w) => CompleteFrom(chain', w)
      /\ \A m : IsBest(chain, m) => IsBest(chain', m)
  BY Zenon, <1>0, BestUnchanged DEF BestInv
<1>2. TargetBest'  BY Zenon, <1>1 DEF BestInv, TargetBest
<1>3. Idle' <=> Idle  BY Zenon DEF Idle
<1>. QED  BY Zenon, <1>1, <1>2, <1>3 DEF BestInv

LEMMA BestNext ==
  ASSUME ChainInv, CleanInv, LinkInv, BestInv, \A t, u \in Threads : t = u,
         [ChainNext]_chainVars
  PROVE  BestInv'
<1>0. Sound(chain) /\ Clean(chain) /\ Ordered(chain) /\ chain.headers \subseteq Blocks
      /\ reconsidered \in Nat
  <2>1. Sound(chain) /\ reconsidered \in Nat
    BY TreeAssumption DEF ChainInv, ThreadsTyped
  <2>2. chain.headers \subseteq Blocks
    BY Zenon, <2>1 DEF Sound, ChainType
  <2>3. Clean(chain) /\ Ordered(chain)
    BY Zenon DEF CleanInv, BestInv
  <2>. QED  BY Zenon, <2>1, <2>2, <2>3
<1>1. ASSUME NEW t \in Threads, NEW b \in Blocks, ProcessNewBlockHeaders(t, b)
      PROVE  BestInv'
  <2>1. /\ chain'.data = chain.data /\ chain'.seq = chain.seq
        /\ chain'.candidates = chain.candidates /\ chain'.tip = chain.tip
        /\ Failed(chain') = Failed(chain)
    BY Zenon, <1>0, <1>1, AddFields DEF ProcessNewBlockHeaders, Failed
  <2>2. UNCHANGED <<pc, mostWork, reconsidered>>  BY Zenon, <1>1 DEF ProcessNewBlockHeaders
  <2>. QED  BY Zenon, <2>1, <2>2, BestQuiet
<1>2. ASSUME NEW t \in Threads, NEW b \in Blocks, NEW requested \in BOOLEAN,
             ProcessNewBlock(t, b, requested)
      PROVE  BestInv'
  <2>. DEFINE c == AddToBlockIndex(chain, b)
  <2>1. /\ Sound(c) /\ b \in c.headers /\ c.data = chain.data /\ c.seq = chain.seq
        /\ c.unlinked = chain.unlinked /\ c.candidates = chain.candidates /\ c.tip = chain.tip
        /\ c.failedValid = chain.failedValid /\ c.failedChild = chain.failedChild
    BY ONLY Zenon, <1>0, b \in Blocks, AddSound, AddFields
  <2>2. /\ \/ StartActivate(t, c)
           \/ /\ b \notin c.data /\ chain' = [c EXCEPT !.failedValid = @ \cup {b}]
              /\ UNCHANGED <<pc, mostWork>>
           \/ b \notin c.data /\ \E n \in ReceivedBlockTransactions(c, b) : StartActivate(t, n)
        /\ reconsidered' = reconsidered
    BY Zenon, <1>2 DEF ProcessNewBlock, Ignored
  <2>. HIDE DEF c
  <2>3. /\ Ordered(c)
        /\ reconsidered = 0 => \E w \in Blocks : CompleteFrom(c, w)
    <3>1. Failed(c) = Failed(chain)  BY Zenon, <2>1 DEF Failed
    <3>. QED  BY <1>0, <2>1, <3>1, BestUnchanged DEF BestInv
  <2>4. CASE StartActivate(t, c)
    BY Zenon, <2>2, <2>3, <2>4, BestStart
  <2>5. CASE b \notin c.data /\ chain' = [c EXCEPT !.failedValid = @ \cup {b}]
             /\ UNCHANGED <<pc, mostWork>>
    <3>1. /\ chain'.data = c.data /\ chain'.seq = c.seq
          /\ chain'.candidates = c.candidates /\ chain'.tip = c.tip
      BY <2>1, <2>5, MarkFields
    <3>2. chain'.failedValid = c.failedValid \cup {b} /\ chain'.failedChild = c.failedChild
      BY Zenon, <2>1, <2>5 DEF Sound, ChainType
    <3>3. Failed(chain) \subseteq Failed(chain') /\ Failed(chain') \cap chain.data \subseteq Failed(chain)
      BY Zenon, <2>1, <2>5, <3>2 DEF Failed
    <3>. QED  BY Zenon, <2>1, <2>2, <2>5, <3>1, <3>3, BestQuiet
  <2>6. ASSUME b \notin c.data, NEW n \in ReceivedBlockTransactions(c, b), StartActivate(t, n)
        PROVE  BestInv'
    <3>1. c.unlinked \cap Linked(c) = {}  BY Zenon, <2>1 DEF LinkInv, Linked
    <3>2. /\ SeqBounded(n) /\ n.tip = c.tip /\ NoneWorse(n)
          /\ \A w : CompleteFrom(c, w) => CompleteFrom(n, w)
      BY <2>1, <2>3, <2>6, <3>1, BestAfterReceive DEF Ordered
    <3>3. Ordered(n)  BY Zenon, <2>3, <3>2 DEF Ordered, Active
    <3>. QED  BY Zenon, <2>2, <2>3, <2>6, <3>2, <3>3, BestStart
  <2>. QED  BY Zenon, <2>2, <2>4, <2>5, <2>6
<1>3. ASSUME NEW t \in Threads, NEW b \in Blocks, invalidateblock(t, b)
      PROVE  BestInv'
  <2>. DEFINE n == InvalidateBlock(chain, b)
  <2>1. StartActivate(t, n) /\ b \in chain.headers \ {Genesis}
    BY Zenon, <1>3 DEF invalidateblock
  <2>2. /\ NoneWorse(n) /\ Active(n) \cap BadToConnect = {} /\ CompleteFrom(n, n.tip)
        /\ Sound(n) /\ Linked(n) = Linked(chain) /\ n.seq = chain.seq
    BY Zenon, <1>0, <2>1, BestAfterInvalidate, InvalidateFields, InvalidateCandidates DEF Ordered
  <2>. HIDE DEF n
  <2>3. Ordered(n) /\ n.tip \in Blocks
    BY Zenon, <1>0, <2>2 DEF Ordered, SeqBounded, Sound, ChainType
  <2>. QED  BY Zenon, <2>1, <2>2, <2>3, BestStart
<1>4. ASSUME NEW t \in Threads, NEW b \in Blocks, reconsiderblock(t, b)
      PROVE  BestInv'
  <2>. DEFINE n == ResetBlockFailureFlags(chain, b)
  <2>1. StartActivate(t, n) /\ b \in chain.headers /\ reconsidered' # 0
    BY <1>0, <1>4 DEF reconsiderblock
  <2>2. /\ Linked(n) = Linked(chain) /\ n.tip = chain.tip /\ n.seq = chain.seq
        /\ \A d \in n.candidates : d \in chain.candidates \/ Worse(chain, chain.tip, d)
    BY Zenon, <1>0, <2>1, ResetFields, ResetCandidates
  <2>3. /\ chain.seq \in [Blocks -> Nat] /\ chain.tip \in Blocks /\ n.candidates \subseteq Blocks
    BY Zenon, <1>0, <2>1, ResetFields DEF Sound, ChainType
  <2>. HIDE DEF n
  <2>4. NoneWorse(n)
    <3>. SUFFICES ASSUME NEW d \in n.candidates PROVE ~Worse(n, d, n.tip)  BY Zenon DEF NoneWorse
    <3>1. ~Worse(chain, d, chain.tip)
      BY Zenon, <1>0, <2>2, <2>3, WorseOrder DEF Ordered, NoneWorse
    <3>. QED  BY Zenon, <2>2, <3>1 DEF Worse
  <2>5. Ordered(n)  BY Zenon, <1>0, <2>2, <2>4 DEF Ordered, SeqBounded, Active
  <2>. QED  BY Zenon, <2>1, <2>5, BestStart
<1>5. ASSUME NEW t \in Threads, ActivateBestChain(t) PROVE BestInv'
  BY Zenon, <1>5, BestActivate
<1>6. CASE UNCHANGED chainVars
  BY Zenon, <1>6 DEF chainVars, BestInv, TargetBest, Idle
<1>. QED
  BY <1>1, <1>2, <1>3, <1>4, <1>5, <1>6, NoAbortStep DEF ChainNext, ChainStep

LEMMA BestInit ==
  ASSUME ChainInit
  PROVE  BestInv
<1>1. /\ chain.seq = [b \in Blocks |-> IF b = Genesis THEN 1 ELSE 0] /\ chain.tip = Genesis
      /\ chain.candidates = {Genesis} /\ Failed(chain) = {} /\ Genesis \in Blocks
      /\ Ancestors[Genesis] = {Genesis} /\ Genesis \notin BadToConnect
  BY Zenon, TreeAssumption DEF ChainInit, GenesisChain, Failed
<1>2. Linked(chain) = {Genesis} /\ chain.seq[Genesis] = 1  BY <1>1 DEF Linked
<1>3. Active(chain) = {Genesis} /\ Valid(chain) = {Genesis} /\ Usable(chain) = {Genesis}
  BY Zenon, <1>1, <1>2 DEF Active, Valid, Usable, Path
<1>4. ~Worse(chain, Genesis, Genesis)
  <2>1. Work[Genesis] \in Nat  BY Zenon, <1>1, TreeAssumption
  <2>. QED  BY <1>2, <2>1 DEF Worse
<1>5. SeqBounded(chain)
  <2>1. Cardinality({Genesis}) = 1  BY Zenon, FS_Singleton
  <2>. QED  BY ONLY <1>2, <2>1 DEF SeqBounded
<1>6. Ordered(chain)  BY <1>1, <1>3, <1>4, <1>5 DEF Ordered, NoneWorse
<1>7. CompleteFrom(chain, chain.tip) /\ IsBest(chain, chain.tip)
  BY <1>1, <1>3, <1>4 DEF CompleteFrom, IsBest
<1>8. TargetBest  BY Zenon DEF ChainInit, TargetBest
<1>. QED  BY Zenon, <1>1, <1>6, <1>7, <1>8 DEF BestInv

\* The inductive invariant of a single thread about setBlockIndexCandidates.
THEOREM BestInvariance ==
  ASSUME \A t, u \in Threads : t = u
  PROVE  ChainSpec => []BestInv
<1>1. ChainInit => BestInv  BY Zenon, BestInit
<1>2. ChainInv /\ CleanInv /\ LinkInv /\ BestInv /\ [ChainNext]_chainVars => BestInv'
  BY Zenon, BestNext
<1>. QED
  BY <1>1, <1>2, ChainInvariance, CleanInvariance, LinkInvariance, PTL DEF ChainSpec

\* With one thread the assertion of PruneBlockIndexCandidates never fails: for
\* every tree, every order of arrival, whatever blocks ConnectBlock rejects, and
\* any number of invalidateblock and reconsiderblock calls.
THEOREM AssertionHolds ==
  ASSUME \A t, u \in Threads : t = u
  PROVE  ChainSpec => []NoAbort
<1>1. ChainInit => NoAbort  BY Zenon DEF ChainInit, NoAbort
<1>2. ChainInv /\ CleanInv /\ BestInv /\ NoAbort /\ [ChainNext]_chainVars => NoAbort'
  BY Zenon, NoAbortStep DEF NoAbort, ChainNext, chainVars
<1>. QED
  BY <1>1, <1>2, ChainInvariance, CleanInvariance, BestInvariance, PTL DEF ChainSpec

\* With one thread, and until reconsiderblock is called, setBlockIndexCandidates
\* holds between two activations exactly what CheckBlockIndex demands.
THEOREM CandidatesAreExact ==
  ASSUME \A t, u \in Threads : t = u
  PROVE  ChainSpec => []CandidatesExact
<1>1. ChainInv /\ FailedHasInvalidAncestor /\ BestInv => CandidatesExact
  <2>. SUFFICES ASSUME ChainInv, FailedHasInvalidAncestor, BestInv, Idle, reconsidered = 0,
                       NEW b \in chain.headers
                PROVE  /\ b \in Linked(chain) /\ ~Worse(chain, b, chain.tip)
                            /\ ~HasInvalidAncestor(chain, b) => b \in chain.candidates
                       /\ b \in chain.candidates =>
                            b \in Linked(chain) /\ ~Worse(chain, b, chain.tip)
    BY Zenon DEF CandidatesExact
  <2>1. Sound(chain) /\ CompleteFrom(chain, chain.tip) /\ NoneWorse(chain)
    BY Zenon DEF ChainInv, BestInv, Ordered
  <2>2. b \in Blocks  BY Zenon, <2>1 DEF Sound, ChainType
  <2>3. ~HasInvalidAncestor(chain, b) => Ancestors[b] \cap Failed(chain) = {}
    <3>. SUFFICES ASSUME NEW x \in Ancestors[b], x \in Failed(chain)
                  PROVE  HasInvalidAncestor(chain, b)
      OBVIOUS
    <3>1. Ancestors[x] \subseteq Ancestors[b]  BY Zenon, <2>2, AncestryAssumption
    <3>2. HasInvalidAncestor(chain, x)  BY Zenon DEF FailedHasInvalidAncestor
    <3>. QED  BY ONLY Zenon, <3>1, <3>2 DEF HasInvalidAncestor
  <2>. QED  BY Zenon, <2>1, <2>3 DEF CompleteFrom, Valid, NoneWorse, Sound
<1>. QED  BY <1>1, ChainInvariance, MarksHaveCause, BestInvariance, PTL

\* With one thread, and until reconsiderblock is called, ActivateBestChain
\* returns only with the best valid chain it has the blocks of.
THEOREM TipIsBest ==
  ASSUME \A t, u \in Threads : t = u
  PROVE  ChainSpec => []IdleTipIsBest
<1>1. ChainInv /\ BestInv => IdleTipIsBest
  <2>. SUFFICES ASSUME ChainInv, BestInv, Idle, reconsidered = 0,
                       NEW b \in Linked(chain), Ancestors[b] \cap Failed(chain) = {},
                       Worse(chain, chain.tip, b)
                PROVE  FALSE
    BY Zenon DEF IdleTipIsBest
  <2>1. /\ CompleteFrom(chain, chain.tip) /\ IsBest(chain, chain.tip)
        /\ chain.seq \in [Blocks -> Nat] /\ chain.tip \in Blocks /\ b \in Blocks
    BY Zenon DEF ChainInv, BestInv, Sound, ChainType, Linked
  <2>2. b \in chain.candidates
    BY Zenon, <2>1, WorseOrder DEF CompleteFrom, Valid
  <2>3. b \in Usable(chain)  BY Zenon, <2>2 DEF Usable, Path
  <2>. QED  BY Zenon, <2>1, <2>3 DEF IsBest
<1>. QED  BY <1>1, ChainInvariance, BestInvariance, PTL
============================================================================
