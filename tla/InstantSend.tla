---------------------------- MODULE InstantSend ----------------------------
(***************************************************************************)
(* CInstantSendManager of one masternode: the way of a transaction from    *)
(* the vote on its inputs to a stored lock, the tracking of transactions   *)
(* that are not locked, and what a lock does to conflicting transactions   *)
(* in the memory pool and in blocks.  The network decides ids as in        *)
(* SigningService.  A lock is a transaction and the quorum that signed it:  *)
(* while quorums rotate, a transaction can get locks with two signatures,   *)
(* which differ in their hash.                                             *)
(***************************************************************************)
EXTENDS Integers, Sequences, FiniteSets, SequencesExt

CONSTANTS
  Txs, Outpoints,
  Inputs,         \* Inputs[t]: the outpoints t spends
  Source,         \* Source[o]: the transaction that made o; those not in Txs are old
  Quorums,        \* those whose signature a lock may carry
  Worlds,         \* what may happen in one behaviour, see world
  Confirmations,  \* nInstantSendConfirmationsRequired
  MaxBlocks, MaxReorgs,
  None

ASSUME InstantSendAssumption ==
  /\ Inputs \in [Txs -> SUBSET Outpoints \ {{}}]
  /\ None \notin Txs \cup Outpoints
  /\ Confirmations \in Nat /\ MaxBlocks \in Nat /\ MaxReorgs \in Nat

VARIABLES
  chain,     \* the active chain: blocks [id, height, txs] above the old ones
  made,      \* blocks connected so far
  reorgs,
  txindex,   \* the block a transaction was last connected in, kept on disconnect
  locked,    \* ids of blocks with a ChainLock
  notified,  \* id of the block of the last NotifyChainLock
  mempool,
  world,     \* txs: the transactions made; blocks: what blocks hold; sigs, msgs:
             \* the locks whose recovered signatures or message reach this node
  decided,   \* decided[id]: the one transaction the quorum signs for id
  known,     \* known[id]: the recovered signatures of this node
  vote,      \* vote[id]: GetVoteForId
  db,        \* CInstantSendDb, see DbType
  mgr,       \* what cs of the manager guards, see MgrType
  main,      \* what the holder of cs_main still has to do
  task,      \* task[w]: what the worker, and the signing thread, do next
  missed     \* what a lock may have missed: "race", it was stored in the middle of a
             \* notification that concerns it; "index" and "stale", see StoreLock;
             \* "pprev", see SyncTransaction

vars == <<chain, made, reorgs, txindex, locked, notified, mempool, world, decided, known, vote, db,
          mgr, main, task, missed>>
chainVars == <<chain, made, reorgs, txindex, locked, notified>>
netVars   == <<world, decided>>
sigVars   == <<netVars, known, vote>>

Locks == [tx : Txs, quorum : Quorums]

Conflict(t, u) == t # u /\ Inputs[t] \cap Inputs[u] # {}
Parents(t) == {Source[o] : o \in Inputs[t]}
Sources    == Txs \cup {Source[o] : o \in Outpoints}

\* The request ids of an input and of a lock; the latter hashes the inputs.
InputId(o) == <<"input", {o}>>
LockId(t)  == <<"lock", Inputs[t]>>
Ids == {InputId(o) : o \in Outpoints} \cup {LockId(t) : t \in Txs}

BlockIds == 1..MaxBlocks
DbType ==
  [locks : SUBSET Locks,                               \* is_i
   byTx : [Txs -> Locks \cup {None}],                  \* is_tx
   byInput : [Outpoints -> Locks \cup {None}],         \* is_in
   mined : SUBSET ((1..MaxBlocks) \X Locks),           \* is_m
   archived : SUBSET Locks]                            \* is_a1, is_a2
InfoType == [tx : BOOLEAN, mined : BlockIds \cup {None}, children : SUBSET Txs]
MgrType ==
  [requestIds : SUBSET Outpoints,                      \* inputRequestIds
   creating : [{LockId(t) : t \in Txs} -> Txs \cup {None}],
   txToCreating : SUBSET Txs,
   pending : SUBSET Locks,
   nonLocked : [Sources -> InfoType \cup {None}],
   byInputs : SUBSET (Outpoints \X Txs),               \* nonLockedTxsByInputs
   retry : SUBSET Txs]

Fresh == [tx |-> FALSE, mined |-> None, children |-> {}]
Idle  == [op |-> "idle"]

\* The quorum signs each input for one transaction, and the lock of a
\* transaction if all inputs were signed for it.  When a node learns of it, if at
\* all, is up to the network.
Outcomes(S) ==
  {f \in [Ids -> S \cup {None}] :
     /\ \A o \in Outpoints : f[InputId(o)] \in {t \in S : o \in Inputs[t]} \cup {None}
     /\ \A o \in Outpoints : f[InputId(o)] = None => ~\E t \in S : o \in Inputs[t]
     /\ \A u \in Txs :
          f[LockId(u)] = IF \E t \in S : LockId(t) = LockId(u) /\ \A o \in Inputs[t] : f[InputId(o)] = t
                         THEN f[InputId(CHOOSE o \in Inputs[u] : TRUE)] ELSE None}

Init ==
  /\ chain = <<>> /\ made = 0 /\ reorgs = 0 /\ locked = {} /\ notified = None
  /\ mempool = {} /\ txindex = [t \in Txs |-> None]
  /\ world \in Worlds /\ decided \in Outcomes(world.txs)
  /\ known = [id \in Ids |-> None] /\ vote = known
  /\ db = [locks |-> {}, byTx |-> [t \in Txs |-> None], byInput |-> [o \in Outpoints |-> None],
           mined |-> {}, archived |-> {}]
  /\ mgr = [requestIds |-> {}, creating |-> [id \in {LockId(t) : t \in Txs} |-> None],
            txToCreating |-> {}, pending |-> {}, nonLocked |-> [k \in Sources |-> None],
            byInputs |-> {}, retry |-> {}]
  /\ main = <<>> /\ task = [w \in {"worker", "signer"} |-> Idle] /\ missed = {}

-----------------------------------------------------------------------------
(* The chain and the memory pool, as the manager sees them. *)

TxsOf(c) == UNION {ToSet(c[i].txs) : i \in 1..Len(c)}
MinedIn(t) ==
  IF t \in TxsOf(chain)
    THEN CHOOSE b \in ToSet(chain) : t \in ToSet(b.txs) ELSE None
\* GetTransaction: the block it reports, which may be one that was disconnected.
BlockOf(t) == IF t \in mempool THEN None ELSE txindex[t]
Found(t)   == t \in mempool \/ txindex[t] # None
HasChainLock(b) == b # None /\ b.id \in locked
Tip == IF chain = <<>> THEN None ELSE Last(chain)

\* The transactions of S and those that spend their outputs, within pool.
WithDescendants(S, pool) ==
  LET grow[n \in 0..Cardinality(Txs)] ==
        IF n = 0 THEN S
        ELSE grow[n-1] \cup {u \in pool : Parents(u) \cap grow[n-1] # {}}
  IN  grow[Cardinality(Txs)]

\* On the chain c the inputs of t exist and are unspent, also in the memory pool.
Available(t, c) ==
  LET others == mempool \cup TxsOf(c)
  IN  /\ t \notin others /\ Parents(t) \cap Txs \subseteq others
      /\ \A u \in others : ~Conflict(t, u)

IsLocked(t) == db.byTx[t] \in db.locks

\* The locks of other transactions on inputs of t.
GetConflictingLock(t) == {l \in {db.byInput[o] : o \in Inputs[t]} \cap db.locks : l.tx # t}

-----------------------------------------------------------------------------
(* CInstantSendDb. *)

\* The index entries of another lock of the transaction are overwritten.
WriteNewInstantSendLock(d, l) ==
  [d EXCEPT !.locks = @ \cup {l},
            !.byTx[l.tx] = l,
            !.byInput = [o \in Outpoints |-> IF o \in Inputs[l.tx] THEN l ELSE @[o]]]

\* Mutant: the index by input keeps its entries.
RemoveInstantSendLocks_NoIndex(d, S) ==
  [d EXCEPT !.locks = @ \ S,
            !.byTx = [t \in Txs |-> IF \E l \in S \cap d.locks : l.tx = t THEN None ELSE @[t]]]

\* The index entries go with the lock, even those of another lock of the
\* transaction.
RemoveInstantSendLocks(d, S) ==
  LET gone == {l.tx : l \in S \cap d.locks}
  IN  [d EXCEPT !.locks = @ \ S,
                !.byTx = [t \in Txs |-> IF t \in gone THEN None ELSE @[t]],
                !.byInput = [o \in Outpoints |->
                   IF \E t \in gone : o \in Inputs[t] THEN None ELSE @[o]]]

\* The children are found through the index by input.
RemoveChainedInstantSendLocks(d, lock) ==
  LET grow[n \in 0..Cardinality(Txs)] ==
        IF n = 0 THEN {lock}
        ELSE grow[n-1] \cup {d.byInput[o] : o \in {x \in Outpoints :
                 d.byInput[x] \in d.locks /\ \E l \in grow[n-1] : l.tx = Source[x]}}
      gone == grow[Cardinality(Txs)]
  IN  [RemoveInstantSendLocks(d, gone) EXCEPT !.archived = @ \cup gone]

ConfirmedLocks(d, height) == {e[2] : e \in {x \in d.mined : x[1] <= height}}

RemoveConfirmedInstantSendLocks(d, height) ==
  [RemoveInstantSendLocks(d, ConfirmedLocks(d, height))
     EXCEPT !.archived = @ \cup ConfirmedLocks(d, height),
            !.mined = {e \in @ : e[1] > height}]

-----------------------------------------------------------------------------
(* The transactions that are not locked. *)

\* A parent that was only seen through its children gets no entry by inputs.
AddNonLockedTx(m, t, block) ==
  LET new  == m.nonLocked[t] = None
      info == IF new THEN Fresh ELSE m.nonLocked[t]
  IN  [m EXCEPT
         !.nonLocked = [k \in Sources |->
            CASE k = t -> [info EXCEPT !.tx = TRUE, !.mined = block]
              [] k # t /\ ~info.tx /\ k \in Parents(t) ->
                   [(IF @[k] = None THEN Fresh ELSE @[k]) EXCEPT !.children = @ \cup {t}]
              [] OTHER -> @[k]],
         !.byInputs = IF new THEN @ \cup (Inputs[t] \X {t}) ELSE @]

\* Mutant: a transaction that got locked wakes nobody.
RetriedChildren_None(info, retryChildren) == {}

RetriedChildren(info, retryChildren) == IF retryChildren THEN info.children ELSE {}

\* The entries of all transactions with an input of t go, not only those of t.
RemoveNonLockedTx(m, t, retryChildren) ==
  IF m.nonLocked[t] = None THEN m
  ELSE LET info == m.nonLocked[t]
           Drop(k) == [m.nonLocked[k] EXCEPT !.children = @ \ {t}]
       IN [m EXCEPT
             !.retry = @ \cup RetriedChildren(info, retryChildren),
             !.nonLocked = [k \in Sources |->
                CASE k = t -> None
                  [] k # t /\ @[k] # None /\ info.tx /\ k \in Parents(t) ->
                       IF ~@[k].tx /\ Drop(k).children = {} THEN None ELSE Drop(k)
                  [] OTHER -> @[k]],
             !.byInputs = IF info.tx THEN {e \in @ : e[1] \notin Inputs[t]} ELSE @]

\* The request id is made of the whole input instead of its prevout here, so
\* that none is erased.
RemoveConflictedTxs(m, S) ==
  FoldLeft(LAMBDA x, t : RemoveNonLockedTx(x, t, FALSE), m, SetToSeq(S))

-----------------------------------------------------------------------------
(* Threads.  "main" is whoever holds cs_main; its calls are executed in     *)
(* order, each in the steps between which cs is released.                   *)

Current(w) == IF w # "main" THEN task[w] ELSE IF main = <<>> THEN Idle ELSE Head(main)

\* w goes on with the call, or is done with it if that is Idle.
Continue(w, call) ==
  IF w = "main"
    THEN main' = (IF call = Idle THEN <<>> ELSE <<call>>) \o Tail(main) /\ UNCHANGED task
    ELSE task' = [task EXCEPT ![w] = call] /\ UNCHANGED main

\* w has, or can take, cs_main.
Free(w) == w = "main" \/ main = <<>>

SyncCall(t, block, disc) == [op |-> "sync", tx |-> t, block |-> block, disc |-> disc]

\* What DisconnectTip does with the transactions of block.
DisconnectCalls(block) ==
  LET For(call(_)) == [i \in 1..Len(block.txs) |-> call(block.txs[i])]
  IN  For(LAMBDA t : [op |-> "accept", tx |-> t, block |-> block])
        \o <<[op |-> "tip"]>> \o For(LAMBDA t : SyncCall(t, block, TRUE))

-----------------------------------------------------------------------------
(* ProcessTx and the locking of inputs. *)

CheckCanLock(t) ==
  \A o \in Inputs[t] :
    LET s == Source[o] IN
    \/ s \notin Txs \/ IsLocked(s)
    \/ /\ BlockOf(s) # None
       /\ \/ Len(chain) - BlockOf(s).height + 1 >= Confirmations
          \/ HasChainLock(BlockOf(s))

\* AsyncSignIfMember.
AsyncSignIfMember(ids, t) ==
  vote' = [id \in Ids |->
             IF id \in ids /\ vote[id] = None /\ known[id] = None THEN t ELSE vote[id]]

\* The checks of ProcessTx.
ProcessTx(w) ==
  LET c == Current(w)
      t == c.tx
      ids == {InputId(o) : o \in Inputs[t]}
      pass == /\ GetConflictingLock(t) = {}
              /\ CheckCanLock(t)
              /\ \A id \in ids : {vote[id], known[id]} \subseteq {None, t}
              /\ c.resign \/ \E id \in ids : vote[id] = None
  IN  /\ c.op = "process"
      /\ Free(w) \/ \A s \in Parents(t) : s \in mempool \/ (s \in Txs /\ IsLocked(s))
      /\ Continue(w, IF pass THEN [c EXCEPT !.op = "sign"]
                     ELSE IF w = "main" THEN [c EXCEPT !.op = "track"] ELSE Idle)
      /\ UNCHANGED <<chainVars, sigVars, mempool, db, mgr, missed>>

\* TrySignInstantSendLock up to its lock.
CanCreateLock(t) ==
  known[LockId(t)] = None /\ \A o \in Inputs[t] : known[InputId(o)] = t

\* The rest of ProcessTx: votes on the inputs, TrySignInstantSendLock.
SignInputs(w) ==
  LET c == Current(w)
      t == c.tx
  IN  /\ c.op = "sign"
      /\ AsyncSignIfMember({InputId(o) : o \in Inputs[t]}, t)
      /\ mgr' = [mgr EXCEPT !.requestIds = @ \cup Inputs[t]]
      /\ Continue(w, IF CanCreateLock(t) THEN [c EXCEPT !.op = "create"]
                     ELSE IF w = "main" THEN [c EXCEPT !.op = "track"] ELSE Idle)
      /\ UNCHANGED <<chainVars, netVars, known, mempool, db, missed>>

AddCreating(m, t) ==
  [m EXCEPT !.creating[LockId(t)] = t, !.txToCreating = @ \cup {t}]

\* TrySignInstantSendLock from its lock on.
CreateLock(w) ==
  LET c == Current(w)
      t == c.tx
      new == mgr.creating[LockId(t)] = None
  IN  /\ c.op = "create"
      /\ mgr' = IF new THEN AddCreating(mgr, t) ELSE mgr
      /\ AsyncSignIfMember(IF new THEN {LockId(t)} ELSE {}, t)
      /\ Continue(w, IF w = "main" THEN [c EXCEPT !.op = "track"] ELSE Idle)
      /\ UNCHANGED <<chainVars, netVars, known, mempool, db, missed>>

\* The members of the quorum have found the parents of t locked or confirmed.
Lockable(t) ==
  \A s \in Parents(t) \cap Txs :
    \/ decided[LockId(s)] = s \/ HasChainLock(MinedIn(s))
    \/ MinedIn(s) # None /\ Len(chain) - MinedIn(s).height + 1 >= Confirmations

\* HandleNewRecoveredSig, called where the signing manager stores a signature:
\* that of the lock l, also made from its message, or of one of its inputs.
HandleNewRecoveredSig(id, l) ==
  LET t == l.tx
      own == id \in DOMAIN mgr.creating /\ mgr.creating[id] # None
  IN  /\ task["signer"] = Idle /\ known[id] = None
      /\ l \in world.sigs \/ (l \in world.msgs /\ id = LockId(t))
      /\ decided[id] = t /\ Lockable(t)
      /\ known' = [known EXCEPT ![id] = t]
      /\ mgr' = IF own THEN [mgr EXCEPT !.creating[id] = None,
                                        !.txToCreating = @ \ {mgr.creating[id]}] ELSE mgr
      /\ task' = [task EXCEPT !["signer"] =
           CASE \E o \in mgr.requestIds : id = InputId(o) -> [op |-> "input", tx |-> t]
             [] own /\ mgr.creating[id] = t -> [op |-> "lookup", lock |-> l]
             [] OTHER -> Idle]
      /\ UNCHANGED <<chainVars, netVars, vote, mempool, db, main, missed>>

\* HandleNewInputLockRecoveredSig.
HandleNewInputLockRecoveredSig ==
  LET c == task["signer"]
  IN  /\ c.op = "input" /\ Free("signer")
      /\ Continue("signer", IF Found(c.tx) /\ CanCreateLock(c.tx)
                            THEN [c EXCEPT !.op = "create"] ELSE Idle)
      /\ UNCHANGED <<chainVars, sigVars, mempool, db, mgr, missed>>

-----------------------------------------------------------------------------
(* What the holder of cs_main does. *)

\* AcceptToMemoryPool up to the check for a conflicting lock.  A transaction of
\* a disconnected block that fails leaves with all its descendants.
AcceptCheck ==
  LET c  == Current("main")
      ok == /\ Available(c.tx, IF c.block = None THEN chain ELSE Front(chain))
            /\ GetConflictingLock(c.tx) = {}
  IN  /\ c.op = "accept"
      /\ Continue("main", IF ok THEN [c EXCEPT !.op = "add"] ELSE Idle)
      /\ mempool' = IF ok \/ c.block = None THEN mempool
                    ELSE mempool \ WithDescendants({c.tx}, mempool)
      /\ UNCHANGED <<chainVars, sigVars, db, mgr, missed>>

AcceptAdd ==
  LET c == Current("main")
  IN  /\ c.op = "add"
      /\ mempool' = mempool \cup {c.tx}
      /\ Continue("main", SyncCall(c.tx, None, FALSE))
      /\ UNCHANGED <<chainVars, sigVars, db, mgr, missed>>

\* The transactions of the call's block from its next one on, in the loop of
\* ConnectBlock that looks for conflicting locks.  Against a block with a ChainLock
\* the lock gives way; the assertion that none is left then ends the process if a
\* new lock came in between.
FilterBlock ==
  LET c    == Current("main")
      txs  == c.block.txs
      hits == {i \in c.next..Len(txs) : GetConflictingLock(txs[i]) # {}}
      hit  == Min(hits)
  IN  /\ c.op = "filter"
      /\ c.next > 1 => GetConflictingLock(txs[c.next - 1]) = {}
      /\ \/ /\ hits = {}
            /\ Continue("main", [c EXCEPT !.op = "connect"]) /\ UNCHANGED db
         \/ /\ hits # {} /\ HasChainLock(c.block)
            /\ \E l \in GetConflictingLock(txs[hit]) : db' = RemoveChainedInstantSendLocks(db, l)
            /\ Continue("main", [c EXCEPT !.next = hit + 1])
         \/ /\ hits # {} /\ ~HasChainLock(c.block)
            /\ Continue("main", Idle) /\ UNCHANGED db
      /\ UNCHANGED <<chainVars, sigVars, mempool, mgr, missed>>

\* ConnectTip after ConnectBlock.  SyncTransaction is called for conflicts that
\* left the memory pool, without a block, and then for the block's own.
ConnectTip ==
  LET b    == Current("main").block
      txs  == ToSet(b.txs)
      gone == WithDescendants({u \in mempool : \E t \in txs : Conflict(t, u)}, mempool)
      none == SetToSeq(gone)
  IN  /\ Current("main").op = "connect"
      /\ chain' = Append(chain, b)
      /\ txindex' = [t \in Txs |-> IF t \in txs THEN b ELSE txindex[t]]
      /\ mempool' = mempool \ (txs \cup gone)
      /\ main' = [i \in 1..Len(none) |-> SyncCall(none[i], None, FALSE)]
                   \o [i \in 1..Len(b.txs) |-> SyncCall(b.txs[i], b, FALSE)] \o Tail(main)
      /\ made' = made + 1
      /\ UNCHANGED <<reorgs, locked, notified, sigVars, db, mgr, task, missed>>

DisconnectTip ==
  /\ Current("main").op = "tip"
  /\ chain' = Front(chain)
  /\ Continue("main", Idle)
  /\ UNCHANGED <<made, reorgs, txindex, locked, notified, sigVars, mempool, db, mgr, missed>>

\* Mutant: the block is taken for the successor of the one that is meant.
FileLock_Predecessor(d, t, block, disc) ==
  IF d.byTx[t] = None \/ block = None THEN d
  ELSE [d EXCEPT !.mined = IF disc THEN @ \ {<<block.height, d.byTx[t]>>}
                                   ELSE @ \cup {<<block.height - 1, d.byTx[t]>>}]

\* The lock the index has for t is filed under the height of its block, or no longer.
FileLock(d, t, block, disc) ==
  IF d.byTx[t] = None \/ block = None THEN d
  ELSE [d EXCEPT !.mined = IF disc THEN @ \ {<<block.height, d.byTx[t]>>}
                                   ELSE @ \cup {<<block.height, d.byTx[t]>>}]

\* SyncTransaction, first part.  With a block it says that the block was
\* connected or, if disc, disconnected; then it is called with the predecessor,
\* whose ChainLock is taken for one of the transaction.
SyncTransaction ==
  LET c == Current("main")
      t == c.tx
      inMempool == t \in mempool
      isLocked  == db.byTx[t] # None \/ HasChainLock(IF c.disc THEN Tip ELSE c.block)
      next == [op |-> IF isLocked THEN "track" ELSE "process", tx |-> t, block |-> c.block,
               disc |-> c.disc, resign |-> ~inMempool /\ ~c.disc, locked |-> isLocked]
  IN  /\ c.op = "sync"
      /\ IF c.disc /\ ~inMempool
           THEN /\ mgr' = RemoveConflictedTxs(mgr, {t})
                /\ Continue("main", Idle) /\ UNCHANGED <<db, missed>>
           ELSE /\ db' = FileLock(db, t, c.block, c.disc)
                /\ missed' = missed \cup (IF c.disc /\ HasChainLock(Tip) THEN {"pprev"} ELSE {})
                /\ Continue("main", next) /\ UNCHANGED mgr
      /\ UNCHANGED <<chainVars, sigVars, mempool>>

\* SyncTransaction, last part.
TrackTransaction ==
  LET c == Current("main")
  IN  /\ c.op = "track"
      /\ mgr' = IF c.locked THEN RemoveNonLockedTx(mgr, c.tx, TRUE)
                ELSE AddNonLockedTx(mgr, c.tx,
                       IF c.block = None \/ c.disc THEN None ELSE c.block.id)
      /\ Continue("main", Idle)
      /\ UNCHANGED <<chainVars, sigVars, mempool, db, missed>>

-----------------------------------------------------------------------------
(* ProcessInstantSendLock of the worker or the signing thread, step by step. *)

\* A lock of a transaction in a block with a ChainLock is ignored.
LookupTx(w) ==
  LET c == Current(w)
      b == BlockOf(c.lock.tx)
  IN  /\ c.op = "lookup" /\ Free(w)
      /\ Continue(w, IF HasChainLock(b) THEN Idle
                     ELSE [op |-> "store", lock |-> c.lock, block |-> b])
      /\ UNCHANGED <<chainVars, sigVars, mempool, db, mgr, missed>>

\* The holder of cs_main is about to notify, or has checked, a transaction that
\* is the one of the lock, conflicts with it or spends its outputs.
Concerns(t) ==
  \E i \in 1..Len(main) :
    \E u \in CASE main[i].op = "connect" -> ToSet(main[i].block.txs)
               [] main[i].op = "filter" -> ToSet(SubSeq(main[i].block.txs, 1, main[i].next - 1))
               [] main[i].op = "tip" -> {}
               [] OTHER -> {main[i].tx} :
      u = t \/ Conflict(u, t) \/ t \in Parents(u)

\* The mined transactions that conflict with the lock, as the indices tell.
MinedConflicts(t) ==
  {u \in Txs \ {t} :
     /\ \E o \in Inputs[t] : <<o, u>> \in mgr.byInputs
     /\ mgr.nonLocked[u] # None /\ mgr.nonLocked[u].mined # None /\ mgr.nonLocked[u].tx}

\* The lock is stored and its transaction no longer tracked.  If it was, the
\* entries of mined conflicts go with its own before ResolveBlockConflicts.
\* Another lock of the transaction is only logged.
StoreLock(w) ==
  LET c == Current(w)
      t == c.lock.tx
      tracked == mgr.nonLocked[t] # None /\ mgr.nonLocked[t].tx
      m == [mgr EXCEPT !.creating[LockId(t)] = None, !.txToCreating = @ \ {t}]
      d == WriteNewInstantSendLock(db, c.lock)
  IN  /\ c.op = "store"
      /\ IF c.lock \in db.locks
           THEN mgr' = m /\ Continue(w, Idle) /\ UNCHANGED <<db, missed>>
           ELSE /\ db' = IF c.block = None THEN d
                         ELSE [d EXCEPT !.mined = @ \cup {<<c.block.height, c.lock>>}]
                /\ mgr' = RemoveNonLockedTx(m, t, TRUE)
                /\ missed' = missed
                     \cup (IF Concerns(t) \/ c.block # BlockOf(t) THEN {"race"} ELSE {})
                     \cup (IF c.block # None /\ c.block # MinedIn(t) THEN {"stale"} ELSE {})
                     \cup (IF tracked /\ MinedConflicts(t) # {} THEN {"index"} ELSE {})
                /\ Continue(w, [op |-> "mempool", lock |-> c.lock])
      /\ UNCHANGED <<chainVars, sigVars, mempool>>

\* Mutant: the conflicts are left in the memory pool.
MempoolConflicts_None(t) == {}

MempoolConflicts(t) == {u \in mempool : Conflict(u, t)}

\* RemoveMempoolConflictsForLock under the lock of the memory pool, and then cs.
RemoveMempoolConflictsForLock(w) ==
  LET c == Current(w)
      gone == MempoolConflicts(c.lock.tx)
  IN  /\ c.op = "mempool"
      /\ mempool' = mempool \ WithDescendants(gone, mempool)
      /\ Continue(w, IF gone = {} THEN [c EXCEPT !.op = "conflicts"]
                     ELSE [op |-> "untrack", lock |-> c.lock, txs |-> gone])
      /\ UNCHANGED <<chainVars, sigVars, db, mgr, missed>>

UntrackMempoolConflicts(w) ==
  LET c == Current(w)
  IN  /\ c.op = "untrack"
      /\ mgr' = RemoveConflictedTxs(mgr, c.txs)
      /\ Continue(w, [op |-> "conflicts", lock |-> c.lock])
      /\ UNCHANGED <<chainVars, sigVars, mempool, db, missed>>

\* ResolveBlockConflicts: a ChainLock wins over the lock, the lock over a block.
ResolveBlockConflicts(w) ==
  LET c == Current(w)
      bad == MinedConflicts(c.lock.tx)
      ids == {mgr.nonLocked[u].mined : u \in bad}
  IN  /\ c.op = "conflicts"
      /\ IF ids \cap locked # {}
           THEN db' = RemoveChainedInstantSendLocks(db, c.lock) /\ Continue(w, Idle)
           ELSE /\ Continue(w, IF bad = {} THEN Idle
                               ELSE [op |-> "invalidate", txs |-> bad, ids |-> ids])
                /\ UNCHANGED db
      /\ UNCHANGED <<chainVars, sigVars, mempool, mgr, missed>>

\* InvalidateBlock of the blocks found, which disconnects them.
InvalidateBlocks(w) ==
  LET c == Current(w)
      from == {i \in 1..Len(chain) : \E j \in 1..i : chain[j].id \in c.ids}
      calls == [k \in 1..Cardinality(from) |-> DisconnectCalls(chain[Len(chain) - k + 1])]
  IN  /\ c.op = "invalidate" /\ main = <<>>
      /\ mgr' = RemoveConflictedTxs(mgr, c.txs)
      /\ main' = FlattenSeq(calls)
      /\ task' = [task EXCEPT ![w] = [op |-> "wait"]]
      /\ UNCHANGED <<chainVars, sigVars, mempool, db, missed>>

InvalidateDone(w) ==
  /\ Current(w).op = "wait" /\ main = <<>>
  /\ Continue(w, Idle)
  /\ UNCHANGED <<chainVars, sigVars, mempool, db, mgr, missed>>

\* ProcessPendingInstantSendLocks and ProcessPendingRetryLockTxs, an entry at a time.
ProcessPendingLock(l) ==
  /\ task["worker"] = Idle /\ l \in mgr.pending
  /\ mgr' = [mgr EXCEPT !.pending = @ \ {l}]
  /\ Continue("worker", [op |-> "lookup", lock |-> l])
  /\ UNCHANGED <<chainVars, sigVars, mempool, db, missed>>

\* The quorum is no longer the one selected and the signature is refused; it is
\* not looked at if the recovered signature of the lock, by any quorum, is there.
DropPendingLock(l) ==
  /\ task["worker"] = Idle /\ l \in mgr.pending
  /\ known[LockId(l.tx)] # l.tx
  /\ mgr' = [mgr EXCEPT !.pending = @ \ {l}]
  /\ UNCHANGED <<chainVars, sigVars, mempool, db, main, task, missed>>

ProcessPendingRetry(t) ==
  LET info == mgr.nonLocked[t]
      try == /\ info # None /\ info.tx /\ t \notin mgr.txToCreating
             /\ ~IsLocked(t) /\ GetConflictingLock(t) = {}
  IN  /\ task["worker"] = Idle /\ t \in mgr.retry
      /\ mgr' = [mgr EXCEPT !.retry = @ \ {t}]
      /\ Continue("worker", IF try THEN [op |-> "process", tx |-> t, resign |-> FALSE] ELSE Idle)
      /\ UNCHANGED <<chainVars, sigVars, mempool, db, missed>>

-----------------------------------------------------------------------------
(* NotifyChainLock of the active block with the ChainLock.  Its caller has   *)
(* seen the block in the active chain under cs_main.                        *)

\* HandleFullyConfirmedBlock.
HandleFullyConfirmedBlock(b) ==
  LET gone == ConfirmedLocks(db, b.height) \cap db.locks
      ins  == UNION {Inputs[l.tx] : l \in gone}
      buried == {t \in Txs : mgr.nonLocked[t] # None
                   /\ \E i \in 1..b.height : chain[i].id = mgr.nonLocked[t].mined}
      m == [mgr EXCEPT !.requestIds = @ \ ins]
  IN  /\ db' = RemoveConfirmedInstantSendLocks(db, b.height)
      /\ known' = [id \in Ids |->
           IF id \in {InputId(o) : o \in ins} \cup {LockId(l.tx) : l \in gone}
             THEN None ELSE known[id]]
      /\ mgr' = FoldLeft(LAMBDA x, t : RemoveNonLockedTx(x, t, TRUE), m, SetToSeq(buried))

NotifyChainLock(i) ==
  /\ chain[i].id \in locked /\ notified # chain[i].id
  /\ ~\E k \in 1..Len(main) : main[k].op # "tip" /\ main[k].block = chain[i]
  /\ \A j \in i+1..Len(chain) : chain[j].id \notin locked
  /\ HandleFullyConfirmedBlock(chain[i])
  /\ notified' = chain[i].id
  /\ UNCHANGED <<chain, made, reorgs, txindex, locked, netVars, vote, mempool, main, task, missed>>

-----------------------------------------------------------------------------
(* The environment. *)

\* A peer or the wallet brings a transaction.
Submit(t) ==
  /\ main = <<>> /\ t \in world.txs /\ Available(t, chain)
  /\ main' = <<[op |-> "accept", tx |-> t, block |-> None]>>
  /\ UNCHANGED <<chainVars, sigVars, mempool, db, mgr, task, missed>>

\* ConnectBlock of a new block of valid transactions.  hasLock: its ChainLock
\* came first.
ConnectBlock(txs, hasLock) ==
  LET b == [id |-> made + 1, height |-> Len(chain) + 1, txs |-> txs]
      spent == TxsOf(chain)
  IN  /\ main = <<>> /\ made < MaxBlocks
      /\ \A i \in 1..Len(txs) :
           /\ txs[i] \notin spent /\ \A u \in spent : ~Conflict(txs[i], u)
           /\ Parents(txs[i]) \cap Txs \subseteq spent \cup {txs[j] : j \in 1..i-1}
      /\ locked' = IF hasLock THEN locked \cup {b.id} \cup {chain[i].id : i \in 1..Len(chain)}
                   ELSE locked
      /\ main' = <<[op |-> "filter", block |-> b, next |-> 1]>>
      /\ UNCHANGED <<chain, made, reorgs, txindex, notified, sigVars, mempool, db, mgr, task, missed>>

\* A better chain appears.  Blocks with a ChainLock stay.
Reorganise ==
  /\ main = <<>> /\ chain # <<>> /\ reorgs < MaxReorgs /\ Tip.id \notin locked
  /\ reorgs' = reorgs + 1
  /\ main' = DisconnectCalls(Tip)
  /\ UNCHANGED <<chain, made, txindex, locked, notified, sigVars, mempool, db, mgr, task, missed>>

\* A ChainLock for an active block arrives.
NewChainLock(i) ==
  /\ main = <<>>
  /\ chain[i].id \notin locked
  /\ locked' = locked \cup {chain[j].id : j \in 1..i}
  /\ UNCHANGED <<chain, made, reorgs, txindex, notified, sigVars, mempool, db, mgr, main, task, missed>>

ProcessMessageInstantSendLock(l) ==
  /\ l \in world.msgs /\ decided[LockId(l.tx)] = l.tx /\ Lockable(l.tx)
  /\ l \notin db.locks \cup mgr.pending
  /\ mgr' = [mgr EXCEPT !.pending = @ \cup {l}]
  /\ UNCHANGED <<chainVars, sigVars, mempool, db, main, task, missed>>

ThreadStep(w) ==
  \/ ProcessTx(w) \/ SignInputs(w) \/ CreateLock(w)
  \/ LookupTx(w) \/ StoreLock(w)
  \/ RemoveMempoolConflictsForLock(w) \/ UntrackMempoolConflicts(w)
  \/ ResolveBlockConflicts(w) \/ InvalidateBlocks(w) \/ InvalidateDone(w)

Next ==
  \/ \E w \in {"main", "worker", "signer"} : ThreadStep(w)
  \/ AcceptCheck \/ AcceptAdd \/ FilterBlock \/ ConnectTip \/ DisconnectTip
  \/ SyncTransaction \/ TrackTransaction \/ HandleNewInputLockRecoveredSig
  \/ \E t \in Txs : ProcessPendingRetry(t) \/ Submit(t)
  \/ \E l \in Locks : \/ ProcessMessageInstantSendLock(l) \/ ProcessPendingLock(l)
                      \/ DropPendingLock(l) \/ \E id \in Ids : HandleNewRecoveredSig(id, l)
  \/ \E i \in 1..Len(chain) : NotifyChainLock(i) \/ NewChainLock(i)
  \/ \E txs \in world.blocks, hasLock \in BOOLEAN : ConnectBlock(txs, hasLock)
  \/ Reorganise

Spec == Init /\ [][Next]_vars

-----------------------------------------------------------------------------
(* Correctness. *)

TypeOK ==
  /\ db \in DbType /\ mgr \in MgrType
  /\ mempool \subseteq Txs /\ locked \subseteq BlockIds /\ notified \in BlockIds \cup {None}
  /\ {known, vote} \subseteq [Ids -> Txs \cup {None}]
  /\ missed \subseteq {"race", "index", "stale", "pprev"} /\ made \in 0..MaxBlocks /\ reorgs \in 0..MaxReorgs

Quiet == main = <<>> /\ task = [w \in {"worker", "signer"} |-> Idle]

\* The indices of the two maps.  The entries of a transaction and of its inputs
\* name one stored lock of it or none, also when it has locks by two quorums and
\* the entries were overwritten.  A stored lock is passed over only for another
\* one of its transaction: the entries name that one or, because RemoveInstantSendLock
\* erases by key whoever owns it, nothing once it was removed.
\* txToCreatingInstantSendLocks points to entries of creatingInstantSendLocks only.
IndicesAgree ==
  /\ \A t \in Txs :
       /\ db.byTx[t] # None => db.byTx[t] \in db.locks /\ db.byTx[t].tx = t
       /\ \A o \in Inputs[t] : db.byTx[t] # None => db.byInput[o] = db.byTx[t]
  /\ \A o \in Outpoints : db.byInput[o] # None => db.byTx[db.byInput[o].tx] = db.byInput[o]
  /\ \A l \in db.locks :
       \/ db.byTx[l.tx] # None
       \/ \E k \in db.archived \ {l} : k.tx = l.tx
  /\ mgr.txToCreating = {mgr.creating[id] : id \in DOMAIN mgr.creating} \ {None}

\* A locked transaction prevails: once all threads are done, what conflicts with
\* one that IsLocked is neither in the memory pool nor in a block, unless that block
\* has a ChainLock.  This is what the checks in AcceptToMemoryPool and ConnectBlock
\* and the clean-up after a new lock are for; the exceptions are in missed.
LockedTxPrevails ==
  Quiet /\ missed \cap {"race", "index"} = {} =>
    \A t \in {x \in Txs : IsLocked(x)} : \A u \in mempool \cup TxsOf(chain) :
      Conflict(t, u) => HasChainLock(MinedIn(u))

\* The part of it about blocks without the exception "index": ResolveBlockConflicts
\* finds every mined transaction that conflicts with the lock.
BlocksGiveWay ==
  Quiet /\ "race" \notin missed =>
    \A t \in {x \in Txs : IsLocked(x)} : \A u \in TxsOf(chain) : Conflict(t, u) => HasChainLock(MinedIn(u))

\* The lock of a transaction that IsLocked is filed under the height of its block,
\* where RemoveConfirmedInstantSendLocks looks for it, whatever blocks came and
\* went.  A lock that was passed over for another one keeps its old entry.
LocksAreFiled ==
  Quiet /\ missed \cap {"race", "stale"} = {} =>
    \A t \in {x \in Txs : IsLocked(x)} :
      {e[1] : e \in {x \in db.mined : x[2] = db.byTx[t]}}
        = IF MinedIn(t) = None THEN {} ELSE {MinedIn(t).height}

\* A child that came before the lock of its parents is not forgotten: when
\* nothing is left to retry, this node has voted on a tracked transaction whose
\* parents are all locked, if nothing speaks against it.  A parent wakes its
\* children when its first lock is stored; one that lost it and got another,
\* which the archive tells, does not wake them again.
NoForgottenChild ==
  Quiet /\ missed \cap {"race", "pprev"} = {} /\ mgr.retry = {} =>
    \A t \in Txs :
      /\ t \in mempool /\ mgr.nonLocked[t] # None /\ mgr.nonLocked[t].tx
      /\ \A s \in Parents(t) \cap Txs : IsLocked(s) /\ ~\E l \in db.archived : l.tx = s
      /\ GetConflictingLock(t) = {}
      /\ \A o \in Inputs[t] : {vote[InputId(o)], known[InputId(o)]} \subseteq {None, t}
      => \A o \in Inputs[t] : t \in {vote[InputId(o)], known[InputId(o)]}
============================================================================
