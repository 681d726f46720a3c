------------------- MODULE BlocksTransactionsLoaderProofs -------------------
(***************************************************************************)
(* Proofs about BlocksTransactionsLoader, for any number of requests,      *)
(* blocks and transactions, any bodies and any number of resends: types,   *)
(* the safety of its rows, what its answer says, and that it implements    *)
(* BlockStore.                                                             *)
(***************************************************************************)
EXTENDS BlocksTransactionsLoader, TLAPS

\* Which endpoint a program counter belongs to, and that a loader always
\* stands at a block of its body.
Shape ==
  \A r \in Requests :
    /\ req[r].pc = "idle" => IsPool(r) /\ req[r].pos = 1
    /\ req[r].pc = "head" => IsPool(r)
    /\ req[r].pc \in {"lookup", "upsert", "link", "jobs", "refresh"} => ~IsPool(r)
    /\ ~IsPool(r) => req[r].pos <= Len(req[r].items)
    /\ req[r].pos >= 1
    /\ req[r].nth >= 1

\* Whatever a request is doing, its current block and its current list of
\* transactions are well formed.
LEMMA CurrentWellFormed ==
  ASSUME TypeOK, Shape, NEW r \in Requests
  PROVE  /\ req[r] \in Request
         /\ ~IsPool(r) => ItemOf(r) \in Item /\ BlockOf(r) \in Blocks
         /\ Cur(r) \in Seq(Txs)
         /\ CurSet(r) \subseteq Txs
<1>1. req[r] \in Request
  BY DEF TypeOK
<1>2. ~IsPool(r) => ItemOf(r) \in Item /\ BlockOf(r) \in Blocks
  <2>1. SUFFICES ASSUME ~IsPool(r) PROVE ItemOf(r) \in Item
    BY DEF Item, BlockOf
  <2>2. req[r].pos \in 1..Len(req[r].items)
    BY <1>1, <2>1 DEF Shape, Request
  <2> QED
    BY <1>1, <2>2 DEF Request, ItemOf
<1>3. Cur(r) \in Seq(Txs)
  BY <1>1, <1>2, LoaderAssumption DEF Cur, Request
<1> QED
  BY <1>1, <1>2, <1>3 DEF CurSet

TypeInv == TypeOK /\ Shape

\* The program counters the actions assign.
LEMMA PCValues ==
  /\ "idle" \in PC /\ "head" \in PC /\ "lookup" \in PC /\ "upsert" \in PC
  /\ "insert" \in PC /\ "link" \in PC /\ "commit" \in PC /\ "jobs" \in PC
  /\ "refresh" \in PC /\ "done" \in PC /\ "notfound" \in PC /\ "failed" \in PC
  /\ "threw" \in PC
  BY DEF PC, Running, InTransaction, Ended

\* The initial state is well typed.
LEMMA InitTypeInv == Init => TypeInv
  BY PCValues DEF Init, TypeInv, TypeOK, Shape, Request, IsPool

\* The process of r moves on within its request.
LEMMA ServeTypeInv ==
  ASSUME TypeInv, NEW r \in Requests, Serve(r)
  PROVE  TypeInv'
<1> USE DEF TypeInv
<1>1. /\ req[r] \in Request
      /\ ~IsPool(r) => ItemOf(r) \in Item /\ BlockOf(r) \in Blocks
      /\ Cur(r) \in Seq(Txs)
      /\ CurSet(r) \subseteq Txs
  BY CurrentWellFormed
<1>2. CASE ReadHead(r)
  <2>1. ASSUME Update(r, [req[r] EXCEPT !.pc = "notfound"])
        PROVE  req' \in [Requests -> Request] /\ Shape'
    <3>1. req' \in [Requests -> Request]
      BY <1>1, <2>1, PCValues DEF Update, TypeOK, Request
    <3>2. Shape'
      BY <1>1, <2>1 DEF Update, TypeOK, Shape, IsPool, Request
    <3> QED
      BY <3>1, <3>2
  <2>2. ASSUME NEW b \in stored,
               Update(r, [req[r] EXCEPT !.pc = "insert", !.nth = 1, !.attach = SeqOf[b]])
        PROVE  req' \in [Requests -> Request] /\ Shape'
    <3>1. SeqOf[b] \in Nat
      BY LoaderAssumption DEF TypeOK
    <3>2. req' \in [Requests -> Request]
      BY <1>1, <2>2, <3>1, PCValues DEF Update, TypeOK, Request
    <3>3. Shape'
      BY <1>1, <2>2 DEF Update, TypeOK, Shape, IsPool, Request
    <3> QED
      BY <3>2, <3>3
  <2>3. req' \in [Requests -> Request] /\ Shape'
    BY <1>2, <2>1, <2>2 DEF ReadHead
  <2> QED
    BY <1>2, <2>3 DEF ReadHead, TypeOK, db, queue
<1>3. CASE Lookup(r)
  <2>2. req' \in [Requests -> Request]
    BY <1>1, <1>3, PCValues DEF Lookup, Update, TypeOK, Request
  <2>3. Shape'
    BY <1>1, <1>3 DEF Lookup, Update, TypeOK, Shape, IsPool, Request
  <2> QED
    BY <1>3, <2>2, <2>3 DEF Lookup, TypeOK, db, queue
<1>4. CASE UpsertBlock(r)
  <2>1. SeqOf[BlockOf(r)] \in Nat
    BY <1>1, <1>4, LoaderAssumption DEF UpsertBlock, Shape
  <2>2. req' \in [Requests -> Request]
    BY <1>1, <1>4, PCValues, <2>1 DEF UpsertBlock, Update, TypeOK, Request
  <2>3. Shape'
    BY <1>1, <1>4 DEF UpsertBlock, Update, TypeOK, Shape, IsPool, Request
  <2> QED
    BY <1>4, <2>2, <2>3 DEF UpsertBlock, TypeOK, db, queue
<1>5. CASE InsertTransaction(r)
  <2>1. Cur(r)[req[r].nth] \in Txs /\ req[r].nth + 1 \in Nat
    BY <1>1, <1>5 DEF InsertTransaction, Shape, Request
  <2>2. req' \in [Requests -> Request]
    <3> DEFINE t == Cur(r)[req[r].nth]
               ins == IF seen[t] = None THEN req[r].ins \cup {t} ELSE req[r].ins
    <3>1. ins \in SUBSET Txs
      BY <1>1, <2>1 DEF Request
    <3>2. req' = [req EXCEPT ![r] = [req[r] EXCEPT !.nth = req[r].nth + 1, !.ins = ins]]
      BY <1>5 DEF InsertTransaction, Update
    <3> HIDE DEF ins
    <3> QED
      BY <1>1, <2>1, <3>1, <3>2 DEF TypeOK, Request
  <2>3. Shape'
    BY <1>1, <1>5 DEF InsertTransaction, Update, TypeOK, Shape, IsPool, Request
  <2> QED
    BY <1>5, <2>2, <2>3 DEF InsertTransaction, TypeOK, db, queue
<1>6. CASE FindMany(r)
  <2>1. {t \in CurSet(r) : seen[t] # None \/ t \in req[r].ins} \in SUBSET Txs
    BY <1>1
  <2>2. req' \in [Requests -> Request]
    BY <1>1, <1>6, PCValues, <2>1 DEF FindMany, Update, TypeOK, Request
  <2>3. Shape'
    BY <1>1, <1>6 DEF FindMany, Update, TypeOK, Shape, IsPool, Request
  <2> QED
    BY <1>6, <2>2, <2>3 DEF FindMany, TypeOK, db, queue
<1>7. CASE LinkTransactions(r)
  <2>1. ASSUME Update(r, [req[r] EXCEPT !.pc = "commit"])
        PROVE  req' \in [Requests -> Request] /\ Shape'
    <3>1. req' \in [Requests -> Request]
      BY <1>1, <2>1, PCValues DEF Update, TypeOK, Request
    <3>2. Shape'
      BY <1>1, <2>1 DEF Update, TypeOK, Shape, IsPool, Request
    <3> QED
      BY <3>1, <3>2
  <2>2. ASSUME Update(r, Forget(req[r], "threw"))
        PROVE  req' \in [Requests -> Request] /\ Shape'
    <3>1. req' \in [Requests -> Request]
      BY <1>1, <2>2, PCValues DEF Update, Forget, TypeOK, Request
    <3>2. Shape'
      BY <1>1, <2>2 DEF Update, Forget, TypeOK, Shape, IsPool, Request
    <3> QED
      BY <3>1, <3>2
  <2>3. req' \in [Requests -> Request] /\ Shape'
    BY <1>7, <2>1, <2>2 DEF LinkTransactions
  <2> QED
    BY <1>7, <2>3 DEF LinkTransactions, TypeOK, db, queue
<1>8. CASE CommitBlock(r)
  <2>1. req' \in [Requests -> Request]
    BY <1>1, <1>8, PCValues DEF CommitBlock, CommitRows, Update, TypeOK, Request
  <2>2. Shape'
    BY <1>1, <1>8 DEF CommitBlock, CommitRows, Update, TypeOK, Shape, IsPool, Request
  <2>3. SeenAfter(r) \in [Txs -> Nat \cup {None}]
    BY <1>1 DEF SeenAfter, TypeOK, Request
  <2>4. BlockOf(r) \in Blocks /\ ItemOf(r).main \in BOOLEAN /\ req[r].timed \in BOOLEAN
    BY <1>1, <1>8 DEF CommitBlock, Item, Request
  <2>5. timed' \in [Blocks -> BOOLEAN] /\ main' \in [Blocks -> BOOLEAN]
    BY <1>8, <2>4 DEF CommitBlock, CommitRows, TypeOK
  <2> QED
    BY <1>1, <1>8, <2>1, <2>2, <2>3, <2>4, <2>5 DEF CommitBlock, CommitRows, TypeOK, queue
<1>9. CASE CommitPool(r)
  <2>1. req' \in [Requests -> Request]
    BY <1>1, <1>9, PCValues DEF CommitPool, Update, Forget, TypeOK, Request
  <2>2. Shape'
    BY <1>1, <1>9 DEF CommitPool, Update, Forget, TypeOK, Shape, IsPool, Request
  <2>3. SeenAfter(r) \in [Txs -> Nat \cup {None}]
    BY <1>1 DEF SeenAfter, TypeOK, Request
  <2> QED
    BY <1>9, <2>1, <2>2, <2>3 DEF CommitPool, TypeOK, queue
<1>10. CASE QueueDescription(r)
  <2>1. req' \in [Requests -> Request]
    <3>1. req[r].nth + 1 \in Nat
      BY <1>1 DEF Request
    <3> QED
      BY <1>1, <1>10, <3>1 DEF QueueDescription, Update, TypeOK, Request
  <2>2. Shape'
    BY <1>1, <1>10 DEF QueueDescription, Update, TypeOK, Shape, IsPool, Request
  <2>3. ~IsPool(r) /\ req[r].nth \in 1..Len(Cur(r))
    BY <1>1, <1>10 DEF QueueDescription, Shape, Request
  <2>4. jobs' \subseteq Job
    BY <1>1, <1>10, <2>3 DEF QueueDescription, TypeOK, Job, Item
  <2> QED
    BY <1>10, <2>1, <2>2, <2>4 DEF QueueDescription, TypeOK, db
<1>11. CASE NextBlock(r)
  <2>2. req' \in [Requests -> Request]
    <3>1. req[r].pos + 1 \in Nat
      BY <1>1 DEF Request
    <3> QED
      BY <1>1, <1>11, <3>1, PCValues DEF NextBlock, Update, TypeOK, Request
  <2>3. Shape'
    BY <1>1, <1>11 DEF NextBlock, Update, TypeOK, Shape, IsPool, Request
  <2> QED
    BY <1>11, <2>2, <2>3 DEF NextBlock, TypeOK, db, queue
<1>12. CASE QueueSync(r)
  <2>2. req' \in [Requests -> Request]
    BY <1>1, <1>12, PCValues DEF QueueSync, Update, TypeOK, Request
  <2>3. Shape'
    BY <1>1, <1>12 DEF QueueSync, Update, TypeOK, Shape, IsPool, Request
  <2> QED
    BY <1>12, <2>2, <2>3 DEF QueueSync, TypeOK, db, queue
<1>13. CASE QueueRefresh(r)
  <2>2. req' \in [Requests -> Request]
    BY <1>1, <1>13, PCValues DEF QueueRefresh, Update, TypeOK, Request, Forget
  <2>3. Shape'
    BY <1>1, <1>13 DEF QueueRefresh, Update, TypeOK, Shape, IsPool, Request, Forget
  <2> QED
    BY <1>13, <2>2, <2>3 DEF QueueRefresh, TypeOK, db, queue
<1>14. CASE DeadlockAbort(r)
  <2>1. req' \in [Requests -> Request]
    BY <1>1, <1>14, PCValues DEF DeadlockAbort, Abort, Update, Forget, TypeOK, Request
  <2>2. Shape'
    BY <1>1, <1>14
    DEF DeadlockAbort, Abort, Update, Forget, TypeOK, Shape, IsPool, Request
  <2> QED
    BY <1>14, <2>1, <2>2 DEF DeadlockAbort, Abort, TypeOK, db, queue
<1> QED
  BY <1>2, <1>3, <1>4, <1>5, <1>6, <1>7, <1>8, <1>9, <1>10, <1>11, <1>12, <1>13,
     <1>14 DEF Serve

\* What clients, crashes and timeouts do to r.
LEMMA DisturbTypeInv ==
  ASSUME TypeInv, NEW r \in Requests, Disturb(r)
  PROVE  TypeInv'
<1> USE DEF TypeInv
<1>1. req[r] \in Request
  BY CurrentWellFormed
<1>2. CASE ReceiveBlocks(r)
  <2>1. PICK items \in Batches :
          Update(r, [req[r] EXCEPT !.pc = "lookup", !.items = items, !.tries = 1])
    BY <1>2 DEF ReceiveBlocks
  <2>2. items \in Seq(Item) /\ items # <<>> /\ Len(items) >= 1
    BY <2>1, LoaderAssumption
  <2>3. req' \in [Requests -> Request]
    BY <1>1, <2>1, <2>2, PCValues DEF Update, TypeOK, Request
  <2>4. Shape'
    BY <1>1, <1>2, <2>1, <2>2 DEF ReceiveBlocks, Update, TypeOK, Shape, IsPool, Request
  <2> QED
    BY <1>2, <2>3, <2>4 DEF ReceiveBlocks, TypeOK, db, queue
<1>3. CASE ReceivePool(r)
  <2>1. PICK txs \in Uploads :
          Update(r, [req[r] EXCEPT !.pc = "head", !.upload = txs, !.tries = 1])
    BY <1>3 DEF ReceivePool
  <2>2. txs \in Seq(Txs)
    BY <2>1, LoaderAssumption
  <2>3. req' \in [Requests -> Request]
    BY <1>1, <2>1, <2>2, PCValues DEF Update, TypeOK, Request
  <2>4. Shape'
    BY <1>1, <1>3, <2>1, <2>2 DEF ReceivePool, Update, TypeOK, Shape, IsPool, Request
  <2> QED
    BY <1>3, <2>3, <2>4 DEF ReceivePool, TypeOK, db, queue
<1>4. CASE Abort(r)
  <2>2. req' \in [Requests -> Request]
    BY <1>1, <1>4, PCValues DEF Abort, Update, TypeOK, Request, Forget
  <2>3. Shape'
    BY <1>1, <1>4 DEF Abort, Update, TypeOK, Shape, IsPool, Request, Forget
  <2> QED
    BY <1>4, <2>2, <2>3 DEF Abort, TypeOK, db, queue
<1>5. CASE Resend(r)
  <2>2. req' \in [Requests -> Request]
    <3>1. req[r].tries + 1 \in Nat
      BY <1>1 DEF Request
    <3> QED
      BY <1>1, <1>5, <3>1, PCValues DEF Resend, Update, TypeOK, Request
  <2>3. Shape'
    BY <1>1, <1>5 DEF Resend, Update, TypeOK, Shape, IsPool, Request
  <2> QED
    BY <1>5, <2>2, <2>3 DEF Resend, TypeOK, db, queue
<1> QED
  BY <1>2, <1>3, <1>4, <1>5 DEF Disturb

\* Every step keeps the types.
LEMMA NextTypeInv == TypeInv /\ [Next]_vars => TypeInv'
<1> SUFFICES ASSUME TypeInv, [Next]_vars PROVE TypeInv'
  OBVIOUS
<1>1. ASSUME NEW n \in Sequences0, DisconnectStart(n) PROVE TypeInv'
  BY <1>1 DEF DisconnectStart, TypeInv, TypeOK, Shape, IsPool, db, queue
<1>2. CASE DisconnectEnd
  BY <1>2 DEF DisconnectEnd, TypeInv, TypeOK, Shape, IsPool, queue
<1>3. CASE UNCHANGED vars
  BY <1>3 DEF vars, db, queue, TypeInv, TypeOK, Shape, IsPool
<1> QED
  BY <1>1, <1>2, <1>3, ServeTypeInv, DisturbTypeInv DEF Next

\* The tables and the requests' records keep their types, for any number of
\* requests, blocks and transactions.
THEOREM TypeCorrect == Spec => []TypeOK
<1>1. Spec => []TypeInv
  BY InitTypeInv, NextTypeInv, PTL DEF Spec
<1> QED
  BY <1>1, PTL DEF TypeInv

-----------------------------------------------------------------------------
\* t's row is committed, or r's open transaction has inserted it.
TxKnown(r, t) == seen[t] # None \/ t \in req[r].ins

\* What r's open transaction has established so far.  BlockComplete is not
\* inductive by itself: at the commit it needs that every row createMany
\* skipped is still there, which rests on what was seen when it was skipped.
Local(r) ==
  /\ req[r].pc # "threw"
  /\ req[r].pc \notin InTransaction => req[r].ins = {}
  /\ req[r].pc = "insert" =>
       \A i \in 1..Len(Cur(r)) : i < req[r].nth => TxKnown(r, Cur(r)[i])
  /\ req[r].pc = "link" => CurSet(r) \subseteq req[r].found
  /\ req[r].pc \in {"link", "commit"} => \A t \in CurSet(r) : TxKnown(r, t)
  /\ req[r].pc \in InTransaction =>
       IF IsPool(r) THEN \E b \in stored : SeqOf[b] = req[r].attach
                    ELSE req[r].attach = SeqOf[BlockOf(r)]
  /\ req[r].pc = "jobs" => BlockOf(r) \in stored

Tables == BlockComplete /\ SeenSequenceReal /\ JobsAfterCommit

Inv == TypeInv /\ Tables /\ \A r \in Requests : Local(r)

\* The initial state satisfies the invariant.
LEMMA InitInv == Init => Inv
  BY InitTypeInv
  DEF Init, Inv, Tables, Local, BlockComplete, SeenSequenceReal, JobsAfterCommit,
      InTransaction

\* What a request has established survives what others add to the tables.
LEMMA LocalStable ==
  ASSUME NEW q \in Requests, TypeInv, Local(q), req'[q] = req[q],
         stored \subseteq stored',
         \A t \in Txs : seen[t] # None => seen'[t] # None
  PROVE  Local(q)'
<1>1. CurSet(q) \subseteq Txs /\ \A i \in 1..Len(Cur(q)) : Cur(q)[i] \in CurSet(q)
  BY CurrentWellFormed DEF TypeInv, CurSet
<1>2. /\ IsPool(q)' = IsPool(q)
      /\ BlockOf(q)' = BlockOf(q)
      /\ Cur(q)' = Cur(q)
      /\ CurSet(q)' = CurSet(q)
  BY DEF IsPool, BlockOf, ItemOf, Cur, CurSet
<1>3. \A t \in Txs : TxKnown(q, t) => TxKnown(q, t)'
  BY DEF TxKnown
<1> QED
  BY <1>1, <1>2, <1>3 DEF Local

\* A step that changes r's record only, and no table, keeps the invariant if it
\* keeps what r has established.
LEMMA QuietStep ==
  ASSUME Inv, NEW r \in Requests, NEW new, Update(r, new),
         UNCHANGED <<db, jobs>>, TypeInv', Local(r)'
  PROVE  Inv'
<1>1. Tables'
  BY DEF Inv, Tables, BlockComplete, SeenSequenceReal, JobsAfterCommit, db
<1>2. ASSUME NEW q \in Requests, q # r PROVE Local(q)'
  <2>1. req'[q] = req[q]
    BY <1>2 DEF Update, Inv, TypeInv, TypeOK
  <2> QED
    BY <2>1, LocalStable DEF Inv, db
<1> QED
  BY <1>1, <1>2 DEF Inv

\* The commit of a block's transaction: the rows it skipped were committed by
\* others, the rows it inserted become visible together with the block.
LEMMA CommitBlockInv ==
  ASSUME Inv, NEW r \in Requests, CommitBlock(r), TypeInv'
  PROVE  Inv'
<1> DEFINE b == BlockOf(r)
<1>1. /\ req[r] \in Request
      /\ b \in Blocks
      /\ CurSet(r) \subseteq Txs
      /\ Cur(r) = TxsOf[b]
      /\ ~IsPool(r)
  BY CurrentWellFormed DEF Inv, TypeInv, CommitBlock, Cur
<1>2. /\ stored' = stored \cup {b}
      /\ seen' = SeenAfter(r)
      /\ links' = links \cup ({b} \X CurSet(r))
      /\ jobs' = jobs
  BY DEF CommitBlock, CommitRows, queue
<1>3. /\ \A t \in CurSet(r) : seen[t] # None \/ t \in req[r].ins
      /\ req[r].attach = SeqOf[b]
      /\ req[r].attach \in Nat
  BY <1>1 DEF Inv, Local, TxKnown, CommitBlock, InTransaction, Request
<1>4. \A t \in Txs : /\ seen[t] # None => seen'[t] # None
                     /\ t \in CurSet(r) => seen'[t] # None
                     /\ seen'[t] # seen[t] => seen'[t] = SeqOf[b]
  BY <1>2, <1>3, LoaderAssumption DEF SeenAfter
<1>5. BlockComplete'
  <2>1. ASSUME NEW c \in stored', NEW i \in 1..Len(TxsOf[c])
        PROVE  seen'[TxsOf[c][i]] # None /\ <<c, TxsOf[c][i]>> \in links'
    <3>1. c \in Blocks /\ TxsOf[c][i] \in Txs
      BY <1>1, <1>2, LoaderAssumption DEF Inv, TypeInv, TypeOK
    <3>2. CASE c = b
      <4>1. TxsOf[c][i] \in CurSet(r)
        BY <1>1, <3>2 DEF CurSet
      <4> QED
        BY <1>2, <1>4, <3>1, <3>2, <4>1
    <3>3. CASE c # b
      BY <1>2, <1>4, <3>1, <3>3 DEF Inv, Tables, BlockComplete
    <3> QED
      BY <3>2, <3>3
  <2> QED
    BY <2>1 DEF BlockComplete
<1>6. SeenSequenceReal'
  BY <1>2, <1>4 DEF Inv, Tables, SeenSequenceReal
<1>7. JobsAfterCommit'
  <2>1. \A j \in jobs : j.tx \in Txs
    BY DEF Inv, TypeInv, TypeOK, Job
  <2> QED
    BY <1>2, <1>4, <2>1 DEF Inv, Tables, JobsAfterCommit
<1>8. ASSUME NEW q \in Requests PROVE Local(q)'
  <2>1. CASE q # r
    <3>1. req'[q] = req[q]
      BY <2>1 DEF CommitBlock, CommitRows, Update, Inv, TypeInv, TypeOK
    <3> QED
      BY <1>2, <1>4, <3>1, LocalStable DEF Inv
  <2>2. CASE q = r
    <3>1. /\ req'[r].pc = "jobs"
          /\ req'[r].ins = {}
          /\ req'[r].items = req[r].items
          /\ req'[r].pos = req[r].pos
      BY <1>1 DEF CommitBlock, CommitRows, Update, Inv, TypeInv, TypeOK, Request
    <3>2. BlockOf(r)' = b
      BY <3>1 DEF BlockOf, ItemOf
    <3> QED
      BY <1>2, <2>2, <3>1, <3>2 DEF Local, InTransaction
  <2> QED
    BY <2>1, <2>2
<1> QED
  BY <1>5, <1>6, <1>7, <1>8 DEF Inv, Tables

\* The commit of an upload: its rows carry the sequence of a stored block.
LEMMA CommitPoolInv ==
  ASSUME Inv, NEW r \in Requests, CommitPool(r), TypeInv'
  PROVE  Inv'
<1>1. /\ req[r] \in Request
      /\ seen' = SeenAfter(r)
      /\ UNCHANGED <<stored, links, jobs>>
  BY CurrentWellFormed DEF Inv, TypeInv, CommitPool, queue
<1>2. PICK b \in stored : SeqOf[b] = req[r].attach
  BY DEF Inv, Local, CommitPool, InTransaction
<1>3. \A t \in Txs : /\ seen[t] # None => seen'[t] # None
                     /\ seen'[t] # seen[t] => seen'[t] = SeqOf[b]
  BY <1>1, <1>2, LoaderAssumption DEF SeenAfter, Request
<1>4. Tables'
  <2>1. BlockComplete'
    <3>1. \A c \in stored : \A i \in 1..Len(TxsOf[c]) : TxsOf[c][i] \in Txs
      BY LoaderAssumption DEF Inv, TypeInv, TypeOK
    <3> QED
      BY <1>1, <1>3, <3>1 DEF Inv, Tables, BlockComplete
  <2>2. SeenSequenceReal'
    BY <1>1, <1>3 DEF Inv, Tables, SeenSequenceReal
  <2>3. JobsAfterCommit'
    BY <1>1, <1>3 DEF Inv, Tables, JobsAfterCommit, TypeInv, TypeOK, Job
  <2> QED
    BY <2>1, <2>2, <2>3 DEF Tables
<1>5. ASSUME NEW q \in Requests PROVE Local(q)'
  <2>1. CASE q # r
    <3>1. req'[q] = req[q]
      BY <2>1 DEF CommitPool, Update, Inv, TypeInv, TypeOK
    <3> QED
      BY <1>1, <1>3, <3>1, LocalStable DEF Inv
  <2>2. CASE q = r
    <3>1. req'[r].pc = "done" /\ req'[r].ins = {}
      BY <1>1 DEF CommitPool, Update, Forget, Inv, TypeInv, TypeOK, Request
    <3> QED
      BY <2>2, <3>1 DEF Local, InTransaction
  <2> QED
    BY <2>1, <2>2
<1> QED
  BY <1>4, <1>5 DEF Inv

\* A job is added for a transaction of the block r has just committed.
LEMMA QueueDescriptionInv ==
  ASSUME Inv, NEW r \in Requests, QueueDescription(r), TypeInv'
  PROVE  Inv'
<1> DEFINE b == BlockOf(r)
           t == Cur(r)[req[r].nth]
<1>1. /\ req[r] \in Request
      /\ ~IsPool(r)
      /\ Cur(r) = TxsOf[b]
      /\ req[r].nth \in 1..Len(Cur(r))
  BY CurrentWellFormed DEF Inv, TypeInv, Shape, QueueDescription, Cur, Request
<1>2. /\ b \in stored
      /\ seen[t] # None
      /\ <<b, t>> \in links
  BY <1>1 DEF Inv, Local, Tables, BlockComplete, QueueDescription
<1>3. Tables'
  BY <1>2 DEF QueueDescription, Inv, Tables, BlockComplete, SeenSequenceReal,
              JobsAfterCommit, db
<1>4. ASSUME NEW q \in Requests PROVE Local(q)'
  <2>1. CASE q # r
    <3>1. req'[q] = req[q]
      BY <2>1 DEF QueueDescription, Update, Inv, TypeInv, TypeOK
    <3> QED
      BY <3>1, LocalStable DEF Inv, QueueDescription, db
  <2>2. CASE q = r
    <3>1. /\ req'[r].pc = "jobs"
          /\ req'[r].ins = req[r].ins
          /\ req'[r].items = req[r].items
          /\ req'[r].pos = req[r].pos
      BY <1>1 DEF QueueDescription, Update, Inv, TypeInv, TypeOK, Request
    <3>2. BlockOf(r)' = b
      BY <3>1 DEF BlockOf, ItemOf
    <3>3. req[r].ins = {}
      BY DEF QueueDescription, Inv, Local, InTransaction
    <3> QED
      BY <1>2, <2>2, <3>1, <3>2, <3>3 DEF Local, InTransaction, QueueDescription, db
  <2> QED
    BY <2>1, <2>2
<1> QED
  BY <1>3, <1>4 DEF Inv

\* The steps that change no table and add no description job.
LEMMA ServeInv ==
  ASSUME Inv, NEW r \in Requests, Serve(r), TypeInv'
  PROVE  Inv'
<1>1. /\ req[r] \in Request
      /\ req \in [Requests -> Request]
      /\ Cur(r) \in Seq(Txs)
      /\ req[r].pc \notin InTransaction => req[r].ins = {}
      /\ Local(r)
  BY CurrentWellFormed DEF Inv, TypeInv, TypeOK, Local
<1>2. CASE ReadHead(r)
  <2>1. ASSUME Update(r, [req[r] EXCEPT !.pc = "notfound"]) PROVE Inv'
    <3>1. Local(r)'
      BY <1>1, <1>2, <2>1 DEF ReadHead, Update, Local, InTransaction, Request
    <3> QED
      BY <1>2, <2>1, <3>1, QuietStep DEF ReadHead, queue
  <2>2. ASSUME NEW b \in stored,
               Update(r, [req[r] EXCEPT !.pc = "insert", !.nth = 1, !.attach = SeqOf[b]])
        PROVE  Inv'
    <3>1. /\ req'[r].pc = "insert" /\ req'[r].nth = 1
          /\ req'[r].attach = SeqOf[b] /\ req'[r].items = req[r].items
      BY <1>1, <2>2 DEF Update, Request
    <3>2. IsPool(r)' /\ stored' = stored
      BY <1>2, <3>1 DEF ReadHead, Inv, TypeInv, Shape, IsPool, db
    <3>3. Local(r)'
      BY <3>1, <3>2 DEF Local, InTransaction
    <3> QED
      BY <1>2, <2>2, <3>3, QuietStep DEF ReadHead, queue
  <2> QED
    BY <1>2, <2>1, <2>2 DEF ReadHead
<1>3. CASE Lookup(r)
  <2>1. Local(r)'
    BY <1>1, <1>3 DEF Lookup, Update, Local, InTransaction, Request
  <2> QED
    BY <1>3, <2>1, QuietStep DEF Lookup, queue
<1>4. CASE UpsertBlock(r)
  <2>1. /\ req'[r].pc = "insert" /\ req'[r].nth = 1
        /\ req'[r].attach = SeqOf[BlockOf(r)]
        /\ req'[r].items = req[r].items /\ req'[r].pos = req[r].pos
    BY <1>1, <1>4 DEF UpsertBlock, Update, Request
  <2>2. ~IsPool(r)' /\ BlockOf(r)' = BlockOf(r)
    BY <1>4, <2>1 DEF UpsertBlock, Inv, TypeInv, Shape, IsPool, BlockOf, ItemOf
  <2>3. Local(r)'
    BY <2>1, <2>2 DEF Local, InTransaction
  <2> QED
    BY <1>4, <2>3, QuietStep DEF UpsertBlock, queue
<1>5. CASE InsertTransaction(r)
  <2> DEFINE n == req[r].nth
             t == Cur(r)[n]
  <2>1. /\ req'[r].pc = "insert" /\ req'[r].nth = n + 1
        /\ req'[r].ins = IF seen[t] = None THEN req[r].ins \cup {t} ELSE req[r].ins
        /\ req'[r].attach = req[r].attach /\ req'[r].upload = req[r].upload
        /\ req'[r].items = req[r].items /\ req'[r].pos = req[r].pos
    BY <1>1, <1>5 DEF InsertTransaction, Update, Request
  <2>2. /\ IsPool(r)' = IsPool(r) /\ BlockOf(r)' = BlockOf(r) /\ Cur(r)' = Cur(r)
        /\ stored' = stored /\ seen' = seen
    BY <1>5, <2>1 DEF InsertTransaction, IsPool, BlockOf, ItemOf, Cur, db
  <2>3. /\ seen'[t] # None \/ t \in req'[r].ins
        /\ \A u : TxKnown(r, u) => seen'[u] # None \/ u \in req'[r].ins
    BY <2>1, <2>2 DEF TxKnown
  <2>4. \A i \in 1..Len(Cur(r)) :
          i < n + 1 => seen'[Cur(r)[i]] # None \/ Cur(r)[i] \in req'[r].ins
    <3>1. n \in Nat /\ \A i \in 1..Len(Cur(r)) : i < n => TxKnown(r, Cur(r)[i])
      BY <1>1, <1>5 DEF Local, InsertTransaction, Request
    <3>2. \A i \in 1..Len(Cur(r)) : i < n + 1 => i < n \/ i = n
      BY <3>1
    <3> QED
      BY <2>3, <3>1, <3>2
  <2>5. /\ req[r].pc = "insert"
        /\ IF IsPool(r) THEN \E b \in stored : SeqOf[b] = req[r].attach
                        ELSE req[r].attach = SeqOf[BlockOf(r)]
    BY <1>1, <1>5 DEF Local, InsertTransaction, InTransaction
  <2>6. Local(r)'
    <3>1. \A i \in 1..Len(Cur(r)') : i < req'[r].nth => TxKnown(r, Cur(r)[i])'
      BY <2>1, <2>2, <2>4 DEF TxKnown
    <3>2. IF IsPool(r)' THEN \E b \in stored' : SeqOf[b] = req'[r].attach
                        ELSE req'[r].attach = SeqOf[BlockOf(r)']
      BY <2>1, <2>2, <2>5
    <3> QED
      BY <2>1, <3>1, <3>2 DEF Local, InTransaction
  <2> QED
    BY <1>5, <2>6, QuietStep DEF InsertTransaction, queue
<1>6. CASE FindMany(r)
  <2>1. /\ req'[r].pc = IF IsPool(r) THEN "commit" ELSE "link"
        /\ req'[r].found = {t \in CurSet(r) : seen[t] # None \/ t \in req[r].ins}
        /\ req'[r].ins = req[r].ins
        /\ req'[r].attach = req[r].attach /\ req'[r].upload = req[r].upload
        /\ req'[r].items = req[r].items /\ req'[r].pos = req[r].pos
    BY <1>1, <1>6 DEF FindMany, Update, Request
  <2>2. /\ IsPool(r)' = IsPool(r) /\ BlockOf(r)' = BlockOf(r)
        /\ CurSet(r)' = CurSet(r)
        /\ stored' = stored /\ seen' = seen
    BY <1>6, <2>1 DEF FindMany, IsPool, BlockOf, ItemOf, Cur, CurSet, db
  <2>3. \A t \in CurSet(r) : seen[t] # None \/ t \in req[r].ins
    <3>1. \A i \in 1..Len(Cur(r)) : i < req[r].nth
      BY <1>1, <1>6 DEF FindMany, Request
    <3>2. \A i \in 1..Len(Cur(r)) : TxKnown(r, Cur(r)[i])
      BY <1>1, <1>6, <3>1 DEF FindMany, Local
    <3> QED
      BY <3>2 DEF CurSet, TxKnown
  <2>4. IF IsPool(r) THEN \E b \in stored : SeqOf[b] = req[r].attach
                     ELSE req[r].attach = SeqOf[BlockOf(r)]
    BY <1>1, <1>6 DEF Local, FindMany, InTransaction
  <2>5. Local(r)'
    BY <2>1, <2>2, <2>3, <2>4 DEF Local, InTransaction, TxKnown
  <2> QED
    BY <1>6, <2>5, QuietStep DEF FindMany, queue
<1>7. CASE LinkTransactions(r)
  <2>1. Update(r, [req[r] EXCEPT !.pc = "commit"])
    BY <1>1, <1>7 DEF LinkTransactions, Local
  <2>2. /\ req'[r].pc = "commit" /\ req'[r].ins = req[r].ins
        /\ req'[r].attach = req[r].attach /\ req'[r].upload = req[r].upload
        /\ req'[r].items = req[r].items /\ req'[r].pos = req[r].pos
    BY <1>1, <2>1 DEF Update, Request
  <2>3. /\ IsPool(r)' = IsPool(r) /\ BlockOf(r)' = BlockOf(r)
        /\ CurSet(r)' = CurSet(r)
        /\ stored' = stored /\ seen' = seen
    BY <1>7, <2>2 DEF LinkTransactions, IsPool, BlockOf, ItemOf, Cur, CurSet, db
  <2>4. Local(r)'
    BY <1>1, <1>7, <2>2, <2>3 DEF LinkTransactions, Local, InTransaction, TxKnown
  <2> QED
    BY <1>7, <2>1, <2>4, QuietStep DEF LinkTransactions, queue
<1>8. CASE NextBlock(r)
  <2>1. Local(r)'
    BY <1>1, <1>8 DEF NextBlock, Update, Local, InTransaction, Request
  <2> QED
    BY <1>8, <2>1, QuietStep DEF NextBlock, queue
<1>9. CASE QueueSync(r)
  <2>1. Local(r)'
    BY <1>1, <1>9 DEF QueueSync, Update, Local, InTransaction, Request
  <2> QED
    BY <1>9, <2>1, QuietStep DEF QueueSync
<1>10. CASE QueueRefresh(r)
  <2>1. Local(r)'
    BY <1>1, <1>10 DEF QueueRefresh, Update, Forget, Local, InTransaction, Request
  <2> QED
    BY <1>10, <2>1, QuietStep DEF QueueRefresh
<1>11. CASE DeadlockAbort(r)
  <2>1. Local(r)'
    BY <1>1, <1>11
    DEF DeadlockAbort, Abort, Update, Forget, Local, InTransaction, Request
  <2> QED
    BY <1>11, <2>1, QuietStep DEF DeadlockAbort, Abort, queue
<1> QED
  BY <1>2, <1>3, <1>4, <1>5, <1>6, <1>7, <1>8, <1>9, <1>10, <1>11, CommitBlockInv,
     CommitPoolInv, QueueDescriptionInv DEF Serve

\* Clients, crashes and timeouts change no table.
LEMMA DisturbInv ==
  ASSUME Inv, NEW r \in Requests, Disturb(r), TypeInv'
  PROVE  Inv'
<1>1. /\ req[r] \in Request
      /\ req \in [Requests -> Request]
      /\ req[r].pc \notin InTransaction => req[r].ins = {}
  BY CurrentWellFormed DEF Inv, TypeInv, TypeOK, Local
<1>2. CASE ReceiveBlocks(r)
  <2>1. PICK items \in Batches :
          Update(r, [req[r] EXCEPT !.pc = "lookup", !.items = items, !.tries = 1])
    BY <1>2 DEF ReceiveBlocks
  <2>2. Local(r)'
    BY <1>1, <1>2, <2>1 DEF ReceiveBlocks, Update, Local, InTransaction, Request
  <2> QED
    BY <1>2, <2>1, <2>2, QuietStep DEF ReceiveBlocks, queue
<1>3. CASE ReceivePool(r)
  <2>1. PICK txs \in Uploads :
          Update(r, [req[r] EXCEPT !.pc = "head", !.upload = txs, !.tries = 1])
    BY <1>3 DEF ReceivePool
  <2>2. Local(r)'
    BY <1>1, <1>3, <2>1 DEF ReceivePool, Update, Local, InTransaction, Request
  <2> QED
    BY <1>3, <2>1, <2>2, QuietStep DEF ReceivePool, queue
<1>4. CASE Abort(r)
  <2>1. Local(r)'
    BY <1>1, <1>4 DEF Abort, Update, Forget, Local, InTransaction, Request
  <2> QED
    BY <1>4, <2>1, QuietStep DEF Abort, queue
<1>5. CASE Resend(r)
  <2>1. Local(r)'
    BY <1>1, <1>5 DEF Resend, Update, Local, InTransaction, Request
  <2> QED
    BY <1>5, <2>1, QuietStep DEF Resend, queue
<1> QED
  BY <1>2, <1>3, <1>4, <1>5 DEF Disturb

\* Every step keeps the invariant.
LEMMA NextInv == Inv /\ [Next]_vars => Inv'
<1> SUFFICES ASSUME Inv, [Next]_vars PROVE Inv'
  OBVIOUS
<1>1. TypeInv'
  BY NextTypeInv DEF Inv
<1>2. ASSUME UNCHANGED <<stored, seen, links, jobs, req>> PROVE Inv'
  <2>1. Tables'
    BY <1>2 DEF Inv, Tables, BlockComplete, SeenSequenceReal, JobsAfterCommit
  <2>2. \A q \in Requests : Local(q)'
    BY <1>2, LocalStable DEF Inv
  <2> QED
    BY <1>1, <2>1, <2>2 DEF Inv
<1>3. ASSUME NEW n \in Sequences0, DisconnectStart(n) PROVE Inv'
  BY <1>2, <1>3 DEF DisconnectStart, db, queue
<1>4. CASE DisconnectEnd
  BY <1>2, <1>4 DEF DisconnectEnd, queue
<1>5. CASE UNCHANGED vars
  BY <1>2, <1>5 DEF vars, db, queue
<1> QED
  BY <1>1, <1>3, <1>4, <1>5, ServeInv, DisturbInv DEF Next

\* Inv is inductive.
LEMMA Invariance == Spec => []Inv
  BY InitInv, NextInv, PTL DEF Spec

\* A committed block has all its transactions and links, however many requests
\* write the same blocks and transactions at once and wherever they fail.
THEOREM BlockCompleteHolds == Spec => []BlockComplete
<1>1. Inv => BlockComplete
  BY DEF Inv, Tables
<1> QED
  BY <1>1, Invariance, PTL

\* 'Transaction must have been created' is never thrown.
THEOREM NeverThrowsHolds == Spec => []NeverThrows
<1>1. Inv => NeverThrows
  BY DEF Inv, Local, NeverThrows
<1> QED
  BY <1>1, Invariance, PTL

\* Every seen_sequence is the sequence of a stored block.
THEOREM SeenSequenceRealHolds == Spec => []SeenSequenceReal
<1>1. Inv => SeenSequenceReal
  BY DEF Inv, Tables
<1> QED
  BY <1>1, Invariance, PTL

\* A description job is never added before its block, transaction and link are
\* committed.
THEOREM JobsAfterCommitHolds == Spec => []JobsAfterCommit
<1>1. Inv => JobsAfterCommit
  BY DEF Inv, Tables
<1> QED
  BY <1>1, Invariance, PTL

-----------------------------------------------------------------------------
\* A row is inserted by one open transaction at a time, and only while no
\* committed row has its hash.
RowLocks ==
  /\ \A r, q \in Requests : r # q => req[r].ins \cap req[q].ins = {}
  /\ \A r \in Requests : \A t \in req[r].ins : seen[t] = None

\* The row locks hold in every state.
LEMMA RowLocksInvariant == Spec => [](TypeInv /\ RowLocks)
<1>1. Init => TypeInv /\ RowLocks
  BY InitTypeInv DEF Init, RowLocks
<1>2. TypeInv /\ RowLocks /\ [Next]_vars => (TypeInv /\ RowLocks)'
  <2> SUFFICES ASSUME TypeInv, RowLocks, [Next]_vars PROVE RowLocks'
    BY NextTypeInv
  <2> DEFINE Keeps(r) == /\ seen' = seen
                         /\ \A q \in Requests : q # r => req'[q] = req[q]
                         /\ req'[r].ins \subseteq req[r].ins
  <2>1. ASSUME NEW r \in Requests, Keeps(r) PROVE RowLocks'
    BY <2>1 DEF RowLocks
  <2>2. ASSUME NEW r \in Requests, InsertTransaction(r) PROVE RowLocks'
    <3> DEFINE t == Cur(r)[req[r].nth]
    <3>1. /\ seen' = seen
          /\ req[r].pc = "insert"
          /\ req[r].nth <= Len(Cur(r))
      BY <2>2 DEF InsertTransaction, db
    <3>2. /\ \A q \in Requests : q # r => req'[q] = req[q]
          /\ req'[r].ins = IF seen[t] = None THEN req[r].ins \cup {t} ELSE req[r].ins
      BY <2>2 DEF InsertTransaction, Update, TypeInv, TypeOK, Request
    <3>3. \A q \in Requests : q # r => t \notin req[q].ins
      BY <2>2, <3>1 DEF InsertTransaction, Waiting, WaitsFor, HoldsTx
    <3>4. CASE seen[t] = None
      BY <3>1, <3>2, <3>3, <3>4 DEF RowLocks
    <3>5. CASE seen[t] # None
      BY <3>1, <3>2, <3>5 DEF RowLocks
    <3> QED
      BY <3>4, <3>5
  <2> USE DEF TypeInv, TypeOK, Request, Update, Forget, db
  <2>3. ASSUME NEW r \in Requests, CommitBlock(r) \/ CommitPool(r) PROVE RowLocks'
    <3> DEFINE Commits == /\ seen' = SeenAfter(r)
                          /\ \A q \in Requests : q # r => req'[q] = req[q]
                          /\ req'[r].ins = {}
    <3>a. ASSUME CommitBlock(r) PROVE Commits
      BY <3>a DEF CommitBlock, CommitRows
    <3>b. ASSUME CommitPool(r) PROVE Commits
      BY <3>b DEF CommitPool
    <3>1. Commits
      BY <2>3, <3>a, <3>b
    <3>2. ASSUME NEW q \in Requests, q # r, NEW t \in req[q].ins PROVE seen'[t] = None
      BY <3>1, <3>2 DEF SeenAfter, RowLocks, TypeInv, TypeOK, Request
    <3> QED
      BY <3>1, <3>2 DEF RowLocks
  <2>4. ASSUME NEW r \in Requests, Serve(r) PROVE RowLocks'
    <3>1. CASE InsertTransaction(r) \/ CommitBlock(r) \/ CommitPool(r)
      BY <2>2, <2>3, <3>1
    <3>2. ASSUME ReadHead(r) PROVE Keeps(r)
    <4>1. ASSUME Update(r, [req[r] EXCEPT !.pc = "notfound"])
          PROVE  /\ \A q \in Requests : q # r => req'[q] = req[q]
                 /\ req'[r].ins \subseteq req[r].ins
      BY <4>1
    <4>2. ASSUME NEW b \in stored,
                 Update(r, [req[r] EXCEPT !.pc = "insert", !.nth = 1, !.attach = SeqOf[b]])
          PROVE  /\ \A q \in Requests : q # r => req'[q] = req[q]
                 /\ req'[r].ins \subseteq req[r].ins
      BY <4>2
    <4> QED
      BY <3>2, <4>1, <4>2 DEF ReadHead
    <3>3. ASSUME Lookup(r) PROVE Keeps(r)
      BY <3>3 DEF Lookup
    <3>4. ASSUME UpsertBlock(r) PROVE Keeps(r)
      BY <3>4 DEF UpsertBlock
    <3>5. ASSUME FindMany(r) PROVE Keeps(r)
      BY <3>5 DEF FindMany
    <3>6. ASSUME LinkTransactions(r) PROVE Keeps(r)
    <4>1. ASSUME Update(r, [req[r] EXCEPT !.pc = "commit"])
          PROVE  /\ \A q \in Requests : q # r => req'[q] = req[q]
                 /\ req'[r].ins \subseteq req[r].ins
      BY <4>1
    <4>2. ASSUME Update(r, Forget(req[r], "threw"))
          PROVE  /\ \A q \in Requests : q # r => req'[q] = req[q]
                 /\ req'[r].ins \subseteq req[r].ins
      BY <4>2
    <4> QED
      BY <3>6, <4>1, <4>2 DEF LinkTransactions
    <3>7. ASSUME QueueDescription(r) PROVE Keeps(r)
      BY <3>7 DEF QueueDescription
    <3>8. ASSUME NextBlock(r) PROVE Keeps(r)
      BY <3>8 DEF NextBlock
    <3>9. ASSUME QueueSync(r) PROVE Keeps(r)
      BY <3>9 DEF QueueSync
    <3>10. ASSUME QueueRefresh(r) PROVE Keeps(r)
      BY <3>10 DEF QueueRefresh
    <3>11. ASSUME DeadlockAbort(r) PROVE Keeps(r)
      BY <3>11 DEF DeadlockAbort, Abort
    <3> HIDE DEF Keeps
    <3> QED
      BY <2>1, <2>4, <3>1, <3>2, <3>3, <3>4, <3>5, <3>6, <3>7, <3>8, <3>9, <3>10, <3>11 DEF Serve
  <2>5. ASSUME NEW r \in Requests, Disturb(r) PROVE RowLocks'
    <3>1. ASSUME ReceiveBlocks(r) PROVE Keeps(r)
      BY <3>1 DEF ReceiveBlocks
    <3>2. ASSUME ReceivePool(r) PROVE Keeps(r)
      BY <3>2 DEF ReceivePool
    <3>3. ASSUME Abort(r) PROVE Keeps(r)
      BY <3>3 DEF Abort
    <3>4. ASSUME Resend(r) PROVE Keeps(r)
      BY <3>4 DEF Resend
    <3> HIDE DEF Keeps
    <3> QED
      BY <2>1, <2>5, <3>1, <3>2, <3>3, <3>4 DEF Disturb
  <2>6. CASE UNCHANGED <<seen, req>>
    BY <2>6 DEF RowLocks
  <2> QED
    BY <2>4, <2>5, <2>6 DEF Next, DisconnectStart, DisconnectEnd, vars, db
<1> QED
  BY <1>1, <1>2, PTL DEF Spec

\* A seen_sequence, once written, is never overwritten; a block time, a block
\* and a link, once stored, stay.
THEOREM WriteOnceHolds == Spec => WriteOnce
<1>1. TypeInv /\ RowLocks /\ [Next]_vars =>
        [/\ \A t \in Txs : seen[t] # None => seen'[t] = seen[t]
         /\ \A b \in Blocks : timed[b] => timed'[b]
         /\ stored \subseteq stored'
         /\ links \subseteq links']_vars
  <2> SUFFICES ASSUME TypeInv, RowLocks, Next
               PROVE  /\ \A t \in Txs : seen[t] # None => seen'[t] = seen[t]
                      /\ \A b \in Blocks : timed[b] => timed'[b]
                      /\ stored \subseteq stored'
                      /\ links \subseteq links'
    OBVIOUS
  <2>1. ASSUME NEW r \in Requests, seen' = SeenAfter(r)
        PROVE  \A t \in Txs : seen[t] # None => seen'[t] = seen[t]
    BY <2>1 DEF SeenAfter, RowLocks
  <2>2. CASE \E r \in Requests : CommitBlock(r)
    <3>1. PICK r \in Requests : CommitBlock(r)
      BY <2>2
    <3>2. \A b \in Blocks : timed[b] => timed'[b]
      BY <3>1 DEF CommitBlock, CommitRows, TypeInv, TypeOK
    <3> QED
      BY <2>1, <3>1, <3>2 DEF CommitBlock, CommitRows
  <2>3. CASE \E r \in Requests : CommitPool(r)
    BY <2>1, <2>3 DEF CommitPool
  <2>4. CASE ~\E r \in Requests : CommitBlock(r) \/ CommitPool(r)
    <3>1. UNCHANGED <<seen, timed, stored, links>>
      BY <2>4
      DEF Next, Serve, Disturb, ReadHead, Lookup, UpsertBlock, InsertTransaction,
          FindMany, LinkTransactions, QueueDescription, NextBlock, QueueSync,
          QueueRefresh, DeadlockAbort, ReceiveBlocks, ReceivePool, Abort, Resend,
          DisconnectStart, DisconnectEnd, db
    <3> QED
      BY <3>1
  <2> QED
    BY <2>2, <2>3, <2>4
<1> QED
  BY <1>1, RowLocksInvariant, PTL DEF Spec, WriteOnce

-----------------------------------------------------------------------------
\* What the answer to POST /blocks says: the whole body was stored and its jobs
\* were added.

\* The i-th block of r's body is stored, knows its block time if its parent is
\* in the body, and all its jobs were added.
BlockDone(r, i) ==
  /\ req[r].items[i].block \in stored
  /\ Parent[req[r].items[i].block] \in BatchBlocks(r) => timed[req[r].items[i].block]
  /\ Queued(r, i)

JobOf(r, t) == [block |-> BlockOf(r), tx |-> t, main |-> ItemOf(r).main, by |-> r]

\* How far a request has come: AnsweredIsComplete is about its end, and takes
\* what each step on the way has established.
Progress(r) ==
  /\ req[r].pc = "failed" => req[r].pos = 1
  /\ ~IsPool(r) /\ req[r].pc \in Running =>
       \A i \in 1..Len(req[r].items) : i < req[r].pos => BlockDone(r, i)
  /\ ~IsPool(r) /\ req[r].pc \in InTransaction \cup {"upsert"} =>
       (Parent[BlockOf(r)] \in BatchBlocks(r) => req[r].timed)
  /\ ~IsPool(r) /\ req[r].pc = "jobs" =>
       /\ Parent[BlockOf(r)] \in BatchBlocks(r) => timed[BlockOf(r)]
       /\ \A k \in 1..Len(Cur(r)) : k < req[r].nth => JobOf(r, Cur(r)[k]) \in jobs
  /\ ~IsPool(r) /\ req[r].pc \in {"refresh", "done"} =>
       /\ \A i \in 1..Len(req[r].items) : BlockDone(r, i)
       /\ <<"sync", r>> \in chores
  /\ ~IsPool(r) /\ req[r].pc = "done" => <<"refresh", r>> \in chores

\* What a step may add to the tables and the queue, and never takes away.
Grows ==
  /\ stored \subseteq stored'
  /\ jobs \subseteq jobs'
  /\ chores \subseteq chores'
  /\ \A b \in Blocks : timed[b] => timed'[b]

\* Every step only adds.
LEMMA NextGrows ==
  ASSUME Inv, [Next]_vars
  PROVE  Grows
<1>1. ASSUME NEW r \in Requests, CommitBlock(r) PROVE Grows
  <2>1. timed' = [timed EXCEPT ![BlockOf(r)] = timed[BlockOf(r)] \/ req[r].timed]
    BY <1>1 DEF CommitBlock, CommitRows
  <2>2. timed \in [Blocks -> BOOLEAN]
    BY DEF Inv, TypeInv, TypeOK
  <2>3. \A b \in Blocks : timed[b] => timed'[b]
    BY <2>1, <2>2
  <2> QED
    BY <1>1, <2>3 DEF CommitBlock, CommitRows, queue, Grows
<1>2. ASSUME NEW r \in Requests, Serve(r) \/ Disturb(r), ~CommitBlock(r) PROVE Grows
  BY <1>2
  DEF Serve, Disturb, ReadHead, Lookup, UpsertBlock, InsertTransaction, FindMany,
      LinkTransactions, CommitPool, QueueDescription, NextBlock, QueueSync,
      QueueRefresh, DeadlockAbort, ReceiveBlocks, ReceivePool, Abort, Resend, db,
      queue, Grows
<1>3. ASSUME UNCHANGED <<stored, timed, queue>> PROVE Grows
  BY <1>3 DEF queue, Grows
<1> QED
  BY <1>1, <1>2, <1>3 DEF Next, DisconnectStart, DisconnectEnd, vars, db

\* The blocks of a body are blocks.
LEMMA ItemsTyped ==
  ASSUME TypeInv, NEW r \in Requests, NEW i \in 1..Len(req[r].items)
  PROVE  req[r].items[i].block \in Blocks
<1>1. req[r].items \in Seq(Item)
  BY DEF TypeInv, TypeOK, Request
<1>2. req[r].items[i] \in Item
  BY <1>1
<1> QED
  BY <1>2 DEF Item

\* A block that is done stays so.
LEMMA BlockDoneStable ==
  ASSUME TypeInv, Grows, NEW r \in Requests, req'[r].items = req[r].items,
         NEW i \in 1..Len(req[r].items), BlockDone(r, i)
  PROVE  BlockDone(r, i)'
<1>1. req[r].items[i].block \in Blocks
  BY ItemsTyped
<1>2. req'[r].items[i] = req[r].items[i] /\ BatchBlocks(r)' = BatchBlocks(r)
  BY DEF BatchBlocks
<1>3. Queued(r, i)'
  BY <1>2 DEF BlockDone, Queued, Grows
<1>4. Parent[req[r].items[i].block] \in BatchBlocks(r) => timed'[req[r].items[i].block]
  BY <1>1 DEF BlockDone, Grows
<1> QED
  BY <1>2, <1>3, <1>4 DEF BlockDone, Grows

\* What a request has come to is not undone by others.
LEMMA ProgressStable ==
  ASSUME TypeInv, Grows, NEW q \in Requests, req'[q] = req[q], Progress(q)
  PROVE  Progress(q)'
<1>1. \A i \in 1..Len(req[q].items) : BlockDone(q, i) => BlockDone(q, i)'
  BY BlockDoneStable
<1>2. /\ IsPool(q)' = IsPool(q)
      /\ ItemOf(q)' = ItemOf(q)
      /\ BlockOf(q)' = BlockOf(q)
      /\ Cur(q)' = Cur(q)
      /\ BatchBlocks(q)' = BatchBlocks(q)
  BY DEF IsPool, ItemOf, BlockOf, Cur, BatchBlocks
<1>3. ~IsPool(q) => BlockOf(q) \in Blocks
  BY CurrentWellFormed DEF TypeInv
<1>4. \A t : JobOf(q, t)' = JobOf(q, t)
  BY <1>2 DEF JobOf
<1> QED
  BY <1>1, <1>2, <1>3, <1>4 DEF Progress, Grows

\* A step of r within one block: items and pos stay.
LEMMA SameBlock ==
  ASSUME TypeInv, Grows, NEW r \in Requests, Progress(r),
         req'[r].items = req[r].items, req'[r].upload = req[r].upload,
         req'[r].pos = req[r].pos, req[r].pc \in Running
  PROVE  /\ IsPool(r)' = IsPool(r)
         /\ ItemOf(r)' = ItemOf(r)
         /\ BlockOf(r)' = BlockOf(r)
         /\ Cur(r)' = Cur(r)
         /\ BatchBlocks(r)' = BatchBlocks(r)
         /\ ~IsPool(r) => \A i \in 1..Len(req[r].items) :
                            i < req[r].pos => BlockDone(r, i)'
<1>1. /\ IsPool(r)' = IsPool(r)
      /\ ItemOf(r)' = ItemOf(r)
      /\ BlockOf(r)' = BlockOf(r)
      /\ Cur(r)' = Cur(r)
      /\ BatchBlocks(r)' = BatchBlocks(r)
  BY DEF IsPool, ItemOf, BlockOf, Cur, BatchBlocks
<1> QED
  BY <1>1, BlockDoneStable DEF Progress

\* The steps from a block's lookup to its commit.
LEMMA TransactionProgress ==
  ASSUME Inv, Grows, NEW r \in Requests, Progress(r), ~IsPool(r),
         \/ Lookup(r) \/ UpsertBlock(r) \/ InsertTransaction(r) \/ FindMany(r)
         \/ LinkTransactions(r) \/ CommitBlock(r)
  PROVE  Progress(r)'
<1>1. /\ req \in [Requests -> Request] /\ req[r] \in Request
      /\ BlockOf(r) \in Blocks
  BY CurrentWellFormed DEF Inv, TypeInv, TypeOK
<1>2. None \notin BatchBlocks(r)
  <2>1. SUFFICES ASSUME NEW i \in 1..Len(req[r].items) PROVE req[r].items[i].block # None
    BY DEF BatchBlocks
  <2> QED
    BY ItemsTyped, LoaderAssumption DEF Inv
<1> DEFINE Same == /\ req'[r].items = req[r].items
                   /\ req'[r].upload = req[r].upload
                   /\ req'[r].pos = req[r].pos
<1>3. CASE Lookup(r)
  <2>1. /\ Same
        /\ req'[r].pc = "upsert" /\ req[r].pc = "lookup"
        /\ req'[r].timed = (/\ Parent[BlockOf(r)] # None
                            /\ Parent[BlockOf(r)] \in BatchBlocks(r) \cup stored)
    BY <1>1, <1>3 DEF Lookup, Update, Request
  <2> QED
    BY <1>2, <2>1, SameBlock DEF Inv, Progress, Running, InTransaction
<1>4. CASE UpsertBlock(r)
  <2>1. /\ Same /\ req'[r].timed = req[r].timed
        /\ req'[r].pc = "insert" /\ req[r].pc = "upsert"
    BY <1>1, <1>4 DEF UpsertBlock, Update, Request
  <2> QED
    BY <2>1, SameBlock DEF Inv, Progress, Running, InTransaction
<1>5. CASE InsertTransaction(r)
  <2> DEFINE t == Cur(r)[req[r].nth]
             ins == IF seen[t] = None THEN req[r].ins \cup {t} ELSE req[r].ins
  <2>1. req' = [req EXCEPT ![r] = [req[r] EXCEPT !.nth = req[r].nth + 1, !.ins = ins]]
        /\ req[r].pc = "insert"
    BY <1>5 DEF InsertTransaction, Update
  <2> HIDE DEF ins
  <2>2. Same /\ req'[r].timed = req[r].timed /\ req'[r].pc = "insert" /\ req[r].pc = "insert"
    BY <1>1, <2>1 DEF Request
  <2> QED
    BY <2>2, SameBlock DEF Inv, Progress, Running, InTransaction
<1>6. CASE FindMany(r)
  <2> DEFINE found == {t \in CurSet(r) : seen[t] # None \/ t \in req[r].ins}
  <2>1. req' = [req EXCEPT ![r] = [req[r] EXCEPT !.pc = "link", !.found = found]]
        /\ req[r].pc = "insert"
    BY <1>6 DEF FindMany, Update
  <2> HIDE DEF found
  <2>2. Same /\ req'[r].timed = req[r].timed /\ req'[r].pc = "link" /\ req[r].pc = "insert"
    BY <1>1, <2>1 DEF Request
  <2> QED
    BY <2>2, SameBlock DEF Inv, Progress, Running, InTransaction
<1>7. CASE LinkTransactions(r)
  <2>1. Update(r, [req[r] EXCEPT !.pc = "commit"]) /\ req[r].pc = "link"
    BY <1>7 DEF LinkTransactions, Inv, Local
  <2>2. Same /\ req'[r].timed = req[r].timed /\ req'[r].pc = "commit" /\ req[r].pc = "link"
    BY <1>1, <2>1 DEF Update, Request
  <2> QED
    BY <2>2, SameBlock DEF Inv, Progress, Running, InTransaction
<1>8. CASE CommitBlock(r)
  <2>1. /\ Same /\ req'[r].nth = 1
        /\ req'[r].pc = "jobs" /\ req[r].pc = "commit"
    BY <1>1, <1>8 DEF CommitBlock, CommitRows, Update, Request
  <2>2. timed'[BlockOf(r)] = (timed[BlockOf(r)] \/ req[r].timed)
    BY <1>1, <1>8 DEF CommitBlock, CommitRows, Inv, TypeInv, TypeOK
  <2>3. Parent[BlockOf(r)] \in BatchBlocks(r) => timed'[BlockOf(r)]
    BY <2>1, <2>2 DEF Progress, InTransaction
  <2>4. \A k \in 1..Len(Cur(r)) : ~(k < 1)
    OBVIOUS
  <2> QED
    BY <2>1, <2>3, <2>4, SameBlock DEF Inv, Progress, Running, InTransaction
<1> QED
  BY <1>3, <1>4, <1>5, <1>6, <1>7, <1>8

\* The steps after a commit.
LEMMA QueueProgress ==
  ASSUME Inv, Grows, NEW r \in Requests, Progress(r), ~IsPool(r),
         \/ QueueDescription(r) \/ NextBlock(r) \/ QueueSync(r) \/ QueueRefresh(r)
  PROVE  Progress(r)'
<1>1. /\ req \in [Requests -> Request] /\ req[r] \in Request
      /\ Cur(r) \in Seq(Txs)
  BY CurrentWellFormed DEF Inv, TypeInv, TypeOK
<1>2. req[r].items \in Seq(Item) /\ req[r].pos \in Nat /\ req[r].nth \in Nat
  BY <1>1 DEF Request
<1>3. req[r].pos \in 1..Len(req[r].items)
  BY <1>2 DEF Inv, TypeInv, Shape
<1>4. ASSUME req[r].pc = "jobs", req[r].nth > Len(Cur(r)) PROVE BlockDone(r, req[r].pos)
  <2>1. BlockOf(r) \in stored
    BY <1>4 DEF Inv, Local
  <2>2. \A k \in 1..Len(Cur(r)) : JobOf(r, Cur(r)[k]) \in jobs
    <3>1. Len(Cur(r)) \in Nat
      BY <1>1
    <3> QED
      BY <1>2, <1>4, <3>1 DEF Progress
  <2>3. Queued(r, req[r].pos)
    BY <2>2 DEF Queued, JobOf, BlockOf, ItemOf, Cur
  <2> QED
    BY <1>4, <2>1, <2>3 DEF BlockDone, Progress, BlockOf, ItemOf
<1>5. CASE QueueDescription(r)
  <2>1. /\ req'[r].items = req[r].items /\ req'[r].upload = req[r].upload
        /\ req'[r].pos = req[r].pos /\ req'[r].nth = req[r].nth + 1
        /\ req'[r].pc = "jobs" /\ req[r].pc = "jobs"
    BY <1>1, <1>5 DEF QueueDescription, Update, Request
  <2>2. JobOf(r, Cur(r)[req[r].nth]) \in jobs'
    BY <1>5 DEF QueueDescription, JobOf
  <2>3. \A k \in 1..Len(Cur(r)) : k < req[r].nth + 1 => JobOf(r, Cur(r)[k]) \in jobs'
    <3>1. ASSUME NEW k \in 1..Len(Cur(r)), k < req[r].nth + 1
          PROVE  JobOf(r, Cur(r)[k]) \in jobs'
      <4>1. k = req[r].nth \/ k < req[r].nth
        BY <1>2, <3>1
      <4>2. CASE k = req[r].nth
        BY <2>2, <4>2
      <4>3. CASE k < req[r].nth
        BY <2>1, <4>3 DEF Progress, Grows
      <4> QED
        BY <4>1, <4>2, <4>3
    <3> QED
      BY <3>1
  <2>4. Parent[BlockOf(r)] \in BatchBlocks(r) => timed'[BlockOf(r)]
    BY <1>5, <2>1 DEF Progress, QueueDescription, db
  <2>5. /\ IsPool(r)' = IsPool(r) /\ BlockOf(r)' = BlockOf(r) /\ Cur(r)' = Cur(r)
        /\ ItemOf(r)' = ItemOf(r) /\ BatchBlocks(r)' = BatchBlocks(r)
        /\ \A i \in 1..Len(req[r].items) : i < req[r].pos => BlockDone(r, i)'
    BY <2>1, SameBlock DEF Inv, Running
  <2>6. \A t : JobOf(r, t)' = JobOf(r, t)
    BY <2>5 DEF JobOf
  <2> QED
    BY <2>1, <2>3, <2>4, <2>5, <2>6 DEF Progress, Running, InTransaction
<1>6. ASSUME req'[r].items = req[r].items, NEW i \in 1..Len(req[r].items), BlockDone(r, i)
      PROVE  BlockDone(r, i)'
  BY <1>6, BlockDoneStable DEF Inv
<1>7. CASE NextBlock(r)
  <2>1. /\ req'[r].items = req[r].items /\ req'[r].pos = req[r].pos + 1
        /\ req'[r].pc = "lookup" /\ req[r].pc = "jobs" /\ req[r].nth > Len(Cur(r))
    BY <1>1, <1>7 DEF NextBlock, Update, Request
  <2>2. ASSUME NEW i \in 1..Len(req[r].items), i < req[r].pos + 1 PROVE BlockDone(r, i)
    <3>1. i = req[r].pos \/ i < req[r].pos
      BY <1>2, <2>2
    <3> QED
      BY <1>4, <2>1, <3>1 DEF Progress, Running
  <2> QED
    BY <1>6, <2>1, <2>2 DEF Progress, InTransaction
<1>8. CASE QueueSync(r)
  <2>1. /\ req'[r].items = req[r].items /\ req[r].pos = Len(req[r].items)
        /\ req'[r].pc = "refresh" /\ req[r].pc = "jobs" /\ req[r].nth > Len(Cur(r))
        /\ <<"sync", r>> \in chores'
    BY <1>1, <1>8 DEF QueueSync, Update, Request
  <2>2. ASSUME NEW i \in 1..Len(req[r].items) PROVE BlockDone(r, i)
    <3>1. i = req[r].pos \/ i < req[r].pos
      BY <1>2, <2>1, <2>2
    <3> QED
      BY <1>4, <2>1, <3>1 DEF Progress, Running
  <2> QED
    BY <1>6, <2>1, <2>2 DEF Progress, InTransaction
<1>9. CASE QueueRefresh(r)
  <2>1. /\ req'[r].items = req[r].items
        /\ req'[r].pc = "done" /\ req[r].pc = "refresh"
        /\ <<"refresh", r>> \in chores'
    BY <1>1, <1>9 DEF QueueRefresh, Update, Forget, Request
  <2> QED
    BY <1>6, <2>1 DEF Progress, Grows, Running, InTransaction
<1> QED
  BY <1>5, <1>7, <1>8, <1>9

\* The steps of pool requests, and what the outside does.
LEMMA OtherProgress ==
  ASSUME Inv, Grows, NEW r \in Requests, Progress(r), Serve(r) \/ Disturb(r),
         IsPool(r) \/ Disturb(r) \/ DeadlockAbort(r)
  PROVE  Progress(r)'
<1>1. /\ req \in [Requests -> Request] /\ req[r] \in Request
  BY DEF Inv, TypeInv, TypeOK
<1>2. CASE ReceiveBlocks(r)
  <2>1. PICK items \in Batches :
          Update(r, [req[r] EXCEPT !.pc = "lookup", !.items = items, !.tries = 1])
    BY <1>2 DEF ReceiveBlocks
  <2>2. req'[r].items = items /\ req'[r].pos = 1 /\ req'[r].pc = "lookup"
    BY <1>1, <1>2, <2>1 DEF ReceiveBlocks, Update, Request, Inv, TypeInv, Shape
  <2>3. \A i \in 1..Len(items) : ~(i < 1)
    OBVIOUS
  <2> QED
    BY <2>2, <2>3 DEF Progress, InTransaction
<1>3. CASE Abort(r)
  <2>1. req'[r].pc = "failed" /\ req'[r].pos = 1
    BY <1>1, <1>3 DEF Abort, Update, Forget, Request
  <2> QED
    BY <2>1 DEF Progress, Running, InTransaction
<1>4. CASE Resend(r)
  <2> DEFINE pc == IF IsPool(r) THEN "head" ELSE "lookup"
  <2>1. req' = [req EXCEPT ![r] = [req[r] EXCEPT !.pc = pc, !.tries = req[r].tries + 1]]
        /\ req[r].pc = "failed"
    BY <1>4 DEF Resend, Update
  <2>2. req'[r].items = req[r].items /\ req'[r].pos = req[r].pos /\ req'[r].pc = pc
    BY <1>1, <2>1 DEF Request
  <2>3. req'[r].pos = 1 /\ \A i \in 1..Len(req'[r].items) : ~(i < 1)
    BY <2>1, <2>2 DEF Progress
  <2> QED
    BY <2>2, <2>3 DEF Progress, Running, InTransaction
<1>5. CASE IsPool(r) /\ ~ReceiveBlocks(r) /\ ~Abort(r) /\ ~Resend(r)
  <2>1. req'[r].items = req[r].items /\ req'[r].pc # "failed"
    <3>1. CASE ReadHead(r)
      <4>1. CASE Update(r, [req[r] EXCEPT !.pc = "notfound"])
        BY <1>1, <4>1 DEF Update, Request
      <4>2. ASSUME NEW b \in stored,
                   Update(r, [req[r] EXCEPT !.pc = "insert", !.nth = 1, !.attach = SeqOf[b]])
            PROVE  req'[r].items = req[r].items /\ req'[r].pc # "failed"
        BY <1>1, <4>2 DEF Update, Request
      <4> QED
        BY <3>1, <4>1, <4>2 DEF ReadHead
    <3>2. CASE InsertTransaction(r)
      <4> DEFINE t == Cur(r)[req[r].nth]
                 ins == IF seen[t] = None THEN req[r].ins \cup {t} ELSE req[r].ins
      <4>1. req' = [req EXCEPT ![r] = [req[r] EXCEPT !.nth = req[r].nth + 1, !.ins = ins]]
            /\ req[r].pc = "insert"
        BY <3>2 DEF InsertTransaction, Update
      <4> HIDE DEF ins
      <4> QED
        BY <1>1, <4>1 DEF Request
    <3>3. CASE FindMany(r)
      <4> DEFINE found == {t \in CurSet(r) : seen[t] # None \/ t \in req[r].ins}
      <4>1. req' = [req EXCEPT ![r] = [req[r] EXCEPT !.pc = "commit", !.found = found]]
        BY <1>5, <3>3 DEF FindMany, Update
      <4> HIDE DEF found
      <4> QED
        BY <1>1, <4>1 DEF Request
    <3>4. CASE CommitPool(r)
      BY <1>1, <3>4 DEF CommitPool, Update, Forget, Request
    <3>5. CASE ReceivePool(r)
      <4>1. PICK txs \in Uploads :
              Update(r, [req[r] EXCEPT !.pc = "head", !.upload = txs, !.tries = 1])
        BY <3>5 DEF ReceivePool
      <4> QED
        BY <1>1, <4>1 DEF Update, Request
    <3>6. req[r].pc \notin {"lookup", "upsert", "link", "jobs", "refresh"}
      BY <1>5 DEF Inv, TypeInv, Shape
    <3>7. ~Lookup(r) /\ ~UpsertBlock(r) /\ ~LinkTransactions(r) /\ ~CommitBlock(r)
      BY <1>5, <3>6 DEF Lookup, UpsertBlock, LinkTransactions, CommitBlock
    <3>8. ~QueueDescription(r) /\ ~NextBlock(r) /\ ~QueueSync(r) /\ ~QueueRefresh(r)
      BY <3>6 DEF QueueDescription, NextBlock, QueueSync, QueueRefresh
    <3> QED
      BY <1>5, <3>1, <3>2, <3>3, <3>4, <3>5, <3>7, <3>8 DEF Serve, Disturb, DeadlockAbort
  <2>2. IsPool(r)'
    BY <1>5, <2>1 DEF IsPool
  <2> QED
    BY <2>1, <2>2 DEF Progress
<1>6. CASE ReceivePool(r)
  <2>1. IsPool(r)
    BY <1>6 DEF ReceivePool, Inv, TypeInv, Shape
  <2>2. CASE ReceiveBlocks(r) \/ Abort(r) \/ Resend(r)
    BY <1>2, <1>3, <1>4, <2>2
  <2> QED
    BY <1>5, <2>1, <2>2
<1> QED
  BY <1>2, <1>3, <1>4, <1>5, <1>6 DEF Disturb, DeadlockAbort

\* Progress is inductive, relative to Inv.
LEMMA NextProgress ==
  ASSUME Inv, [Next]_vars, \A q \in Requests : Progress(q)
  PROVE  \A q \in Requests : Progress(q)'
<1>1. Grows
  BY NextGrows
<1>2. ASSUME NEW r \in Requests, Serve(r) \/ Disturb(r), NEW q \in Requests
      PROVE  Progress(q)'
  <2>1. CASE q = r
    <3>1. CASE IsPool(r) \/ Disturb(r) \/ DeadlockAbort(r)
      BY <1>1, <1>2, <2>1, <3>1, OtherProgress
    <3>2. CASE ~(IsPool(r) \/ Disturb(r) \/ DeadlockAbort(r))
      <4>1. ~ReadHead(r) /\ ~CommitPool(r)
        BY <3>2 DEF ReadHead, CommitPool, Inv, TypeInv, Shape
      <4> QED
        BY <1>1, <1>2, <2>1, <3>2, <4>1, TransactionProgress, QueueProgress DEF Serve
    <3> QED
      BY <3>1, <3>2
  <2>2. CASE q # r
    <3>1. \E new : Update(r, new)
      BY <1>2
      DEF Serve, Disturb, ReadHead, Lookup, UpsertBlock, InsertTransaction, FindMany,
          LinkTransactions, CommitBlock, CommitRows, CommitPool, QueueDescription,
          NextBlock, QueueSync, QueueRefresh, DeadlockAbort, ReceiveBlocks,
          ReceivePool, Abort, Resend
    <3>2. req'[q] = req[q]
      BY <2>2, <3>1 DEF Update, Inv, TypeInv, TypeOK
    <3> QED
      BY <1>1, <3>2, ProgressStable DEF Inv
  <2> QED
    BY <2>1, <2>2
<1>3. ASSUME req' = req, NEW q \in Requests PROVE Progress(q)'
  BY <1>1, <1>3, ProgressStable DEF Inv
<1> QED
  BY <1>2, <1>3 DEF Next, DisconnectStart, DisconnectEnd, vars

\* A POST /blocks that was answered is complete, for any bodies, however often
\* its client had to send its body again, and whatever other requests did.
THEOREM AnsweredIsCompleteHolds == Spec => []AnsweredIsComplete
<1> DEFINE AllProgress == \A q \in Requests : Progress(q)
<1>1. Init => AllProgress
  BY DEF Init, Progress, IsPool, Running, InTransaction
<1>2. Inv /\ AllProgress /\ [Next]_vars => AllProgress'
  BY NextProgress
<1>3. AllProgress => AnsweredIsComplete
  <2> SUFFICES ASSUME AllProgress, NEW r \in Requests, req[r].pc = "done", ~IsPool(r)
               PROVE  /\ \A i \in 1..Len(req[r].items) :
                           LET b == req[r].items[i].block
                           IN /\ b \in stored
                              /\ Parent[b] \in BatchBlocks(r) => timed[b]
                              /\ Queued(r, i)
                      /\ {"sync", "refresh"} \X {r} \subseteq chores
    BY DEF AnsweredIsComplete
  <2>1. \A i \in 1..Len(req[r].items) : BlockDone(r, i)
    BY DEF Progress
  <2>2. {"sync", "refresh"} \X {r} \subseteq chores
    <3>1. <<"sync", r>> \in chores /\ <<"refresh", r>> \in chores
      BY DEF Progress
    <3>2. {"sync", "refresh"} \X {r} = {<<"sync", r>>, <<"refresh", r>>}
      OBVIOUS
    <3> QED
      BY <3>1, <3>2
  <2> QED
    BY <2>1, <2>2 DEF BlockDone
<1> QED
  BY <1>1, <1>2, <1>3, Invariance, PTL DEF Spec

-----------------------------------------------------------------------------
\* The loader implements BlockStore, the specification its readers rely on:
\* every step of it is one of BlockStore, or changes nothing a reader sees.

\* What a transaction has inserted are transactions of its request, and a
\* running disconnectAfter is about rows that exist.
Owned ==
  /\ \A r \in Requests : req[r].ins \subseteq CurSet(r)
  /\ sweep \subseteq stored

\* A request that inserts nothing keeps what it owns: it stays in the same
\* block, or has nothing.
LEMMA OwnedStep ==
  ASSUME TypeInv, Owned, NEW r \in Requests, sweep' = sweep, stored \subseteq stored',
         \A q \in Requests : q # r => req'[q] = req[q],
         \/ req'[r].ins = {}
         \/ /\ req'[r].items = req[r].items
            /\ req'[r].upload = req[r].upload
            /\ req'[r].pos = req[r].pos
            /\ req'[r].ins \subseteq req[r].ins
  PROVE  Owned'
<1>1. ASSUME NEW q \in Requests, req'[q] = req[q] PROVE (req[q].ins \subseteq CurSet(q))'
  <2>1. Cur(q)' = Cur(q)
    BY <1>1 DEF Cur, IsPool, BlockOf, ItemOf
  <2>2. CurSet(q)' = CurSet(q)
    BY <2>1 DEF CurSet
  <2>3. req[q].ins \subseteq CurSet(q)
    BY DEF Owned
  <2> QED
    BY <1>1, <2>2, <2>3
<1>2. (req[r].ins \subseteq CurSet(r))'
  <2>1. CASE req'[r].ins = {}
    BY <2>1
  <2>2. CASE /\ req'[r].items = req[r].items
             /\ req'[r].upload = req[r].upload
             /\ req'[r].pos = req[r].pos
             /\ req'[r].ins \subseteq req[r].ins
    <3>1. Cur(r)' = Cur(r)
      BY <2>2 DEF Cur, IsPool, BlockOf, ItemOf
    <3>2. CurSet(r)' = CurSet(r)
      BY <3>1 DEF CurSet
    <3>3. req[r].ins \subseteq CurSet(r)
      BY DEF Owned
    <3> QED
      BY <2>2, <3>2, <3>3
  <2> QED
    BY <2>1, <2>2
<1>3. (sweep \subseteq stored)'
  BY DEF Owned
<1> QED
  BY <1>1, <1>2, <1>3 DEF Owned

\* The steps of a request that neither insert a row nor end a transaction.
Reading(r) ==
  \/ ReadHead(r) \/ Lookup(r) \/ UpsertBlock(r) \/ FindMany(r) \/ LinkTransactions(r)
  \/ QueueDescription(r) \/ NextBlock(r) \/ QueueSync(r) \/ QueueRefresh(r)
  \/ DeadlockAbort(r) \/ Disturb(r)

\* Such a step changes no table, and what its request owns as OwnedStep wants.
LEMMA ReadingStep ==
  ASSUME Inv, NEW r \in Requests, Reading(r)
  PROVE  /\ UNCHANGED <<db, sweep>>
         /\ \A q \in Requests : q # r => req'[q] = req[q]
         /\ \/ req'[r].ins = {}
            \/ /\ req'[r].items = req[r].items
               /\ req'[r].upload = req[r].upload
               /\ req'[r].pos = req[r].pos
               /\ req'[r].ins \subseteq req[r].ins
<1>1. /\ req \in [Requests -> Request]
      /\ req[r] \in Request
  BY DEF Inv, TypeInv, TypeOK
<1>2. req[r].pc \notin InTransaction => req[r].ins = {}
  BY DEF Inv, Local
<1> DEFINE Goal == /\ UNCHANGED <<db, sweep>>
                   /\ \A q \in Requests : q # r => req'[q] = req[q]
                   /\ \/ req'[r].ins = {}
                      \/ /\ req'[r].items = req[r].items
                         /\ req'[r].upload = req[r].upload
                         /\ req'[r].pos = req[r].pos
                         /\ req'[r].ins \subseteq req[r].ins
<1>3. ASSUME NEW new, Update(r, new), UNCHANGED <<db, sweep>>,
             \/ new.ins = {}
             \/ /\ new.items = req[r].items
                /\ new.upload = req[r].upload
                /\ new.pos = req[r].pos
                /\ new.ins \subseteq req[r].ins
      PROVE  Goal
  BY <1>1, <1>3 DEF Update
<1> HIDE DEF Goal
<1>4. ASSUME ReadHead(r) PROVE Goal
  <2>1. CASE Update(r, [req[r] EXCEPT !.pc = "notfound"])
    BY <1>1, <1>3, <1>4, <2>1 DEF ReadHead, Request
  <2>2. ASSUME NEW b \in stored,
               Update(r, [req[r] EXCEPT !.pc = "insert", !.nth = 1, !.attach = SeqOf[b]])
        PROVE  Goal
    BY <1>1, <1>3, <1>4, <2>2 DEF ReadHead, Request
  <2> QED
    BY <1>4, <2>1, <2>2 DEF ReadHead
<1>5. ASSUME Lookup(r) PROVE Goal
  BY <1>1, <1>3, <1>5 DEF Lookup, Request
<1>6. ASSUME UpsertBlock(r) PROVE Goal
  BY <1>1, <1>3, <1>6 DEF UpsertBlock, Request
<1>7. ASSUME FindMany(r) PROVE Goal
  <2> DEFINE pc == IF IsPool(r) THEN "commit" ELSE "link"
             found == {t \in CurSet(r) : seen[t] # None \/ t \in req[r].ins}
  <2>1. Update(r, [req[r] EXCEPT !.pc = pc, !.found = found]) /\ UNCHANGED <<db, sweep>>
    BY <1>7 DEF FindMany
  <2> HIDE DEF pc, found
  <2> QED
    BY <1>1, <1>3, <2>1 DEF Request
<1>8. ASSUME LinkTransactions(r) PROVE Goal
  <2>1. CASE Update(r, [req[r] EXCEPT !.pc = "commit"])
    BY <1>1, <1>3, <1>8, <2>1 DEF LinkTransactions, Request
  <2>2. CASE Update(r, Forget(req[r], "threw"))
    BY <1>1, <1>3, <1>8, <2>2 DEF LinkTransactions, Request, Forget
  <2> QED
    BY <1>8, <2>1, <2>2 DEF LinkTransactions
<1>9. ASSUME QueueDescription(r) PROVE Goal
  BY <1>1, <1>3, <1>9 DEF QueueDescription, Request
<1>10. ASSUME NextBlock(r) PROVE Goal
  BY <1>1, <1>2, <1>3, <1>10 DEF NextBlock, Request, InTransaction
<1>11. ASSUME QueueSync(r) PROVE Goal
  BY <1>1, <1>3, <1>11 DEF QueueSync, Request
<1>12. ASSUME QueueRefresh(r) PROVE Goal
  BY <1>1, <1>3, <1>12 DEF QueueRefresh, Request, Forget
<1>13. ASSUME Abort(r) PROVE Goal
  BY <1>1, <1>3, <1>13 DEF Abort, Request, Forget, queue
<1>14. ASSUME ReceiveBlocks(r) PROVE Goal
  <2>1. PICK items \in Batches :
          Update(r, [req[r] EXCEPT !.pc = "lookup", !.items = items, !.tries = 1])
    BY <1>14 DEF ReceiveBlocks
  <2> QED
    BY <1>1, <1>2, <1>3, <1>14, <2>1 DEF ReceiveBlocks, Request, InTransaction
<1>15. ASSUME ReceivePool(r) PROVE Goal
  <2>1. PICK txs \in Uploads :
          Update(r, [req[r] EXCEPT !.pc = "head", !.upload = txs, !.tries = 1])
    BY <1>15 DEF ReceivePool
  <2> QED
    BY <1>1, <1>2, <1>3, <1>15, <2>1 DEF ReceivePool, Request, InTransaction
<1>16. ASSUME Resend(r) PROVE Goal
  <2> DEFINE pc == IF IsPool(r) THEN "head" ELSE "lookup"
  <2>1. Update(r, [req[r] EXCEPT !.pc = pc, !.tries = req[r].tries + 1])
        /\ UNCHANGED <<db, sweep>>
    BY <1>16 DEF Resend
  <2> HIDE DEF pc
  <2> QED
    BY <1>1, <1>3, <2>1 DEF Request
<1>17. Goal
  BY <1>4, <1>5, <1>6, <1>7, <1>8, <1>9, <1>10, <1>11, <1>12, <1>13, <1>14, <1>15, <1>16
  DEF Reading, DeadlockAbort, Disturb
<1> QED
  BY <1>17 DEF Goal

-----------------------------------------------------------------------------
\* A transaction owns what it inserts, one row after the other.
LEMMA InsertOwned ==
  ASSUME Inv, Owned, NEW r \in Requests, InsertTransaction(r)
  PROVE  Owned'
<1> DEFINE t == Cur(r)[req[r].nth]
           ins == IF seen[t] = None THEN req[r].ins \cup {t} ELSE req[r].ins
<1>1. /\ req \in [Requests -> Request]
      /\ req[r] \in Request
      /\ Cur(r) \in Seq(Txs)
      /\ req[r].nth \in 1..Len(Cur(r))
  <2>1. req \in [Requests -> Request] /\ req[r] \in Request /\ Cur(r) \in Seq(Txs)
    BY CurrentWellFormed DEF Inv, TypeInv, TypeOK
  <2>2. req[r].nth \in Nat /\ req[r].nth >= 1 /\ req[r].nth <= Len(Cur(r))
    BY <2>1 DEF Inv, TypeInv, Shape, InsertTransaction, Request
  <2>3. Len(Cur(r)) \in Nat
    BY <2>1
  <2> QED
    BY <2>1, <2>2, <2>3
<1>2. ins \subseteq CurSet(r)
  BY <1>1 DEF Owned, CurSet
<1>3. req' = [req EXCEPT ![r] = [req[r] EXCEPT !.nth = req[r].nth + 1, !.ins = ins]]
  BY DEF InsertTransaction, Update
<1> HIDE DEF ins
<1>4. /\ \A q \in Requests : q # r => req'[q] = req[q]
      /\ req'[r].items = req[r].items
      /\ req'[r].upload = req[r].upload
      /\ req'[r].pos = req[r].pos
      /\ req'[r].ins = ins
  BY <1>1, <1>3 DEF Request
<1>5. ASSUME NEW q \in Requests, q # r PROVE (req[q].ins \subseteq CurSet(q))'
  BY <1>4, <1>5 DEF Owned, CurSet, Cur, IsPool, BlockOf, ItemOf
<1>6. (req[r].ins \subseteq CurSet(r))'
  BY <1>2, <1>4 DEF CurSet, Cur, IsPool, BlockOf, ItemOf
<1>7. (sweep \subseteq stored)'
  BY DEF Owned, InsertTransaction, db
<1> QED
  BY <1>5, <1>6, <1>7 DEF Owned

\* A commit leaves its transaction with nothing of its own.
LEMMA CommitOwned ==
  ASSUME Inv, Owned, NEW r \in Requests, CommitBlock(r) \/ CommitPool(r)
  PROVE  Owned'
<1>1. req \in [Requests -> Request] /\ req[r] \in Request
  BY DEF Inv, TypeInv, TypeOK
<1>2. CASE CommitBlock(r)
  <2>1. req'[r].ins = {} /\ \A q \in Requests : q # r => req'[q] = req[q]
    BY <1>1, <1>2 DEF CommitBlock, CommitRows, Update, Request
  <2> QED
    BY <1>2, <2>1, OwnedStep DEF CommitBlock, CommitRows, Inv
<1>3. CASE CommitPool(r)
  <2>1. req'[r].ins = {} /\ \A q \in Requests : q # r => req'[q] = req[q]
    BY <1>1, <1>3 DEF CommitPool, Update, Forget, Request
  <2> QED
    BY <1>3, <2>1, OwnedStep DEF CommitPool, Inv
<1> QED
  BY <1>2, <1>3

\* Ownership holds in every state.
LEMMA OwnedInvariant == Spec => []Owned
<1>1. Init => Owned
  BY DEF Init, Owned
<1>2. Inv /\ Owned /\ [Next]_vars => Owned'
  <2> SUFFICES ASSUME Inv, Owned, [Next]_vars PROVE Owned'
    OBVIOUS
  <2>1. ASSUME NEW r \in Requests, Reading(r) PROVE Owned'
    BY <2>1, ReadingStep, OwnedStep DEF Inv, db
  <2>2. ASSUME NEW r \in Requests, Serve(r) \/ Disturb(r) PROVE Owned'
    BY <2>1, <2>2, InsertOwned, CommitOwned DEF Serve, Reading
  <2>3. ASSUME NEW n \in Sequences0, DisconnectStart(n) PROVE Owned'
    BY <2>3 DEF DisconnectStart, db, queue, Owned, CurSet, Cur, IsPool, BlockOf, ItemOf
  <2>4. CASE DisconnectEnd
    BY <2>4 DEF DisconnectEnd, Owned, CurSet, Cur, IsPool, BlockOf, ItemOf
  <2>5. CASE UNCHANGED vars
    BY <2>5 DEF vars, db, Owned, CurSet, Cur, IsPool, BlockOf, ItemOf
  <2> QED
    BY <2>2, <2>3, <2>4, <2>5 DEF Next
<1> QED
  BY <1>1, <1>2, Invariance, PTL DEF Spec

-----------------------------------------------------------------------------
\* What the abstract specification shows of the main chain.
Chain == {b \in Blocks : main[b]}

\* The commit of a block's transaction stores the block, whole: the rows it
\* found were seen before, those it inserted were not, and these are all.
LEMMA CommitBlockStores ==
  ASSUME Inv, RowLocks, Owned, NEW r \in Requests, CommitBlock(r)
  PROVE  \E b \in Blocks : Store!StoreBlock(b)
<1>0. PICK b \in Blocks : b = BlockOf(r)
  BY CurrentWellFormed DEF Inv, TypeInv, CommitBlock
<1>1. b \in Blocks /\ ItemOf(r).main \in BOOLEAN /\ main \in [Blocks -> BOOLEAN]
  BY CurrentWellFormed DEF Inv, TypeInv, TypeOK, CommitBlock, Item
<1>2. CurSet(r) = Store!TxSet(b)
  BY <1>0 DEF CurSet, Cur, CommitBlock, Store!TxSet
<1>3. Chain' \in {Chain \cup {b}, Chain \ {b}}
  <2>1. main' = [main EXCEPT ![b] = ItemOf(r).main]
    BY <1>0 DEF CommitBlock, CommitRows
  <2>2. CASE ItemOf(r).main = TRUE
    BY <1>1, <2>1, <2>2 DEF Chain
  <2>3. CASE ItemOf(r).main = FALSE
    BY <1>1, <2>1, <2>3 DEF Chain
  <2> QED
    BY <1>1, <2>2, <2>3
<1>4. SeenAfter(r) = Store!FirstSeen(Store!TxSet(b), SeqOf[b])
  <2>1. req[r].attach = SeqOf[b] /\ \A t \in CurSet(r) : TxKnown(r, t)
    BY <1>0 DEF Inv, Local, CommitBlock, InTransaction
  <2>2. ASSUME NEW t \in Txs
        PROVE  t \in req[r].ins <=> t \in CurSet(r) /\ seen[t] = None
    BY <2>1, <2>2 DEF TxKnown, RowLocks, Owned
  <2> QED
    BY <1>2, <2>1, <2>2 DEF SeenAfter, Store!FirstSeen
<1>5. /\ stored' = stored \cup {b}
      /\ seen' = SeenAfter(r)
      /\ links' = links \cup ({b} \X CurSet(r))
  BY <1>0 DEF CommitBlock, CommitRows
<1> QED
  BY <1>1, <1>2, <1>3, <1>4, <1>5 DEF Store!StoreBlock, Chain

\* A pool's commit adds the rows it inserted, seen at a block that is stored.
LEMMA CommitPoolStores ==
  ASSUME Inv, RowLocks, NEW r \in Requests, CommitPool(r)
  PROVE  \E txs \in SUBSET Txs, b \in Blocks : Store!StorePool(txs, b)
<1>1. PICK b \in stored : SeqOf[b] = req[r].attach
  BY DEF Inv, Local, CommitPool, InTransaction
<1>2. req[r].ins \in SUBSET Txs /\ b \in Blocks
  BY DEF Inv, TypeInv, TypeOK, Request
<1>3. SeenAfter(r) = Store!FirstSeen(req[r].ins, SeqOf[b])
  BY <1>1 DEF SeenAfter, Store!FirstSeen, RowLocks
<1> QED
  BY <1>1, <1>2, <1>3 DEF CommitPool, Store!StorePool

\* Every step of the loader is a step of the store, or none.
LEMMA StepStores ==
  ASSUME Inv, RowLocks, Owned, [Next]_vars
  PROVE  [Store!StoreNext]_(Store!storeVars)
<1>1. ASSUME NEW r \in Requests, Reading(r) PROVE UNCHANGED Store!storeVars
  BY <1>1, ReadingStep DEF Store!storeVars, db
<1>2. ASSUME NEW r \in Requests, InsertTransaction(r) PROVE UNCHANGED Store!storeVars
  BY <1>2 DEF InsertTransaction, Store!storeVars, db
<1>3. ASSUME NEW r \in Requests, CommitBlock(r) PROVE Store!StoreNext
  BY <1>3, CommitBlockStores DEF Store!StoreNext
<1>4. ASSUME NEW r \in Requests, CommitPool(r) PROVE Store!StoreNext
  BY <1>4, CommitPoolStores DEF Store!StoreNext
<1>5. ASSUME NEW r \in Requests, Serve(r) \/ Disturb(r)
      PROVE  [Store!StoreNext]_(Store!storeVars)
  BY <1>1, <1>2, <1>3, <1>4, <1>5 DEF Serve, Reading
<1>6. ASSUME NEW n \in Sequences0, DisconnectStart(n) PROVE UNCHANGED Store!storeVars
  BY <1>6 DEF DisconnectStart, Store!storeVars, db
<1>7. CASE DisconnectEnd
  <2>1. main \in [Blocks -> BOOLEAN] /\ sweep \in SUBSET stored
    BY DEF Inv, TypeInv, TypeOK, Owned
  <2>2. Chain' = Chain \ sweep
    BY <1>7, <2>1 DEF DisconnectEnd, Chain
  <2>3. \E blocks \in SUBSET stored : Store!Disconnect(blocks)
    BY <1>7, <2>1, <2>2 DEF DisconnectEnd, Chain, Store!Disconnect
  <2> QED
    BY <2>3 DEF Store!StoreNext
<1>8. CASE UNCHANGED vars
  BY <1>8 DEF vars, db, Store!storeVars
<1> QED
  BY <1>5, <1>6, <1>7, <1>8 DEF Next

\* The write path implements BlockStore, for any number of requests, blocks
\* and transactions, however their statements interleave and wherever they
\* fail: a reader never sees part of a block, nor a transaction seen twice.
THEOREM LoaderImplementsBlockStore == Spec => ImplementsBlockStore
<1>1. Init => Store!StoreInit
  BY DEF Init, Store!StoreInit
<1>2. Inv /\ RowLocks /\ Owned /\ [Next]_vars => [Store!StoreNext]_(Store!storeVars)
  BY StepStores
<1> QED
  BY <1>1, <1>2, Invariance, RowLocksInvariant, OwnedInvariant, PTL
  DEF Spec, ImplementsBlockStore, Store!StoreSpec

=============================================================================
