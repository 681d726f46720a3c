---------------------- MODULE BlocksTransactionsLoader ----------------------
(***************************************************************************)
(* The write path of the block index: POST /blocks                         *)
(* (BlocksTransactionsLoader.createMany), POST /transactions               *)
(* (TransactionsController.bulkCreate) and POST /blocks/disconnect         *)
(* (BlocksService.disconnectAfter), served concurrently by the processes   *)
(* of the API cluster against one Postgres database at READ COMMITTED.     *)
(*                                                                         *)
(* A step is one SQL statement, one addJob call, or a commit.  What an     *)
(* open transaction wrote stays in its request's record until it commits.  *)
(* Another writer of the same unique key waits for that transaction to     *)
(* end, as INSERT ... ON CONFLICT does; the waits can form a cycle, which  *)
(* Postgres breaks by aborting one of its members.                         *)
(***************************************************************************)
EXTENDS Integers, Sequences, FiniteSets

CONSTANTS Requests,  \* client calls, each served by one API process
          Blocks,    \* block hashes, standardized
          Txs,       \* transaction hashes, standardized
          None,      \* SQL NULL, and the parent of a block sent without one
          SeqOf,     \* a block's sequence
          Parent,    \* a block's previous_block_hash
          TxsOf,     \* a block's transactions, in the order of its DTO
          Batches,   \* the bodies POST /blocks may carry
          Uploads,   \* the bodies POST /transactions may carry
          MaxTries   \* bound: times the client of a request sends its body

Item == [block : Blocks, main : BOOLEAN]

ASSUME LoaderAssumption ==
  /\ None \notin Blocks \cup Txs \cup Nat
  /\ SeqOf \in [Blocks -> Nat]
  /\ Parent \in [Blocks -> Blocks \cup {None}]
  /\ TxsOf \in [Blocks -> Seq(Txs)]
  /\ Batches \subseteq Seq(Item) \ {<<>>}
  /\ Uploads \subseteq Seq(Txs)
  /\ MaxTries \in [Requests -> Nat]

VARIABLES
  stored,  \* hashes of the committed rows of "blocks"
  main,    \* their column main
  timed,   \* whether their column time_since_last_block_ms is not null
  seen,    \* "transactions": column seen_sequence, None where there is no row
  links,   \* committed rows of "blocks_transactions"
  jobs,    \* LOAD_ASSET_DESCRIPTIONS jobs ever added
  chores,  \* SYNC_BLOCKS_DAILY and REFRESH_NATIVE_ASSET_SUPPLY calls ever made
  sweep,   \* rows a running disconnectAfter statement will update
  req      \* what each request's process keeps in memory and in its transaction

db == <<stored, main, timed, seen, links>>
queue == <<jobs, chores>>
vars == <<db, queue, sweep, req>>

InTransaction == {"insert", "find", "link", "commit"}
Running == InTransaction \cup {"head", "lookup", "upsert", "jobs", "refresh"}
Ended == {"done", "notfound", "failed", "threw"}
PC == {"idle"} \cup Running \cup Ended

Request ==
  [pc : PC,
   items : Seq(Item),           \* POST /blocks: the body
   upload : Seq(Txs),           \* POST /transactions: the body
   pos : Nat,                   \* the block being processed
   nth : Nat,                   \* the transaction of the loop being run
   timed : BOOLEAN,             \* timeSinceLastBlockMs was computed
   attach : Nat,                \* seen_sequence of the rows to insert
   ins : SUBSET Txs,            \* rows inserted and not committed
   found : SUBSET Txs,          \* what findMany returned
   tries : Nat]

Job == [block : Blocks, tx : Txs, main : BOOLEAN, by : Requests]

TypeOK ==
  /\ stored \subseteq Blocks
  /\ main \in [Blocks -> BOOLEAN]
  /\ timed \in [Blocks -> BOOLEAN]
  /\ seen \in [Txs -> Nat \cup {None}]
  /\ links \subseteq Blocks \X Txs
  /\ jobs \subseteq Job
  /\ chores \subseteq {"sync", "refresh"} \X Requests
  /\ sweep \subseteq Blocks
  /\ req \in [Requests -> Request]

Init ==
  /\ stored = {}
  /\ main = [b \in Blocks |-> FALSE]
  /\ timed = [b \in Blocks |-> FALSE]
  /\ seen = [t \in Txs |-> None]
  /\ links = {}
  /\ jobs = {}
  /\ chores = {}
  /\ sweep = {}
  /\ req = [r \in Requests |->
             [pc |-> "idle", items |-> <<>>, upload |-> <<>>, pos |-> 1, nth |-> 1,
              timed |-> FALSE, attach |-> 0, ins |-> {}, found |-> {}, tries |-> 0]]

-----------------------------------------------------------------------------
IsPool(r) == req[r].items = <<>>
ItemOf(r) == req[r].items[req[r].pos]
BlockOf(r) == ItemOf(r).block

\* The transactions of the loop a request is in.
Cur(r) == IF IsPool(r) THEN req[r].upload ELSE TxsOf[BlockOf(r)]
CurSet(r) == {Cur(r)[i] : i \in 1..Len(Cur(r))}

\* Row locks: the block row a transaction has upserted and the transaction
\* rows it has inserted are its own until it ends.
HoldsBlock(q, b) == ~IsPool(q) /\ req[q].pc \in InTransaction /\ BlockOf(q) = b
HoldsTx(q, t) == t \in req[q].ins

\* r's next statement conflicts with an uncommitted row of q.
WaitsFor(r, q) ==
  /\ q # r
  /\ \/ req[r].pc = "upsert" /\ HoldsBlock(q, BlockOf(r))
     \/ /\ req[r].pc = "insert"
        /\ req[r].nth <= Len(Cur(r))
        /\ HoldsTx(q, Cur(r)[req[r].nth])

Waiting(r) == \E q \in Requests : WaitsFor(r, q)

\* A row is held by one transaction, so a set whose members all wait for a
\* member and are all waited for by a member is a union of cycles.
InWaitCycle(r) ==
  \E S \in SUBSET Requests :
    /\ r \in S
    /\ \A q \in S : /\ \E p \in S : WaitsFor(q, p)
                    /\ \E p \in S : WaitsFor(p, q)

\* The request's process forgets its progress; the body, and how often the
\* client has sent it, are the client's.
Forget(request, pc) ==
  [request EXCEPT !.pc = pc, !.pos = 1, !.nth = 1, !.timed = FALSE, !.attach = 0,
                  !.ins = {}, !.found = {}]

\* Only r's record changes, to new.
Update(r, new) == req' = [req EXCEPT ![r] = new]

-----------------------------------------------------------------------------
\* POST /blocks arrives: validated, handed to the loader.
ReceiveBlocks(r) ==
  /\ req[r].pc = "idle"
  /\ \E items \in Batches :
       Update(r, [req[r] EXCEPT !.pc = "lookup", !.items = items, !.tries = 1])
  /\ UNCHANGED <<db, queue, sweep>>

\* POST /transactions arrives.
ReceivePool(r) ==
  /\ req[r].pc = "idle"
  /\ \E txs \in Uploads :
       Update(r, [req[r] EXCEPT !.pc = "head", !.upload = txs, !.tries = 1])
  /\ UNCHANGED <<db, queue, sweep>>

\* Mutant: the missing head is not checked, seen_sequence is left undefined.
MutReadHeadUnchecked(r) ==
  /\ req[r].pc = "head"
  /\ \/ /\ \A b \in stored : ~main[b]
        /\ Update(r, [req[r] EXCEPT !.pc = "insert", !.attach = None])
     \/ \E b \in stored :
          /\ main[b]
          /\ Update(r, [req[r] EXCEPT !.pc = "insert", !.attach = SeqOf[b]])
  /\ UNCHANGED <<db, queue, sweep>>

\* bulkCreate reads the head of the main chain; 404 when there is none.
ReadHead(r) ==
  /\ req[r].pc = "head"
  /\ \/ /\ \A b \in stored : ~main[b]
        /\ Update(r, [req[r] EXCEPT !.pc = "notfound"])
     \/ \E b \in stored :
          /\ main[b]
          /\ \A c \in stored : main[c] => SeqOf[c] <= SeqOf[b]
          /\ Update(r, [req[r] EXCEPT !.pc = "insert", !.nth = 1,
                                      !.attach = SeqOf[b]])
  /\ UNCHANGED <<db, queue, sweep>>

BatchBlocks(r) == {req[r].items[i].block : i \in 1..Len(req[r].items)}

\* Mutant: a block that is already stored is skipped, jobs included.
MutLookupSkipsStored(r) ==
  /\ req[r].pc = "lookup"
  /\ Update(r, IF BlockOf(r) \in stored
               THEN [req[r] EXCEPT !.pc = "jobs", !.nth = Len(Cur(r)) + 1]
               ELSE [req[r] EXCEPT !.pc = "upsert",
                                   !.timed = Parent[BlockOf(r)] \in BatchBlocks(r)])
  /\ UNCHANGED <<db, queue, sweep>>

\* The parent's timestamp comes from the batch, wherever it stands there, or
\* from a committed row, read outside the block's transaction.
Lookup(r) ==
  /\ req[r].pc = "lookup"
  /\ LET parent == Parent[BlockOf(r)]
     IN Update(r, [req[r] EXCEPT !.pc = "upsert",
                                 !.timed = /\ parent # None
                                           /\ parent \in BatchBlocks(r) \cup stored])
  /\ UNCHANGED <<db, queue, sweep>>

\* First statement of the block's transaction: INSERT ... ON CONFLICT DO UPDATE.
UpsertBlock(r) ==
  /\ req[r].pc = "upsert"
  /\ ~Waiting(r)
  /\ Update(r, [req[r] EXCEPT !.pc = "insert", !.nth = 1,
                              !.attach = SeqOf[BlockOf(r)]])
  /\ UNCHANGED <<db, queue, sweep>>

\* Mutant: the rows are inserted with this.prisma, outside the transaction.
MutInsertOutside(r) ==
  /\ req[r].pc = "insert"
  /\ req[r].nth <= Len(Cur(r))
  /\ seen' = [seen EXCEPT ![Cur(r)[req[r].nth]] =
                 IF @ = None THEN req[r].attach ELSE @]
  /\ Update(r, [req[r] EXCEPT !.nth = @ + 1])
  /\ UNCHANGED <<stored, main, timed, links, queue, sweep>>

\* One row of createMany({ skipDuplicates: true }): waits for an uncommitted
\* insert of the same hash, then skips a row that exists.
InsertTransaction(r) ==
  /\ req[r].pc = "insert"
  /\ req[r].nth <= Len(Cur(r))
  /\ ~Waiting(r)
  /\ LET t == Cur(r)[req[r].nth]
     IN Update(r, [req[r] EXCEPT !.nth = @ + 1,
                                 !.ins = IF seen[t] = None THEN @ \cup {t} ELSE @])
  /\ UNCHANGED <<db, queue, sweep>>

\* Mutant: findMany runs on this.prisma, which does not see the open transaction.
MutFindManyOutside(r) ==
  /\ req[r].pc = "insert"
  /\ req[r].nth > Len(Cur(r))
  /\ Update(r, [req[r] EXCEPT !.pc = IF IsPool(r) THEN "commit" ELSE "link",
                              !.found = {t \in CurSet(r) : seen[t] # None}])
  /\ UNCHANGED <<db, queue, sweep>>

\* findMany on the transaction's client: a statement of its own, whose
\* snapshot has every committed row and the transaction's own writes.
FindMany(r) ==
  /\ req[r].pc = "insert"
  /\ req[r].nth > Len(Cur(r))
  /\ Update(r, [req[r] EXCEPT !.pc = IF IsPool(r) THEN "commit" ELSE "link",
                              !.found = {t \in CurSet(r) : \/ seen[t] # None
                                                          \/ t \in req[r].ins}])
  /\ UNCHANGED <<db, queue, sweep>>

\* Mutant: the jobs are added inside the transaction.
MutLinkQueuesJobs(r) ==
  /\ req[r].pc = "link"
  /\ jobs' = jobs \cup {[block |-> BlockOf(r), tx |-> t, main |-> ItemOf(r).main,
                           by |-> r] : t \in CurSet(r)}
  /\ Update(r, [req[r] EXCEPT !.pc = "commit"])
  /\ UNCHANGED <<db, chores, sweep>>

\* Every DTO is matched with its row, or the loader throws 'Transaction must
\* have been created'; the links are inserted, visible at the commit.
LinkTransactions(r) ==
  /\ req[r].pc = "link"
  /\ \/ /\ CurSet(r) \subseteq req[r].found
        /\ Update(r, [req[r] EXCEPT !.pc = "commit"])
     \/ /\ ~(CurSet(r) \subseteq req[r].found)
        /\ Update(r, Forget(req[r], "threw"))
  /\ UNCHANGED <<db, queue, sweep>>

\* seen after r's inserted rows are committed.
SeenAfter(r) ==
  [t \in Txs |-> IF t \in req[r].ins THEN req[r].attach ELSE seen[t]]

\* Mutant: a block on the main chain puts its parent there too.
MutCommitMarksParent(r, linked, time) ==
  /\ stored' = stored \cup {BlockOf(r)}
  /\ main' = [b \in Blocks |-> IF b \in {BlockOf(r), Parent[BlockOf(r)]} /\ ItemOf(r).main
                              THEN TRUE ELSE main[b] /\ b # BlockOf(r)]
  /\ timed' = [timed EXCEPT ![BlockOf(r)] = time]
  /\ seen' = SeenAfter(r)
  /\ links' = links \cup ({BlockOf(r)} \X linked)
  /\ Update(r, [req[r] EXCEPT !.pc = "jobs", !.nth = 1, !.timed = FALSE,
                              !.attach = 0, !.ins = {}, !.found = {}])
  /\ UNCHANGED <<queue, sweep>>

\* What the commit of a block's transaction makes visible.
CommitRows(r, linked, time) ==
  /\ stored' = stored \cup {BlockOf(r)}
  /\ main' = [main EXCEPT ![BlockOf(r)] = ItemOf(r).main]
  /\ timed' = [timed EXCEPT ![BlockOf(r)] = time]
  /\ seen' = SeenAfter(r)
  /\ links' = links \cup ({BlockOf(r)} \X linked)
  /\ Update(r, [req[r] EXCEPT !.pc = "jobs", !.nth = 1, !.timed = FALSE,
                              !.attach = 0, !.ins = {}, !.found = {}])
  /\ UNCHANGED <<queue, sweep>>

\* Mutant: only the rows createMany inserted are linked, not all it found.
MutCommitLinksInserted(r) ==
  /\ req[r].pc = "commit"
  /\ ~IsPool(r)
  /\ CommitRows(r, req[r].ins, timed[BlockOf(r)] \/ req[r].timed)

\* Mutant: an undefined timeSinceLastBlockMs overwrites the column with null.
MutCommitForgetsTime(r) ==
  /\ req[r].pc = "commit"
  /\ ~IsPool(r)
  /\ CommitRows(r, CurSet(r), req[r].timed)

\* The block's transaction commits.  An undefined timeSinceLastBlockMs is left
\* out of the update, so the column keeps its value.
CommitBlock(r) ==
  /\ req[r].pc = "commit"
  /\ ~IsPool(r)
  /\ CommitRows(r, CurSet(r), timed[BlockOf(r)] \/ req[r].timed)

\* bulkCreate's transaction commits and the request is answered.
CommitPool(r) ==
  /\ req[r].pc = "commit"
  /\ IsPool(r)
  /\ seen' = SeenAfter(r)
  /\ Update(r, Forget(req[r], "done"))
  /\ UNCHANGED <<stored, main, timed, links, queue, sweep>>

\* After the commit: one LOAD_ASSET_DESCRIPTIONS job per transaction.
QueueDescription(r) ==
  /\ req[r].pc = "jobs"
  /\ req[r].nth <= Len(Cur(r))
  /\ jobs' = jobs \cup {[block |-> BlockOf(r), tx |-> Cur(r)[req[r].nth],
                         main |-> ItemOf(r).main, by |-> r]}
  /\ Update(r, [req[r] EXCEPT !.nth = @ + 1])
  /\ UNCHANGED <<db, chores, sweep>>

NextBlock(r) ==
  /\ req[r].pc = "jobs"
  /\ req[r].nth > Len(Cur(r))
  /\ req[r].pos < Len(req[r].items)
  /\ Update(r, [req[r] EXCEPT !.pc = "lookup", !.pos = @ + 1])
  /\ UNCHANGED <<db, queue, sweep>>

\* After the loop: the daily snapshot's job, then the native asset's.
QueueSync(r) ==
  /\ req[r].pc = "jobs"
  /\ req[r].nth > Len(Cur(r))
  /\ req[r].pos = Len(req[r].items)
  /\ chores' = chores \cup {<<"sync", r>>}
  /\ Update(r, [req[r] EXCEPT !.pc = "refresh"])
  /\ UNCHANGED <<db, jobs, sweep>>

QueueRefresh(r) ==
  /\ req[r].pc = "refresh"
  /\ chores' = chores \cup {<<"refresh", r>>}
  /\ Update(r, Forget(req[r], "done"))
  /\ UNCHANGED <<db, jobs, sweep>>

\* Mutant: a failed transaction is not rolled back, its rows stay locked.
MutAbortKeepsLocks(r) ==
  /\ req[r].pc \in Running
  /\ Update(r, [req[r] EXCEPT !.pc = "failed"])
  /\ UNCHANGED <<db, queue, sweep>>

\* A crash, a lost connection, BLOCK_LOADER_TRANSACTION_TIMEOUT, or an addJob
\* that rejects: the open transaction is rolled back, the request fails, and
\* what earlier steps committed or queued stays.
Abort(r) ==
  /\ req[r].pc \in Running
  /\ Update(r, Forget(req[r], "failed"))
  /\ UNCHANGED <<db, queue, sweep>>

DeadlockAbort(r) == InWaitCycle(r) /\ Abort(r)

\* The client sends a failed body again.
Resend(r) ==
  /\ req[r].pc = "failed"
  /\ req[r].tries < MaxTries[r]
  /\ Update(r, [req[r] EXCEPT !.pc = IF IsPool(r) THEN "head" ELSE "lookup",
                              !.tries = @ + 1])
  /\ UNCHANGED <<db, queue, sweep>>

\* disconnectAfter(n): one UPDATE.  It fixes the rows it will touch when it
\* starts; it waits for those locked by an open transaction.
DisconnectStart(n) ==
  /\ sweep = {}
  /\ sweep' = {b \in stored : SeqOf[b] > n}
  /\ sweep' # {}
  /\ UNCHANGED <<db, queue, req>>

DisconnectEnd ==
  /\ sweep # {}
  /\ \A b \in sweep, q \in Requests : ~HoldsBlock(q, b)
  /\ main' = [b \in Blocks |-> main[b] /\ b \notin sweep]
  /\ sweep' = {}
  /\ UNCHANGED <<stored, timed, seen, links, queue, req>>

-----------------------------------------------------------------------------
\* What the API process of r does next by itself.
Serve(r) ==
  \/ ReadHead(r) \/ Lookup(r) \/ UpsertBlock(r) \/ InsertTransaction(r)
  \/ FindMany(r) \/ LinkTransactions(r) \/ CommitBlock(r) \/ CommitPool(r)
  \/ QueueDescription(r) \/ NextBlock(r) \/ QueueSync(r) \/ QueueRefresh(r)
  \/ DeadlockAbort(r)

\* What the outside does to r.
Disturb(r) == ReceiveBlocks(r) \/ ReceivePool(r) \/ Abort(r) \/ Resend(r)

Sequences0 == {SeqOf[b] : b \in Blocks} \cup {0}

Next ==
  \/ \E r \in Requests : Serve(r) \/ Disturb(r)
  \/ \E n \in Sequences0 : DisconnectStart(n)
  \/ DisconnectEnd

Spec == Init /\ [][Next]_vars

\* A live process takes its next step, and Postgres' deadlock detector runs;
\* nothing obliges a client to send, to resend, or a process to crash.
FairSpec == Spec /\ \A r \in Requests : WF_vars(Serve(r))

-----------------------------------------------------------------------------
\* A committed block has a row for each of its transactions and the link to
\* it, whoever inserted the rows: the block, its transactions and its links
\* commit together although createMany skips the rows another request writes
\* (blocks-transactions-loader.ts 63-110).
BlockComplete ==
  \A b \in stored : \A i \in 1..Len(TxsOf[b]) :
    /\ seen[TxsOf[b][i]] # None
    /\ <<b, TxsOf[b][i]>> \in links

\* 'Transaction must have been created' (blocks-transactions-loader.ts 91) is
\* never thrown: a row createMany skipped is committed when findMany runs.
NeverThrows == \A r \in Requests : req[r].pc # "threw"

\* seen_sequence is always the sequence of a block that is in the database: no
\* aborted block leaves a transaction that claims to have been seen in it
\* (blocks-transactions-loader.ts 75-82, transactions.controller.ts 90-97).
SeenSequenceReal ==
  \A t \in Txs : seen[t] # None => \E b \in stored : SeqOf[b] = seen[t]

\* The worker may run a job as soon as it is added, and loadDescriptions
\* begins with findByHashOrThrow: every job's transaction, block and link are
\* already committed (blocks-transactions-loader.ts 112-117).
JobsAfterCommit ==
  \A j \in jobs : /\ j.block \in stored
                  /\ seen[j.tx] # None
                  /\ <<j.block, j.tx>> \in links

Queued(r, i) ==
  \A k \in 1..Len(TxsOf[req[r].items[i].block]) :
    [block |-> req[r].items[i].block, tx |-> TxsOf[req[r].items[i].block][k],
     main |-> req[r].items[i].main, by |-> r] \in jobs

\* A POST /blocks that was answered has committed each of its blocks, knows
\* the block time of each whose parent was in the body, and has queued the
\* description jobs with its own main flags and both closing jobs, whichever
\* attempts failed before (blocks-transactions-loader.ts 41-131).
AnsweredIsComplete ==
  \A r \in Requests :
    req[r].pc = "done" /\ ~IsPool(r) =>
      /\ \A i \in 1..Len(req[r].items) :
           LET b == req[r].items[i].block
           IN /\ b \in stored
              /\ Parent[b] \in BatchBlocks(r) => timed[b]
              /\ Queued(r, i)
      /\ {"sync", "refresh"} \X {r} \subseteq chores

\* What is written once stays: no later upload, fork or retry changes a
\* transaction's seen_sequence, forgets a block's time_since_last_block_ms,
\* or removes a row (transactions.service.ts 33-46, blocks.service.ts 77-89).
WriteOnce ==
  [][/\ \A t \in Txs : seen[t] # None => seen'[t] = seen[t]
     /\ \A b \in Blocks : timed[b] => timed'[b]
     /\ stored \subseteq stored'
     /\ links \subseteq links']_vars

\* Every request ends, answered or failed, although transactions wait for
\* each other's rows and may do so in a cycle (blocks with the same
\* transactions in different orders).
EveryRequestEnds ==
  \A r \in Requests : req[r].pc \in Running ~> req[r].pc \in Ended

-----------------------------------------------------------------------------
\* To its readers, the write path is the specification BlockStore: each commit
\* stores a whole block at once, or adds pool transactions that were seen at a
\* block there is, whatever other requests have open, abort or repeat
\* (blocks-transactions-loader.ts 63-110, transactions.service.ts 78-84).
Store == INSTANCE BlockStore WITH chain <- {b \in Blocks : main[b]}

ImplementsBlockStore == Store!StoreSpec

=============================================================================
