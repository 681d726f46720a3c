---------------------------- MODULE AssetsLoader ----------------------------
(***************************************************************************)
(* LOAD_ASSET_DESCRIPTIONS jobs (AssetsLoader.loadDescriptions) run by the *)
(* graphile workers.  A job runs in one interactive transaction at READ    *)
(* COMMITTED: it undoes and deletes the descriptions its transaction has,  *)
(* and, for a main block, makes new ones from the mints and burns of its   *)
(* payload, moving the supply of their assets.  No queueName is set, so    *)
(* jobs run in any order and several at once; a job that throws is rolled  *)
(* back and tried again until its attempts are used up.                    *)
(***************************************************************************)
EXTENDS Integers, Sequences, FiniteSets

CONSTANTS Jobs,        \* identities of the jobs that may be added
          Txs,         \* transactions
          Assets,      \* asset identifiers
          None,
          Ops,         \* a transaction's mints, then its burns
          MaxValue,    \* MAX_MINT_OR_BURN_VALUE
          Concurrency, \* GRAPHILE_CONCURRENCY
          MaxAttempts  \* max_attempts of a job

Op == [kind : {"mint", "burn"}, asset : Assets, value : Nat]

ASSUME AssetsAssumption ==
  /\ None \notin Txs \cup Jobs
  /\ Ops \in [Txs -> Seq(Op)]
  /\ MaxValue \in Nat
  /\ Concurrency \in Nat \ {0}
  /\ MaxAttempts \in [Jobs -> Nat \ {0}]

VARIABLES
  assets,      \* identifiers of the committed rows of "assets"
  supply,      \* their column supply
  descs,       \* committed rows of "asset_descriptions"
  job,         \* the jobs, and what the worker of each keeps meanwhile
  overlapped,  \* history: transactions two jobs of which ran at the same time
  last         \* history: a transaction's job that committed last

vars == <<assets, supply, descs, job, overlapped, last>>

\* A description row: which job made it, from which operation of which
\* transaction.  Type, value and asset are the operation's.
Desc == [by : Jobs, tx : Txs, op : Nat]

Stages == {"read", "undo", "delete", "ops", "add", "commit"}

Job ==
  [st : {"absent", "queued", "running", "done", "dead"},
   tx : Txs \cup {None},
   main : BOOLEAN,
   tries : Nat,
   pc : Stages,
   todo : Seq(Desc),        \* descriptions read, not yet undone
   i : Nat,                 \* the operation at hand
   fresh : SUBSET Assets,   \* asset rows inserted, not committed
   moved : SUBSET Assets,   \* asset rows updated, not committed
   delta : [Assets -> Int], \* what the updates add to their supply
   made : SUBSET Desc,      \* description rows inserted, not committed
   gone : SUBSET Desc]      \* description rows deleted, not committed

Blank(st, tx, main, tries) ==
  [st |-> st, tx |-> tx, main |-> main, tries |-> tries, pc |-> "read",
   todo |-> <<>>, i |-> 1, fresh |-> {}, moved |-> {},
   delta |-> [a \in Assets |-> 0], made |-> {}, gone |-> {}]

TypeOK ==
  /\ assets \subseteq Assets
  /\ supply \in [Assets -> Int]
  /\ descs \subseteq Desc
  /\ job \in [Jobs -> Job]
  /\ \A j \in Jobs : job[j].tries <= MaxAttempts[j]
  /\ overlapped \subseteq Txs
  /\ last \in [Txs -> Jobs \cup {None}]

Init ==
  /\ assets = {}
  /\ supply = [a \in Assets |-> 0]
  /\ descs = {}
  /\ job = [j \in Jobs |-> Blank("absent", None, FALSE, 0)]
  /\ overlapped = {}
  /\ last = [t \in Txs |-> None]

-----------------------------------------------------------------------------
OpsOf(j) == Ops[job[j].tx]
OpAt(j) == OpsOf(j)[job[j].i]
OpOf(d) == Ops[d.tx][d.op]

\* What a description adds to the supply of its asset.
Signed(op) == IF op.kind = "mint" THEN op.value ELSE -op.value

RunningJobs == {j \in Jobs : job[j].st = "running"}
At(j, pc) == job[j].st = "running" /\ job[j].pc = pc

Update(j, new) == job' = [job EXCEPT ![j] = new]

\* The asset row the next statement of j writes is locked by k, which updated
\* it or, for an upsert, inserted it; or j deletes description rows that k has
\* deleted and not committed.
WaitsFor(j, k) ==
  /\ k # j
  /\ \/ At(j, "undo") /\ OpOf(Head(job[j].todo)).asset \in job[k].moved
     \/ At(j, "delete") /\ \E d \in job[k].gone : d.tx = job[j].tx
     \/ At(j, "ops") /\ job[j].i <= Len(OpsOf(j)) /\ OpAt(j).kind = "mint"
                     /\ OpAt(j).asset \in job[k].fresh
     \/ At(j, "add") /\ OpAt(j).asset \in job[k].moved

InWaitCycle(j) ==
  \E S \in SUBSET Jobs :
    /\ j \in S
    /\ \A k \in S : /\ \E m \in S : WaitsFor(k, m)
                    /\ \E m \in S : WaitsFor(m, k)

Locked(j, a) == \E k \in Jobs \ {j} : a \in job[k].moved

-----------------------------------------------------------------------------
\* The loader adds a job for a transaction of a block.
AddJob(j) ==
  /\ job[j].st = "absent"
  /\ \E t \in Txs, main \in BOOLEAN : Update(j, Blank("queued", t, main, 0))
  /\ UNCHANGED <<assets, supply, descs, overlapped, last>>

\* A worker takes the job (any that is due), counting the attempt, and opens
\* the transaction; findByHashOrThrow finds the transaction, see
\* JobsAfterCommit of BlocksTransactionsLoader.
StartJob(j) ==
  /\ job[j].st = "queued"
  /\ Cardinality(RunningJobs) < Concurrency
  /\ Update(j, Blank("running", job[j].tx, job[j].main, job[j].tries + 1))
  /\ overlapped' = IF \E k \in RunningJobs : job[k].tx = job[j].tx
                   THEN overlapped \cup {job[j].tx} ELSE overlapped
  /\ UNCHANGED <<assets, supply, descs, last>>

\* The orders in which a query without ORDER BY may return the rows of S.
Orders(S) ==
  {s \in [1..Cardinality(S) -> S] : \A d \in S : \E i \in DOMAIN s : s[i] = d}

\* What follows the deletion: a main block's descriptions are made.
AfterDelete(j) == IF job[j].main THEN "ops" ELSE "commit"

\* Mutant: a block off the main chain leaves the descriptions alone.
MutReadDescriptionsMainOnly(j) ==
  /\ At(j, "read")
  /\ \E rows \in Orders({d \in descs : d.tx = job[j].tx}) :
       Update(j, [job[j] EXCEPT !.todo = rows,
                                !.pc = IF rows = <<>> \/ ~job[j].main
                                       THEN AfterDelete(j) ELSE "undo"])
  /\ UNCHANGED <<assets, supply, descs, overlapped, last>>

\* deleteAssetDescriptions, for a main block and for another: it returns at
\* once when there is nothing to undo.
ReadDescriptions(j) ==
  /\ At(j, "read")
  /\ \E rows \in Orders({d \in descs : d.tx = job[j].tx}) :
       Update(j, [job[j] EXCEPT !.todo = rows,
                                !.pc = IF rows = <<>> THEN AfterDelete(j) ELSE "undo"])
  /\ UNCHANGED <<assets, supply, descs, overlapped, last>>

\* updateSupply on an asset: the row is locked, and its supply incremented in
\* the database, not written from a value read before.
Move(request, a, n) ==
  [request EXCEPT !.moved = @ \cup {a}, !.delta[a] = @ + n]

\* Mutant: the supply moves the way it did when the description was made.
MutUndoDescriptionSign(j) ==
  /\ At(j, "undo")
  /\ LET op == OpOf(Head(job[j].todo))
     IN /\ ~Locked(j, op.asset)
        /\ Update(j, [Move(job[j], op.asset, Signed(op)) EXCEPT
                        !.todo = Tail(@),
                        !.pc = IF Len(job[j].todo) = 1 THEN "delete" ELSE "undo"])
  /\ UNCHANGED <<assets, supply, descs, overlapped, last>>

\* The supply change of the next description read is reversed.
UndoDescription(j) ==
  /\ At(j, "undo")
  /\ LET op == OpOf(Head(job[j].todo))
     IN /\ ~Locked(j, op.asset)
        /\ Update(j, [Move(job[j], op.asset, -Signed(op)) EXCEPT
                        !.todo = Tail(@),
                        !.pc = IF Len(job[j].todo) = 1 THEN "delete" ELSE "undo"])
  /\ UNCHANGED <<assets, supply, descs, overlapped, last>>

\* deleteMany: a statement of its own, it deletes the transaction's rows that
\* are committed now, and waits for those another job is deleting.
DeleteDescriptions(j) ==
  /\ At(j, "delete")
  /\ \A k \in Jobs \ {j} : \A d \in job[k].gone : d.tx # job[j].tx
  /\ Update(j, [job[j] EXCEPT !.gone = {d \in descs : d.tx = job[j].tx},
                              !.pc = AfterDelete(j)])
  /\ UNCHANGED <<assets, supply, descs, overlapped, last>>

Next1(j) == [job[j] EXCEPT !.i = @ + 1, !.pc = "ops"]

\* A mint upserts its asset; it waits for another job's insert of the same
\* asset.  A value above the limit makes no description.
UpsertAsset(j) ==
  /\ At(j, "ops")
  /\ job[j].i <= Len(OpsOf(j))
  /\ OpAt(j).kind = "mint"
  /\ \A k \in Jobs \ {j} : OpAt(j).asset \notin job[k].fresh
  /\ LET a == OpAt(j).asset
         new == IF OpAt(j).value > MaxValue THEN Next1(j)
                ELSE [job[j] EXCEPT !.pc = "add"]
     IN Update(j, [new EXCEPT !.fresh = IF a \in assets THEN @ ELSE @ \cup {a}])
  /\ UNCHANGED <<assets, supply, descs, overlapped, last>>

\* A burn above the limit is skipped; the others look their asset up.
FindAsset(j) ==
  /\ At(j, "ops")
  /\ job[j].i <= Len(OpsOf(j))
  /\ OpAt(j).kind = "burn"
  /\ \/ /\ OpAt(j).value > MaxValue
        /\ Update(j, Next1(j))
     \/ /\ OpAt(j).value <= MaxValue
        /\ OpAt(j).asset \in assets \cup job[j].fresh
        /\ Update(j, [job[j] EXCEPT !.pc = "add"])
  /\ UNCHANGED <<assets, supply, descs, overlapped, last>>

\* The description row is made and the supply updated.
AddDescription(j) ==
  /\ At(j, "add")
  /\ ~Locked(j, OpAt(j).asset)
  /\ Update(j, [Move(Next1(j), OpAt(j).asset, Signed(OpAt(j))) EXCEPT
                  !.made = @ \cup {[by |-> j, tx |-> job[j].tx, op |-> job[j].i]}])
  /\ UNCHANGED <<assets, supply, descs, overlapped, last>>

Finish(j) ==
  \/ At(j, "commit")
  \/ At(j, "ops") /\ job[j].i > Len(OpsOf(j))

\* The transaction commits and the job is deleted.
Commit(j) ==
  /\ Finish(j)
  /\ assets' = assets \cup job[j].fresh
  /\ supply' = [a \in Assets |-> supply[a] + job[j].delta[a]]
  /\ descs' = (descs \ job[j].gone) \cup job[j].made
  /\ last' = [last EXCEPT ![job[j].tx] = j]
  /\ Update(j, Blank("done", job[j].tx, job[j].main, job[j].tries))
  /\ UNCHANGED overlapped

\* Mutant: a job gets one attempt more than its max_attempts.
MutRollbackOneMore(j) ==
  /\ job[j].st = "running"
  /\ Update(j, Blank(IF job[j].tries <= MaxAttempts[j] THEN "queued" ELSE "dead",
                     job[j].tx, job[j].main, job[j].tries))
  /\ UNCHANGED <<assets, supply, descs, overlapped, last>>

\* The handler throws: the transaction is rolled back, and graphile-worker
\* retries the job later or, its attempts used up, never again.
Rollback(j) ==
  /\ job[j].st = "running"
  /\ Update(j, Blank(IF job[j].tries < MaxAttempts[j] THEN "queued" ELSE "dead",
                     job[j].tx, job[j].main, job[j].tries))
  /\ UNCHANGED <<assets, supply, descs, overlapped, last>>

\* Mutant: instead of throwing, the burn polls for its asset.
MutAssetNotFoundPolls(j) ==
  /\ At(j, "ops")
  /\ job[j].i <= Len(OpsOf(j))
  /\ OpAt(j).kind = "burn"
  /\ OpAt(j).asset \notin assets \cup job[j].fresh
  /\ UNCHANGED vars

\* NotFoundException: the burn's asset is not there, its mint has not run.
AssetNotFound(j) ==
  /\ At(j, "ops")
  /\ job[j].i <= Len(OpsOf(j))
  /\ OpAt(j).kind = "burn"
  /\ OpAt(j).value <= MaxValue
  /\ OpAt(j).asset \notin assets \cup job[j].fresh
  /\ Rollback(j)

\* Postgres aborts a member of a cycle of lock waits.
DeadlockAbort(j) == InWaitCycle(j) /\ Rollback(j)

\* The worker crashes, the connection breaks, or Prisma's transaction timeout
\* of five seconds passes, which it may at any statement.
Disturb(j) == Rollback(j)

-----------------------------------------------------------------------------
\* What the worker of j, or the database for it, does next.
Work(j) ==
  \/ StartJob(j) \/ ReadDescriptions(j) \/ UndoDescription(j)
  \/ DeleteDescriptions(j) \/ UpsertAsset(j) \/ FindAsset(j) \/ AddDescription(j)
  \/ Commit(j) \/ AssetNotFound(j) \/ DeadlockAbort(j)

Next == \E j \in Jobs : AddJob(j) \/ Work(j) \/ Disturb(j)

Spec == Init /\ [][Next]_vars

\* Workers poll, run the jobs they took, and retry; nothing obliges the loader
\* to add a job or a worker to crash.
FairSpec == Spec /\ \A j \in Jobs : WF_vars(Work(j))

-----------------------------------------------------------------------------
DescsOf(t) == {d \in descs : d.tx = t}

\* What the mints, or the burns, among descriptions have moved of an asset, unit
\* by unit; their sum is counted, not folded, so that it can be reasoned about.
Units(rows, kind, a) ==
  UNION {{d} \X (1..OpOf(d).value) :
           d \in {e \in rows : OpOf(e).kind = kind /\ OpOf(e).asset = a}}

SumOf(rows, a) == Cardinality(Units(rows, "mint", a)) - Cardinality(Units(rows, "burn", a))

\* The assets a transaction's descriptions are about.
Moves(t) == {Ops[t][i].asset : i \in {n \in 1..Len(Ops[t]) : Ops[t][n].value <= MaxValue}}

\* An asset's supply is the sum of its descriptions, mints less burns, when no
\* two jobs of one of its transactions overlapped: jobs of different
\* transactions may move the same assets at the same time, in any order, and
\* fail and be retried anywhere (assets-loader.ts 44-132, assets.service.ts 109).
SupplyMatches ==
  \A a \in Assets :
    (\A t \in overlapped : a \notin Moves(t)) => supply[a] = SumOf(descs, a)

\* What the descriptions of t are after a job of t: for a main block one per
\* mint and burn within the limit, made by that job; none for another block.
LeftBy(j, t) ==
  IF j # None /\ job[j].main
  THEN {[by |-> j, tx |-> t, op |-> i] :
          i \in {n \in 1..Len(Ops[t]) : Ops[t][n].value <= MaxValue}}
  ELSE {}

\* The descriptions of a transaction are, all of them, those its last
\* committed job leaves, whatever ran and failed before, when no two of its
\* jobs overlapped (assets-loader.ts 44-132).
FollowsLastJob == \A t \in Txs \ overlapped : DescsOf(t) = LeftBy(last[t], t)

\* A job that was added ends: it is done, or has used up its attempts, although
\* jobs lock the assets they share in different orders and burns come before
\* their mints (assets-loader.ts 29-97).
JobsEnd == \A j \in Jobs : job[j].st = "queued" ~> job[j].st \in {"done", "dead"}

\* 'when the transaction has already been loaded', loading it again 'deletes and
\* reprocesses descriptions' (assets-loader.spec.ts 48-49), there for one job
\* after another: here, whatever the schedule of the workers.
AlwaysReprocessed == \A t \in Txs : DescsOf(t) = LeftBy(last[t], t)

=============================================================================
