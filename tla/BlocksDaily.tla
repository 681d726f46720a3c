----------------------------- MODULE BlocksDaily ----------------------------
(***************************************************************************)
(* The daily snapshots.  Every POST /blocks ends by adding a               *)
(* SYNC_BLOCKS_DAILY job for the day after the latest row of blocks_daily; *)
(* a job computes its day once the head is a day past it, and adds the job *)
(* of the next day.  Chains of jobs started by several uploads run side by *)
(* side, in any order; jobs fail and are tried again.  In production the   *)
(* metrics come from a read replica, everything else from the primary.     *)
(***************************************************************************)
EXTENDS Integers, Sequences, FiniteSets

CONSTANTS Requests,    \* POST /blocks calls
          Slots,       \* bound: jobs that exist at a time
          None,        \* a day that has no row
          LastDay,     \* bound: days after 2023-04-20, the first one synced
          MaxChain,    \* bound: length of the main chain
          MaxAttempts, \* graphile-worker's max_attempts
          Production   \* ApiConfigService.isProduction

ASSUME DailyAssumption ==
  /\ None \notin Nat
  /\ {LastDay, MaxChain} \subseteq Nat
  /\ MaxAttempts \in Nat \ {0}
  /\ Production \in BOOLEAN

Days == 0..LastDay

VARIABLES
  chain,     \* the main chain: the day of each block's timestamp, by sequence
  replica,   \* the same as the read replica has it
  row,       \* blocks_daily: a day's blocks_count
  job,       \* SYNC_BLOCKS_DAILY jobs
  req,       \* the uploads
  unsettled, \* history: days that were over by the head and then were not, or
             \* whose metrics were read where they were not over
  lost       \* history: a job used up its attempts

vars == <<chain, replica, row, job, req, unsettled, lost>>

Job == [st : {"free", "queued", "metrics", "upsert", "next", "finish"},
        date : Nat, failed : 0..(MaxAttempts - 1), count : Nat]

Request == [pc : {"idle", "blocks", "add"}, date : Nat]

\* No job: graphile-worker deletes a job that is done.
Free == [st |-> "free", date |-> 0, failed |-> 0, count |-> 0]

TypeOK ==
  /\ chain \in Seq(Days)
  /\ replica \in Seq(Days)
  /\ row \in [Days -> Nat \cup {None}]
  /\ job \in [Slots -> Job]
  /\ req \in [Requests -> Request]
  /\ unsettled \subseteq Days
  /\ lost \in BOOLEAN

Init ==
  /\ chain = <<>>
  /\ replica = <<>>
  /\ row = [d \in Days |-> None]
  /\ job = [j \in Slots |-> Free]
  /\ req = [r \in Requests |-> [pc |-> "idle", date |-> 0]]
  /\ unsettled = {}
  /\ lost = FALSE

-----------------------------------------------------------------------------
Synced == {d \in Days : row[d] # None}

\* getNextDateToSync: the first day, or the day after the latest row.
IsNextDate(n) ==
  \/ Synced = {} /\ n = 0
  \/ /\ n - 1 \in Synced
     /\ \A d \in Synced : d <= n - 1

\* Mutant: off by one, a day is computed while it goes on
MutHeadIsOn(blocks, d) == blocks # <<>> /\ blocks[Len(blocks)] >= d

\* The blocks of a day; a chain's head is past day d when it is a day later.
BlocksOf(blocks, d) == {i \in 1..Len(blocks) : blocks[i] = d}
HeadIsPast(blocks, d) == blocks # <<>> /\ blocks[Len(blocks)] >= d + 1

UpdateJob(j, new) == job' = [job EXCEPT ![j] = new]
UpdateReq(r, new) == req' = [req EXCEPT ![r] = new]

Queued(date, failed) == [st |-> "queued", date |-> date, failed |-> failed, count |-> 0]

\* addJob, in a slot that is free.
AddedTo(jobs, s, date) == [jobs EXCEPT ![s] = Queued(date, 0)]

-----------------------------------------------------------------------------
\* The main chain gets a block at its end, no day before its parent's, or loses
\* the blocks after its n-th.
Connect ==
  /\ Len(chain) < MaxChain
  /\ \E d \in Days :
       /\ chain # <<>> => d >= chain[Len(chain)]
       /\ chain' = Append(chain, d)
  /\ UNCHANGED unsettled

Cut ==
  /\ \E n \in 0..Len(chain) : n < Len(chain) /\ chain' = SubSeq(chain, 1, n)
  /\ unsettled' = unsettled
                  \cup {d \in Days : HeadIsPast(chain, d) /\ ~HeadIsPast(chain', d)}

\* POST /blocks commits its blocks, one by one.
Upload(r) ==
  /\ req[r].pc \in {"idle", "blocks"}
  /\ Connect \/ Cut
  /\ UpdateReq(r, [req[r] EXCEPT !.pc = "blocks"])
  /\ UNCHANGED <<replica, row, job, lost>>

\* The argument of addJob is awaited first.
NextDateToSync(r) ==
  /\ req[r].pc = "blocks"
  /\ \E n \in 0..(LastDay + 1) :
       IsNextDate(n) /\ UpdateReq(r, [pc |-> "add", date |-> n])
  /\ UNCHANGED <<chain, replica, row, job, unsettled, lost>>

QueueSync(r) ==
  /\ req[r].pc = "add"
  /\ \E s \in Slots : job[s].st = "free" /\ job' = AddedTo(job, s, req[r].date)
  /\ UpdateReq(r, [pc |-> "idle", date |-> 0])
  /\ UNCHANGED <<chain, replica, row, unsettled, lost>>

\* The upload fails after its blocks are committed: it, or the next one, is
\* sent again from its blocks.
Abort(r) ==
  /\ req[r].pc = "add"
  /\ UpdateReq(r, [pc |-> "blocks", date |-> 0])
  /\ UNCHANGED <<chain, replica, row, job, unsettled, lost>>

\* POST /blocks/disconnect queues nothing.
Disconnect == Cut /\ UNCHANGED <<replica, row, job, req, lost>>

\* The replica catches up.
Replicate ==
  /\ Production /\ replica # chain
  /\ replica' = chain
  /\ UNCHANGED <<chain, row, job, req, unsettled, lost>>

-----------------------------------------------------------------------------
\* A worker takes the job and reads the head, on the primary.  head throws when
\* there is no block.
CheckHead(j) ==
  /\ job[j].st = "queued"
  /\ chain # <<>>
  /\ UpdateJob(j, IF HeadIsPast(chain, job[j].date)
                  THEN [job[j] EXCEPT !.st = "metrics"] ELSE Free)
  /\ UNCHANGED <<chain, replica, row, req, unsettled, lost>>

\* getDateMetrics is a raw query: in production it runs on the replica.
MetricsSource == IF Production THEN replica ELSE chain

ReadMetrics(j) ==
  /\ job[j].st = "metrics"
  /\ UpdateJob(j, [job[j] EXCEPT !.st = "upsert",
                     !.count = Cardinality(BlocksOf(MetricsSource, job[j].date))])
  /\ unsettled' = IF HeadIsPast(MetricsSource, job[j].date) THEN unsettled
                  ELSE unsettled \cup {job[j].date}
  /\ UNCHANGED <<chain, replica, row, req, lost>>

\* Mutant: the day is stored under its end
MutUpsertAtEnd(j) ==
  /\ job[j].st = "upsert"
  /\ row' = [row EXCEPT ![job[j].date + 1] = job[j].count]
  /\ UpdateJob(j, [job[j] EXCEPT !.st = "next", !.count = 0])
  /\ UNCHANGED <<chain, replica, req, unsettled, lost>>

UpsertDay(j) ==
  /\ job[j].st = "upsert"
  /\ row' = [row EXCEPT ![job[j].date] = job[j].count]
  /\ UpdateJob(j, [job[j] EXCEPT !.st = "next", !.count = 0])
  /\ UNCHANGED <<chain, replica, req, unsettled, lost>>

\* Mutant: a job computes its day only
MutOneDay(j) ==
  /\ job[j].st = "next"
  /\ UpdateJob(j, [job[j] EXCEPT !.st = "finish"])
  /\ UNCHANGED <<chain, replica, row, req, unsettled, lost>>

QueueNextDay(j) ==
  /\ job[j].st = "next"
  /\ \E s \in Slots :
       /\ job[s].st = "free"
       /\ job' = AddedTo([job EXCEPT ![j].st = "finish"], s, job[j].date + 1)
  /\ UNCHANGED <<chain, replica, row, req, unsettled, lost>>

Finish(j) ==
  /\ job[j].st = "finish"
  /\ UpdateJob(j, Free)
  /\ UNCHANGED <<chain, replica, row, req, unsettled, lost>>

\* Mutant: max_attempts is not looked at
MutFailForever(j) ==
  /\ job[j].st # "free"
  /\ UpdateJob(j, Queued(job[j].date, job[j].failed + 1))
  /\ UNCHANGED <<chain, replica, row, req, unsettled, lost>>

\* A statement fails, head throws, or the worker dies: the job is tried again
\* until its attempts are used up.  What it has done so far stays.
Fail(j) ==
  /\ job[j].st # "free"
  /\ IF job[j].failed + 1 < MaxAttempts
     THEN UpdateJob(j, Queued(job[j].date, job[j].failed + 1)) /\ UNCHANGED lost
     ELSE UpdateJob(j, Free) /\ lost' = TRUE
  /\ UNCHANGED <<chain, replica, row, req, unsettled>>

Next ==
  \/ \E r \in Requests : Upload(r) \/ NextDateToSync(r) \/ QueueSync(r) \/ Abort(r)
  \/ Disconnect
  \/ Replicate
  \/ \E j \in Slots : \/ CheckHead(j) \/ ReadMetrics(j) \/ UpsertDay(j)
                      \/ QueueNextDay(j) \/ Finish(j) \/ Fail(j)

Spec == Init /\ [][Next]_vars

-----------------------------------------------------------------------------
\* No day is skipped: the days that have a row are all the days from the first
\* to the latest, whichever chains of jobs overlap and fail
\* (blocks-daily.service.ts 56-69, blocks-daily.jobs.controller.ts 26-47).
NoGaps == \A d \in Synced : \A c \in 0..d : c \in Synced

\* When every upload has been answered, no job is left and none was given up,
\* every day before the head's has its row: a chain of jobs stops only when it
\* has caught up, and an upload that moves the head starts another
\* (blocks-transactions-loader.ts 120-125).
QuietIsCaughtUp ==
  (/\ ~lost
   /\ \A r \in Requests : req[r].pc = "idle"
   /\ \A j \in Slots : job[j].st = "free")
  => \A d \in Days : HeadIsPast(chain, d) => d \in Synced

\* A day's row counts the blocks of the main chain that day, however many come
\* after it: a day is not computed before it is over
\* (blocks-daily.jobs.controller.ts 30-38).  The exceptions are a day the main chain
\* was cut back to, and one whose metrics came from a replica that was not past it
\* (see BackfillSeesHead); a replica that lags but is past the day does no harm.
RowMatches ==
  \A d \in Synced \ unsettled : row[d] = Cardinality(BlocksOf(chain, d))

\* 'The heaviest head should be at least 24 hours after `date` to run a backfill
\* for a day' (blocks-daily.jobs.controller.ts 33): the database the metrics of
\* a day are read from has that head, unless it was disconnected meanwhile.
BackfillSeesHead ==
  [][\A j \in Slots : job[j].st = "metrics" /\ job'[j].st = "upsert" /\ unsettled = {}
       => HeadIsPast(MetricsSource, job[j].date)]_vars

=============================================================================
