-------------------------- MODULE BlocksDailyProofs -------------------------
(***************************************************************************)
(* Proofs about BlocksDaily, for any number of uploads, jobs, days, blocks *)
(* and attempts.                                                           *)
(***************************************************************************)
EXTENDS BlocksDaily, FiniteSetTheorems, TLAPS

\* Every day before day n has its row.
Before(n) == \A c \in 0..(n - 1) : c \in Synced

Started == {"metrics", "upsert", "next", "finish"}

\* A job exists only for a day whose predecessors are all stored; one that went
\* past the head's check is at a day the chain reaches; one that is about to add
\* the next day's job has stored its own.
JobsInOrder ==
  \A j \in Slots :
    /\ job[j].st # "free" => Before(job[j].date)
    /\ job[j].st \in Started => job[j].date \in Days
    /\ job[j].st \in {"next", "finish"} => job[j].date \in Synced

\* So is the day an upload is about to queue.
RequestsInOrder == \A r \in Requests : req[r].pc = "add" => Before(req[r].date)

SyncInv == TypeOK /\ NoGaps /\ JobsInOrder /\ RequestsInOrder

-----------------------------------------------------------------------------
\* The number of blocks of a day is a number.
LEMMA CountType ==
  ASSUME NEW blocks \in Seq(Days), NEW d
  PROVE  Cardinality(BlocksOf(blocks, d)) \in Nat
<1>1. IsFiniteSet(1..Len(blocks))
  BY FS_Interval
<1>2. BlocksOf(blocks, d) \subseteq 1..Len(blocks)
  BY DEF BlocksOf
<1> QED
  BY <1>1, <1>2, FS_Subset, FS_CardinalityType

\* What the assumption on the constants gives.
LEMMA Constants ==
  /\ LastDay \in Nat
  /\ None \notin Nat
  /\ MaxAttempts \in Nat \ {0}
  BY DailyAssumption DEF DailyAssumption

\* The jobs the code makes.
LEMMA JobRecords ==
  /\ Free \in Job /\ Free.st = "free"
  /\ \A n \in Nat, f \in 0..(MaxAttempts - 1) :
       /\ Queued(n, f) \in Job
       /\ Queued(n, f).st = "queued" /\ Queued(n, f).date = n
  BY Constants DEF Free, Queued, Job

\* A day the head is past is one of the model's days, and not the last.
LEMMA PastIsDay ==
  ASSUME NEW blocks \in Seq(Days), NEW d \in Nat, HeadIsPast(blocks, d)
  PROVE  d \in Days
<1>1. blocks[Len(blocks)] \in Days
  BY DEF HeadIsPast
<1> QED
  BY <1>1, Constants DEF HeadIsPast, Days

\* The initial state has no row, no job and no upload under way.
LEMMA InitSync == Init => SyncInv
<1> SUFFICES ASSUME Init PROVE SyncInv
  OBVIOUS
<1>1. TypeOK
  <2>1. <<>> \in Seq(Days)
    OBVIOUS
  <2>2. job \in [Slots -> Job]
    BY JobRecords DEF Init
  <2> QED
    BY <2>1, <2>2 DEF Init, TypeOK, Request
<1>2. Synced = {}
  BY DEF Init, Synced
<1> QED
  BY <1>1, <1>2, JobRecords DEF Init, SyncInv, NoGaps, JobsInOrder, RequestsInOrder, Started

\* Every action keeps the types.
LEMMA NextType ==
  ASSUME TypeOK, JobsInOrder, Next
  PROVE  TypeOK'
<1> USE Constants
<1>a. ASSUME TypeOK, Connect PROVE chain' \in Seq(Days) /\ unsettled' \subseteq Days
  BY <1>a DEF TypeOK, Connect
<1>b. ASSUME TypeOK, Cut PROVE chain' \in Seq(Days) /\ unsettled' \subseteq Days
  BY <1>b DEF TypeOK, Cut
<1>c. ASSUME NEW j \in Slots PROVE job[j] \in Job
  BY DEF TypeOK
<1>d. ASSUME NEW s \in Slots, NEW n \in Nat, NEW jobs \in [Slots -> Job]
      PROVE AddedTo(jobs, s, n) \in [Slots -> Job]
  BY JobRecords DEF AddedTo
<1>1. ASSUME NEW r \in Requests, Upload(r) PROVE TypeOK'
  BY <1>1, <1>a, <1>b DEF TypeOK, Upload, UpdateReq, Request
<1>2. ASSUME NEW r \in Requests, NextDateToSync(r) PROVE TypeOK'
  BY <1>2 DEF TypeOK, NextDateToSync, UpdateReq, Request
<1>3. ASSUME NEW r \in Requests, QueueSync(r) PROVE TypeOK'
  <2>1. req[r].date \in Nat /\ req' \in [Requests -> Request]
    BY <1>3 DEF TypeOK, QueueSync, UpdateReq, Request
  <2>2. job' \in [Slots -> Job]
    BY <1>3, <1>d, <2>1 DEF TypeOK, QueueSync
  <2> QED
    BY <1>3, <2>1, <2>2 DEF TypeOK, QueueSync
<1>4. ASSUME NEW r \in Requests, Abort(r) PROVE TypeOK'
  BY <1>4 DEF TypeOK, Abort, UpdateReq, Request
<1>5. CASE Disconnect
  BY <1>5, <1>b DEF TypeOK, Disconnect
<1>6. CASE Replicate
  BY <1>6 DEF TypeOK, Replicate
<1>7. ASSUME NEW j \in Slots, CheckHead(j) PROVE TypeOK'
  <2>1. [job[j] EXCEPT !.st = "metrics"] \in Job
    BY <1>c DEF Job
  <2> QED
    BY <1>7, JobRecords, <2>1 DEF TypeOK, CheckHead, UpdateJob
<1>8. ASSUME NEW j \in Slots, ReadMetrics(j) PROVE TypeOK'
  <2>1. MetricsSource \in Seq(Days)
    BY DEF TypeOK, MetricsSource
  <2>2. Cardinality(BlocksOf(MetricsSource, job[j].date)) \in Nat
    BY <2>1, CountType
  <2>3. job[j].date \in Days
    BY <1>8 DEF ReadMetrics, JobsInOrder, Started
  <2>4. unsettled' \subseteq Days
    BY <1>8, <2>3 DEF TypeOK, ReadMetrics
  <2> QED
    BY <1>8, <2>2, <2>4 DEF TypeOK, ReadMetrics, UpdateJob, Job
<1>9. ASSUME NEW j \in Slots, UpsertDay(j) PROVE TypeOK'
  BY <1>9 DEF TypeOK, UpsertDay, UpdateJob, Job
<1>10. ASSUME NEW j \in Slots, QueueNextDay(j) PROVE TypeOK'
  <2> DEFINE jobs == [job EXCEPT ![j].st = "finish"]
  <2>1. jobs \in [Slots -> Job]
    BY DEF TypeOK, Job
  <2>2. job[j].date + 1 \in Nat
    BY <1>c DEF Job
  <2>a. PICK s \in Slots : job' = AddedTo(jobs, s, job[j].date + 1)
    BY <1>10 DEF QueueNextDay
  <2> HIDE DEF jobs
  <2>3. job' \in [Slots -> Job]
    BY <1>d, <2>1, <2>2, <2>a
  <2> QED
    BY <1>10, <2>3 DEF TypeOK, QueueNextDay
<1>11. ASSUME NEW j \in Slots, Finish(j) PROVE TypeOK'
  BY <1>11, JobRecords DEF TypeOK, Finish, UpdateJob
<1>12. ASSUME NEW j \in Slots, Fail(j) PROVE TypeOK'
  <2>1. CASE job[j].failed + 1 < MaxAttempts
    <3>1. job[j].date \in Nat /\ job[j].failed + 1 \in 0..(MaxAttempts - 1)
      BY <1>c, <2>1 DEF Job
    <3> QED
      BY <1>12, <2>1, <3>1, JobRecords DEF TypeOK, Fail, UpdateJob
  <2>2. CASE ~(job[j].failed + 1 < MaxAttempts)
    BY <1>12, <2>2, JobRecords DEF TypeOK, Fail, UpdateJob
  <2> QED
    BY <2>1, <2>2
<1> QED
  BY <1>1, <1>2, <1>3, <1>4, <1>5, <1>6, <1>7, <1>8, <1>9, <1>10, <1>11, <1>12
  DEF Next

-----------------------------------------------------------------------------
\* A row is never removed.
LEMMA SyncedGrows ==
  ASSUME TypeOK, [Next]_vars
  PROVE  Synced \subseteq Synced'
<1>1. ASSUME NEW j \in Slots, UpsertDay(j) PROVE Synced \subseteq Synced'
  <2>1. job[j].count # None
    BY Constants DEF TypeOK, Job
  <2> QED
    BY <1>1, <2>1 DEF UpsertDay, Synced, TypeOK
<1>2. CASE UNCHANGED row
  BY <1>2 DEF Synced
<1>3. (\A j \in Slots : ~UpsertDay(j)) => UNCHANGED row
  BY DEF Next, vars, Upload, NextDateToSync, QueueSync, Abort, Disconnect, Replicate,
         CheckHead, ReadMetrics, QueueNextDay, Finish, Fail
<1> QED
  BY <1>1, <1>2, <1>3

\* A job that UpdateJob leaves at its day, or deletes, and the jobs it leaves
\* alone, stay in order when rows are only added.
LEMMA JobStaysInOrder ==
  ASSUME TypeOK, JobsInOrder, Synced \subseteq Synced', NEW j \in Slots, NEW new \in Job,
         UpdateJob(j, new),
         new.st # "free" => new.date = job[j].date /\ job[j].st # "free",
         new.st \in Started => new.date \in Days,
         new.st \in {"next", "finish"} => new.date \in Synced'
  PROVE  JobsInOrder'
<1> SUFFICES ASSUME NEW k \in Slots
             PROVE  /\ job'[k].st # "free" => Before(job[k].date)'
                    /\ job'[k].st \in Started => job'[k].date \in Days
                    /\ job'[k].st \in {"next", "finish"} => job'[k].date \in Synced'
  BY DEF JobsInOrder
<1>1. job' = [job EXCEPT ![j] = new]
  BY DEF UpdateJob
<1>2. CASE k = j
  BY <1>1, <1>2 DEF JobsInOrder, Before, TypeOK
<1>3. CASE k # j
  BY <1>1, <1>3 DEF JobsInOrder, Before, TypeOK
<1> QED
  BY <1>2, <1>3

\* The state of a job, before and after it adds the next day's.
FinishedOrSame(st, new) == new = st \/ (st = "next" /\ new = "finish")

\* A job added for a day in order is in order.
LEMMA AddedInOrder ==
  ASSUME TypeOK, JobsInOrder, NEW jobs \in [Slots -> Job], NEW s \in Slots, NEW n \in Nat,
         Before(n), UNCHANGED row, job' = AddedTo(jobs, s, n),
         \A k \in Slots : /\ jobs[k].date = job[k].date
                          /\ FinishedOrSame(job[k].st, jobs[k].st)
  PROVE  JobsInOrder'
<1>1. Synced' = Synced
  BY DEF Synced
<1> SUFFICES ASSUME NEW k \in Slots
             PROVE  /\ job'[k].st # "free" => Before(job[k].date)'
                    /\ job'[k].st \in Started => job'[k].date \in Days
                    /\ job'[k].st \in {"next", "finish"} => job'[k].date \in Synced'
  BY DEF JobsInOrder
<1>2. CASE k = s
  <2>1. job'[k].st = "queued" /\ job'[k].date = n
    BY <1>2 DEF AddedTo, Queued
  <2> QED
    BY <1>1, <2>1 DEF Before, Started
<1>3. CASE k # s
  <2>1. job'[k] = jobs[k]
    BY <1>3 DEF AddedTo
  <2> QED
    BY <1>1, <2>1 DEF JobsInOrder, Before, Started, FinishedOrSame
<1> QED
  BY <1>2, <1>3

\* Jobs stay in order: a job is added for the next day to sync, or for the day
\* after one that is stored.
LEMMA NextJobsInOrder ==
  ASSUME SyncInv, Next
  PROVE  JobsInOrder'
<1> USE DEF SyncInv
<1>a. Synced \subseteq Synced'
  BY SyncedGrows
<1>b. ASSUME NEW j \in Slots PROVE job[j] \in Job
  BY DEF TypeOK
<1>c. ASSUME UNCHANGED <<row, job>> PROVE JobsInOrder'
  <2>1. Synced' = Synced
    BY <1>c DEF Synced
  <2> QED
    BY <1>c, <2>1 DEF JobsInOrder, Before
<1>1. ASSUME NEW r \in Requests, Upload(r) PROVE JobsInOrder'
  BY <1>1, <1>c DEF Upload
<1>2. ASSUME NEW r \in Requests, NextDateToSync(r) PROVE JobsInOrder'
  BY <1>2, <1>c DEF NextDateToSync
<1>3. ASSUME NEW r \in Requests, QueueSync(r) PROVE JobsInOrder'
  <2>1. PICK s \in Slots : job' = AddedTo(job, s, req[r].date)
    BY <1>3 DEF QueueSync
  <2>2. req[r].date \in Nat /\ Before(req[r].date) /\ UNCHANGED row
    BY <1>3 DEF QueueSync, TypeOK, Request, RequestsInOrder
  <2>3. job \in [Slots -> Job]
    BY DEF TypeOK
  <2> DEFINE jobs == job
  <2>4. \A k \in Slots : /\ jobs[k].date = job[k].date
                         /\ FinishedOrSame(job[k].st, jobs[k].st)
    BY DEF FinishedOrSame
  <2>5. job' = AddedTo(jobs, s, req[r].date) /\ jobs \in [Slots -> Job]
    BY <2>1, <2>3
  <2> HIDE DEF jobs
  <2> QED
    BY <2>2, <2>4, <2>5, AddedInOrder
<1>4. ASSUME NEW r \in Requests, Abort(r) PROVE JobsInOrder'
  BY <1>4, <1>c DEF Abort
<1>5. CASE Disconnect
  BY <1>5, <1>c DEF Disconnect
<1>6. CASE Replicate
  BY <1>6, <1>c DEF Replicate
<1>7. ASSUME NEW j \in Slots, CheckHead(j) PROVE JobsInOrder'
  <2>1. CASE HeadIsPast(chain, job[j].date)
    <3> DEFINE new == [job[j] EXCEPT !.st = "metrics"]
    <3>1. new \in Job /\ new.st = "metrics" /\ new.date = job[j].date
      BY <1>b DEF Job
    <3>2. job[j].date \in Days
      BY <1>b, <2>1, PastIsDay DEF TypeOK, Job
    <3>3. UpdateJob(j, new) /\ job[j].st # "free"
      BY <1>7, <2>1 DEF CheckHead
    <3> HIDE DEF new
    <3> QED
      BY <1>a, <3>1, <3>2, <3>3, JobStaysInOrder
  <2>2. CASE ~HeadIsPast(chain, job[j].date)
    <3>1. UpdateJob(j, Free)
      BY <1>7, <2>2 DEF CheckHead
    <3> QED
      BY <1>a, <3>1, JobRecords, JobStaysInOrder DEF Started
  <2> QED
    BY <2>1, <2>2
<1>8. ASSUME NEW j \in Slots, ReadMetrics(j) PROVE JobsInOrder'
  <2> DEFINE n == Cardinality(BlocksOf(MetricsSource, job[j].date))
             new == [job[j] EXCEPT !.st = "upsert", !.count = n]
  <2>1. n \in Nat
    BY CountType DEF TypeOK, MetricsSource
  <2>2. new \in Job /\ new.st = "upsert" /\ new.date = job[j].date
    BY <1>b, <2>1 DEF Job
  <2>3. UpdateJob(j, new) /\ job[j].st = "metrics"
    BY <1>8 DEF ReadMetrics
  <2>4. job[j].date \in Days
    BY <2>3 DEF JobsInOrder, Started
  <2> HIDE DEF new
  <2> QED
    BY <1>a, <2>2, <2>3, <2>4, JobStaysInOrder
<1>9. ASSUME NEW j \in Slots, UpsertDay(j) PROVE JobsInOrder'
  <2> DEFINE new == [job[j] EXCEPT !.st = "next", !.count = 0]
  <2>1. new \in Job /\ new.st = "next" /\ new.date = job[j].date
    BY <1>b DEF Job
  <2>2. UpdateJob(j, new) /\ job[j].st = "upsert"
    BY <1>9 DEF UpsertDay
  <2>3. job[j].date \in Days
    BY <2>2 DEF JobsInOrder, Started
  <2>4. job[j].date \in Synced'
    BY <1>9, <1>b, <2>3, Constants DEF UpsertDay, Synced, TypeOK, Job
  <2> HIDE DEF new
  <2> QED
    BY <1>a, <2>1, <2>2, <2>3, <2>4, JobStaysInOrder
<1>10. ASSUME NEW j \in Slots, QueueNextDay(j) PROVE JobsInOrder'
  <2> DEFINE jobs == [job EXCEPT ![j].st = "finish"]
  <2>1. PICK s \in Slots : job' = AddedTo(jobs, s, job[j].date + 1)
    BY <1>10 DEF QueueNextDay
  <2>2. jobs \in [Slots -> Job]
    BY DEF TypeOK, Job
  <2>3. job[j].st = "next" /\ UNCHANGED row
    BY <1>10 DEF QueueNextDay
  <2>4. job[j].date \in Nat /\ job[j].date + 1 \in Nat
    BY <1>b DEF Job
  <2>5. Before(job[j].date + 1)
    BY <2>3, <2>4 DEF JobsInOrder, Before
  <2>6. \A k \in Slots : /\ jobs[k].date = job[k].date
                         /\ FinishedOrSame(job[k].st, jobs[k].st)
    <3> SUFFICES ASSUME NEW k \in Slots
                 PROVE  /\ jobs[k].date = job[k].date
                        /\ FinishedOrSame(job[k].st, jobs[k].st)
      OBVIOUS
    <3>1. job[k] \in Job
      BY <1>b
    <3>2. CASE k = j
      <4>1. jobs[k] = [job[k] EXCEPT !.st = "finish"]
        BY <3>2 DEF TypeOK
      <4> QED
        BY <2>3, <3>1, <3>2, <4>1 DEF Job, FinishedOrSame
    <3>3. CASE k # j
      <4>1. jobs[k] = job[k]
        BY <3>3 DEF TypeOK
      <4> QED
        BY <4>1 DEF FinishedOrSame
    <3> QED
      BY <3>2, <3>3
  <2> HIDE DEF jobs
  <2> QED
    BY <2>1, <2>2, <2>3, <2>4, <2>5, <2>6, AddedInOrder
<1>11. ASSUME NEW j \in Slots, Finish(j) PROVE JobsInOrder'
  <2>1. UpdateJob(j, Free)
    BY <1>11 DEF Finish
  <2> QED
    BY <1>a, <2>1, JobRecords, JobStaysInOrder DEF Started
<1>12. ASSUME NEW j \in Slots, Fail(j) PROVE JobsInOrder'
  <2> DEFINE new == Queued(job[j].date, job[j].failed + 1)
  <2>1. CASE job[j].failed + 1 < MaxAttempts
    <3>a. job[j].date \in Nat /\ job[j].failed + 1 \in 0..(MaxAttempts - 1)
      BY <1>b, <2>1, Constants DEF Job
    <3>1. new \in Job /\ new.st = "queued" /\ new.date = job[j].date
      BY <3>a, JobRecords
    <3>2. UpdateJob(j, new) /\ job[j].st # "free"
      BY <1>12, <2>1 DEF Fail
    <3> HIDE DEF new
    <3> QED
      BY <1>a, <3>1, <3>2, JobStaysInOrder DEF Started
  <2>2. CASE ~(job[j].failed + 1 < MaxAttempts)
    <3>1. UpdateJob(j, Free)
      BY <1>12, <2>2 DEF Fail
    <3> QED
      BY <1>a, <3>1, JobRecords, JobStaysInOrder DEF Started
  <2> QED
    BY <2>1, <2>2
<1> QED
  BY <1>1, <1>2, <1>3, <1>4, <1>5, <1>6, <1>7, <1>8, <1>9, <1>10, <1>11, <1>12
  DEF Next

\* Uploads stay in order: when no day is skipped, all the days before the next
\* one to sync are stored.
LEMMA NextRequestsInOrder ==
  ASSUME SyncInv, Next
  PROVE  RequestsInOrder'
<1> USE DEF SyncInv
<1>a. Synced \subseteq Synced'
  BY SyncedGrows
<1>b. \A n : Before(n) => Before(n)'
  BY <1>a DEF Before
<1>1. ASSUME NEW r \in Requests, NextDateToSync(r) PROVE RequestsInOrder'
  <2>1. PICK n \in 0..(LastDay + 1) :
          IsNextDate(n) /\ UpdateReq(r, [pc |-> "add", date |-> n])
    BY <1>1 DEF NextDateToSync
  <2>2. Before(n)
    BY <2>1, Constants DEF IsNextDate, NoGaps, Before
  <2> QED
    BY <1>b, <2>1, <2>2 DEF UpdateReq, RequestsInOrder, TypeOK
<1>2. ASSUME NEW r \in Requests, \E new : new.pc # "add" /\ UpdateReq(r, new)
      PROVE  RequestsInOrder'
  BY <1>b, <1>2 DEF UpdateReq, RequestsInOrder, TypeOK
<1>3. ASSUME NEW r \in Requests, Upload(r) \/ QueueSync(r) \/ Abort(r)
      PROVE  RequestsInOrder'
  <2>1. [req[r] EXCEPT !.pc = "blocks"].pc = "blocks"
    BY DEF TypeOK, Request
  <2>2. \E new : new.pc # "add" /\ UpdateReq(r, new)
    BY <1>3, <2>1 DEF Upload, QueueSync, Abort
  <2> QED
    BY <1>2, <2>2
<1>4. CASE UNCHANGED req
  BY <1>b, <1>4 DEF RequestsInOrder
<1> QED
  BY <1>1, <1>3, <1>4
  DEF Next, Disconnect, Replicate, CheckHead, ReadMetrics, UpsertDay, QueueNextDay,
      Finish, Fail

\* No step skips a day: the only row a step adds is that of a job, whose
\* predecessors are all stored.
LEMMA NextNoGaps ==
  ASSUME SyncInv, Next
  PROVE  NoGaps'
<1> USE DEF SyncInv
<1>1. ASSUME NEW j \in Slots, UpsertDay(j) PROVE NoGaps'
  <2>1. Synced \subseteq Synced'
    BY SyncedGrows
  <2>2. Synced' \subseteq Synced \cup {job[j].date}
    BY <1>1 DEF UpsertDay, Synced, TypeOK
  <2>3. job[j].date \in Nat /\ Before(job[j].date)
    BY <1>1 DEF UpsertDay, JobsInOrder, TypeOK, Job
  <2>4. ASSUME NEW d \in Synced', NEW c \in 0..d PROVE c \in Synced'
    <3>1. CASE d \in Synced
      BY <2>1, <3>1 DEF NoGaps
    <3>2. CASE d = job[j].date
      BY <2>1, <2>3, <2>4, <3>2 DEF Before
    <3> QED
      BY <2>2, <2>4, <3>1, <3>2
  <2> QED
    BY <2>4 DEF NoGaps
<1>2. CASE UNCHANGED row
  BY <1>2 DEF NoGaps, Synced
<1> QED
  BY <1>1, <1>2
  DEF Next, Upload, NextDateToSync, QueueSync, Abort, Disconnect, Replicate,
      CheckHead, ReadMetrics, QueueNextDay, Finish, Fail

\* SyncInv is inductive.
LEMMA SyncInvariance == Spec => []SyncInv
<1>1. SyncInv /\ [Next]_vars => SyncInv'
  <2>1. CASE Next
    BY <2>1, NextType, NextJobsInOrder, NextRequestsInOrder, NextNoGaps DEF SyncInv
  <2>2. CASE UNCHANGED vars
    BY <2>2 DEF vars, SyncInv, TypeOK, NoGaps, JobsInOrder, RequestsInOrder, Before, Synced
  <2> QED
    BY <2>1, <2>2
<1> QED
  BY InitSync, <1>1, PTL DEF Spec

\* The state of the daily snapshots is well typed.
THEOREM DailyTypeCorrect == Spec => []TypeOK
  BY SyncInvariance, PTL DEF SyncInv

\* No day is skipped, however many chains of jobs overlap, are delayed, fail and
\* are tried again, and whatever happens to the chain meanwhile
\* (blocks-daily.service.ts 56-69, blocks-daily.jobs.controller.ts 26-47).
THEOREM NoGapsHolds == Spec => []NoGaps
  BY SyncInvariance, PTL DEF SyncInv

-----------------------------------------------------------------------------
\* The days of the main chain's blocks never go down.
Ascending == \A i, k \in 1..Len(chain) : i <= k => chain[i] <= chain[k]

\* A day of which nothing can be added or taken away any more, unless the chain
\* has been cut back to it: the head is past it.
Over(d, blocks, cut) == d \in cut \/ HeadIsPast(blocks, d)

Counts(n, d, blocks, cut) == d \in cut \/ n = Cardinality(BlocksOf(blocks, d))

\* A job past the head's check is at a day that is over; one that has read the
\* metrics holds that day's count.
JobFits(jb, blocks, cut) ==
  /\ jb.st \in Started => Over(jb.date, blocks, cut)
  /\ jb.st = "upsert" => Counts(jb.count, jb.date, blocks, cut)

RowFits(d, n, blocks, cut) ==
  n # None => Over(d, blocks, cut) /\ Counts(n, d, blocks, cut)

AllFit ==
  /\ \A j \in Slots : JobFits(job[j], chain, unsettled)
  /\ \A d \in Days : RowFits(d, row[d], chain, unsettled)

\* A day the replica is past has the same blocks on both, or the chain was cut
\* back to it since.
ReplicaFits ==
  \A d \in Days : HeadIsPast(replica, d) /\ d \notin unsettled
    => HeadIsPast(chain, d) /\ BlocksOf(replica, d) = BlocksOf(chain, d)

CountInv == SyncInv /\ Ascending /\ AllFit /\ ReplicaFits

\* What a step may do to a day: one that is over stays over with the same blocks,
\* or is among those the chain was cut back to.
DaysKept ==
  /\ Ascending'
  /\ unsettled \subseteq unsettled'
  /\ \A d \in Days : HeadIsPast(chain, d) /\ d \notin unsettled'
       => HeadIsPast(chain', d) /\ BlocksOf(chain', d) = BlocksOf(chain, d)

\* A block at the end is of no earlier day than the head.
LEMMA ConnectKeepsDays ==
  ASSUME TypeOK, Ascending, Connect
  PROVE  DaysKept
<1>1. PICK e \in Days : /\ chain # <<>> => e >= chain[Len(chain)]
                        /\ chain' = Append(chain, e)
  BY DEF Connect
<1>2. /\ chain \in Seq(Days) /\ Len(chain) \in Nat
      /\ Len(chain') = Len(chain) + 1
      /\ chain'[Len(chain')] = e
      /\ \A i \in 1..Len(chain) : chain'[i] = chain[i] /\ chain[i] \in Days
  BY <1>1 DEF TypeOK
<1>3. \A i \in 1..Len(chain) : chain[i] <= e
  <2> SUFFICES ASSUME NEW i \in 1..Len(chain) PROVE chain[i] <= e
    OBVIOUS
  <2>1. chain # <<>> /\ Len(chain) \in 1..Len(chain) /\ i <= Len(chain)
    BY <1>2
  <2>2. chain[i] <= chain[Len(chain)] /\ chain[Len(chain)] <= e
    BY <1>1, <2>1 DEF Ascending, Days
  <2> QED
    BY <1>2, <2>1, <2>2, Constants DEF Days
<1>4. Ascending'
  <2> SUFFICES ASSUME NEW i \in 1..Len(chain'), NEW k \in 1..Len(chain'), i <= k
               PROVE  chain'[i] <= chain'[k]
    BY DEF Ascending
  <2>1. CASE k = Len(chain')
    <3>1. chain'[k] = e /\ e <= e
      BY <1>2, <2>1, Constants DEF Days
    <3>2. i = k \/ i \in 1..Len(chain)
      BY <1>2, <2>1
    <3> QED
      BY <1>2, <1>3, <3>1, <3>2
  <2>2. CASE k # Len(chain')
    <3>1. i \in 1..Len(chain) /\ k \in 1..Len(chain)
      BY <1>2, <2>2
    <3> QED
      BY <1>2, <3>1 DEF Ascending
  <2> QED
    BY <2>1, <2>2
<1>5. ASSUME NEW d \in Days, HeadIsPast(chain, d)
      PROVE  HeadIsPast(chain', d) /\ BlocksOf(chain', d) = BlocksOf(chain, d)
  <2>1. chain # <<>> /\ Len(chain) \in 1..Len(chain) /\ chain[Len(chain)] >= d + 1
    BY <1>2, <1>5 DEF HeadIsPast
  <2>2. e >= d + 1
    BY <1>2, <1>3, <2>1, Constants DEF Days
  <2>3. HeadIsPast(chain', d)
    BY <1>1, <1>2, <2>2 DEF HeadIsPast
  <2>4. e # d
    BY <2>2, Constants DEF Days
  <2> QED
    BY <1>2, <2>3, <2>4 DEF BlocksOf
<1> QED
  BY <1>4, <1>5 DEF DaysKept, Connect

\* A cut leaves a day alone that the head is still past: the blocks it takes
\* away are no earlier than the head it leaves.
LEMMA CutKeepsDays ==
  ASSUME TypeOK, Ascending, Cut
  PROVE  DaysKept
<1>1. PICK n \in 0..Len(chain) : n < Len(chain) /\ chain' = SubSeq(chain, 1, n)
  BY DEF Cut
<1>2. /\ chain \in Seq(Days) /\ Len(chain) \in Nat /\ n \in Nat
      /\ Len(chain') = n
      /\ \A i \in 1..n : chain'[i] = chain[i]
      /\ \A i \in 1..Len(chain) : chain[i] \in Days
  BY <1>1 DEF TypeOK
<1>3. Ascending'
  BY <1>1, <1>2 DEF Ascending
<1>4. unsettled \subseteq unsettled'
  BY DEF Cut
<1>5. ASSUME NEW d \in Days, HeadIsPast(chain, d), d \notin unsettled'
      PROVE  HeadIsPast(chain', d) /\ BlocksOf(chain', d) = BlocksOf(chain, d)
  <2>1. HeadIsPast(chain', d)
    BY <1>5 DEF Cut
  <2>2. n \in 1..n /\ chain[n] >= d + 1
    BY <1>2, <2>1 DEF HeadIsPast
  <2>3. \A i \in 1..Len(chain) : i > n => chain[i] # d
    <3> SUFFICES ASSUME NEW i \in 1..Len(chain), i > n PROVE chain[i] # d
      OBVIOUS
    <3>1. chain[n] <= chain[i]
      BY <1>1, <1>2, <2>2 DEF Ascending
    <3>2. chain[n] \in Days /\ chain[i] \in Days
      BY <1>1, <1>2, <2>2
    <3> QED
      BY <2>2, <3>1, <3>2, Constants DEF Days
  <2>4. BlocksOf(chain', d) = BlocksOf(chain, d)
    BY <1>1, <1>2, <2>3 DEF BlocksOf
  <2> QED
    BY <2>1, <2>4
<1> QED
  BY <1>3, <1>4, <1>5 DEF DaysKept

\* No other step touches the chain.
LEMMA NextKeepsDays ==
  ASSUME TypeOK, Ascending, [Next]_vars
  PROVE  DaysKept
<1>1. CASE Connect
  BY <1>1, ConnectKeepsDays
<1>2. CASE Cut
  BY <1>2, CutKeepsDays
<1>3. CASE UNCHANGED chain /\ unsettled \subseteq unsettled'
  BY <1>3 DEF DaysKept, Ascending
<1>4. Connect \/ Cut \/ (UNCHANGED chain /\ unsettled \subseteq unsettled')
  BY DEF Next, vars, Upload, NextDateToSync, QueueSync, Abort, Disconnect, Replicate,
         CheckHead, ReadMetrics, UpsertDay, QueueNextDay, Finish, Fail
<1> QED
  BY <1>1, <1>2, <1>3, <1>4

\* So what fitted a day before the step fits it after.
LEMMA FitStays ==
  ASSUME DaysKept, NEW d \in Days, NEW n
  PROVE  /\ Over(d, chain, unsettled) => Over(d, chain', unsettled')
         /\ Over(d, chain, unsettled) /\ Counts(n, d, chain, unsettled)
              => Counts(n, d, chain', unsettled')
  BY DEF DaysKept, Over, Counts

\* A job that a step leaves as it is.
LEMMA JobStaysFit ==
  ASSUME SyncInv, DaysKept, NEW k \in Slots, JobFits(job[k], chain, unsettled)
  PROVE  JobFits(job[k], chain', unsettled')
<1>1. job[k].st \in Started => job[k].date \in Days
  BY DEF SyncInv, JobsInOrder
<1>2. job[k].st = "upsert" => job[k].st \in Started
  BY DEF Started
<1> QED
  BY <1>1, <1>2, FitStays DEF JobFits

-----------------------------------------------------------------------------
\* A step that gives one job a record that fits leaves all jobs fitting.
LEMMA UpdateFits ==
  ASSUME SyncInv, DaysKept, NEW j \in Slots, NEW new, UpdateJob(j, new),
         \A k \in Slots : JobFits(job[k], chain, unsettled),
         JobFits(new, chain', unsettled')
  PROVE  \A k \in Slots : JobFits(job'[k], chain', unsettled')
<1> SUFFICES ASSUME NEW k \in Slots PROVE JobFits(job'[k], chain', unsettled')
  OBVIOUS
<1>1. CASE k = j
  <2>1. job'[k] = new
    BY <1>1 DEF UpdateJob, SyncInv, TypeOK
  <2> QED
    BY <2>1
<1>2. CASE k # j
  <2>1. job'[k] = job[k]
    BY <1>2 DEF UpdateJob, SyncInv, TypeOK
  <2> QED
    BY <2>1, JobStaysFit
<1> QED
  BY <1>1, <1>2

\* A record of a job that has not started, or is no job, fits any chain.
LEMMA IdleFits ==
  ASSUME NEW jb, NEW blocks, NEW cut, jb.st = "free" \/ jb.st = "queued"
  PROVE  JobFits(jb, blocks, cut)
  BY DEF JobFits, Started

\* The jobs of every step.
LEMMA NextJobsFit ==
  ASSUME CountInv, Next
  PROVE  \A k \in Slots : JobFits(job'[k], chain', unsettled')
<1> USE DEF CountInv
<1>a. DaysKept /\ TypeOK
  BY NextKeepsDays DEF SyncInv
<1>b. \A k \in Slots : JobFits(job[k], chain, unsettled) /\ job[k] \in Job
  BY <1>a DEF AllFit, TypeOK
<1>c. ASSUME UNCHANGED job PROVE \A k \in Slots : JobFits(job'[k], chain', unsettled')
  BY <1>a, <1>b, <1>c, JobStaysFit
<1>1. CASE \E r \in Requests : Upload(r) \/ NextDateToSync(r) \/ Abort(r)
  BY <1>1, <1>c DEF Upload, NextDateToSync, Abort
<1>2. CASE Disconnect \/ Replicate
  BY <1>2, <1>c DEF Disconnect, Replicate
<1>3. ASSUME NEW r \in Requests, QueueSync(r)
      PROVE  \A k \in Slots : JobFits(job'[k], chain', unsettled')
  <2>1. PICK s \in Slots : UpdateJob(s, Queued(req[r].date, 0))
    BY <1>3 DEF QueueSync, AddedTo, UpdateJob
  <2>2. Queued(req[r].date, 0).st = "queued"
    BY DEF Queued
  <2> QED
    BY <1>a, <1>b, <2>1, <2>2, IdleFits, UpdateFits
<1>4. ASSUME NEW j \in Slots, UpdateJob(j, Free)
      PROVE  \A k \in Slots : JobFits(job'[k], chain', unsettled')
  BY <1>a, <1>b, <1>4, JobRecords, IdleFits, UpdateFits
<1>5. ASSUME NEW j \in Slots, CheckHead(j)
      PROVE  \A k \in Slots : JobFits(job'[k], chain', unsettled')
  <2>1. CASE HeadIsPast(chain, job[j].date)
    <3> DEFINE new == [job[j] EXCEPT !.st = "metrics"]
    <3>1. new.st = "metrics" /\ new.date = job[j].date
      BY <1>b DEF Job
    <3>2. UpdateJob(j, new) /\ UNCHANGED chain
      BY <1>5, <2>1 DEF CheckHead
    <3> HIDE DEF new
    <3>3. JobFits(new, chain', unsettled')
      BY <2>1, <3>1, <3>2 DEF JobFits, Over
    <3> QED
      BY <1>a, <1>b, <3>2, <3>3, UpdateFits
  <2>2. CASE ~HeadIsPast(chain, job[j].date)
    BY <1>4, <1>5, <2>2 DEF CheckHead
  <2> QED
    BY <2>1, <2>2
<1>6. ASSUME NEW j \in Slots, ReadMetrics(j)
      PROVE  \A k \in Slots : JobFits(job'[k], chain', unsettled')
  <2> DEFINE d == job[j].date
             n == Cardinality(BlocksOf(MetricsSource, d))
             new == [job[j] EXCEPT !.st = "upsert", !.count = n]
  <2>1. d \in Days /\ job[j].st = "metrics"
    BY <1>6 DEF ReadMetrics, SyncInv, JobsInOrder, Started
  <2>2. new.st = "upsert" /\ new.date = d /\ new.count = n
    BY <1>b DEF Job
  <2>3. UpdateJob(j, new) /\ UNCHANGED chain
    BY <1>6 DEF ReadMetrics
  <2>4. Over(d, chain', unsettled') /\ Counts(n, d, chain', unsettled')
    <3>1. CASE d \in unsettled'
      BY <3>1 DEF Over, Counts
    <3>2. CASE d \notin unsettled'
      <4>1. HeadIsPast(MetricsSource, d) /\ d \notin unsettled
        BY <1>6, <3>2 DEF ReadMetrics
      <4>2. HeadIsPast(chain, d) /\ BlocksOf(MetricsSource, d) = BlocksOf(chain, d)
        BY <2>1, <4>1 DEF MetricsSource, ReplicaFits
      <4> QED
        BY <2>3, <4>2 DEF Over, Counts
    <3> QED
      BY <3>1, <3>2
  <2> HIDE DEF d, n, new
  <2>6. JobFits(new, chain', unsettled')
    BY <2>2, <2>4 DEF JobFits
  <2> QED
    BY <1>a, <1>b, <2>3, <2>6, UpdateFits
<1>7. ASSUME NEW j \in Slots, UpsertDay(j)
      PROVE  \A k \in Slots : JobFits(job'[k], chain', unsettled')
  <2> DEFINE new == [job[j] EXCEPT !.st = "next", !.count = 0]
  <2>1. new.st = "next" /\ new.date = job[j].date
    BY <1>b DEF Job
  <2>2. UpdateJob(j, new) /\ UNCHANGED <<chain, unsettled>> /\ job[j].st = "upsert"
    BY <1>7 DEF UpsertDay
  <2>3. Over(job[j].date, chain, unsettled)
    BY <1>b, <2>2 DEF JobFits, Started
  <2> HIDE DEF new
  <2>4. JobFits(new, chain', unsettled')
    BY <2>1, <2>2, <2>3 DEF JobFits
  <2> QED
    BY <1>a, <1>b, <2>2, <2>4, UpdateFits
<1>8. ASSUME NEW j \in Slots, QueueNextDay(j)
      PROVE  \A k \in Slots : JobFits(job'[k], chain', unsettled')
  <2> DEFINE jobs == [job EXCEPT ![j].st = "finish"]
  <2>1. PICK s \in Slots : job' = AddedTo(jobs, s, job[j].date + 1)
    BY <1>8 DEF QueueNextDay
  <2>2. UNCHANGED <<chain, unsettled>> /\ job[j].st = "next"
    BY <1>8 DEF QueueNextDay
  <2> SUFFICES ASSUME NEW k \in Slots PROVE JobFits(job'[k], chain, unsettled)
    BY <2>2
  <2>3. CASE k = s
    <3>1. job'[k] = Queued(job[j].date + 1, 0)
      BY <1>a, <2>1, <2>3 DEF AddedTo, TypeOK
    <3>2. job'[k].st = "queued"
      BY <3>1 DEF Queued
    <3> QED
      BY <3>2, IdleFits
  <2>4. CASE k # s /\ k = j
    <3>1. job'[k] = [job[k] EXCEPT !.st = "finish"]
      BY <1>a, <2>1, <2>4 DEF AddedTo, TypeOK
    <3>2. job'[k].st = "finish" /\ job'[k].date = job[k].date
      BY <1>b, <3>1 DEF Job
    <3>3. Over(job[k].date, chain, unsettled)
      BY <1>b, <2>2, <2>4 DEF JobFits, Started
    <3> QED
      BY <3>2, <3>3 DEF JobFits
  <2>5. CASE k # s /\ k # j
    <3>1. job'[k] = job[k]
      BY <1>a, <2>1, <2>5 DEF AddedTo, TypeOK
    <3> QED
      BY <1>b, <3>1
  <2> QED
    BY <2>3, <2>4, <2>5
<1>9. ASSUME NEW j \in Slots, Finish(j)
      PROVE  \A k \in Slots : JobFits(job'[k], chain', unsettled')
  BY <1>4, <1>9 DEF Finish
<1>10. ASSUME NEW j \in Slots, Fail(j)
       PROVE  \A k \in Slots : JobFits(job'[k], chain', unsettled')
  <2> DEFINE new == Queued(job[j].date, job[j].failed + 1)
  <2>1. new.st = "queued"
    BY DEF Queued
  <2>2. UpdateJob(j, new) \/ UpdateJob(j, Free)
    BY <1>10 DEF Fail
  <2> HIDE DEF new
  <2>3. CASE UpdateJob(j, new)
    BY <1>a, <1>b, <2>1, <2>3, IdleFits, UpdateFits
  <2> QED
    BY <1>4, <2>2, <2>3
<1> QED
  BY <1>1, <1>2, <1>3, <1>5, <1>6, <1>7, <1>8, <1>9, <1>10 DEF Next

\* The rows of every step: only an upsert changes one, and it stores the count
\* of a job that fits.
LEMMA NextRowsFit ==
  ASSUME CountInv, Next
  PROVE  \A d \in Days : RowFits(d, row'[d], chain', unsettled')
<1> USE DEF CountInv
<1>a. DaysKept /\ TypeOK
  BY NextKeepsDays DEF SyncInv
<1>b. \A d \in Days : RowFits(d, row[d], chain, unsettled)
  BY DEF AllFit
<1>1. ASSUME NEW d \in Days, row'[d] = row[d] PROVE RowFits(d, row'[d], chain', unsettled')
  BY <1>a, <1>b, <1>1, FitStays DEF RowFits
<1>2. ASSUME NEW j \in Slots, UpsertDay(j), NEW d \in Days
      PROVE  RowFits(d, row'[d], chain', unsettled')
  <2>1. JobFits(job[j], chain, unsettled) /\ job[j].st = "upsert" /\ UNCHANGED <<chain, unsettled>>
    BY <1>2 DEF AllFit, UpsertDay
  <2>2. CASE d = job[j].date
    <3>1. row'[d] = job[j].count
      BY <1>2, <1>a, <2>2 DEF UpsertDay, TypeOK
    <3> QED
      BY <2>1, <2>2, <3>1 DEF RowFits, JobFits, Started
  <2>3. CASE d # job[j].date
    <3>1. row'[d] = row[d]
      BY <1>2, <1>a, <2>3 DEF UpsertDay, TypeOK
    <3> QED
      BY <1>1, <3>1
  <2> QED
    BY <2>2, <2>3
<1>3. CASE UNCHANGED row
  BY <1>1, <1>3
<1> QED
  BY <1>2, <1>3
  DEF Next, Upload, NextDateToSync, QueueSync, Abort, Disconnect, Replicate,
      CheckHead, ReadMetrics, QueueNextDay, Finish, Fail

\* The replica only ever becomes what the chain is; a day it is past is left
\* alone by what the chain does, or the chain is cut back to it.
LEMMA NextReplicaFits ==
  ASSUME CountInv, [Next]_vars
  PROVE  ReplicaFits'
<1>1. DaysKept
  BY NextKeepsDays DEF CountInv, SyncInv
<1>2. CASE Replicate
  BY <1>2 DEF Replicate, ReplicaFits
<1>3. CASE UNCHANGED replica
  BY <1>1, <1>3 DEF CountInv, ReplicaFits, DaysKept
<1>4. Replicate \/ UNCHANGED replica
  BY DEF Next, vars, Upload, NextDateToSync, QueueSync, Abort, Disconnect,
         CheckHead, ReadMetrics, UpsertDay, QueueNextDay, Finish, Fail
<1> QED
  BY <1>2, <1>3, <1>4

\* CountInv is inductive, given that SyncInv is an invariant.
LEMMA CountInvariance == Spec => []CountInv
<1>1. Init => Ascending /\ AllFit /\ ReplicaFits
  <2> SUFFICES ASSUME Init PROVE Ascending /\ AllFit /\ ReplicaFits
    OBVIOUS
  <2>1. Ascending
    BY DEF Init, Ascending
  <2>2. \A j \in Slots : JobFits(job[j], chain, unsettled)
    BY JobRecords, IdleFits DEF Init
  <2>3. \A d \in Days : RowFits(d, row[d], chain, unsettled)
    BY DEF Init, RowFits
  <2>4. ReplicaFits
    BY DEF Init, ReplicaFits, HeadIsPast
  <2> QED
    BY <2>1, <2>2, <2>3, <2>4 DEF AllFit
<1>2. CountInv /\ [Next]_vars => Ascending' /\ AllFit' /\ ReplicaFits'
  <2> SUFFICES ASSUME CountInv, [Next]_vars PROVE Ascending' /\ AllFit' /\ ReplicaFits'
    OBVIOUS
  <2>1. Ascending'
    BY NextKeepsDays DEF CountInv, SyncInv, DaysKept
  <2>r. ReplicaFits'
    BY NextReplicaFits
  <2>2. CASE Next
    BY <2>1, <2>r, <2>2, NextJobsFit, NextRowsFit DEF AllFit
  <2>3. CASE UNCHANGED vars
    BY <2>1, <2>r, <2>3 DEF vars, CountInv, AllFit
  <2> QED
    BY <2>2, <2>3
<1> QED
  BY <1>1, <1>2, SyncInvariance, PTL DEF Spec, CountInv

\* A stored day counts that day's blocks of the main chain, for good, unless the
\* chain is cut back to it or its metrics came from a replica that was not past it
\* (blocks-daily.jobs.controller.ts 30-38).
THEOREM RowMatchesHolds == Spec => []RowMatches
<1>1. CountInv => RowMatches
  <2> SUFFICES ASSUME CountInv, NEW d \in Synced \ unsettled
               PROVE  row[d] = Cardinality(BlocksOf(chain, d))
    BY DEF RowMatches
  <2> QED
    BY DEF CountInv, AllFit, RowFits, Counts, Synced
<1> QED
  BY <1>1, CountInvariance, PTL

-----------------------------------------------------------------------------
\* An upload or a job that is going to look whether a day is to be computed.  A
\* job that is about to finish has left that to the next day's.
Uploading == \E r \in Requests : req[r].pc # "idle"
Pursuing == \E j \in Slots : job[j].st \in {"queued", "metrics", "upsert", "next"}

\* Without one, and unless a job was given up, there is nothing to compute.
Pursued ==
  ~lost /\ ~Uploading /\ ~Pursuing => \A d \in Days : HeadIsPast(chain, d) => d \in Synced

\* A cut takes no head past a day.
LEMMA CutGoesBack ==
  ASSUME CountInv, Cut, NEW d \in Days, HeadIsPast(chain, d)'
  PROVE  HeadIsPast(chain, d)
<1>1. PICK n \in 0..Len(chain) : n < Len(chain) /\ chain' = SubSeq(chain, 1, n)
  BY DEF Cut
<1>2. chain \in Seq(Days)
  BY DEF CountInv, SyncInv, TypeOK
<1>3. n # 0 /\ Len(chain') = n
  BY <1>1, <1>2 DEF HeadIsPast
<1>4. chain'[n] = chain[n] /\ chain[n] <= chain[Len(chain)]
  BY <1>1, <1>2, <1>3 DEF CountInv, Ascending
<1>5. chain[n] \in Nat /\ chain[Len(chain)] \in Nat /\ d \in Nat
  BY <1>1, <1>2, <1>3, Constants DEF Days
<1> QED
  BY <1>2, <1>3, <1>4, <1>5 DEF HeadIsPast

\* A job that finds the head not past its day may stop: every day the head is
\* past comes before that one, and is stored.
LEMMA NothingLeft ==
  ASSUME CountInv, NEW j \in Slots, job[j].st = "queued", ~HeadIsPast(chain, job[j].date),
         chain # <<>>, NEW d \in Days, HeadIsPast(chain, d)
  PROVE  d \in Synced
<1>1. Before(job[j].date) /\ job[j].date \in Nat /\ d \in Nat
  BY Constants DEF CountInv, SyncInv, JobsInOrder, TypeOK, Job, Days
<1>2. chain[Len(chain)] \in Nat
  BY Constants DEF CountInv, SyncInv, TypeOK, Days
<1>3. d < job[j].date
  BY <1>1, <1>2 DEF HeadIsPast
<1> QED
  BY <1>1, <1>3 DEF Before

\* A job that is added, or tried again, pursues what there is to compute.
LEMMA AddedPursues ==
  ASSUME NEW jobs \in [Slots -> Job], NEW s \in Slots, NEW n \in Nat, job' = AddedTo(jobs, s, n)
  PROVE  Pursuing'
<1>1. job'[s].st = "queued"
  BY DEF AddedTo, Queued
<1> QED
  BY <1>1 DEF Pursuing

LEMMA StillPursues ==
  ASSUME TypeOK, NEW j \in Slots, NEW new, UpdateJob(j, new),
         new.st \in {"queued", "metrics", "upsert", "next"}
  PROVE  Pursuing'
<1>1. job'[j] = new
  BY DEF UpdateJob, TypeOK
<1> QED
  BY <1>1 DEF Pursuing

\* When a job ends, those that pursue afterwards are those that did before, but
\* it.
LEMMA OthersPursue ==
  ASSUME TypeOK, NEW j \in Slots, UpdateJob(j, Free), ~Pursuing',
         job[j].st \notin {"queued", "metrics", "upsert", "next"}
  PROVE  ~Pursuing
<1> SUFFICES ASSUME NEW k \in Slots, job[k].st \in {"queued", "metrics", "upsert", "next"}
             PROVE  FALSE
  BY DEF Pursuing
<1>1. k # j /\ job'[k] = job[k]
  BY DEF UpdateJob, TypeOK
<1> QED
  BY <1>1 DEF Pursuing

LEMMA NextPursued ==
  ASSUME CountInv, Pursued, Next
  PROVE  Pursued'
<1>t. TypeOK /\ \A j \in Slots : job[j] \in Job
  BY DEF CountInv, SyncInv, TypeOK
<1>u. ASSUME NEW r \in Requests, NEW new, UpdateReq(r, new), new.pc # "idle"
      PROVE  Pursued'
  <2>1. req'[r] = new
    BY <1>t, <1>u DEF UpdateReq, TypeOK
  <2> QED
    BY <1>u, <2>1 DEF Pursued, Uploading
<1>1. ASSUME NEW r \in Requests, Upload(r) \/ NextDateToSync(r) \/ Abort(r) PROVE Pursued'
  <2>1. CASE Upload(r)
    <3> DEFINE new == [req[r] EXCEPT !.pc = "blocks"]
    <3>1. new.pc = "blocks"
      BY <1>t DEF TypeOK, Request
    <3>2. UpdateReq(r, new)
      BY <2>1 DEF Upload
    <3> HIDE DEF new
    <3> QED
      BY <1>u, <3>1, <3>2
  <2>2. CASE NextDateToSync(r)
    <3>1. PICK n \in 0..(LastDay + 1) : UpdateReq(r, [pc |-> "add", date |-> n])
      BY <2>2 DEF NextDateToSync
    <3> QED
      BY <1>u, <3>1
  <2>3. CASE Abort(r)
    <3>1. UpdateReq(r, [pc |-> "blocks", date |-> 0])
      BY <2>3 DEF Abort
    <3> QED
      BY <1>u, <3>1
  <2> QED
    BY <1>1, <2>1, <2>2, <2>3
<1>2. ASSUME NEW r \in Requests, QueueSync(r) PROVE Pursued'
  <2>1. PICK s \in Slots : job' = AddedTo(job, s, req[r].date)
    BY <1>2 DEF QueueSync
  <2>2. req[r].date \in Nat /\ job \in [Slots -> Job]
    BY <1>t DEF TypeOK, Request
  <2> QED
    BY <2>1, <2>2, AddedPursues DEF Pursued
<1>3. CASE Disconnect
  <2>1. Cut /\ UNCHANGED <<row, job, req, lost>>
    BY <1>3 DEF Disconnect
  <2>2. Synced' = Synced /\ (Uploading' <=> Uploading) /\ (Pursuing' <=> Pursuing)
    BY <2>1 DEF Synced, Uploading, Pursuing
  <2> QED
    BY <2>1, <2>2, CutGoesBack DEF Pursued
<1>4. CASE Replicate
  BY <1>4 DEF Replicate, Pursued, Uploading, Pursuing, Synced
<1>5. ASSUME NEW j \in Slots, CheckHead(j) PROVE Pursued'
  <2>1. CASE HeadIsPast(chain, job[j].date)
    <3> DEFINE new == [job[j] EXCEPT !.st = "metrics"]
    <3>1. new.st = "metrics"
      BY <1>t DEF Job
    <3>2. UpdateJob(j, new)
      BY <1>5, <2>1 DEF CheckHead
    <3> HIDE DEF new
    <3> QED
      BY <1>t, <3>1, <3>2, StillPursues DEF Pursued
  <2>2. CASE ~HeadIsPast(chain, job[j].date)
    <3>1. job[j].st = "queued" /\ chain # <<>> /\ UNCHANGED <<chain, row>>
      BY <1>5 DEF CheckHead
    <3>2. \A d \in Days : HeadIsPast(chain, d) => d \in Synced
      BY <2>2, <3>1, NothingLeft
    <3> QED
      BY <3>1, <3>2 DEF Pursued, Synced
  <2> QED
    BY <2>1, <2>2
<1>6. ASSUME NEW j \in Slots, ReadMetrics(j) \/ UpsertDay(j) PROVE Pursued'
  <2>1. PICK new : UpdateJob(j, new) /\ new.st \in {"upsert", "next"}
    <3>1. \A n : /\ [job[j] EXCEPT !.st = "upsert", !.count = n].st = "upsert"
                 /\ [job[j] EXCEPT !.st = "next", !.count = n].st = "next"
      BY <1>t DEF Job
    <3> QED
      BY <1>6, <3>1 DEF ReadMetrics, UpsertDay
  <2> QED
    BY <1>t, <2>1, StillPursues DEF Pursued
<1>7. ASSUME NEW j \in Slots, QueueNextDay(j) PROVE Pursued'
  <2> DEFINE jobs == [job EXCEPT ![j].st = "finish"]
  <2>1. PICK s \in Slots : job' = AddedTo(jobs, s, job[j].date + 1)
    BY <1>7 DEF QueueNextDay
  <2>2. [job[j] EXCEPT !.st = "finish"] \in Job /\ job[j].date + 1 \in Nat
    BY <1>t DEF Job
  <2>3. jobs \in [Slots -> Job]
    BY <1>t, <2>2 DEF TypeOK
  <2> HIDE DEF jobs
  <2> QED
    BY <2>1, <2>2, <2>3, AddedPursues DEF Pursued
<1>8. ASSUME NEW j \in Slots, Finish(j) PROVE Pursued'
  <2>1. /\ job[j].st = "finish" /\ UpdateJob(j, Free)
        /\ UNCHANGED <<chain, row, req, lost>>
    BY <1>8 DEF Finish
  <2>2. Synced' = Synced /\ (Uploading' <=> Uploading)
    BY <2>1 DEF Synced, Uploading
  <2>3. ~Pursuing' => ~Pursuing
    BY <1>t, <2>1, OthersPursue
  <2> QED
    BY <2>1, <2>2, <2>3 DEF Pursued
<1>9. ASSUME NEW j \in Slots, Fail(j) PROVE Pursued'
  <2>1. CASE job[j].failed + 1 < MaxAttempts
    <3>1. UpdateJob(j, Queued(job[j].date, job[j].failed + 1))
      BY <1>9, <2>1 DEF Fail
    <3> QED
      BY <1>t, <3>1, StillPursues DEF Pursued, Queued
  <2>2. CASE ~(job[j].failed + 1 < MaxAttempts)
    BY <1>9, <2>2 DEF Fail, Pursued
  <2> QED
    BY <2>1, <2>2
<1> QED
  BY <1>1, <1>2, <1>3, <1>4, <1>5, <1>6, <1>7, <1>8, <1>9 DEF Next

\* When every upload has been answered, no job is left and none was given up,
\* every day before the head's has its row, for any number of uploads and chains
\* of jobs, and wherever they fail (blocks-transactions-loader.ts 120-125,
\* blocks-daily.jobs.controller.ts 30-46).
THEOREM QuietIsCaughtUpHolds == Spec => []QuietIsCaughtUp
<1>1. Init => Pursued
  BY DEF Init, Pursued, HeadIsPast
<1>2. CountInv /\ Pursued /\ [Next]_vars => Pursued'
  <2>1. CountInv /\ Pursued /\ UNCHANGED vars => Pursued'
    BY DEF vars, Pursued, Uploading, Pursuing, Synced
  <2> QED
    BY <2>1, NextPursued
<1>3. Pursued => QuietIsCaughtUp
  BY DEF Pursued, Uploading, Pursuing, QuietIsCaughtUp
<1> QED
  BY <1>1, <1>2, <1>3, CountInvariance, PTL DEF Spec

=============================================================================
