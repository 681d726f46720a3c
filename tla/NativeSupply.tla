---------------------------- MODULE NativeSupply ----------------------------
(***************************************************************************)
(* The supply of the native asset.  GET /supply computes it from the head; *)
(* the row of the asset is refreshed by REFRESH_NATIVE_ASSET_SUPPLY jobs,  *)
(* which each upload adds after its commit under one job key.  To add a    *)
(* job, an API process first makes its worker utilities, once.             *)
(***************************************************************************)
EXTENDS Integers, FiniteSets

CONSTANTS Processes,    \* the API processes of the cluster
          Workers,      \* jobs run at once
          Heads,        \* sequences the head of the chain may have
          Month, Year,  \* IRON_FISH_MONTH_IN_BLOCKS, IRON_FISH_YEAR_IN_BLOCKS
          Iron,         \* an IRON, in the units supplies are counted in
          YearReward,   \* miningReward in each year, rounded to an eighth of an IRON
          Attempts,     \* max_attempts of a job
          MaxUploads, MaxCuts, MaxBreaks  \* bounds

ASSUME NativeAssumption ==
  /\ Heads \subseteq Nat \ {0}
  /\ {Month, Year, Iron, Attempts} \subseteq Nat \ {0}
  /\ \A h \in Heads : \A n \in 1..h : YearReward[n \div Year] \in Nat
  /\ {MaxUploads, MaxCuts, MaxBreaks} \subseteq Nat

VARIABLES
  head,     \* the sequence of the main chain's head, 0 when there is none
  native,   \* supply of the native asset's row
  upload,   \* what POST /blocks does in each process
  utils,    \* GraphileWorkerService of each process: its workerUtilsPromise
  pending,  \* the job under the key that no worker has taken, and its attempts
  run,      \* what each worker does
  spent,    \* how many uploads, disconnects and breakdowns there were
  stale     \* history: why the row may be wrong, see RefreshedWhenQuiet

nativeVars == <<head, native, upload, utils, pending, run, spent, stale>>

Run == [pc : {"idle", "head", "update"}, read : Nat, tries : Nat,
        keyed : BOOLEAN]  \* the job has not lost its key to a later one

NativeTypeOK ==
  /\ head \in Heads \cup {0}
  /\ native \in Nat
  /\ upload \in [Processes -> {"idle", "queue"}]
  /\ utils \in [Processes -> {"none", "ready", "broken"}]
  /\ pending \in [there : BOOLEAN, tries : 0..Attempts - 1]
  /\ run \in [Workers -> Run]
  /\ \A w \in Workers : run[w].tries <= Attempts
  /\ Cardinality({w \in Workers : run[w].keyed}) + (IF pending.there THEN 1 ELSE 0) <= 1
  /\ spent \in [{"upload", "cut", "break"} -> Nat]
  /\ stale \subseteq {"owed", "cut", "raced", "gaveUp"}

NoJob == [there |-> FALSE, tries |-> 0]
IdleRun == [pc |-> "idle", read |-> 0, tries |-> 0, keyed |-> FALSE]

NativeInit ==
  /\ head = 0
  /\ native = 0
  /\ upload = [p \in Processes |-> "idle"]
  /\ utils = [p \in Processes |-> "none"]
  /\ pending = NoJob
  /\ run = [w \in Workers |-> IdleRun]
  /\ spent = [what \in {"upload", "cut", "break"} |-> 0]
  /\ stale = {}

-----------------------------------------------------------------------------
Genesis == 10000 * 24  \* GENESIS_SUPPLY_IN_IRON, scaled: all shares are whole

MiningReward(sequence) == IF sequence <= 1 THEN 0 ELSE YearReward[sequence \div Year]

MiningRewards[n \in Nat] == IF n = 0 THEN 0 ELSE MiningRewards[n - 1] + MiningReward(n)

\* Mutant: the second year's unlock goes on after its end.
MutUnlocked(sequence) ==
  LET months == sequence \div Month
  IN 2525 * 24 + (IF months >= 12 THEN 7250 * months ELSE 0)
               + (IF months >= 6 THEN 225 * 24 ELSE 0)

\* circulatingSupply: 25.25 % at once, 2.25 % after six months, and 72.5 % over
\* two years, of which nothing in the first.
Unlocked(sequence) ==
  LET months == sequence \div Month
  IN 2525 * 24 + (IF months >= 12 THEN 7250 * (IF months < 24 THEN months ELSE 24) ELSE 0)
               + (IF months >= 6 THEN 225 * 24 ELSE 0)

Total(sequence) == Genesis + MiningRewards[sequence]
Circulating(sequence) == Unlocked(sequence) + MiningRewards[sequence]

-----------------------------------------------------------------------------
Spend(what, bound) ==
  spent[what] < bound /\ spent' = [spent EXCEPT ![what] = @ + 1]

\* An upload's transactions are committed, the head has moved on.
CommitBlocks(p) ==
  /\ upload[p] = "idle"
  /\ Spend("upload", MaxUploads)
  /\ \E h \in Heads : h > head /\ head' = h
  /\ upload' = [upload EXCEPT ![p] = "queue"]
  /\ stale' = stale \cup {"owed"}
  /\ UNCHANGED <<native, utils, pending, run>>

\* disconnectAfter; it adds no job.
CutChain ==
  /\ Spend("cut", MaxCuts)
  /\ \E h \in Heads \cup {0} : h < head /\ head' = h
  /\ stale' = stale \cup {"cut"}
  /\ UNCHANGED <<native, upload, utils, pending, run>>

\* initWorkerUtils, on a process's first addJob.  When makeWorkerUtils rejects,
\* so do this addJob and all later ones, which await the same promise.
InitWorkerUtils(p) ==
  /\ upload[p] = "queue"
  /\ utils[p] = "none"
  /\ \/ utils' = [utils EXCEPT ![p] = "ready"] /\ UNCHANGED <<upload, spent>>
     \/ /\ Spend("break", MaxBreaks)
        /\ utils' = [utils EXCEPT ![p] = "broken"]
        /\ upload' = [upload EXCEPT ![p] = "idle"]
  /\ UNCHANGED <<head, native, pending, run, stale>>

AddJobRejects(p) ==
  /\ upload[p] = "queue"
  /\ utils[p] = "broken" \/ (utils[p] = "ready" /\ spent["break"] < MaxBreaks)
  /\ spent' = IF utils[p] = "broken" THEN spent ELSE [spent EXCEPT !["break"] = @ + 1]
  /\ upload' = [upload EXCEPT ![p] = "idle"]
  /\ UNCHANGED <<head, native, utils, pending, run, stale>>

\* Mutant: a job that is there already, taken or not, is left as it is.
MutAddRefresh(p) ==
  /\ upload[p] = "queue"
  /\ utils[p] = "ready"
  /\ upload' = [upload EXCEPT ![p] = "idle"]
  /\ pending' = IF \E w \in Workers : run[w].keyed THEN pending
                ELSE [there |-> TRUE, tries |-> 0]
  /\ stale' = stale \ {"owed", "cut", "gaveUp"}
  /\ UNCHANGED <<head, native, utils, run, spent>>

\* The job replaces the one under its key; one that a worker has taken loses
\* its key and is not tried again.
AddRefresh(p) ==
  /\ upload[p] = "queue"
  /\ utils[p] = "ready"
  /\ upload' = [upload EXCEPT ![p] = "idle"]
  /\ pending' = [there |-> TRUE, tries |-> 0]
  /\ run' = [w \in Workers |-> [run[w] EXCEPT !.keyed = FALSE]]
  /\ stale' = stale \ {"owed", "cut", "gaveUp"}
  /\ UNCHANGED <<head, native, utils, spent>>

\* A process dies, and the primary forks another.
RestartProcess(p) ==
  /\ Spend("break", MaxBreaks)
  /\ utils' = [utils EXCEPT ![p] = "none"]
  /\ upload' = [upload EXCEPT ![p] = "idle"]
  /\ UNCHANGED <<head, native, pending, run, stale>>

-----------------------------------------------------------------------------
TakeRefresh(w) ==
  /\ run[w].pc = "idle"
  /\ pending.there
  /\ pending' = NoJob
  /\ run' = [run EXCEPT ![w] = [pc |-> "head", read |-> 0, tries |-> pending.tries + 1,
                                keyed |-> TRUE]]
  /\ stale' = IF \E v \in Workers : run[v].pc # "idle" THEN stale \cup {"raced"}
              ELSE stale \ {"raced"}
  /\ UNCHANGED <<head, native, upload, utils, spent>>

\* refreshNativeAssetSupply: the head is read,
ReadHeadSequence(w) ==
  /\ run[w].pc = "head"
  /\ head # 0
  /\ run' = [run EXCEPT ![w].pc = "update", ![w].read = head]
  /\ UNCHANGED <<head, native, upload, utils, pending, spent, stale>>

\* The column is a BigInt: Prisma rejects a total that is not a whole number of
\* IRON, as most are once a year's reward has a fraction.
Refused(w) == run[w].pc = "update" /\ Total(run[w].read) % Iron # 0

\* then the row is written.
UpdateNativeAssetSupply(w) ==
  /\ run[w].pc = "update"
  /\ ~Refused(w)
  /\ native' = Total(run[w].read)
  /\ run' = [run EXCEPT ![w] = IdleRun]
  /\ UNCHANGED <<head, upload, utils, pending, spent, stale>>

\* Mutant: the job gets one attempt more.
MutRefreshFails(w) ==
  /\ run[w].pc # "idle"
  /\ \/ (head = 0 \/ Refused(w)) /\ UNCHANGED spent
     \/ Spend("break", MaxBreaks)
  /\ run' = [run EXCEPT ![w] = IdleRun]
  /\ LET again == run[w].keyed /\ run[w].tries <= Attempts
     IN /\ pending' = IF again THEN [there |-> TRUE, tries |-> run[w].tries] ELSE pending
        /\ stale' = IF run[w].keyed /\ ~again THEN stale \cup {"gaveUp"} ELSE stale
  /\ UNCHANGED <<head, native, upload, utils>>

\* There is no head, the total is refused, a query fails, the worker dies: the
\* job is tried again, unless another has its key or its attempts are used up.
RefreshFails(w) ==
  /\ run[w].pc # "idle"
  /\ \/ (head = 0 \/ Refused(w)) /\ UNCHANGED spent
     \/ Spend("break", MaxBreaks)
  /\ run' = [run EXCEPT ![w] = IdleRun]
  /\ LET again == run[w].keyed /\ run[w].tries < Attempts
     IN /\ pending' = IF again THEN [there |-> TRUE, tries |-> run[w].tries] ELSE pending
        /\ stale' = IF run[w].keyed /\ ~again THEN stale \cup {"gaveUp"} ELSE stale
  /\ UNCHANGED <<head, native, upload, utils>>

NativeNext ==
  \/ \E p \in Processes : \/ CommitBlocks(p) \/ InitWorkerUtils(p) \/ AddJobRejects(p)
                          \/ AddRefresh(p) \/ RestartProcess(p)
  \/ CutChain
  \/ \E w \in Workers : \/ TakeRefresh(w) \/ ReadHeadSequence(w)
                        \/ UpdateNativeAssetSupply(w) \/ RefreshFails(w)

NativeSpec == NativeInit /\ [][NativeNext]_nativeVars

-----------------------------------------------------------------------------
\* With no job waiting or running, the row has the supply of the head, whatever
\* failed, restarted or was added twice in between - unless an upload's addJob
\* was rejected and none has succeeded since, the chain was cut since, two jobs
\* ran at the same time, or the last gave up, as it does when the column refuses
\* the total (blocks-transactions-loader.ts
\* 127-131, assets-loader.ts 136-142).
RefreshedWhenQuiet ==
  ~pending.there /\ (\A w \in Workers : run[w].pc = "idle") /\ stale = {} /\ head # 0
    => native = Total(head)

\* What is unlocked is never more than there is, nor does it become less as the
\* chain grows over the boundaries of the schedule (blocks.service.ts 135-183).
SupplyGrows ==
  head # 0 => /\ Circulating(head) <= Total(head)
              /\ \A h \in Heads : h <= head => Circulating(h) <= Circulating(head)

=============================================================================
