--------------------------- MODULE ServicesProofs ---------------------------
(***************************************************************************)
(* Proofs about the parts of Services: the materialized views that two     *)
(* processes refresh, the answers about bridges, and the batches of        *)
(* telemetry; and, with ReadsProofs and ListsProofs, the types of all.     *)
(***************************************************************************)
EXTENDS Services, ReadsProofs, ListsProofs

\* The native supply.

\* A part of what MiningRewards computes, up to n.
RewardsTo(g, n) ==
  /\ DOMAIN g = 0..n
  /\ g[0] = 0
  /\ \A k \in 1..n : g[k] = g[k - 1] + MiningReward(k)

LEMMA RewardsExist == \A n \in Nat : \E g : RewardsTo(g, n)
<1> DEFINE S == {n \in Nat : \E g : RewardsTo(g, n)}
<1>1. 0 \in S
  <2> DEFINE g == [k \in 0..0 |-> 0]
  <2>1. RewardsTo(g, 0)
    BY DEF RewardsTo
  <2> QED
    BY <2>1
<1>2. ASSUME NEW n \in Nat, n \in S PROVE n + 1 \in S
  <2>1. PICK g : RewardsTo(g, n)
    BY <1>2
  <2> DEFINE h == [k \in 0..n + 1 |-> IF k = n + 1 THEN g[n] + MiningReward(n + 1) ELSE g[k]]
  <2>2. h[0] = 0 /\ DOMAIN h = 0..n + 1
    BY <2>1 DEF RewardsTo
  <2>3. ASSUME NEW k \in 1..n + 1 PROVE h[k] = h[k - 1] + MiningReward(k)
    <3>1. k - 1 \in 0..n /\ h[k - 1] = g[k - 1]
      OBVIOUS
    <3>2. CASE k = n + 1
      BY <3>1, <3>2
    <3>3. CASE k # n + 1
      <4>1. k \in 1..n /\ h[k] = g[k]
        BY <3>3
      <4> HIDE DEF h
      <4> QED
        BY <2>1, <3>1, <4>1 DEF RewardsTo
    <3> QED
      BY <3>2, <3>3
  <2> HIDE DEF h
  <2>4. RewardsTo(h, n + 1)
    BY <2>2, <2>3 DEF RewardsTo
  <2> QED
    BY <2>4
<1> HIDE DEF S
<1>3. Nat \subseteq S
  BY <1>1, <1>2, SetInduction
<1> QED
  BY <1>3 DEF S

LEMMA RewardsAgree ==
  ASSUME NEW n \in Nat, NEW m \in Nat, NEW g, NEW h, RewardsTo(g, n), RewardsTo(h, m)
  PROVE  \A k \in 0..n : k <= m => g[k] = h[k]
<1> DEFINE S == {k \in Nat : k <= n /\ k <= m => g[k] = h[k]}
<1>1. 0 \in S
  BY DEF RewardsTo
<1>2. ASSUME NEW k \in Nat, k \in S PROVE k + 1 \in S
  <2> SUFFICES ASSUME k + 1 <= n, k + 1 <= m PROVE g[k + 1] = h[k + 1]
    OBVIOUS
  <2>1. g[k] = h[k]
    BY <1>2
  <2>2. k + 1 \in 1..n /\ k + 1 \in 1..m /\ (k + 1) - 1 = k
    OBVIOUS
  <2> QED
    BY <2>1, <2>2 DEF RewardsTo
<1> HIDE DEF S
<1>3. Nat \subseteq S
  BY <1>1, <1>2, SetInduction
<1> QED
  BY <1>3 DEF S

\* MiningRewards is the function its definition describes.
LEMMA MiningRewardsEquation ==
  MiningRewards = [n \in Nat |-> IF n = 0 THEN 0 ELSE MiningRewards[n - 1] + MiningReward(n)]
<1> DEFINE part(n) == CHOOSE g : RewardsTo(g, n)
           f == [n \in Nat |-> part(n)[n]]
<1>1. \A n \in Nat : RewardsTo(part(n), n)
  BY RewardsExist
<1> HIDE DEF part
<1>2. f[0] = 0
  BY <1>1 DEF RewardsTo
<1>3. ASSUME NEW n \in Nat, n # 0 PROVE f[n] = f[n - 1] + MiningReward(n)
  <2>1. n - 1 \in Nat /\ n - 1 \in 0..n /\ n \in 1..n
    BY <1>3
  <2>2. part(n)[n] = part(n)[n - 1] + MiningReward(n)
    BY <1>1, <2>1 DEF RewardsTo
  <2>3. part(n)[n - 1] = part(n - 1)[n - 1]
    BY <1>1, <2>1, RewardsAgree
  <2>4. f[n - 1] = part(n - 1)[n - 1] /\ f[n] = part(n)[n]
    BY <2>1
  <2> HIDE DEF f
  <2> QED
    BY <2>2, <2>3, <2>4
<1>4. f = [n \in Nat |-> IF n = 0 THEN 0 ELSE f[n - 1] + MiningReward(n)]
  <2>1. ASSUME NEW n \in Nat
        PROVE  part(n)[n] = IF n = 0 THEN 0 ELSE f[n - 1] + MiningReward(n)
    BY <1>2, <1>3
  <2> QED
    BY <2>1
<1> HIDE DEF f
<1>5. \E g : g = [n \in Nat |-> IF n = 0 THEN 0 ELSE g[n - 1] + MiningReward(n)]
  BY <1>4
<1> QED
  BY <1>5 DEF MiningRewards

\* Up to a sequence the head may have, all rewards are numbers, so that what has
\* been mined is one, and never becomes less.
LEMMA MinedGrows ==
  ASSUME NEW h \in Heads
  PROVE  /\ \A n \in 0..h : MiningRewards[n] \in Nat
         /\ \A n \in 0..h : MiningRewards[n] <= MiningRewards[h]
<1>1. h \in Nat \ {0}
  BY NativeAssumption
<1>2. \A n \in 1..h : MiningReward(n) \in Nat
  <2> SUFFICES ASSUME NEW n \in 1..h PROVE MiningReward(n) \in Nat
    OBVIOUS
  <2>1. YearReward[n \div Year] \in Nat
    BY NativeAssumption
  <2> QED
    BY <2>1 DEF MiningReward
<1>3. \A n \in Nat : MiningRewards[n] = IF n = 0 THEN 0 ELSE MiningRewards[n - 1] + MiningReward(n)
  BY MiningRewardsEquation
<1> DEFINE S == {n \in Nat : n <= h => \A m \in 0..n : /\ MiningRewards[m] \in Nat
                                                      /\ MiningRewards[m] <= MiningRewards[n]}
<1>4. 0 \in S
  <2>1. MiningRewards[0] = 0
    BY <1>3
  <2> QED
    BY <2>1
<1>5. ASSUME NEW n \in Nat, n \in S PROVE n + 1 \in S
  <2> SUFFICES ASSUME n + 1 <= h
               PROVE  \A m \in 0..n + 1 : /\ MiningRewards[m] \in Nat
                                           /\ MiningRewards[m] <= MiningRewards[n + 1]
    OBVIOUS
  <2>1. /\ MiningRewards[n] \in Nat
        /\ \A m \in 0..n : MiningRewards[m] \in Nat /\ MiningRewards[m] <= MiningRewards[n]
    BY <1>1, <1>5
  <2>2. MiningRewards[n + 1] = MiningRewards[n] + MiningReward(n + 1)
    BY <1>3
  <2>3. MiningReward(n + 1) \in Nat
    BY <1>1, <1>2
  <2>4. MiningRewards[n + 1] \in Nat /\ MiningRewards[n] <= MiningRewards[n + 1]
    BY <2>1, <2>2, <2>3
  <2> TAKE m \in 0..n + 1
  <2>5. m = n + 1 \/ m \in 0..n
    OBVIOUS
  <2> QED
    BY <2>1, <2>4, <2>5
<1> HIDE DEF S
<1>6. Nat \subseteq S
  BY <1>4, <1>5, SetInduction
<1>7. \A n \in 0..h : MiningRewards[n] \in Nat
  BY <1>1, <1>6 DEF S
<1>8. \A n \in 0..h : MiningRewards[n] <= MiningRewards[h]
  BY <1>1, <1>6 DEF S
<1> QED
  BY <1>7, <1>8

LEMMA DivGrows ==
  ASSUME NEW a \in Nat, NEW b \in Nat, a <= b, NEW m \in Nat \ {0}
  PROVE  a \div m \in Nat /\ b \div m \in Nat /\ a \div m <= b \div m
<1> DEFINE p == a \div m
           q == b \div m
<1>1. p \in Int /\ q \in Int
  OBVIOUS
<1>2. m * p <= a /\ a < m * p + m
  OBVIOUS
<1>3. m * q <= b /\ b < m * q + m
  OBVIOUS
<1> HIDE DEF p, q
<1>4. p >= 0 /\ q >= 0
  BY <1>1, <1>2, <1>3
<1>5. p <= q
  <2> SUFFICES ASSUME p >= q + 1 PROVE FALSE
    BY <1>1
  <2>1. m * p >= m * (q + 1)
    BY <1>1
  <2>2. m * (q + 1) = m * q + m
    BY <1>1
  <2> QED
    BY <1>1, <1>2, <1>3, <2>1, <2>2
<1> QED
  BY <1>1, <1>4, <1>5 DEF p, q

\* The schedule unlocks more and more, up to all there was in the beginning.
LEMMA UnlockedGrows ==
  ASSUME NEW a \in Nat, NEW b \in Nat, a <= b
  PROVE  /\ Unlocked(a) \in Nat /\ Unlocked(b) \in Nat
         /\ Unlocked(a) <= Unlocked(b) /\ Unlocked(b) <= Genesis
<1>1. Month \in Nat \ {0}
  BY NativeAssumption
<1> DEFINE p == a \div Month
           q == b \div Month
<1>2. p \in Nat /\ q \in Nat /\ p <= q
  BY <1>1, DivGrows
<1>3. /\ Unlocked(a) = 2525 * 24 + (IF p >= 12 THEN 7250 * (IF p < 24 THEN p ELSE 24) ELSE 0)
                                 + (IF p >= 6 THEN 225 * 24 ELSE 0)
      /\ Unlocked(b) = 2525 * 24 + (IF q >= 12 THEN 7250 * (IF q < 24 THEN q ELSE 24) ELSE 0)
                                 + (IF q >= 6 THEN 225 * 24 ELSE 0)
  BY DEF Unlocked
<1> HIDE DEF p, q
<1> QED
  BY <1>2, <1>3 DEF Genesis

-----------------------------------------------------------------------------
Busy(w) == run[w].pc # "idle"

\* At most one run holds the job's key, and none if the job is waiting.
OneKey ==
  /\ \A v, w \in Workers : run[v].keyed /\ run[w].keyed => v = w
  /\ \A w \in Workers : run[w].keyed => ~pending.there /\ Busy(w)

\* Where a run is, what it has read, and how often it may still be tried.
Runs ==
  /\ run \in [Workers -> Run]
  /\ \A w \in Workers : /\ run[w].tries <= Attempts
                        /\ run[w].pc = "update" => run[w].read \in Heads

\* Runs overlap only as long as "raced" says so.
Alone == "raced" \notin stale => \A v, w \in Workers : Busy(v) /\ Busy(w) => v = w

\* If nothing excuses it, the row is that of the head, or will be, by a job that
\* waits or one that runs and has read no older head.
Refreshing ==
  stale = {} /\ head # 0 =>
    \/ pending.there
    \/ \E w \in Workers : run[w].keyed /\ (run[w].pc = "update" => run[w].read = head)
    \/ native = Total(head) /\ \A w \in Workers : ~Busy(w)

NativeInv ==
  /\ head \in Heads \cup {0}
  /\ native \in Nat
  /\ upload \in [Processes -> {"idle", "queue"}]
  /\ utils \in [Processes -> {"none", "ready", "broken"}]
  /\ pending \in [there : BOOLEAN, tries : 0..Attempts - 1]
  /\ spent \in [{"upload", "cut", "break"} -> Nat]
  /\ stale \subseteq {"owed", "cut", "raced", "gaveUp"}
  /\ Runs
  /\ OneKey
  /\ Alone
  /\ Refreshing

LEMMA NativeInitHolds == NativeInit => NativeInv
<1> SUFFICES ASSUME NativeInit PROVE NativeInv
  OBVIOUS
<1> USE NativeAssumption DEF NativeInit, NoJob, IdleRun
<1>1. pending \in [there : BOOLEAN, tries : 0..Attempts - 1]
  OBVIOUS
<1>2. Runs
  BY DEF Runs, Run
<1>3. OneKey /\ Alone /\ Refreshing
  BY DEF OneKey, Alone, Refreshing, Busy
<1> QED
  BY <1>1, <1>2, <1>3 DEF NativeInv

\* What a process does leaves the worker's runs alone.
LEMMA ProcessKeeps ==
  ASSUME NativeInv, NEW p \in Processes,
         CommitBlocks(p) \/ InitWorkerUtils(p) \/ AddJobRejects(p) \/ RestartProcess(p)
  PROVE  NativeInv'
<1> USE DEF Spend
<1>1. /\ upload' \in [Processes -> {"idle", "queue"}]
      /\ utils' \in [Processes -> {"none", "ready", "broken"}]
  BY DEF NativeInv, CommitBlocks, InitWorkerUtils, AddJobRejects, RestartProcess
<1>2. spent' \in [{"upload", "cut", "break"} -> Nat]
  BY DEF NativeInv, CommitBlocks, InitWorkerUtils, AddJobRejects, RestartProcess
<1>3. UNCHANGED <<native, pending, run>>
  BY DEF CommitBlocks, InitWorkerUtils, AddJobRejects, RestartProcess
<1>4. \/ head' \in Heads /\ stale' = stale \cup {"owed"}
      \/ UNCHANGED <<head, stale>>
  BY DEF CommitBlocks, InitWorkerUtils, AddJobRejects, RestartProcess
<1>5. Runs' /\ OneKey' /\ Alone'
  BY <1>3, <1>4 DEF NativeInv, Runs, OneKey, Alone, Busy
<1>6. Refreshing'
  BY <1>3, <1>4 DEF NativeInv, Refreshing, Busy
<1> QED
  BY <1>1, <1>2, <1>3, <1>4, <1>5, <1>6 DEF NativeInv

LEMMA CutChainKeeps ==
  ASSUME NativeInv, CutChain
  PROVE  NativeInv'
<1>1. /\ spent' \in [{"upload", "cut", "break"} -> Nat]
      /\ head' \in Heads \cup {0} /\ stale' = stale \cup {"cut"}
      /\ UNCHANGED <<native, upload, utils, pending, run>>
  BY DEF NativeInv, CutChain, Spend
<1>2. Runs' /\ OneKey' /\ Alone' /\ Refreshing'
  BY <1>1 DEF NativeInv, Runs, OneKey, Alone, Refreshing, Busy
<1> QED
  BY <1>1, <1>2 DEF NativeInv

\* The job is added: it is waiting, and no run has its key.
LEMMA AddRefreshKeeps ==
  ASSUME NativeInv, NEW p \in Processes, AddRefresh(p)
  PROVE  NativeInv'
<1>1. /\ pending' = [there |-> TRUE, tries |-> 0]
      /\ run' = [w \in Workers |-> [run[w] EXCEPT !.keyed = FALSE]]
      /\ stale' = stale \ {"owed", "cut", "gaveUp"}
      /\ upload' = [upload EXCEPT ![p] = "idle"]
      /\ UNCHANGED <<head, native, utils, spent>>
  BY DEF AddRefresh
<1>2. \A w \in Workers : /\ run'[w] \in Run /\ run'[w].pc = run[w].pc /\ ~run'[w].keyed
                         /\ run'[w].read = run[w].read /\ run'[w].tries = run[w].tries
  <2>1. \A w \in Workers : run[w] \in Run /\ run'[w] = [run[w] EXCEPT !.keyed = FALSE]
    BY <1>1 DEF NativeInv, Runs
  <2> QED
    BY <2>1 DEF Run
<1>3. Runs'
  <2>1. run' \in [Workers -> Run]
    <3>1. DOMAIN run' = Workers /\ run' = [w \in Workers |-> run'[w]]
      BY <1>1
    <3> QED
      BY <1>2, <3>1
  <2> QED
    BY <1>2, <2>1 DEF NativeInv, Runs
<1>4. OneKey'
  BY <1>2 DEF OneKey
<1>7. Alone'
  <2>1. "raced" \in stale' <=> "raced" \in stale
    BY <1>1
  <2>2. \A w \in Workers : Busy(w)' <=> Busy(w)
    BY <1>2 DEF Busy
  <2> QED
    BY <2>1, <2>2 DEF NativeInv, Alone
<1>5. pending' \in [there : BOOLEAN, tries : 0..Attempts - 1] /\ pending'.there
  BY <1>1, NativeAssumption
<1>6. Refreshing'
  BY <1>5 DEF Refreshing
<1> QED
  BY <1>1, <1>3, <1>4, <1>5, <1>6, <1>7 DEF NativeInv

\* A worker takes it, and has its key.
LEMMA TakeRefreshKeeps ==
  ASSUME NativeInv, NEW w \in Workers, TakeRefresh(w)
  PROVE  NativeInv'
<1> DEFINE taken == [pc |-> "head", read |-> 0, tries |-> pending.tries + 1, keyed |-> TRUE]
<1>1. /\ run[w].pc = "idle" /\ pending.there
      /\ pending' = NoJob
      /\ run' = [run EXCEPT ![w] = taken]
      /\ stale' = IF \E v \in Workers : Busy(v) THEN stale \cup {"raced"} ELSE stale \ {"raced"}
      /\ UNCHANGED <<head, native, upload, utils, spent>>
  BY DEF TakeRefresh, Busy
<1>2. pending' \in [there : BOOLEAN, tries : 0..Attempts - 1] /\ ~pending'.there
  BY <1>1, NativeAssumption DEF NoJob
<1>3. taken \in Run /\ taken.tries <= Attempts /\ taken.pc = "head" /\ taken.keyed
  <2>1. pending.tries \in 0..Attempts - 1 /\ Attempts \in Nat
    BY NativeAssumption DEF NativeInv
  <2> QED
    BY <2>1 DEF Run
<1> HIDE DEF taken
<1>4. run'[w] = taken /\ \A v \in Workers \ {w} : run'[v] = run[v]
  BY <1>1 DEF NativeInv, Runs
<1>5. Runs'
  <2>1. run' \in [Workers -> Run]
    BY <1>1, <1>3 DEF NativeInv, Runs
  <2>2. \A v \in Workers : run'[v].tries <= Attempts /\ (run'[v].pc = "update" => run'[v].read \in Heads)
    BY <1>3, <1>4 DEF NativeInv, Runs
  <2> QED
    BY <2>1, <2>2 DEF Runs
<1>6. OneKey'
  <2>1. \A v \in Workers : ~run[v].keyed
    BY <1>1 DEF NativeInv, OneKey
  <2>2. \A v \in Workers : run'[v].keyed => v = w
    BY <1>4, <2>1
  <2> QED
    BY <1>2, <1>3, <1>4, <2>2 DEF OneKey, Busy
<1>7. Alone'
  BY <1>1, <1>4 DEF Alone, Busy
<1>8. Refreshing'
  BY <1>3, <1>4 DEF Refreshing
<1> QED
  BY <1>1, <1>2, <1>5, <1>6, <1>7, <1>8 DEF NativeInv

\* It reads the head,
LEMMA ReadHeadSequenceKeeps ==
  ASSUME NativeInv, NEW w \in Workers, ReadHeadSequence(w)
  PROVE  NativeInv'
<1> DEFINE reading == [run[w] EXCEPT !.pc = "update", !.read = head]
<1>1. /\ run[w].pc = "head" /\ head # 0
      /\ run' = [run EXCEPT ![w] = reading]
      /\ UNCHANGED <<head, native, upload, utils, pending, spent, stale>>
  BY DEF ReadHeadSequence, NativeInv, Runs
<1>2. /\ reading \in Run /\ reading.pc = "update" /\ reading.read = head /\ head \in Heads
      /\ reading.tries = run[w].tries /\ reading.keyed = run[w].keyed
  <2>1. run[w] \in Run /\ head \in Heads
    BY <1>1 DEF NativeInv, Runs
  <2>2. head \in Nat
    BY <2>1, NativeAssumption
  <2> QED
    BY <2>1, <2>2 DEF Run
<1> HIDE DEF reading
<1>3. run'[w] = reading /\ \A v \in Workers \ {w} : run'[v] = run[v]
  BY <1>1 DEF NativeInv, Runs
<1>4. Runs'
  <2>1. run' \in [Workers -> Run]
    BY <1>1, <1>2 DEF NativeInv, Runs
  <2>2. \A v \in Workers : run'[v].tries <= Attempts /\ (run'[v].pc = "update" => run'[v].read \in Heads)
    BY <1>2, <1>3 DEF NativeInv, Runs
  <2> QED
    BY <2>1, <2>2 DEF Runs
<1>5. \A v \in Workers : run'[v].keyed = run[v].keyed /\ (Busy(v)' <=> Busy(v))
  BY <1>1, <1>2, <1>3 DEF Busy
<1>6. OneKey' /\ Alone'
  BY <1>1, <1>5 DEF NativeInv, OneKey, Alone
<1>7. Refreshing'
  <2> SUFFICES ASSUME stale = {}, ~pending.there
               PROVE  \E v \in Workers : run'[v].keyed /\ (run'[v].pc = "update" => run'[v].read = head)
    BY <1>1 DEF Refreshing
  <2>1. PICK v \in Workers : run[v].keyed /\ (run[v].pc = "update" => run[v].read = head)
    BY <1>1 DEF NativeInv, Refreshing, Busy
  <2>2. v = w
    BY <1>1, <2>1 DEF NativeInv, OneKey, Alone, Busy
  <2> QED
    BY <1>2, <1>3, <2>1, <2>2
<1> QED
  BY <1>1, <1>4, <1>6, <1>7 DEF NativeInv

\* A run ends.
LEMMA EndOfRun ==
  ASSUME NativeInv, NEW w \in Workers, run' = [run EXCEPT ![w] = IdleRun],
         stale \subseteq stale',
         \/ pending' = pending
         \/ run[w].keyed /\ pending' = [there |-> TRUE, tries |-> run[w].tries]
  PROVE  Runs' /\ OneKey' /\ Alone' /\ \A v \in Workers : Busy(v)' <=> Busy(v) /\ v # w
<1>1. /\ IdleRun \in Run /\ IdleRun.pc = "idle" /\ ~IdleRun.keyed /\ IdleRun.tries = 0
  BY DEF IdleRun, Run
<1>2. run'[w] = IdleRun /\ \A v \in Workers \ {w} : run'[v] = run[v]
  BY DEF NativeInv, Runs
<1>3. Runs'
  <2>1. run' \in [Workers -> Run]
    BY <1>1 DEF NativeInv, Runs
  <2>2. \A v \in Workers : run'[v].tries <= Attempts /\ (run'[v].pc = "update" => run'[v].read \in Heads)
    BY <1>1, <1>2, NativeAssumption DEF NativeInv, Runs
  <2> QED
    BY <2>1, <2>2 DEF Runs
<1>4. \A v \in Workers : /\ run'[v].keyed => run[v].keyed /\ v # w
                         /\ Busy(v)' <=> Busy(v) /\ v # w
  BY <1>1, <1>2 DEF Busy
<1>5. OneKey'
  <2>1. \A u, v \in Workers : run'[u].keyed /\ run'[v].keyed => u = v
    BY <1>4 DEF NativeInv, OneKey
  <2>2. \A v \in Workers : run'[v].keyed => ~pending'.there /\ Busy(v)'
    BY <1>4 DEF NativeInv, OneKey
  <2> QED
    BY <2>1, <2>2 DEF OneKey
<1>6. Alone'
  BY <1>4 DEF NativeInv, Alone
<1> QED
  BY <1>3, <1>4, <1>5, <1>6

\* and writes the row.
LEMMA UpdateNativeKeeps ==
  ASSUME NativeInv, NEW w \in Workers, UpdateNativeAssetSupply(w)
  PROVE  NativeInv'
<1>1. /\ run[w].pc = "update" /\ native' = Total(run[w].read)
      /\ run' = [run EXCEPT ![w] = IdleRun]
      /\ UNCHANGED <<head, upload, utils, pending, spent, stale>>
  BY DEF UpdateNativeAssetSupply
<1>2. Runs' /\ OneKey' /\ Alone' /\ \A v \in Workers : Busy(v)' <=> Busy(v) /\ v # w
  BY <1>1, EndOfRun
<1>3. native' \in Nat
  <2>1. run[w].read \in Heads
    BY <1>1 DEF NativeInv, Runs
  <2>2. ASSUME NEW h \in Heads PROVE MiningRewards[h] \in Nat
    <3>1. h \in 0..h
      BY NativeAssumption
    <3> QED
      BY <3>1, MinedGrows
  <2> QED
    BY <1>1, <2>1, <2>2 DEF Total, Genesis
<1>4. Refreshing'
  <2> SUFFICES ASSUME stale = {}, head # 0, ~pending.there
               PROVE  native' = Total(head) /\ \A v \in Workers : ~Busy(v)'
    BY <1>1 DEF Refreshing
  <2>1. Busy(w) /\ \A v \in Workers : Busy(v) => v = w
    BY <1>1 DEF NativeInv, Alone, Busy
  <2>2. PICK v \in Workers : run[v].keyed /\ (run[v].pc = "update" => run[v].read = head)
    BY <2>1 DEF NativeInv, Refreshing
  <2>3. v = w
    BY <2>1, <2>2 DEF NativeInv, OneKey
  <2> QED
    BY <1>1, <1>2, <2>1, <2>2, <2>3
<1> QED
  BY <1>1, <1>2, <1>3, <1>4 DEF NativeInv

\* Or it fails, and waits again if it has the key and an attempt left.
LEMMA RefreshFailsKeeps ==
  ASSUME NativeInv, NEW w \in Workers, RefreshFails(w)
  PROVE  NativeInv'
<1> DEFINE again == run[w].keyed /\ run[w].tries < Attempts
<1>1. /\ run[w].pc # "idle"
      /\ spent' = spent \/ spent' = [spent EXCEPT !["break"] = spent["break"] + 1]
      /\ run' = [run EXCEPT ![w] = IdleRun]
      /\ pending' = IF again THEN [there |-> TRUE, tries |-> run[w].tries] ELSE pending
      /\ stale' = IF run[w].keyed /\ ~again THEN stale \cup {"gaveUp"} ELSE stale
      /\ UNCHANGED <<head, native, upload, utils>>
  BY DEF RefreshFails, Spend
<1>2. Runs' /\ OneKey' /\ Alone' /\ \A v \in Workers : Busy(v)' <=> Busy(v) /\ v # w
  BY <1>1, EndOfRun
<1>3. pending' \in [there : BOOLEAN, tries : 0..Attempts - 1]
  <2>1. run[w].tries \in Nat /\ Attempts \in Nat
    BY NativeAssumption DEF NativeInv, Runs, Run
  <2> QED
    BY <1>1, <2>1 DEF NativeInv
<1>4. spent' \in [{"upload", "cut", "break"} -> Nat] /\ stale' \subseteq {"owed", "cut", "raced", "gaveUp"}
  BY <1>1 DEF NativeInv
<1>5. Refreshing'
  <2> SUFFICES ASSUME stale' = {}, head # 0 PROVE pending'.there
    BY <1>1 DEF Refreshing
  <2>1. stale = {}
    BY <1>1
  <2>2. CASE pending.there
    BY <1>1, <2>2
  <2>3. CASE ~pending.there
    <3>1. Busy(w) /\ \A v \in Workers : Busy(v) => v = w
      BY <1>1, <2>1 DEF NativeInv, Alone, Busy
    <3>2. PICK v \in Workers : run[v].keyed
      BY <2>1, <2>3, <3>1 DEF NativeInv, Refreshing
    <3>3. v = w
      BY <3>1, <3>2 DEF NativeInv, OneKey
    <3>4. again
      BY <1>1, <3>2, <3>3
    <3> QED
      BY <1>1, <3>4
  <2> QED
    BY <2>2, <2>3
<1> QED
  BY <1>1, <1>2, <1>3, <1>4, <1>5 DEF NativeInv

LEMMA NativeKeeps ==
  ASSUME NativeInv, [NativeNext]_nativeVars
  PROVE  NativeInv'
<1>1. CASE UNCHANGED nativeVars
  BY <1>1 DEF nativeVars, NativeInv, Runs, OneKey, Alone, Refreshing, Busy
<1>2. CASE NativeNext
  BY <1>2, ProcessKeeps, CutChainKeeps, AddRefreshKeeps, TakeRefreshKeeps, ReadHeadSequenceKeeps,
     UpdateNativeKeeps, RefreshFailsKeeps DEF NativeNext
<1> QED
  BY <1>1, <1>2

-----------------------------------------------------------------------------
\* With no job waiting or running, the row has the supply of the head, for any
\* number of processes, workers and attempts - unless one of the four excuses
\* holds (blocks-transactions-loader.ts 127-131, assets-loader.ts 136-142).
THEOREM QuietMeansRefreshed == NativeSpec => []RefreshedWhenQuiet
<1>1. NativeInv => RefreshedWhenQuiet
  <2> SUFFICES ASSUME NativeInv, ~pending.there, \A w \in Workers : run[w].pc = "idle",
                      stale = {}, head # 0
               PROVE  native = Total(head)
    BY DEF RefreshedWhenQuiet
  <2>1. \A w \in Workers : ~run[w].keyed
    BY DEF NativeInv, OneKey, Busy
  <2> QED
    BY <2>1 DEF NativeInv, Refreshing
<1> QED
  BY <1>1, NativeInitHolds, NativeKeeps, PTL DEF NativeSpec

\* Whatever the rewards and the lengths of months and years are, what is
\* unlocked is never more than there is, nor does it become less as the chain
\* grows (blocks.service.ts 135-183).
THEOREM SupplyOnlyGrows == NativeSpec => []SupplyGrows
<1>1. NativeInv => SupplyGrows
  <2> SUFFICES ASSUME NativeInv, head # 0
               PROVE  /\ Circulating(head) <= Total(head)
                      /\ \A h \in Heads : h <= head => Circulating(h) <= Circulating(head)
    BY DEF SupplyGrows
  <2>1. head \in Heads /\ head \in Nat
    BY NativeAssumption DEF NativeInv
  <2>2. MiningRewards[head] \in Nat
    BY <2>1, MinedGrows
  <2>3. Circulating(head) <= Total(head)
    <3>1. Unlocked(head) \in Nat /\ Unlocked(head) <= Genesis
      BY <2>1, UnlockedGrows
    <3> QED
      BY <2>2, <3>1 DEF Circulating, Total, Genesis
  <2>4. ASSUME NEW h \in Heads, h <= head PROVE Circulating(h) <= Circulating(head)
    <3>1. h \in Nat /\ h \in 0..head
      BY <2>1, <2>4, NativeAssumption
    <3>2. MiningRewards[h] \in Nat /\ MiningRewards[h] <= MiningRewards[head]
      BY <2>1, <3>1, MinedGrows
    <3>3. /\ Unlocked(h) \in Nat /\ Unlocked(head) \in Nat
          /\ Unlocked(h) <= Unlocked(head)
      BY <2>1, <2>4, <3>1, UnlockedGrows
    <3> QED
      BY <2>2, <3>2, <3>3 DEF Circulating
  <2> QED
    BY <2>3, <2>4
<1> QED
  BY <1>1, NativeInitHolds, NativeKeeps, PTL DEF NativeSpec

LEMMA NativeHasType ==
  ASSUME NativeInv
  PROVE  NativeTypeOK
<1> DEFINE K == {w \in Workers : run[w].keyed}
<1>1. Cardinality(K) + (IF pending.there THEN 1 ELSE 0) <= 1
  <2>1. CASE K = {}
    <3>1. Cardinality(K) = 0
      BY <2>1, FS_EmptySet
    <3> QED
      BY <3>1
  <2>2. ASSUME NEW w \in K PROVE Cardinality(K) + (IF pending.there THEN 1 ELSE 0) <= 1
    <3>1. K = {w} /\ ~pending.there
      BY DEF NativeInv, OneKey
    <3>2. Cardinality(K) = 1
      BY <3>1, FS_Singleton
    <3> QED
      BY <3>1, <3>2
  <2> QED
    BY <2>1, <2>2
<1> QED
  BY <1>1 DEF NativeInv, Runs, NativeTypeOK

-----------------------------------------------------------------------------
\* Bridges.

\* Which request makes which calls, and that it has no answer before its end.
Staged ==
  /\ bridge.pc = "meta" => bridge.kind \in {"networks", "paths"}
  /\ bridge.pc = "list" => bridge.kind \in {"tokens", "paths"}
  /\ bridge.pc = "list" /\ bridge.kind = "paths" => version = 1
  /\ bridge.pc = "paths" => bridge.kind = "paths" /\ version = 2
  /\ bridge.pc = "outputs" => bridge.kind \in {"create", "port"}
  /\ bridge.pc = "verify" => bridge.kind = "tokens"
  /\ bridge.pc # "done" => bridge.status = 0
  /\ bridge.pc \notin {"verify", "done"} => bridge.tokens = {}

\* What was verified all the time is so now, and what is so now was at some
\* time.
Watched == bridge.pc # "idle" => bridge.always \subseteq Verified /\ Verified \subseteq bridge.ever

\* What is offered was verified when it was looked up; what has been verified
\* throughout is offered or still to be looked up.
Offered ==
  bridge.pc = "verify" \/ (bridge.kind = "tokens" /\ bridge.status = 200) =>
    /\ bridge.left \subseteq bridge.listed
    /\ bridge.tokens \subseteq bridge.listed \cap bridge.ever
    /\ bridge.listed \cap bridge.always \subseteq bridge.tokens \cup bridge.left
    /\ bridge.pc = "done" => bridge.left = {}

\* What "sound" promises of the answer to GET /meta.
MetaSound ==
  bridge.pc \in {"list", "paths"} /\ bridge.kind = "paths" /\ bridge.sound =>
    ~bridge.noMap /\ \A n \in Networks : bridge.meta[n] # "bad"

\* Bridge, with names for the sets its fields are from.
BridgePcs == {"idle", "meta", "list", "paths", "outputs", "verify", "done"}
BridgeStatuses == {0, 200, 404, 422, 500, 502}
TokenSets == SUBSET Tokens
NetworkSets == SUBSET Networks
Answers == [Networks -> Entries]

Shape ==
  [pc : BridgePcs, kind : BridgeKinds, withTokens : BOOLEAN, meta : Answers, noMap : BOOLEAN,
   left : TokenSets, tokens : TokenSets, networks : NetworkSets, status : BridgeStatuses,
   sound : BOOLEAN, listed : TokenSets, targets : Answers, ever : TokenSets, always : TokenSets]

LEMMA BridgeHasShape == Bridge = Shape
  BY DEF Bridge, Shape, BridgePcs, BridgeStatuses, TokenSets, NetworkSets, Answers

BridgesInv ==
  /\ BridgesTypeOK
  /\ Staged
  /\ Watched
  /\ Offered
  /\ MetaSound
  /\ SoundIsServed

LEMMA BridgesInitHolds == BridgesInit => BridgesInv
<1> SUFFICES ASSUME BridgesInit PROVE BridgesInv
  OBVIOUS
<1> USE DEF BridgesInit, NoBridge
<1>1. BridgesTypeOK
  <2>1. Nowhere \in [Networks -> Entries]
    BY DEF Nowhere, Entries
  <2>2. NoBridge \in Bridge
    BY <2>1 DEF Bridge, BridgeKinds
  <2> QED
    BY <2>2, BridgesAssumption DEF BridgesTypeOK
<1> QED
  BY <1>1 DEF BridgesInv, Staged, Watched, Offered, MetaSound, SoundIsServed

\* A request that goes on without an answer, and without changing what it
\* watches, only has to be where it should be.
LEMMA AskBridgeKeeps ==
  ASSUME BridgesInv, AskBridge
  PROVE  BridgesInv'
<1>1. PICK kind \in BridgeKinds, withTokens \in BOOLEAN :
        /\ withTokens => kind = "paths"
        /\ bridge' = [bridge EXCEPT
             !.kind = kind, !.withTokens = withTokens,
             !.ever = Verified, !.always = Verified,
             !.pc = CASE kind = "tokens" -> "list"
                      [] kind \in {"networks", "paths"} -> "meta"
                      [] OTHER -> "outputs"]
  BY DEF AskBridge, Proceed
<1>2. bridge.pc = "idle" /\ UNCHANGED <<version, asset, reposts>>
  BY DEF AskBridge, Proceed
<1> DEFINE pc == CASE kind = "tokens" -> "list"
                   [] kind \in {"networks", "paths"} -> "meta"
                   [] OTHER -> "outputs"
<1>3. /\ pc \in {"list", "meta", "outputs"}
      /\ pc = "list" => kind = "tokens"
      /\ pc = "meta" => kind \in {"networks", "paths"}
      /\ pc = "outputs" => kind \in {"create", "port"}
  BY DEF BridgeKinds
<1> HIDE DEF pc
<1>4. bridge \in Bridge
  BY DEF BridgesInv, BridgesTypeOK
<1>5. bridge' = [bridge EXCEPT !.kind = kind, !.withTokens = withTokens, !.ever = Verified,
                               !.always = Verified, !.pc = pc]
  BY <1>1 DEF pc
<1>6. /\ bridge'.pc = pc /\ bridge'.kind = kind /\ bridge'.ever = Verified
      /\ bridge'.always = Verified /\ bridge'.status = bridge.status
      /\ bridge'.tokens = bridge.tokens
  BY <1>4, <1>5 DEF Bridge
<1>7. bridge' \in Bridge
  <2>1. Verified \in TokenSets /\ pc \in BridgePcs
    BY <1>3 DEF TokenSets, Verified, BridgePcs
  <2> QED
    BY <1>4, <1>5, <2>1, BridgeHasShape DEF Shape
<1>8. BridgesTypeOK'
  BY <1>2, <1>7 DEF BridgesInv, BridgesTypeOK
<1>9. Staged'
  BY <1>2, <1>3, <1>6 DEF BridgesInv, Staged
<1>10. Watched'
  BY <1>2, <1>6 DEF Watched, Verified
<1>11. Offered'
  <2>1. bridge'.status = 0
    BY <1>2, <1>6 DEF BridgesInv, Staged
  <2> QED
    BY <1>3, <1>6, <2>1 DEF Offered
<1>12. MetaSound'
  BY <1>3, <1>6 DEF MetaSound
<1>13. SoundIsServed'
  BY <1>3, <1>6 DEF SoundIsServed
<1> QED
  BY <1>8, <1>9, <1>10, <1>11, <1>12, <1>13 DEF BridgesInv

\* What else there is to know of a new bridge, when the request ends with an
\* answer that no one has looked at a token for.
LEMMA EndKeeps ==
  ASSUME BridgesInv, bridge.pc \notin {"idle", "done"},
         UNCHANGED <<version, asset, reposts>>,
         bridge' \in Bridge, bridge'.pc = "done", bridge'.kind = bridge.kind,
         bridge'.always = bridge.always, bridge'.ever = bridge.ever,
         bridge'.kind = "tokens" => bridge'.status # 200,
         SoundIsServed'
  PROVE  BridgesInv'
<1>1. BridgesTypeOK'
  BY DEF BridgesInv, BridgesTypeOK
<1>2. Verified' = Verified
  BY DEF Verified
<1>3. Watched'
  BY <1>2 DEF BridgesInv, Watched
<1>4. Staged' /\ Offered' /\ MetaSound'
  BY DEF Staged, Offered, MetaSound
<1> QED
  BY <1>1, <1>3, <1>4 DEF BridgesInv

\* A request ends.
LEMMA FinishIsBridge ==
  ASSUME bridge \in Bridge, NEW status \in BridgeStatuses
  PROVE  /\ Finish(status) \in Bridge
         /\ Finish(status).pc = "done" /\ Finish(status).kind = bridge.kind
         /\ Finish(status).status = status /\ Finish(status).sound = bridge.sound
         /\ Finish(status).always = bridge.always /\ Finish(status).ever = bridge.ever
         /\ Finish(status).withTokens = bridge.withTokens /\ Finish(status).meta = bridge.meta
<1>1. {} \in TokenSets /\ "done" \in BridgePcs /\ bridge \in Shape
  BY BridgeHasShape DEF TokenSets, BridgePcs
<1> DEFINE new == [bridge EXCEPT !.pc = "done", !.status = status, !.left = {}]
<1>2. new \in Shape
  BY <1>1 DEF Shape
<1>3. /\ new.pc = "done" /\ new.kind = bridge.kind /\ new.status = status
      /\ new.sound = bridge.sound /\ new.always = bridge.always /\ new.ever = bridge.ever
      /\ new.withTokens = bridge.withTokens /\ new.meta = bridge.meta
  BY <1>1 DEF Shape
<1>4. Finish(status) = new
  BY DEF Finish
<1> HIDE DEF new
<1> QED
  BY <1>2, <1>3, <1>4, BridgeHasShape

LEMMA FinishedIsBridge ==
  ASSUME bridge \in Bridge, NEW status \in BridgeStatuses, NEW sound \in BOOLEAN
  PROVE  LET new == [Finish(status) EXCEPT !.sound = sound]
         IN /\ new \in Bridge
            /\ new.pc = "done" /\ new.kind = bridge.kind /\ new.status = status
            /\ new.always = bridge.always /\ new.ever = bridge.ever /\ new.sound = sound
<1> DEFINE mid == Finish(status)
           new == [mid EXCEPT !.sound = sound]
<1>1. /\ mid \in Shape
      /\ mid.pc = "done" /\ mid.kind = bridge.kind /\ mid.status = status
      /\ mid.always = bridge.always /\ mid.ever = bridge.ever
  BY FinishIsBridge, BridgeHasShape
<1> HIDE DEF mid
<1>2. new \in Shape
  BY <1>1 DEF Shape
<1>3. /\ new.pc = mid.pc /\ new.kind = mid.kind /\ new.status = mid.status
      /\ new.always = mid.always /\ new.ever = mid.ever /\ new.sound = sound
  BY <1>1 DEF Shape
<1> HIDE DEF new
<1>4. /\ new \in Bridge
      /\ new.pc = "done" /\ new.kind = bridge.kind /\ new.status = status
      /\ new.always = bridge.always /\ new.ever = bridge.ever /\ new.sound = sound
  BY <1>1, <1>2, <1>3, BridgeHasShape
<1> QED
  BY <1>4 DEF new, mid

\* A call to Chainport fails, or its answer is not what it should be.
LEMMA FailureKeeps ==
  ASSUME BridgesInv, bridge.pc \in {"meta", "list", "paths", "outputs"},
         NEW status \in {422, 500, 502},
         Proceed([Finish(status) EXCEPT !.sound = FALSE])
  PROVE  BridgesInv'
<1>1. /\ bridge' = [Finish(status) EXCEPT !.sound = FALSE]
      /\ UNCHANGED <<version, asset, reposts>>
  BY DEF Proceed
<1>2. bridge \in Bridge /\ status \in BridgeStatuses
  BY DEF BridgesInv, BridgesTypeOK, BridgeStatuses
<1>3. /\ bridge' \in Bridge
      /\ bridge'.pc = "done" /\ bridge'.kind = bridge.kind /\ bridge'.status = status
      /\ bridge'.always = bridge.always /\ bridge'.ever = bridge.ever /\ bridge'.sound = FALSE
  <2> DEFINE sound == FALSE
  <2>1. sound \in BOOLEAN /\ bridge' = [Finish(status) EXCEPT !.sound = sound]
    BY <1>1
  <2>2. ~sound /\ sound = FALSE
    OBVIOUS
  <2> HIDE DEF sound
  <2>3. /\ bridge' \in Bridge
        /\ bridge'.pc = "done" /\ bridge'.kind = bridge.kind /\ bridge'.status = status
        /\ bridge'.always = bridge.always /\ bridge'.ever = bridge.ever /\ bridge'.sound = sound
    BY <1>2, <2>1, FinishedIsBridge
  <2> QED
    BY <2>2, <2>3
<1>4. SoundIsServed'
  BY <1>3 DEF SoundIsServed
<1>5. bridge.pc \notin {"idle", "done"} /\ status # 200
  OBVIOUS
<1> QED
  BY <1>1, <1>3, <1>4, <1>5, EndKeeps

LEMMA RequestFailsKeeps ==
  ASSUME BridgesInv, RequestFails
  PROVE  BridgesInv'
  BY FailureKeeps DEF RequestFails

\* GET /meta has answered: GET /bridges/networks ends, a request for paths goes
\* on.
LEMMA GetMetaKeeps ==
  ASSUME BridgesInv, GetMeta
  PROVE  BridgesInv'
<1>1. PICK meta \in [Networks -> {"none", "bad", "ok"}], noMap \in BOOLEAN :
        LET new == IF bridge.kind = "networks" THEN GetNetworks(meta)
                   ELSE [bridge EXCEPT !.pc = IF version = 1 THEN "list" ELSE "paths"]
        IN /\ noMap => bridge.kind = "paths" /\ meta = Nowhere
           /\ Proceed([new EXCEPT !.meta = meta, !.noMap = noMap,
                                  !.sound = ~noMap /\ \A n \in Networks : meta[n] # "bad"])
  BY DEF GetMeta
<1> DEFINE sound == ~noMap /\ \A n \in Networks : meta[n] # "bad"
           there == {n \in Networks : meta[n] # "none"}
           pc == IF version = 1 THEN "list" ELSE "paths"
<1>2. /\ bridge.pc = "meta" /\ bridge.kind \in {"networks", "paths"}
      /\ bridge \in Bridge /\ version \in {1, 2}
      /\ UNCHANGED <<version, asset, reposts>>
  BY <1>1 DEF GetMeta, Proceed, BridgesInv, Staged, BridgesTypeOK
<1>3. meta \in [Networks -> Entries]
  BY DEF Entries
<1>4. CASE bridge.kind = "networks"
  <2>1. sound \in BOOLEAN /\ there \in NetworkSets
    BY DEF NetworkSets
  <2>2. /\ {} \in TokenSets /\ "done" \in BridgePcs /\ meta \in Answers
    BY <1>3 DEF TokenSets, BridgePcs, Answers
  <2> DEFINE good == Accepts({meta[n] : n \in there})
  <2>3. sound => good
    BY DEF Accepts
  <2>4. CASE good
    <3> DEFINE status == 200
    <3>1. bridge' = [bridge EXCEPT !.pc = "done", !.status = status, !.left = {},
                                   !.networks = there, !.meta = meta,
                                   !.noMap = noMap, !.sound = sound]
      BY <1>1, <1>2, <1>4, <2>4 DEF Proceed, GetNetworks, Finish
    <3>5. status \in BridgeStatuses
      BY DEF BridgeStatuses
    <3>6. status = 200
      OBVIOUS
    <3> HIDE DEF sound, there, good, status
    <3>2. bridge' \in Bridge
      BY <1>2, <2>1, <2>2, <3>1, <3>5, BridgeHasShape DEF Shape
    <3>3. /\ bridge'.pc = "done" /\ bridge'.kind = bridge.kind /\ bridge'.status = 200
          /\ bridge'.always = bridge.always /\ bridge'.ever = bridge.ever
      BY <1>2, <3>1, <3>6 DEF Bridge
    <3>4. SoundIsServed'
      BY <1>4, <3>3 DEF SoundIsServed
    <3> QED
      BY <1>2, <1>4, <3>2, <3>3, <3>4, EndKeeps
  <2>5. CASE ~good
    <3> DEFINE status == 502
    <3>1. bridge' = [bridge EXCEPT !.pc = "done", !.status = status, !.left = {},
                                   !.meta = meta, !.noMap = noMap, !.sound = sound]
      BY <1>1, <1>2, <1>4, <2>5 DEF Proceed, GetNetworks, Finish
    <3>5. status \in BridgeStatuses
      BY DEF BridgeStatuses
    <3>6. status = 502
      OBVIOUS
    <3> HIDE DEF sound, there, good, status
    <3>2. bridge' \in Bridge
      BY <1>2, <2>1, <2>2, <3>1, <3>5, BridgeHasShape DEF Shape
    <3>3. /\ bridge'.pc = "done" /\ bridge'.kind = bridge.kind /\ bridge'.status = 502
          /\ bridge'.always = bridge.always /\ bridge'.ever = bridge.ever
          /\ bridge'.sound = sound
      BY <1>2, <3>1, <3>6 DEF Bridge
    <3>4. SoundIsServed'
      BY <2>3, <2>5, <3>3 DEF SoundIsServed
    <3> QED
      BY <1>2, <1>4, <3>2, <3>3, <3>4, EndKeeps
  <2> QED
    BY <2>4, <2>5
<1>5. CASE bridge.kind = "paths"
  <2>1. bridge' = [bridge EXCEPT !.pc = pc, !.meta = meta, !.noMap = noMap, !.sound = sound]
    BY <1>1, <1>2, <1>5 DEF Proceed, Bridge
  <2>2. sound => ~noMap /\ \A n \in Networks : meta[n] # "bad"
    OBVIOUS
  <2>3. /\ pc \in {"list", "paths"} /\ (pc = "list" => version = 1)
        /\ (pc = "paths" => version = 2) /\ sound \in BOOLEAN
    BY <1>2
  <2> HIDE DEF sound, pc
  <2>4. /\ bridge'.pc = pc /\ bridge'.kind = "paths" /\ bridge'.status = bridge.status
        /\ bridge'.always = bridge.always /\ bridge'.ever = bridge.ever /\ bridge'.sound = sound
        /\ bridge'.noMap = noMap /\ bridge'.meta = meta /\ bridge'.tokens = bridge.tokens
    BY <1>2, <1>5, <2>1 DEF Bridge
  <2>5. bridge' \in Bridge
    <3>1. pc \in BridgePcs /\ meta \in Answers
      BY <1>3, <2>3 DEF BridgePcs, Answers
    <3> QED
      BY <1>2, <2>1, <2>3, <3>1, BridgeHasShape DEF Shape
  <2>6. BridgesTypeOK'
    BY <1>2, <2>5 DEF BridgesInv, BridgesTypeOK
  <2>7. Verified' = Verified
    BY <1>2 DEF Verified
  <2>8. Staged'
    BY <1>2, <2>3, <2>4 DEF BridgesInv, Staged
  <2>9. Watched'
    BY <1>2, <2>4, <2>7 DEF BridgesInv, Watched
  <2>10. Offered' /\ SoundIsServed'
    BY <2>3, <2>4 DEF Offered, SoundIsServed
  <2>11. MetaSound'
    BY <2>2, <2>4 DEF MetaSound
  <2> QED
    BY <2>6, <2>8, <2>9, <2>10, <2>11 DEF BridgesInv
<1> QED
  BY <1>2, <1>4, <1>5

\* The list of tokens has come.
LEMMA GetTokenListKeeps ==
  ASSUME BridgesInv, GetTokenList
  PROVE  BridgesInv'
<1>1. PICK list \in [Tokens -> Entries] :
        LET listed == {t \in Tokens : list[t] # "none"}
            good == Accepts({list[t] : t \in listed})
            new == IF good THEN [bridge EXCEPT !.pc = "verify", !.left = listed, !.listed = listed]
                   ELSE Finish(502)
        IN Proceed([new EXCEPT !.sound = good])
  BY DEF GetTokenList
<1> DEFINE listed == {t \in Tokens : list[t] # "none"}
           good == Accepts({list[t] : t \in listed})
<1>2. /\ bridge.pc = "list" /\ bridge.kind = "tokens" /\ bridge \in Bridge
      /\ UNCHANGED <<version, asset, reposts>>
  BY <1>1 DEF GetTokenList, Proceed, BridgesInv, BridgesTypeOK
<1>3. listed \in TokenSets /\ good \in BOOLEAN
  BY DEF TokenSets, Accepts
<1>4. CASE good
  <2>1. bridge' = [bridge EXCEPT !.pc = "verify", !.left = listed, !.listed = listed,
                                 !.sound = TRUE]
    BY <1>1, <1>4 DEF Proceed
  <2> HIDE DEF listed, good
  <2>2. bridge' \in Bridge
    <3>1. "verify" \in BridgePcs
      BY DEF BridgePcs
    <3> QED
      BY <1>2, <1>3, <2>1, <3>1, BridgeHasShape DEF Shape
  <2>3. /\ bridge'.pc = "verify" /\ bridge'.kind = "tokens" /\ bridge'.status = bridge.status
        /\ bridge'.always = bridge.always /\ bridge'.ever = bridge.ever
        /\ bridge'.listed = listed /\ bridge'.left = listed /\ bridge'.tokens = bridge.tokens
    BY <1>2, <2>1 DEF Bridge
  <2>4. BridgesTypeOK'
    BY <1>2, <2>2 DEF BridgesInv, BridgesTypeOK
  <2>5. Staged'
    BY <1>2, <2>3 DEF BridgesInv, Staged
  <2>6. Watched'
    BY <1>2, <2>3 DEF BridgesInv, Watched, Verified
  <2>7. Offered'
    BY <1>2, <2>3 DEF BridgesInv, Staged, Offered
  <2>8. MetaSound' /\ SoundIsServed'
    BY <2>3 DEF MetaSound, SoundIsServed
  <2> QED
    BY <2>4, <2>5, <2>6, <2>7, <2>8 DEF BridgesInv
<1>5. CASE ~good
  <2>1. good = FALSE
    BY <1>3, <1>5
  <2> HIDE DEF listed, good
  <2>2. Proceed([Finish(502) EXCEPT !.sound = FALSE])
    BY <1>1, <2>1 DEF listed, good
  <2> QED
    BY <1>2, <2>2, FailureKeeps
<1> QED
  BY <1>4, <1>5

\* A token is looked up.
LEMMA FindAssetOfTokenKeeps ==
  ASSUME BridgesInv, NEW t \in Tokens, FindAssetOfToken(t)
  PROVE  BridgesInv'
<1> DEFINE tokens == IF asset[t] = "verified" THEN bridge.tokens \cup {t} ELSE bridge.tokens
<1>1. /\ bridge.pc = "verify" /\ t \in bridge.left /\ bridge \in Bridge
      /\ bridge' = [bridge EXCEPT !.left = bridge.left \ {t}, !.tokens = tokens]
      /\ UNCHANGED <<version, asset, reposts>>
  BY DEF FindAssetOfToken, Proceed, BridgesInv, BridgesTypeOK
<1>2. bridge' \in Bridge
  <2>1. tokens \in TokenSets /\ bridge.left \ {t} \in TokenSets
    BY <1>1 DEF TokenSets, Bridge
  <2> HIDE DEF tokens
  <2> QED
    BY <1>1, <2>1, BridgeHasShape DEF Shape
<1>3. /\ bridge'.pc = bridge.pc /\ bridge'.kind = bridge.kind /\ bridge'.status = bridge.status
      /\ bridge'.always = bridge.always /\ bridge'.ever = bridge.ever
      /\ bridge'.listed = bridge.listed /\ bridge'.left = bridge.left \ {t}
      /\ bridge'.tokens = tokens
  <2> HIDE DEF tokens
  <2> QED
    BY <1>1 DEF Bridge
<1>4. BridgesTypeOK'
  BY <1>1, <1>2 DEF BridgesInv, BridgesTypeOK
<1>5. Staged'
  BY <1>1, <1>3 DEF BridgesInv, Staged
<1>6. Watched'
  BY <1>1, <1>3 DEF BridgesInv, Watched, Verified
<1>7. Offered'
  <2>1. t \in bridge.always => asset[t] = "verified"
    BY <1>1 DEF BridgesInv, Watched, Verified
  <2>2. asset[t] = "verified" => t \in bridge.ever
    BY <1>1 DEF BridgesInv, Watched, Verified
  <2>3. /\ bridge.left \subseteq bridge.listed
        /\ bridge.tokens \subseteq bridge.listed \cap bridge.ever
        /\ bridge.listed \cap bridge.always \subseteq bridge.tokens \cup bridge.left
    BY <1>1 DEF BridgesInv, Offered
  <2>4. /\ tokens \subseteq bridge.listed \cap bridge.ever
        /\ bridge.listed \cap bridge.always \subseteq tokens \cup (bridge.left \ {t})
    BY <1>1, <2>1, <2>2, <2>3
  <2> HIDE DEF tokens
  <2> QED
    BY <1>1, <1>3, <2>3, <2>4 DEF Offered
<1>8. MetaSound' /\ SoundIsServed'
  BY <1>1, <1>3 DEF MetaSound, SoundIsServed
<1> QED
  BY <1>4, <1>5, <1>6, <1>7, <1>8 DEF BridgesInv

\* Meanwhile, its asset changes.
LEMMA ChangeAssetKeeps ==
  ASSUME BridgesInv, NEW t \in Tokens, ChangeAsset(t)
  PROVE  BridgesInv'
<1>1. PICK now \in {"unverified", "otherDecimals", "verified"} :
        asset' = [asset EXCEPT ![t] = now]
  BY DEF ChangeAsset
<1>2. /\ bridge.pc = "verify" /\ reposts < MaxReposts /\ reposts' = reposts + 1
      /\ version' = version /\ bridge \in Bridge
      /\ bridge' = [bridge EXCEPT !.ever = bridge.ever \cup Verified',
                                  !.always = bridge.always \cap Verified']
  BY DEF ChangeAsset, BridgesInv, BridgesTypeOK
<1> DEFINE verified == Verified'
<1>3. verified \in TokenSets
  BY DEF Verified, TokenSets
<1>4. bridge' = [bridge EXCEPT !.ever = bridge.ever \cup verified,
                               !.always = bridge.always \cap verified]
  BY <1>2
<1> HIDE DEF verified
<1>0. bridge \in Bridge
  BY <1>2
<1>5. bridge' \in Bridge
  <2>1. bridge.ever \cup verified \in TokenSets /\ bridge.always \cap verified \in TokenSets
    BY <1>2, <1>3 DEF TokenSets, Bridge
  <2> QED
    BY <1>2, <1>4, <2>1, BridgeHasShape DEF Shape
<1>6. /\ bridge'.pc = bridge.pc /\ bridge'.kind = bridge.kind /\ bridge'.status = bridge.status
      /\ bridge'.always = bridge.always \cap verified
      /\ bridge'.ever = bridge.ever \cup verified
      /\ bridge'.listed = bridge.listed /\ bridge'.left = bridge.left
      /\ bridge'.tokens = bridge.tokens
  BY <1>0, <1>4 DEF Bridge
<1>7. BridgesTypeOK'
  <2>1. asset' \in [Tokens -> {"none", "unverified", "otherDecimals", "verified"}]
    BY <1>1 DEF BridgesInv, BridgesTypeOK
  <2>2. reposts' \in 0..MaxReposts
    BY <1>2, BridgesAssumption DEF BridgesInv, BridgesTypeOK
  <2> QED
    BY <1>2, <1>5, <2>1, <2>2 DEF BridgesInv, BridgesTypeOK
<1>8. Staged'
  BY <1>2, <1>6 DEF BridgesInv, Staged
<1>9. Watched'
  BY <1>6 DEF Watched, verified
<1>10. Offered'
  BY <1>2, <1>6 DEF BridgesInv, Offered
<1>11. MetaSound' /\ SoundIsServed'
  BY <1>2, <1>6 DEF MetaSound, SoundIsServed
<1> QED
  BY <1>7, <1>8, <1>9, <1>10, <1>11 DEF BridgesInv

\* All have been looked up.
LEMMA AnswerTokensKeeps ==
  ASSUME BridgesInv, AnswerTokens
  PROVE  BridgesInv'
<1>1. /\ bridge.pc = "verify" /\ bridge.left = {} /\ bridge.kind = "tokens" /\ bridge \in Bridge
      /\ bridge' = [bridge EXCEPT !.pc = "done", !.status = 200, !.left = {}]
      /\ UNCHANGED <<version, asset, reposts>>
  BY DEF AnswerTokens, Proceed, Finish, BridgesInv, BridgesTypeOK, Staged
<1>2. bridge' \in Bridge
  <2> DEFINE status == 200
             nobody == {}
             pc == "done"
  <2>1. nobody \in TokenSets /\ pc \in BridgePcs /\ status \in BridgeStatuses
    BY DEF TokenSets, BridgePcs, BridgeStatuses
  <2>2. bridge' = [bridge EXCEPT !.pc = pc, !.status = status, !.left = nobody]
    BY <1>1
  <2>3. bridge \in Shape
    BY <1>1, BridgeHasShape
  <2> HIDE DEF status, nobody, pc
  <2>4. bridge' \in Shape
    BY <2>1, <2>2, <2>3 DEF Shape
  <2> QED
    BY <2>4, BridgeHasShape
<1>3. /\ bridge'.pc = "done" /\ bridge'.kind = bridge.kind /\ bridge'.status = 200
      /\ bridge'.always = bridge.always /\ bridge'.ever = bridge.ever
      /\ bridge'.listed = bridge.listed /\ bridge'.left = {} /\ bridge'.tokens = bridge.tokens
  BY <1>1 DEF Bridge
<1>4. BridgesTypeOK'
  BY <1>1, <1>2 DEF BridgesInv, BridgesTypeOK
<1>5. Watched'
  BY <1>1, <1>3 DEF BridgesInv, Watched, Verified
<1>6. Offered'
  BY <1>1, <1>3 DEF BridgesInv, Offered
<1>7. Staged' /\ MetaSound' /\ SoundIsServed'
  BY <1>1, <1>3 DEF Staged, MetaSound, SoundIsServed
<1> QED
  BY <1>4, <1>5, <1>6, <1>7 DEF BridgesInv

\* The last check of a request for paths finds nothing wrong when Chainport's
\* answers are well formed - except for version 1 with with_tokens.
LEMMA SoundIsAccepted ==
  ASSUME bridge.meta \in [Networks -> Entries], \A n \in Networks : bridge.meta[n] # "bad",
         NEW targets, \A n \in Networks : targets[n] # "bare",
         version = 2 \/ ~bridge.withTokens
  PROVE  Accepts(Checked(targets))
<1> DEFINE reached == Reached(targets)
<1>1. \A n \in reached : bridge.meta[n] \notin {"bad", "none"} /\ targets[n] # "bare"
  BY DEF Reached
<1>2. Checked(targets) = {bridge.meta[n] : n \in reached}
  BY <1>1 DEF Checked
<1> QED
  BY <1>1, <1>2 DEF Accepts

LEMMA GetTokenPathsKeeps ==
  ASSUME BridgesInv, NEW targets \in [Networks -> Entries], GetTokenPaths(targets),
         bridge.kind = "paths",
         \/ bridge.pc = "list" /\ version = 1
         \/ bridge.pc = "paths" /\ version = 2
  PROVE  BridgesInv'
<1> DEFINE bare == \A n \in Networks : targets[n] # "bare"
           reached == Reached(targets)
           failed == bridge.noMap /\ targets # Nowhere
           accepted == ~failed /\ Accepts(Checked(targets))
           sound == bridge.sound /\ bare
           status == IF failed THEN 500 ELSE IF accepted THEN 200 ELSE 502
           networks == IF accepted THEN reached ELSE bridge.networks
<1>1. /\ bridge \in Bridge /\ UNCHANGED <<version, asset, reposts>>
      /\ bridge.meta \in [Networks -> Entries]
  BY DEF GetTokenPaths, Proceed, BridgesInv, BridgesTypeOK, Bridge
<1>2. reached \in NetworkSets /\ sound \in BOOLEAN /\ status \in {200, 500, 502}
  BY <1>1 DEF NetworkSets, Reached, Bridge
<1>3. /\ bridge' \in Bridge
      /\ bridge'.pc = "done" /\ bridge'.kind = bridge.kind /\ bridge'.status = status
      /\ bridge'.always = bridge.always /\ bridge'.ever = bridge.ever
      /\ bridge'.withTokens = bridge.withTokens /\ bridge'.meta = bridge.meta
      /\ bridge'.targets = targets /\ bridge'.sound = sound
      /\ accepted => bridge'.networks = reached
  <2> DEFINE ended == IF bridge.noMap /\ targets # Nowhere THEN Finish(500)
                      ELSE IF Accepts(Checked(targets))
                      THEN [Finish(200) EXCEPT !.networks = Reached(targets)]
                      ELSE Finish(502)
  <2>1. bridge' = [ended EXCEPT !.targets = targets, !.sound = @ /\ bare]
    BY Zenon DEF GetTokenPaths, Proceed
  <2>2. /\ ended \in Shape
        /\ ended.pc = "done" /\ ended.kind = bridge.kind /\ ended.status = status
        /\ ended.sound = bridge.sound /\ ended.always = bridge.always /\ ended.ever = bridge.ever
        /\ ended.withTokens = bridge.withTokens /\ ended.meta = bridge.meta
        /\ accepted => ended.networks = reached
    <3> HIDE DEF bare, sound
    <3>1. CASE accepted
      <4> DEFINE mid == Finish(200)
                 new == [mid EXCEPT !.networks = reached]
      <4>1. ended = new /\ status = 200
        BY <3>1
      <4> HIDE DEF ended, reached, accepted, status, failed
      <4>2. /\ mid \in Shape
            /\ mid.pc = "done" /\ mid.kind = bridge.kind /\ mid.status = 200
            /\ mid.sound = bridge.sound /\ mid.always = bridge.always /\ mid.ever = bridge.ever
            /\ mid.withTokens = bridge.withTokens /\ mid.meta = bridge.meta
        BY <1>1, FinishIsBridge, BridgeHasShape DEF BridgeStatuses
      <4> HIDE DEF mid
      <4>3. new \in Shape
        BY <1>2, <4>2 DEF Shape
      <4>4. /\ new.pc = mid.pc /\ new.kind = mid.kind /\ new.status = mid.status
            /\ new.sound = mid.sound /\ new.always = mid.always /\ new.ever = mid.ever
            /\ new.withTokens = mid.withTokens /\ new.meta = mid.meta
            /\ new.networks = reached
        BY <4>2 DEF Shape
      <4> HIDE DEF new
      <4> QED
        BY <4>1, <4>2, <4>3, <4>4
    <3>2. CASE ~accepted
      <4>1. ended = Finish(status) /\ status \in BridgeStatuses
        BY <3>2 DEF BridgeStatuses
      <4> HIDE DEF ended, reached, status, failed
      <4> QED
        BY <1>1, <3>2, <4>1, FinishIsBridge, BridgeHasShape
    <3> QED
      BY <3>1, <3>2
  <2> HIDE DEF ended, status, accepted, failed, reached, bare
  <2>3. (ended.sound /\ bare) = sound
    BY <2>2
  <2>4. bridge' = [ended EXCEPT !.targets = targets, !.sound = sound]
    BY <2>1, <2>3
  <2> HIDE DEF sound
  <2>5. targets \in Answers /\ sound \in BOOLEAN /\ ended \in Shape
    BY <1>2, <2>2 DEF Answers
  <2>6. bridge' \in Shape
    BY <2>4, <2>5 DEF Shape
  <2>7. /\ bridge'.pc = ended.pc /\ bridge'.kind = ended.kind /\ bridge'.status = ended.status
        /\ bridge'.always = ended.always /\ bridge'.ever = ended.ever
        /\ bridge'.withTokens = ended.withTokens /\ bridge'.meta = ended.meta
        /\ bridge'.targets = targets /\ bridge'.sound = sound
        /\ bridge'.networks = ended.networks
    BY <2>4, <2>5 DEF Shape
  <2> QED
    BY <2>2, <2>6, <2>7, BridgeHasShape
<1>4. sound => ~failed /\ \A n \in Networks : bridge.meta[n] # "bad"
  BY DEF BridgesInv, MetaSound
<1>5. sound /\ (version = 2 \/ ~bridge.withTokens) => accepted
  BY <1>1, <1>4, SoundIsAccepted
<1>6. SoundIsServed'
  <2> SUFFICES ASSUME sound
               PROVE  \/ /\ bridge'.status = 200
                         /\ bridge'.networks =
                              {n \in Networks : targets[n] # "none" /\ bridge.meta[n] # "none"}
                      \/ bridge'.status = 502 /\ bridge.withTokens /\ version = 1
    <3> HIDE DEF sound, status
    <3> QED
      BY <1>1, <1>3 DEF SoundIsServed
  <2>1. CASE accepted
    BY <1>3, <2>1 DEF Reached
  <2>2. CASE ~accepted
    <3>1. status = 502
      BY <1>4, <2>2
    <3> HIDE DEF sound, status, accepted
    <3> QED
      BY <1>3, <1>5, <2>2, <3>1
  <2> QED
    BY <2>1, <2>2
<1> HIDE DEF sound, status, accepted
<1> QED
  BY <1>1, <1>3, <1>6, EndKeeps

LEMMA PathsKeep ==
  ASSUME BridgesInv, GetTokenPathsV1 \/ GetTokenPathsV2
  PROVE  BridgesInv'
<1> DEFINE notFound == bridge.pc = "list" /\ bridge.kind = "paths" /\ Proceed(Finish(404))
<1>1. CASE notFound
  <2> DEFINE status == 404
  <2>1. /\ bridge' = [bridge EXCEPT !.pc = "done", !.status = status, !.left = {}]
        /\ bridge.pc = "list" /\ bridge.kind = "paths" /\ version = 1
        /\ bridge \in Bridge /\ UNCHANGED <<version, asset, reposts>>
    BY <1>1 DEF Proceed, Finish, BridgesInv, Staged, BridgesTypeOK
  <2>2. bridge' \in Bridge
    <3>1. {} \in TokenSets /\ "done" \in BridgePcs /\ status \in BridgeStatuses
      BY DEF TokenSets, BridgePcs, BridgeStatuses
    <3> HIDE DEF status
    <3> QED
      BY <2>1, <3>1, BridgeHasShape DEF Shape
  <2>3. /\ bridge'.pc = "done" /\ bridge'.kind = bridge.kind /\ bridge'.status = 404
        /\ bridge'.always = bridge.always /\ bridge'.ever = bridge.ever
    BY <2>1 DEF Bridge
  <2>4. SoundIsServed'
    BY <2>1, <2>3 DEF SoundIsServed
  <2> QED
    BY <2>1, <2>2, <2>3, <2>4, EndKeeps
<1>2. ASSUME NEW targets \in [Networks -> {"none", "bare", "ok"}], GetTokenPaths(targets),
             bridge.pc \in {"list", "paths"}, bridge.kind = "paths"
      PROVE  BridgesInv'
  <2>1. targets \in [Networks -> Entries]
    BY <1>2 DEF Entries
  <2>2. (bridge.pc = "list" /\ version = 1) \/ (bridge.pc = "paths" /\ version = 2)
    BY <1>2 DEF BridgesInv, Staged
  <2> QED
    BY <1>2, <2>1, <2>2, GetTokenPathsKeeps
<1>3. [Networks -> {"none", "ok"}] \subseteq [Networks -> {"none", "bare", "ok"}]
  OBVIOUS
<1>4. CASE GetTokenPathsV1
  <2>1. CASE \E targets \in [Networks -> {"none", "ok"}] : GetTokenPaths(targets)
    BY <1>2, <1>3, <1>4, <2>1 DEF GetTokenPathsV1
  <2> QED
    BY <1>1, <1>4, <2>1 DEF GetTokenPathsV1
<1>5. CASE GetTokenPathsV2
  <2>1. bridge.kind = "paths" /\ bridge.pc = "paths"
    BY <1>5 DEF GetTokenPathsV2, BridgesInv, Staged
  <2> QED
    BY <1>2, <1>5, <2>1 DEF GetTokenPathsV2
<1> QED
  BY <1>4, <1>5

LEMMA GetOutputsKeeps ==
  ASSUME BridgesInv, GetOutputs
  PROVE  BridgesInv'
<1>1. PICK good \in BOOLEAN :
        Proceed([Finish(IF good \/ bridge.kind = "port" THEN 200 ELSE 502)
                   EXCEPT !.sound = good])
  BY Zenon DEF GetOutputs
<1> DEFINE status == IF good \/ bridge.kind = "port" THEN 200 ELSE 502
<1>2. /\ bridge.pc = "outputs" /\ bridge.kind \in {"create", "port"} /\ bridge \in Bridge
      /\ UNCHANGED <<version, asset, reposts>>
  BY DEF GetOutputs, Proceed, BridgesInv, Staged, BridgesTypeOK
<1>3. (good => status = 200) /\ status \in BridgeStatuses
  BY DEF BridgeStatuses
<1>4. bridge' = [Finish(status) EXCEPT !.sound = good]
  BY <1>1 DEF Proceed
<1> HIDE DEF status
<1>5. /\ bridge' \in Bridge
      /\ bridge'.pc = "done" /\ bridge'.kind = bridge.kind /\ bridge'.status = status
      /\ bridge'.always = bridge.always /\ bridge'.ever = bridge.ever /\ bridge'.sound = good
  BY <1>2, <1>3, <1>4, FinishedIsBridge
<1>6. SoundIsServed'
  BY <1>2, <1>3, <1>5 DEF SoundIsServed
<1> QED
  BY <1>2, <1>5, <1>6, EndKeeps

LEMMA BridgesKeep ==
  ASSUME BridgesInv, [BridgesNext]_bridgesVars
  PROVE  BridgesInv'
<1>1. CASE UNCHANGED bridgesVars
  BY <1>1 DEF bridgesVars, BridgesInv, BridgesTypeOK, Staged, Watched, Verified, Offered,
              MetaSound, SoundIsServed
<1>2. CASE BridgesNext
  BY <1>2, AskBridgeKeeps, RequestFailsKeeps, GetMetaKeeps, GetTokenListKeeps, AnswerTokensKeeps,
     FindAssetOfTokenKeeps, ChangeAssetKeeps, PathsKeep, GetOutputsKeeps DEF BridgesNext
<1> QED
  BY <1>1, <1>2

\* Whatever tokens there are and however their assets change during a request,
\* a token that is offered was listed and verified at some time of it, and one
\* that was so all the time is offered (chainport.service.ts 292-326).
THEOREM TokensOfferedAreVerified == BridgesSpec => []BridgeableTokens
<1>1. BridgesInv => BridgeableTokens
  <2> SUFFICES ASSUME BridgesInv, bridge.kind = "tokens", bridge.status = 200
               PROVE  /\ bridge.tokens \subseteq bridge.listed \cap bridge.ever
                      /\ bridge.listed \cap bridge.always \subseteq bridge.tokens
    BY DEF BridgeableTokens
  <2>1. bridge.pc = "done"
    BY DEF BridgesInv, Staged
  <2> QED
    BY <2>1 DEF BridgesInv, Offered
<1> QED
  BY <1>1, BridgesInitHolds, BridgesKeep, PTL DEF BridgesSpec

\* As long as Chainport answers well, so does the API, with the networks both
\* its answers have - except under version 1 with with_tokens
\* (chainport.service.ts 329-428).
THEOREM SoundAnswersAreServed == BridgesSpec => []SoundIsServed
<1>1. BridgesInv => SoundIsServed
  BY DEF BridgesInv
<1> QED
  BY <1>1, BridgesInitHolds, BridgesKeep, PTL DEF BridgesSpec

-----------------------------------------------------------------------------
\* Telemetry.

\* The points of the batch that processPoints has looked at: all of them, once
\* its loop has ended.
Looked == {i \in 1..Len(batch) : place.loop \in {"idle", "process"} => i < place.nth}
Counting == {i \in Looked : Counts(i)}

\* options holds what is wanted of these points, in order.
Gathered ==
  /\ place.loop = "idle" => place.nth = 1
  /\ place.loop \in {"idle", "process"} =>
       place.nth <= Len(batch) + 1 /\ Len(found.options) < place.nth
  /\ Len(found.options) <= Len(batch)
  /\ \A i, k \in 1..Len(found.options) : i < k => found.options[i] < found.options[k]
  /\ \A i \in 1..Len(found.options) :
       found.options[i] \in Counting /\ Passes(batch[found.options[i]])
  /\ \A i \in Counting : Passes(batch[i]) => \E k \in 1..Len(found.options) : found.options[k] = i

\* The version and the agent are those of the last points that have one.
Recognised ==
  /\ found.nodeVersion = NoTag <=> Counting = {}
  /\ Counting # {} => \E i \in Counting : /\ \A k \in Counting : k <= i
                                          /\ found.nodeVersion = batch[i].version
  /\ found.agent = NoTag => \A i \in Counting : batch[i].agent = NoTag
  /\ found.agent # NoTag => \E i \in Counting : found.agent = batch[i].agent

\* Of what is to be written, nothing is of another network so far.
Checking ==
  place.loop = "write" =>
    /\ place.nth <= Len(found.options) + 1
    /\ \A i \in 1..place.nth - 1 : batch[found.options[i]].networkId # "other"

\* And it is written as a whole or not at all.
HandedOver ==
  /\ place.loop \notin {"address", "done"} => influx.points = <<>>
  /\ place.loop \in {"address", "done"} =>
       IF \E i \in 1..Len(found.options) : batch[found.options[i]].networkId = "other"
       THEN influx.points = <<>> ELSE influx.points = found.options

\* The address goes last.
Addressed ==
  /\ place.loop # "done" => influx.addresses = <<>>
  /\ place.loop = "done" =>
       influx.addresses =
         IF found.nodeVersion = NoTag THEN <<>>
         ELSE <<[version |-> found.nodeVersion,
                 agent |-> IF found.agent = NoTag THEN "unknown" ELSE found.agent]>>

TelemetryInv ==
  /\ TelemetryTypeOK
  /\ Gathered
  /\ Recognised
  /\ Checking
  /\ HandedOver
  /\ Addressed

LEMMA TelemetryInitHolds == TelemetryInit => TelemetryInv
<1> SUFFICES ASSUME TelemetryInit PROVE TelemetryInv
  OBVIOUS
<1> USE TelemetryAssumption DEF TelemetryInit, NothingFound, At
<1>1. TelemetryTypeOK
  BY DEF TelemetryTypeOK, Found, Point, Address
<1>2. Looked = {} /\ Counting = {}
  BY DEF Looked, Counting
<1>3. Gathered /\ Recognised /\ Checking /\ HandedOver /\ Addressed
  BY <1>2 DEF Gathered, Recognised, Checking, HandedOver, Addressed
<1> QED
  BY <1>1, <1>3 DEF TelemetryInv

\* What the types say of the points and of the place.
LEMMA TelemetryTypes ==
  ASSUME TelemetryTypeOK
  PROVE  /\ Len(batch) \in Nat /\ Len(batch) <= MaxPoints
         /\ \A i \in 1..Len(batch) : batch[i] \in Point
         /\ place.nth \in 1..MaxPoints + 1
         /\ found.nodeVersion \in Versions \cup {NoTag} /\ found.agent \in Agents \cup {NoTag}
         /\ found.options \in Seq(1..MaxPoints) /\ Len(found.options) \in Nat
         /\ \A i \in 1..Len(found.options) : found.options[i] \in 1..MaxPoints
         /\ influx.points \in Seq(1..MaxPoints) /\ influx.addresses \in Seq(Address)
<1>1. /\ Len(batch) \in Nat /\ Len(batch) <= MaxPoints
      /\ \A i \in 1..Len(batch) : batch[i] \in Point
  BY DEF TelemetryTypeOK
<1>2. place.nth \in 1..MaxPoints + 1
  BY DEF TelemetryTypeOK
<1>3. /\ found.options \in Seq(1..MaxPoints)
      /\ found.nodeVersion \in Versions \cup {NoTag} /\ found.agent \in Agents \cup {NoTag}
  BY DEF TelemetryTypeOK, Found
<1>4. /\ Len(found.options) \in Nat
      /\ \A i \in 1..Len(found.options) : found.options[i] \in 1..MaxPoints
  <2> DEFINE S == 1..MaxPoints
  <2>1. found.options \in Seq(S)
    BY <1>3
  <2> HIDE DEF S
  <2>2. Len(found.options) \in Nat /\ \A i \in 1..Len(found.options) : found.options[i] \in S
    BY <2>1
  <2> QED
    BY <2>2 DEF S
<1>5. /\ influx.points \in Seq(1..MaxPoints) /\ influx.addresses \in Seq(Address)
  BY DEF TelemetryTypeOK
<1> QED
  BY <1>1, <1>2, <1>3, <1>4, <1>5

\* A batch arrives, of which nothing has been looked at.
LEMMA PostPointsKeeps ==
  ASSUME TelemetryInv, PostPoints
  PROVE  TelemetryInv'
<1> USE TelemetryAssumption
<1>1. PICK n \in 0..MaxPoints : batch' \in [1..n -> Point]
  BY DEF PostPoints
<1>2. batch' \in Seq(Point) /\ Len(batch') = n
  BY <1>1
<1>3. /\ place.loop = "idle"
      /\ place' = [loop |-> "process", nth |-> 1]
      /\ UNCHANGED <<found, influx>>
  BY DEF PostPoints, At
<1>4. TelemetryTypeOK'
  BY <1>2, <1>3 DEF TelemetryInv, TelemetryTypeOK
<1>5. Len(found.options) = 0 /\ found.nodeVersion = NoTag /\ found.agent = NoTag
  BY <1>3, TelemetryTypes DEF TelemetryInv, Gathered, Recognised, Counting, Looked
<1>6. Counting' = {}
  BY <1>3 DEF Counting, Looked
<1>7. Gathered'
  BY <1>2, <1>3, <1>5, <1>6 DEF Gathered
<1>8. Recognised'
  BY <1>3, <1>5, <1>6 DEF Recognised
<1>9. Checking' /\ HandedOver' /\ Addressed'
  BY <1>3 DEF TelemetryInv, Checking, HandedOver, Addressed
<1> QED
  BY <1>4, <1>7, <1>8, <1>9 DEF TelemetryInv

\* A point is looked at, after all those before it and none behind it.
LEMMA ProcessPointKeeps ==
  ASSUME TelemetryInv, ProcessPoint
  PROVE  TelemetryInv'
<1> USE TelemetryAssumption
<1> DEFINE n == place.nth
           counts == Counts(n)
           wanted == Counts(n) /\ Passes(batch[n])
<1>1. /\ place.loop = "process" /\ n \in 1..Len(batch) /\ batch[n] \in Point
      /\ place' = [loop |-> "process", nth |-> n + 1]
      /\ place'.loop = "process" /\ place'.nth = n + 1 /\ n \in Nat
      /\ UNCHANGED <<batch, influx>> /\ Len(batch) \in Nat
  BY TelemetryTypes DEF TelemetryInv, ProcessPoint, At
<1>2. found' = IF ~counts THEN found
               ELSE [nodeVersion |-> batch[n].version,
                     agent |-> IF batch[n].agent = NoTag THEN found.agent ELSE batch[n].agent,
                     options |-> IF Passes(batch[n]) THEN Append(found.options, n)
                                 ELSE found.options]
  BY DEF ProcessPoint, Counts
<1>3. found'.options = IF wanted THEN Append(found.options, n) ELSE found.options
  BY <1>2
<1>4. Counting' = IF counts THEN Counting \cup {n} ELSE Counting
  <2>1. Looked' = Looked \cup {n}
    BY <1>1 DEF Looked
  <2>2. \A i : Counts(i)' <=> Counts(i)
    BY <1>1 DEF Counts
  <2> QED
    BY <2>1, <2>2 DEF Counting
<1>5. \A i \in Counting : i \in 1..Len(batch) /\ i < n
  BY <1>1 DEF Counting, Looked
<1>6. TelemetryTypeOK'
  <2>1. found \in Found /\ n \in 1..MaxPoints
    BY <1>1, TelemetryTypes DEF TelemetryInv, TelemetryTypeOK
  <2>2. Append(found.options, n) \in Seq(1..MaxPoints)
    BY <2>1, TelemetryTypes DEF TelemetryInv
  <2>3. batch[n].agent \in Agents \cup {NoTag} /\ (counts => batch[n].version \in Versions)
    BY <1>1 DEF Point, Counts
  <2>4. found' \in Found
    BY <1>2, <2>1, <2>2, <2>3 DEF Found
  <2>5. place' \in [loop : {"idle", "process", "write", "address", "done"}, nth : 1..MaxPoints + 1]
    BY <1>1, <2>1
  <2> QED
    BY <1>1, <2>4, <2>5 DEF TelemetryInv, TelemetryTypeOK
<1>7. Gathered'
  <2> DEFINE m == Len(found.options)
  <2>1. m \in Nat /\ m < n /\ \A i \in 1..m : found.options[i] \in 1..MaxPoints
    BY <1>1, TelemetryTypes DEF TelemetryInv, Gathered
  <2>2. CASE wanted
    <3>1. /\ Len(found'.options) = m + 1
          /\ \A i \in 1..m : found'.options[i] = found.options[i]
          /\ found'.options[m + 1] = n
      BY <1>3, <2>2, TelemetryTypes DEF TelemetryInv
    <3>2. \A i \in 1..m : found.options[i] \in Counting /\ found.options[i] < n
      BY <1>5 DEF TelemetryInv, Gathered
    <3>3. \A i, k \in 1..m + 1 : i < k => found'.options[i] < found'.options[k]
      <4> TAKE i, k \in 1..m + 1
      <4>1. CASE k = m + 1
        BY <2>1, <3>1, <3>2, <4>1
      <4>2. CASE k # m + 1 /\ i < k
        <5>1. i \in 1..m /\ k \in 1..m
          BY <2>1, <4>2
        <5>2. found.options[i] < found.options[k]
          BY <4>2, <5>1 DEF TelemetryInv, Gathered
        <5> QED
          BY <3>1, <5>1, <5>2
      <4> QED
        BY <2>1, <4>1, <4>2
    <3>4. \A i \in 1..m + 1 : found'.options[i] \in Counting' /\ Passes(batch[found'.options[i]])
      <4> TAKE i \in 1..m + 1
      <4>1. CASE i = m + 1
        BY <1>4, <2>2, <3>1, <4>1
      <4>2. CASE i # m + 1
        BY <1>4, <2>1, <3>1, <3>2, <4>2 DEF TelemetryInv, Gathered
      <4> QED
        BY <4>1, <4>2
    <3>5. \A i \in Counting' : Passes(batch[i]) => \E k \in 1..m + 1 : found'.options[k] = i
      <4> SUFFICES ASSUME NEW i \in Counting', Passes(batch[i])
                   PROVE  \E k \in 1..m + 1 : found'.options[k] = i
        OBVIOUS
      <4>1. CASE i = n
        BY <2>1, <3>1, <4>1
      <4>2. CASE i \in Counting
        <5>1. PICK k \in 1..m : found.options[k] = i
          BY <4>2 DEF TelemetryInv, Gathered
        <5> QED
          BY <2>1, <3>1, <5>1
      <4> QED
        BY <1>4, <2>2, <4>1, <4>2
    <3> QED
      BY <1>1, <2>1, <3>1, <3>3, <3>4, <3>5 DEF Gathered
  <2>3. CASE ~wanted
    <3>1. found'.options = found.options
      BY <1>3, <2>3
    <3>2. \A i \in Counting' : Passes(batch[i]) => i \in Counting
      BY <1>4, <2>3
    <3>3. Counting \subseteq Counting'
      BY <1>4
    <3> QED
      BY <1>1, <2>1, <3>1, <3>2, <3>3 DEF TelemetryInv, Gathered
  <2> QED
    BY <2>2, <2>3
<1>8. Recognised'
  <2>1. CASE counts
    <3>1. /\ found'.nodeVersion = batch[n].version
          /\ found'.agent = IF batch[n].agent = NoTag THEN found.agent ELSE batch[n].agent
          /\ batch[n].version # NoTag
      BY <1>2, <2>1 DEF Counts
    <3>2. n \in Counting' /\ \A k \in Counting' : k <= n
      BY <1>1, <1>4, <1>5, <2>1
    <3>3. found'.nodeVersion = batch'[n].version
      BY <1>1, <3>1
    <3>4. found'.agent = NoTag => \A i \in Counting' : batch'[i].agent = NoTag
      BY <1>1, <1>4, <3>1 DEF TelemetryInv, Recognised
    <3>5. found'.agent # NoTag => \E i \in Counting' : found'.agent = batch'[i].agent
      BY <1>1, <1>4, <3>1, <3>2 DEF TelemetryInv, Recognised
    <3> QED
      BY <3>1, <3>2, <3>3, <3>4, <3>5 DEF Recognised
  <2>2. CASE ~counts
    BY <1>1, <1>2, <1>4, <2>2 DEF TelemetryInv, Recognised
  <2> QED
    BY <2>1, <2>2
<1>9. Checking' /\ HandedOver' /\ Addressed'
  BY <1>1 DEF TelemetryInv, Checking, HandedOver, Addressed
<1> QED
  BY <1>6, <1>7, <1>8, <1>9 DEF TelemetryInv

\* The steps behind the loop leave what it found alone, all of which it has
\* looked at.
LEMMA LoopLeavesFound ==
  ASSUME TelemetryInv, UNCHANGED <<batch, found>>, place.loop # "idle",
         place.loop = "process" => place.nth > Len(batch),
         place'.loop \in {"write", "address", "done"}
  PROVE  Gathered' /\ Recognised'
<1>1. Looked' = 1..Len(batch)
  BY DEF Looked
<1>2. Looked = 1..Len(batch)
  <2>1. Len(batch) \in Nat /\ place.nth \in 1..MaxPoints + 1
    BY TelemetryTypes DEF TelemetryInv
  <2>2. Len(batch) \in Int /\ place.nth \in Int
    BY <2>1, TelemetryAssumption
  <2> QED
    BY <2>2 DEF TelemetryInv, Gathered, Looked
<1>3. Counting' = Counting
  BY <1>1, <1>2 DEF Counting, Counts
<1> QED
  BY <1>3 DEF TelemetryInv, Gathered, Recognised

LEMMA PointsProcessedKeeps ==
  ASSUME TelemetryInv, PointsProcessed
  PROVE  TelemetryInv'
<1> USE TelemetryAssumption
<1> DEFINE next == IF found.options = <<>> THEN "address" ELSE "write"
<1>1. /\ place.loop = "process" /\ place.nth > Len(batch)
      /\ place' = [loop |-> next, nth |-> 1]
      /\ UNCHANGED <<batch, found, influx>>
  BY DEF PointsProcessed, At
<1>2. place'.loop = next /\ place'.nth = 1 /\ next \in {"address", "write"}
  BY <1>1
<1>3. TelemetryTypeOK'
  BY <1>1 DEF TelemetryInv, TelemetryTypeOK
<1>4. Gathered' /\ Recognised'
  BY <1>1, <1>2, LoopLeavesFound
<1>5. Checking'
  BY <1>1, <1>2, TelemetryTypes DEF TelemetryInv, Checking
<1>6. HandedOver'
  <2>1. place'.loop = "address" => Len(found.options) = 0 /\ found.options = <<>>
    BY <1>2
  <2> QED
    BY <1>1, <1>2, <2>1 DEF TelemetryInv, HandedOver
<1>7. Addressed'
  BY <1>1, <1>2 DEF TelemetryInv, Addressed
<1> QED
  BY <1>3, <1>4, <1>5, <1>6, <1>7 DEF TelemetryInv

LEMMA WritePointKeeps ==
  ASSUME TelemetryInv, WritePoint
  PROVE  TelemetryInv'
<1> USE TelemetryAssumption
<1> DEFINE n == place.nth
           other == batch[found.options[n]].networkId = "other"
<1>1. /\ place.loop = "write" /\ n <= Len(found.options)
      /\ place' = IF other THEN [loop |-> "address", nth |-> 1]
                  ELSE [loop |-> "write", nth |-> n + 1]
      /\ UNCHANGED <<batch, found, influx>>
  BY DEF WritePoint, At
<1>2. n \in 1..MaxPoints + 1 /\ Len(found.options) \in Nat /\ Len(found.options) <= MaxPoints
  BY TelemetryTypes DEF TelemetryInv, Gathered
<1>3. n \in 1..Len(found.options)
  BY <1>1, <1>2
<1>4. TelemetryTypeOK'
  <2>1. place' \in [loop : {"idle", "process", "write", "address", "done"}, nth : 1..MaxPoints + 1]
    BY <1>1, <1>2
  <2> QED
    BY <1>1, <2>1 DEF TelemetryInv, TelemetryTypeOK
<1>5. place'.loop = IF other THEN "address" ELSE "write"
  BY <1>1
<1>6. Gathered' /\ Recognised'
  BY <1>1, <1>5, LoopLeavesFound
<1>7. Checking'
  <2> SUFFICES ASSUME ~other PROVE Checking'
    BY <1>5 DEF Checking
  <2>1. place'.nth = n + 1
    BY <1>1
  <2>2. \A i \in 1..n : batch[found.options[i]].networkId # "other"
    <3> TAKE i \in 1..n
    <3>1. i = n \/ i \in 1..n - 1
      BY <1>2
    <3> QED
      BY <1>1, <3>1 DEF TelemetryInv, Checking
  <2>3. (n + 1) - 1 = n /\ n + 1 <= Len(found.options) + 1
    BY <1>2, <1>3
  <2> QED
    BY <1>1, <2>1, <2>2, <2>3 DEF Checking
<1>8. HandedOver'
  BY <1>1, <1>3, <1>5 DEF TelemetryInv, HandedOver
<1>9. Addressed'
  BY <1>1, <1>5 DEF TelemetryInv, Addressed
<1> QED
  BY <1>4, <1>6, <1>7, <1>8, <1>9 DEF TelemetryInv

LEMMA HandOverKeeps ==
  ASSUME TelemetryInv, HandOver
  PROVE  TelemetryInv'
<1> USE TelemetryAssumption
<1>1. /\ place.loop = "write" /\ place.nth > Len(found.options)
      /\ influx' = [influx EXCEPT !.points = influx.points \o found.options]
      /\ place' = [loop |-> "address", nth |-> 1]
      /\ UNCHANGED <<batch, found>>
  BY DEF HandOver, At
<1>2. place'.loop = "address"
  BY <1>1
<1>3. influx' = [points |-> found.options, addresses |-> <<>>]
  <2>1. influx = [points |-> <<>>, addresses |-> <<>>]
    BY <1>1 DEF TelemetryInv, TelemetryTypeOK, HandedOver, Addressed
  <2>2. <<>> \o found.options = found.options
    BY TelemetryTypes DEF TelemetryInv
  <2> QED
    BY <1>1, <2>1, <2>2
<1>4. TelemetryTypeOK'
  <2>1. influx' \in [points : Seq(1..MaxPoints), addresses : Seq(Address)]
    BY <1>3, TelemetryTypes DEF TelemetryInv
  <2> QED
    BY <1>1, <2>1 DEF TelemetryInv, TelemetryTypeOK
<1>5. Gathered' /\ Recognised'
  BY <1>1, <1>2, LoopLeavesFound
<1>6. Checking'
  BY <1>2 DEF Checking
<1>7. HandedOver'
  <2>1. \A i \in 1..Len(found.options) : batch[found.options[i]].networkId # "other"
    <3>1. Len(found.options) \in Nat /\ place.nth \in 1..MaxPoints + 1
      BY TelemetryTypes DEF TelemetryInv
    <3>2. 1..Len(found.options) \subseteq 1..place.nth - 1
      BY <1>1, <3>1
    <3> QED
      BY <1>1, <3>2 DEF TelemetryInv, Checking
  <2> QED
    BY <1>1, <1>2, <1>3, <2>1 DEF HandedOver
<1>8. Addressed'
  BY <1>2, <1>3 DEF Addressed
<1> QED
  BY <1>4, <1>5, <1>6, <1>7, <1>8 DEF TelemetryInv

LEMMA SubmitAddressKeeps ==
  ASSUME TelemetryInv, SubmitAddress
  PROVE  TelemetryInv'
<1> USE TelemetryAssumption
<1> DEFINE address == [version |-> found.nodeVersion,
                       agent |-> IF found.agent = NoTag THEN "unknown" ELSE found.agent]
<1>1. /\ place.loop = "address"
      /\ influx' = IF found.nodeVersion = NoTag THEN influx
                   ELSE [influx EXCEPT !.addresses = Append(influx.addresses, address)]
      /\ place' = [loop |-> "done", nth |-> 1]
      /\ UNCHANGED <<batch, found>>
  BY DEF SubmitAddress, At
<1>2. place'.loop = "done"
  BY <1>1
<1>3. /\ influx'.points = influx.points
      /\ influx'.addresses = IF found.nodeVersion = NoTag THEN <<>> ELSE <<address>>
      /\ influx' \in [points : Seq(1..MaxPoints), addresses : Seq(Address)]
  <2>1. influx.addresses = <<>>
    BY <1>1 DEF TelemetryInv, Addressed
  <2>2. found.nodeVersion # NoTag => address \in Address
    BY TelemetryTypes DEF TelemetryInv, Address
  <2>3. Append(<<>>, address) = <<address>>
    OBVIOUS
  <2> HIDE DEF address
  <2>4. found.nodeVersion # NoTag => <<address>> \in Seq(Address)
    BY <2>2
  <2>5. influx \in [points : Seq(1..MaxPoints), addresses : Seq(Address)]
    BY DEF TelemetryInv, TelemetryTypeOK
  <2> QED
    BY <1>1, <2>1, <2>3, <2>4, <2>5
<1>4. TelemetryTypeOK'
  BY <1>1, <1>3 DEF TelemetryInv, TelemetryTypeOK
<1>5. Gathered' /\ Recognised'
  BY <1>1, <1>2, LoopLeavesFound
<1>6. Checking'
  BY <1>2 DEF Checking
<1>7. HandedOver'
  BY <1>1, <1>2, <1>3 DEF TelemetryInv, HandedOver
<1>8. Addressed'
  BY <1>1, <1>2, <1>3 DEF Addressed
<1> QED
  BY <1>4, <1>5, <1>6, <1>7, <1>8 DEF TelemetryInv

LEMMA TelemetryKeeps ==
  ASSUME TelemetryInv, [TelemetryNext]_telemetryVars
  PROVE  TelemetryInv'
<1>1. CASE UNCHANGED telemetryVars
  <2>1. UNCHANGED <<batch, place, found, influx>>
    BY <1>1 DEF telemetryVars
  <2>2. Counting' = Counting
    BY <2>1 DEF Counting, Looked, Counts
  <2> QED
    BY <2>1, <2>2 DEF TelemetryInv, TelemetryTypeOK, Gathered, Recognised, Checking, HandedOver,
                      Addressed
<1>2. CASE TelemetryNext
  BY <1>2, PostPointsKeeps, ProcessPointKeeps, PointsProcessedKeeps, WritePointKeeps,
     HandOverKeeps, SubmitAddressKeeps DEF TelemetryNext
<1> QED
  BY <1>1, <1>2

\* What is gathered in the end is what is wanted.
LEMMA WantedIsGathered ==
  ASSUME TelemetryInv, place.loop = "done"
  PROVE  /\ Counting = {i \in DOMAIN batch : Counts(i)}
         /\ Wanted = {found.options[i] : i \in 1..Len(found.options)}
<1>1. Looked = DOMAIN batch
  <2>1. Looked = 1..Len(batch)
    BY DEF Looked
  <2>2. DOMAIN batch = 1..Len(batch)
    BY DEF TelemetryInv, TelemetryTypeOK
  <2> QED
    BY <2>1, <2>2
<1>2. Counting = {i \in DOMAIN batch : Counts(i)}
  BY <1>1 DEF Counting
<1>3. Wanted = {i \in Counting : Passes(batch[i])}
  BY <1>2 DEF Wanted
<1>4. Wanted \subseteq {found.options[i] : i \in 1..Len(found.options)}
  BY <1>3 DEF TelemetryInv, Gathered
<1>5. \A i \in 1..Len(found.options) : found.options[i] \in Wanted
  BY <1>3 DEF TelemetryInv, Gathered
<1> QED
  BY <1>2, <1>4, <1>5

\* Of a batch of any number of points, all wanted ones are written, each once
\* and in order, or none: none if and only if a wanted one is of another
\* network (influxdb.service.ts 36-67, telemetry.controller.ts 116-172).
THEOREM BatchIsWholeOrNone == TelemetrySpec => []WholeBatchOrNone
<1>1. TelemetryInv => WholeBatchOrNone
  <2> SUFFICES ASSUME TelemetryInv, place.loop = "done" PROVE WholeBatchOrNone
    BY DEF WholeBatchOrNone
  <2> DEFINE other == \E i \in 1..Len(found.options) : batch[found.options[i]].networkId = "other"
  <2>1. other <=> \E i \in Wanted : batch[i].networkId = "other"
    BY WantedIsGathered
  <2>2. influx.points = IF other THEN <<>> ELSE found.options
    BY DEF TelemetryInv, HandedOver
  <2>3. DOMAIN found.options = 1..Len(found.options)
    BY TelemetryTypes DEF TelemetryInv
  <2> HIDE DEF other
  <2>4. CASE other
    <3>1. influx.points = <<>> /\ Written = {}
      BY <2>2, <2>4 DEF Written
    <3> QED
      BY <2>1, <2>4, <3>1 DEF WholeBatchOrNone
  <2>5. CASE ~other
    <3>1. influx.points = found.options /\ Written = Wanted
      BY <2>2, <2>3, <2>5, WantedIsGathered DEF Written
    <3>2. \A i, k \in DOMAIN influx.points : i < k => influx.points[i] < influx.points[k]
      BY <2>3, <3>1 DEF TelemetryInv, Gathered
    <3> QED
      BY <2>1, <2>5, <3>1, <3>2 DEF WholeBatchOrNone
  <2> QED
    BY <2>4, <2>5
<1> QED
  BY <1>1, TelemetryInitHolds, TelemetryKeeps, PTL DEF TelemetrySpec

\* A node that sends any point with a version that counts has its address
\* written, once, with the last of those versions and an agent of such a point,
\* whatever becomes of its points (telemetry.controller.ts 128-139, 182-212).
THEOREM NodesAreKnown == TelemetrySpec => []NodeIsKnown
<1>1. TelemetryInv => NodeIsKnown
  <2> SUFFICES ASSUME TelemetryInv, place.loop = "done" PROVE NodeIsKnown
    BY DEF NodeIsKnown
  <2> DEFINE agents == {batch[i].agent : i \in Counting} \ {NoTag}
             address == [version |-> found.nodeVersion,
                         agent |-> IF found.agent = NoTag THEN "unknown" ELSE found.agent]
  <2>1. Counting = {i \in DOMAIN batch : Counts(i)}
    BY WantedIsGathered
  <2>2. CASE Counting = {}
    BY <2>1, <2>2 DEF NodeIsKnown, TelemetryInv, Recognised, Addressed
  <2>3. CASE Counting # {}
    <3>1. influx.addresses = <<address>>
      BY <2>3 DEF TelemetryInv, Recognised, Addressed
    <3>2. Len(influx.addresses) = 1 /\ influx.addresses[1] = address
      BY <3>1
    <3>3. /\ address.version = found.nodeVersion
          /\ address.agent = IF found.agent = NoTag THEN "unknown" ELSE found.agent
      OBVIOUS
    <3> HIDE DEF address
    <3>4. \E i \in Counting : (\A k \in Counting : k <= i) /\ address.version = batch[i].version
      BY <2>3, <3>3 DEF TelemetryInv, Recognised
    <3>5. IF agents = {} THEN address.agent = "unknown" ELSE address.agent \in agents
      <4>1. CASE found.agent = NoTag
        BY <3>3, <4>1 DEF TelemetryInv, Recognised
      <4>2. CASE found.agent # NoTag
        BY <3>3, <4>2 DEF TelemetryInv, Recognised
      <4> QED
        BY <4>1, <4>2
    <3> QED
      BY <2>1, <2>3, <3>2, <3>4, <3>5 DEF NodeIsKnown
  <2> QED
    BY <2>2, <2>3
<1> QED
  BY <1>1, TelemetryInitHolds, TelemetryKeeps, PTL DEF TelemetrySpec

-----------------------------------------------------------------------------
\* All together.  A step of Services is one of one part, and none of another's.
LEMMA StepsProject ==
  ASSUME [Next]_vars
  PROVE  /\ [ReadsNext]_readsVars
         /\ [ListsNext]_listsVars
         /\ [NativeNext]_nativeVars
         /\ [BridgesNext]_bridgesVars
         /\ [TelemetryNext]_telemetryVars
BY DEF Next, vars, ReadsStep, ListsStep, NativeStep, BridgesStep, TelemetryStep

ServicesInv ==
  AnswersInv /\ ReadsInv /\ ListsInv /\ NativeInv /\ BridgesInv /\ TelemetryInv

LEMMA ServicesInvariant == Spec => []ServicesInv
<1>1. Init => ServicesInv
  BY AnswersInitHolds, ReadsInitHolds, ListsInitHolds, NativeInitHolds, BridgesInitHolds, TelemetryInitHolds
     DEF Init, ServicesInv
<1>2. ServicesInv /\ [Next]_vars => ServicesInv'
  <2> SUFFICES ASSUME ServicesInv, [Next]_vars PROVE ServicesInv'
    OBVIOUS
  <2>1. AnswersInv' /\ ReadsInv'
    BY StepsProject, ReadsKeepWhole, ReadsNextKeeps DEF ServicesInv
  <2>2. ListsInv'
    BY StepsProject, ListsKeeps DEF ServicesInv
  <2>3. NativeInv'
    BY StepsProject, NativeKeeps DEF ServicesInv
  <2>4. BridgesInv'
    BY StepsProject, BridgesKeep DEF ServicesInv
  <2>5. TelemetryInv'
    BY StepsProject, TelemetryKeeps DEF ServicesInv
  <2> QED
    BY <2>1, <2>2, <2>3, <2>4, <2>5 DEF ServicesInv
<1> QED
  BY <1>1, <1>2, PTL DEF Spec

\* Every table, request and counter of the five parts has its type, whatever
\* the blocks, rows, processes, tokens and points.
THEOREM ServicesTypeCorrect == Spec => []TypeOK
<1>1. ServicesInv => TypeOK
  BY ListsInvImplies, NativeHasType
     DEF ServicesInv, TypeOK, AnswersInv, BridgesInv, TelemetryInv
<1> QED
  BY <1>1, ServicesInvariant, PTL

=============================================================================
