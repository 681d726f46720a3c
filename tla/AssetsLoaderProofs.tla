------------------------- MODULE AssetsLoaderProofs -------------------------
(***************************************************************************)
(* Proofs about AssetsLoader: supplies and descriptions agree, and a       *)
(* transaction's descriptions are those of its last committed job, for any *)
(* number of jobs, transactions, assets, operations and workers.           *)
(*                                                                         *)
(* The argument: what a job adds to the supplies on commit is at any time  *)
(* the sum of the rows it has made less the sum of those it has undone so  *)
(* far, and the rows it deletes are those it undid, as long as no other    *)
(* job of its transaction runs.  Where one has, the transaction is in      *)
(* overlapped, and it is enough that the job keeps to its own assets.      *)
(***************************************************************************)
EXTENDS AssetsLoader, FiniteSetTheorems, SequenceTheorems, TLAPS

\* Rows that stand for an operation within the limit; there is an end of them.
Real(rows) ==
  /\ IsFiniteSet(rows)
  /\ \A d \in rows : d.op \in 1..Len(Ops[d.tx]) /\ OpOf(d).value <= MaxValue

\* The descriptions a job has read and not yet undone.
Left(r) == {r.todo[n] : n \in 1..Len(r.todo)}

\* What holds of a running job whichever others run: it is about the rows and
\* the assets of its own transaction.
Sound(r) ==
  /\ r.tx \in Txs
  /\ r.i # 0
  /\ r.pc \in {"read", "undo", "delete"} => r.made = {} /\ r.gone = {} /\ r.i = 1
  /\ Real(r.made) /\ Real(r.gone) /\ Real(Left(r))
  /\ \A d \in r.made \cup r.gone \cup Left(r) : d.tx = r.tx
  /\ \A a \in Assets \ Moves(r.tx) : r.delta[a] = 0
  /\ r.pc = "undo" => r.todo # <<>>
  /\ r.pc \in {"ops", "add"} => r.main
  /\ r.pc = "ops" => r.i <= Len(Ops[r.tx]) + 1
  /\ r.pc = "add" => r.i <= Len(Ops[r.tx]) /\ Ops[r.tx][r.i].value <= MaxValue
  /\ r.pc = "commit" => ~r.main

\* The rows job j has made when operation i is at hand.
MadeUpTo(j, r) ==
  {[by |-> j, tx |-> r.tx, op |-> n] :
     n \in {m \in 1..Len(Ops[r.tx]) : m < r.i /\ Ops[r.tx][m].value <= MaxValue}}

\* What the job has undone of the rows there are, and made anew.
Undone(r, rows) == IF r.pc = "read" THEN {} ELSE IF r.pc = "undo" THEN rows \ Left(r) ELSE rows

\* What holds of a running job while no other runs for its transaction, whose
\* rows are given.
Fits(j, r, rows) ==
  /\ \A a \in Assets : r.delta[a] = SumOf(r.made, a) - SumOf(Undone(r, rows), a)
  /\ r.pc = "undo" => /\ Left(r) \subseteq rows
                      /\ \A m, n \in 1..Len(r.todo) : r.todo[m] = r.todo[n] => m = n
  /\ r.pc \in {"ops", "add", "commit"} =>
       /\ r.gone = rows
       /\ r.made = IF r.main THEN MadeUpTo(j, r) ELSE {}

Kept(j) ==
  job[j].st = "running" =>
    /\ Sound(job[j])
    /\ job[j].tx \notin overlapped => Fits(j, job[j], DescsOf(job[j].tx))

\* Two jobs of a transaction run at once only if that is on record.
Recorded ==
  \A j, k \in Jobs :
    /\ job[j].st = "running" /\ job[k].st = "running"
    /\ job[j].tx = job[k].tx /\ j # k
    => job[j].tx \in overlapped

\* A job that was added has a transaction, one that is to be tried has an attempt
\* left, and the one that committed last is done.
Added ==
  /\ \A j \in Jobs : job[j].st # "absent" => job[j].tx \in Txs
  /\ \A j \in Jobs : job[j].st = "queued" => job[j].tries < MaxAttempts[j]
  /\ \A t \in Txs : last[t] # None => job[last[t]].st = "done"

AssetsInv ==
  /\ TypeOK
  /\ Real(descs)
  /\ Added
  /\ Recorded
  /\ \A j \in Jobs : Kept(j)
  /\ SupplyMatches
  /\ FollowsLastJob

-----------------------------------------------------------------------------
(* The sum over a set of rows.                                             *)

\* Rows that are real have operations of their transaction.
LEMMA OpIsOp ==
  ASSUME NEW d \in Desc, d.op \in 1..Len(Ops[d.tx])
  PROVE  /\ OpOf(d) \in Op
         /\ OpOf(d).value \in Nat
         /\ OpOf(d).kind \in {"mint", "burn"}
         /\ OpOf(d).asset \in Assets
<1>1. d.tx \in Txs
  BY DEF Desc
<1>2. Ops[d.tx] \in Seq(Op)
  BY <1>1, AssetsAssumption
<1>3. OpOf(d) \in Op
  BY <1>2, ElementOfSeq DEF OpOf
<1> QED
  BY <1>3 DEF Op

\* The units of finitely many rows are finitely many.
LEMMA UnitsFinite ==
  ASSUME NEW rows \in SUBSET Desc, Real(rows), NEW kind, NEW a
  PROVE  /\ IsFiniteSet(Units(rows, kind, a))
         /\ Cardinality(Units(rows, kind, a)) \in Nat
<1>1. IsFiniteSet(1..MaxValue)
  BY FS_Interval, AssetsAssumption
<1>2. IsFiniteSet(rows \X (1..MaxValue))
  BY <1>1, FS_Product DEF Real
<1>3. \A d \in rows : 1..OpOf(d).value \subseteq 1..MaxValue
  <2> SUFFICES ASSUME NEW d \in rows PROVE 1..OpOf(d).value \subseteq 1..MaxValue
    OBVIOUS
  <2>1. OpOf(d).value \in Nat /\ OpOf(d).value <= MaxValue
    BY OpIsOp DEF Real
  <2> QED
    BY <2>1, AssetsAssumption
<1>4. Units(rows, kind, a) \subseteq rows \X (1..MaxValue)
  BY <1>3 DEF Units
<1>5. IsFiniteSet(Units(rows, kind, a))
  BY <1>2, <1>4, FS_Subset
<1> QED
  BY <1>5, FS_CardinalityType

LEMMA SumIsInt ==
  ASSUME NEW rows \in SUBSET Desc, Real(rows), NEW a
  PROVE  SumOf(rows, a) \in Int
BY UnitsFinite DEF SumOf

LEMMA SumOfNone == \A a : SumOf({}, a) = 0
<1>1. \A kind, a : Units({}, kind, a) = {}
  BY DEF Units
<1> QED
  BY <1>1, FS_EmptySet DEF SumOf

\* The sum of rows taken together is the sum of their sums.
LEMMA UnitsOfUnion ==
  ASSUME NEW A \in SUBSET Desc, NEW B \in SUBSET Desc, Real(A), Real(B),
         A \cap B = {}, NEW kind, NEW a
  PROVE  Cardinality(Units(A \cup B, kind, a))
           = Cardinality(Units(A, kind, a)) + Cardinality(Units(B, kind, a))
<1>1. Units(A \cup B, kind, a) = Units(A, kind, a) \cup Units(B, kind, a)
  BY DEF Units
<1>2. Units(A, kind, a) \cap Units(B, kind, a) = {}
  BY DEF Units
<1>3. /\ IsFiniteSet(Units(A, kind, a)) /\ IsFiniteSet(Units(B, kind, a))
      /\ Cardinality(Units(A, kind, a)) \in Nat /\ Cardinality(Units(B, kind, a)) \in Nat
  BY UnitsFinite
<1>4. Cardinality(Units(A, kind, a) \cap Units(B, kind, a)) = 0
  BY <1>2, FS_EmptySet
<1> DEFINE U == Units(A, kind, a)
           V == Units(B, kind, a)
<1>5. Cardinality(U \cup V) = Cardinality(U) + Cardinality(V) - Cardinality(U \cap V)
  <2>1. IsFiniteSet(U) /\ IsFiniteSet(V)
    BY <1>3
  <2> HIDE DEF U, V
  <2> QED
    BY <2>1, FS_Union
<1> QED
  <2>1. Cardinality(U) \in Nat /\ Cardinality(V) \in Nat /\ Cardinality(U \cap V) = 0
    BY <1>3, <1>4
  <2>2. Cardinality(U \cup V) = Cardinality(U) + Cardinality(V)
    <3> HIDE DEF U, V
    <3> QED
      BY <2>1, <1>5
  <2>3. Cardinality(Units(A \cup B, kind, a)) = Cardinality(U \cup V)
    BY <1>1, Zenon
  <2> QED
    BY <2>2, <2>3, Zenon

LEMMA SumOfUnion ==
  ASSUME NEW A \in SUBSET Desc, NEW B \in SUBSET Desc, Real(A), Real(B),
         A \cap B = {}, NEW a
  PROVE  SumOf(A \cup B, a) = SumOf(A, a) + SumOf(B, a)
<1>1. \A kind : /\ Cardinality(Units(A, kind, a)) \in Nat
                /\ Cardinality(Units(B, kind, a)) \in Nat
                /\ Cardinality(Units(A \cup B, kind, a))
                     = Cardinality(Units(A, kind, a)) + Cardinality(Units(B, kind, a))
  BY UnitsFinite, UnitsOfUnion
<1> QED
  BY <1>1 DEF SumOf

\* The sum of one row is what it adds to its asset.
LEMMA SumOfOne ==
  ASSUME NEW d \in Desc, d.op \in 1..Len(Ops[d.tx]), OpOf(d).value <= MaxValue, NEW a
  PROVE  SumOf({d}, a) = IF OpOf(d).asset = a THEN Signed(OpOf(d)) ELSE 0
<1>1. OpOf(d).value \in Nat /\ OpOf(d).kind \in {"mint", "burn"}
  BY OpIsOp
<1>2. \A kind : Units({d}, kind, a) = IF OpOf(d).kind = kind /\ OpOf(d).asset = a
                                      THEN {d} \X (1..OpOf(d).value) ELSE {}
  <2> SUFFICES ASSUME NEW kind
               PROVE  Units({d}, kind, a) = IF OpOf(d).kind = kind /\ OpOf(d).asset = a
                                            THEN {d} \X (1..OpOf(d).value) ELSE {}
    OBVIOUS
  <2>1. CASE OpOf(d).kind = kind /\ OpOf(d).asset = a
    <3>1. {e \in {d} : OpOf(e).kind = kind /\ OpOf(e).asset = a} = {d}
      BY <2>1
    <3> QED
      BY <2>1, <3>1 DEF Units
  <2>2. CASE ~(OpOf(d).kind = kind /\ OpOf(d).asset = a)
    <3>1. {e \in {d} : OpOf(e).kind = kind /\ OpOf(e).asset = a} = {}
      BY <2>2
    <3> QED
      BY <2>2, <3>1 DEF Units
  <2> QED
    BY <2>1, <2>2
<1>3. Cardinality({d} \X (1..OpOf(d).value)) = OpOf(d).value
  <2> DEFINE v == OpOf(d).value
             I == 1..v
  <2>1. v \in Nat
    BY <1>1
  <2>2. IsFiniteSet(I) /\ Cardinality(I) = v
    <3> HIDE DEF v
    <3> QED
      BY <2>1, FS_Interval
  <2>3. IsFiniteSet({d}) /\ Cardinality({d}) = 1
    BY FS_Singleton
  <2>4. Cardinality({d} \X I) = 1 * v
    <3> HIDE DEF I, v
    <3>1. Cardinality({d} \X I) = Cardinality({d}) * Cardinality(I)
      BY <2>2, <2>3, FS_Product
    <3> QED
      BY <2>2, <2>3, <3>1
  <2> QED
    BY <2>1, <2>4
<1>4. Cardinality({}) = 0
  BY FS_EmptySet
<1>5. \A kind : Cardinality(Units({d}, kind, a))
                 = IF OpOf(d).kind = kind /\ OpOf(d).asset = a THEN OpOf(d).value ELSE 0
  BY <1>2, <1>3, <1>4, Zenon
<1>6. /\ Cardinality(Units({d}, "mint", a))
           = IF OpOf(d).kind = "mint" /\ OpOf(d).asset = a THEN OpOf(d).value ELSE 0
      /\ Cardinality(Units({d}, "burn", a))
           = IF OpOf(d).kind = "burn" /\ OpOf(d).asset = a THEN OpOf(d).value ELSE 0
  BY <1>5, Zenon
<1> QED
  BY <1>1, <1>6 DEF SumOf, Signed

\* Rows about other assets make no difference to an asset's sum.
LEMMA SumSame ==
  ASSUME NEW A, NEW B, NEW a,
         {e \in A : OpOf(e).asset = a} = {e \in B : OpOf(e).asset = a}
  PROVE  SumOf(A, a) = SumOf(B, a)
<1>1. \A kind : {e \in A : OpOf(e).kind = kind /\ OpOf(e).asset = a}
                  = {e \in B : OpOf(e).kind = kind /\ OpOf(e).asset = a}
  OBVIOUS
<1> QED
  BY <1>1 DEF SumOf, Units

-----------------------------------------------------------------------------
(* Real rows, and the rows of a query.                                     *)

LEMMA RealSubset ==
  ASSUME NEW A, Real(A), NEW B \in SUBSET A
  PROVE  Real(B)
BY FS_Subset DEF Real

LEMMA RealUnion ==
  ASSUME NEW A, Real(A), NEW B, Real(B)
  PROVE  Real(A \cup B)
BY FS_Union DEF Real

LEMMA RealNone == Real({})
  BY FS_EmptySet DEF Real

LEMMA DescsOfAreReal ==
  ASSUME TypeOK, Real(descs), NEW t
  PROVE  DescsOf(t) \in SUBSET Desc /\ Real(DescsOf(t))
<1>1. DescsOf(t) \in SUBSET descs
  BY DEF DescsOf
<1> QED
  BY <1>1, RealSubset DEF TypeOK

\* A query returns each row once.
LEMMA OrdersAreOrders ==
  ASSUME NEW S \in SUBSET Desc, IsFiniteSet(S), NEW s \in Orders(S)
  PROVE  /\ s \in Seq(Desc)
         /\ {s[n] : n \in 1..Len(s)} = S
         /\ \A m, n \in 1..Len(s) : s[m] = s[n] => m = n
<1> DEFINE N == Cardinality(S)
<1>1. N \in Nat
  BY FS_CardinalityType
<1>2. /\ s \in [1..N -> S]
      /\ \A d \in S : \E i \in 1..N : s[i] = d
  BY DEF Orders
<1>3. s \in Seq(Desc) /\ Len(s) = N
  BY <1>1, <1>2
<1>4. s \in Injection(1..N, S)
  <2>1. s \in Surjection(1..N, S)
    BY <1>2 DEF Surjection
  <2>2. IsFiniteSet(1..N) /\ Cardinality(1..N) = N
    <3> HIDE DEF N
    <3> QED
      BY <1>1, FS_Interval
  <2> HIDE DEF N
  <2>3. Cardinality(1..N) = Cardinality(S)
    BY <2>2 DEF N
  <2> QED
    BY <2>1, <2>2, <2>3, FS_SurjSameCardinalityImpliesInj
<1> QED
  BY <1>2, <1>3, <1>4 DEF Injection, IsInjective

-----------------------------------------------------------------------------
(* The steps.                                                              *)

LEMMA AssetsInitHolds == Init => AssetsInv
<1> SUFFICES ASSUME Init PROVE AssetsInv
  OBVIOUS
<1>1. TypeOK
  BY AssetsAssumption DEF Init, TypeOK, Blank, Job, Stages
<1>2. Real(descs)
  BY RealNone DEF Init
<1>3. Added /\ Recorded /\ \A j \in Jobs : Kept(j)
  BY DEF Init, Added, Recorded, Kept, Blank
<1>4. SupplyMatches
  BY SumOfNone DEF Init, SupplyMatches
<1>5. FollowsLastJob
  BY DEF Init, FollowsLastJob, DescsOf, LeftBy
<1> QED
  BY <1>1, <1>2, <1>3, <1>4, <1>5 DEF AssetsInv

\* What a job does in its transaction, or the end of it without commit, is seen
\* by that job only.
LEMMA JobGoesOn ==
  ASSUME AssetsInv, NEW j \in Jobs, NEW r \in Job, Update(j, r),
         UNCHANGED <<assets, supply, descs, overlapped, last>>,
         job[j].st = "running",
         r.st \in {"running", "queued", "dead"},
         r.tx = job[j].tx, r.main = job[j].main, r.tries = job[j].tries,
         r.st = "queued" => r.tries < MaxAttempts[j],
         r.st = "running" => /\ Sound(r)
                             /\ r.tx \notin overlapped => Fits(j, r, DescsOf(r.tx))
  PROVE  AssetsInv'
<1>1. /\ job' \in [Jobs -> Job]
      /\ job'[j] = r
      /\ \A k \in Jobs \ {j} : job'[k] = job[k]
  BY DEF AssetsInv, TypeOK, Update
<1>2. TypeOK'
  BY <1>1 DEF AssetsInv, TypeOK
<1>3. Real(descs')
  BY DEF AssetsInv
<1>4. Added'
  BY <1>1 DEF AssetsInv, Added, TypeOK
<1>5. Recorded'
  BY <1>1 DEF AssetsInv, Recorded
<1>6. \A t : DescsOf(t)' = DescsOf(t)
  BY DEF DescsOf
<1>7. ASSUME NEW k \in Jobs PROVE Kept(k)'
  BY <1>1, <1>6 DEF AssetsInv, Kept
<1>8. SupplyMatches'
  BY DEF AssetsInv, SupplyMatches
<1>9. FollowsLastJob'
  <2>1. \A t \in Txs : last[t] # None => job'[last[t]].main = job[last[t]].main
    BY <1>1 DEF AssetsInv, TypeOK
  <2>2. \A t \in Txs : LeftBy(last[t], t)' = LeftBy(last[t], t)
    BY <2>1 DEF LeftBy
  <2> QED
    BY <2>2, <1>6 DEF AssetsInv, FollowsLastJob
<1> QED
  BY <1>2, <1>3, <1>4, <1>5, <1>7, <1>8, <1>9 DEF AssetsInv

LEMMA RollbackKeepsIt ==
  ASSUME AssetsInv, NEW j \in Jobs, Rollback(j)
  PROVE  AssetsInv'
<1> DEFINE r == Blank(IF job[j].tries < MaxAttempts[j] THEN "queued" ELSE "dead",
                      job[j].tx, job[j].main, job[j].tries)
<1>1. job[j] \in Job
  BY DEF AssetsInv, TypeOK
<1>2. r \in Job
  BY <1>1 DEF Blank, Job, Stages
<1>3. /\ r.st \in {"queued", "dead"}
      /\ r.st = "queued" => job[j].tries < MaxAttempts[j]
      /\ r.tx = job[j].tx /\ r.main = job[j].main /\ r.tries = job[j].tries
  BY DEF Blank
<1>4. /\ job[j].st = "running"
      /\ Update(j, r)
      /\ UNCHANGED <<assets, supply, descs, overlapped, last>>
  BY DEF Rollback
<1> QED
  <2> HIDE DEF r
  <2> QED
    BY <1>2, <1>3, <1>4, JobGoesOn

LEMMA AddJobKeepsIt ==
  ASSUME AssetsInv, NEW j \in Jobs, AddJob(j)
  PROVE  AssetsInv'
<1> PICK t \in Txs, main \in BOOLEAN : Update(j, Blank("queued", t, main, 0))
  BY DEF AddJob
<1> DEFINE r == Blank("queued", t, main, 0)
<1>1. r \in Job
  BY DEF Blank, Job, Stages
<1>2. /\ job' \in [Jobs -> Job]
      /\ job'[j] = r
      /\ \A k \in Jobs \ {j} : job'[k] = job[k]
      /\ UNCHANGED <<assets, supply, descs, overlapped, last>>
      /\ job[j].st = "absent"
  BY <1>1 DEF AssetsInv, TypeOK, Update, AddJob
<1>3. /\ r.st = "queued" /\ r.tx = t /\ r.tries = 0
      /\ MaxAttempts[j] \in Nat /\ 0 < MaxAttempts[j]
  BY AssetsAssumption DEF Blank
<1> HIDE DEF r
<1>4. TypeOK'
  BY <1>2, <1>3 DEF AssetsInv, TypeOK
<1>5. Real(descs')
  BY <1>2 DEF AssetsInv
<1>6. Added'
  BY <1>2, <1>3 DEF AssetsInv, Added, TypeOK
<1>7. Recorded'
  BY <1>2, <1>3 DEF AssetsInv, Recorded
<1>8. \A u : DescsOf(u)' = DescsOf(u)
  BY <1>2 DEF DescsOf
<1>9. ASSUME NEW k \in Jobs PROVE Kept(k)'
  BY <1>2, <1>3, <1>8 DEF AssetsInv, Kept
<1>10. SupplyMatches'
  BY <1>2 DEF AssetsInv, SupplyMatches
<1>11. FollowsLastJob'
  <2>1. \A u \in Txs : last[u] # None => job'[last[u]].main = job[last[u]].main
    BY <1>2 DEF AssetsInv, TypeOK, Added
  <2>2. \A u \in Txs : LeftBy(last[u], u)' = LeftBy(last[u], u)
    BY <1>2, <2>1 DEF LeftBy
  <2> QED
    BY <1>2, <2>2, <1>8 DEF AssetsInv, FollowsLastJob
<1> QED
  BY <1>4, <1>5, <1>6, <1>7, <1>9, <1>10, <1>11 DEF AssetsInv

\* A job that starts has done nothing; if another of its transaction runs, that
\* is recorded.
LEMMA StartJobKeepsIt ==
  ASSUME AssetsInv, NEW j \in Jobs, StartJob(j)
  PROVE  AssetsInv'
<1> DEFINE r == Blank("running", job[j].tx, job[j].main, job[j].tries + 1)
<1>1. job[j] \in Job /\ job[j].st = "queued" /\ job[j].tx \in Txs
      /\ job[j].tries < MaxAttempts[j] /\ MaxAttempts[j] \in Nat
  BY AssetsAssumption DEF AssetsInv, TypeOK, StartJob, Added
<1>2. r \in Job
  BY <1>1 DEF Blank, Job, Stages
<1>3. /\ r.st = "running" /\ r.tx = job[j].tx /\ r.main = job[j].main
      /\ r.tries = job[j].tries + 1
      /\ r.pc = "read" /\ r.todo = <<>> /\ r.i = 1 /\ r.delta = [a \in Assets |-> 0]
      /\ r.made = {} /\ r.gone = {}
  BY DEF Blank
<1> HIDE DEF r
<1>4. /\ job' \in [Jobs -> Job]
      /\ job'[j] = r
      /\ \A k \in Jobs \ {j} : job'[k] = job[k]
      /\ UNCHANGED <<assets, supply, descs, last>>
  BY <1>2 DEF AssetsInv, TypeOK, Update, StartJob, r
<1>5. /\ overlapped \subseteq overlapped' /\ overlapped' \subseteq Txs
      /\ (\E k \in RunningJobs : job[k].tx = job[j].tx) => job[j].tx \in overlapped'
  BY <1>1 DEF StartJob, AssetsInv, TypeOK
<1>6. TypeOK'
  <2>1. job[j].tries \in Nat
    BY <1>1 DEF Job
  <2>2. r.tries <= MaxAttempts[j]
    BY <1>1, <1>3, <2>1
  <2> QED
    BY <1>4, <1>5, <2>2 DEF AssetsInv, TypeOK
<1>7. Real(descs')
  BY <1>4 DEF AssetsInv
<1>8. Added'
  BY <1>1, <1>3, <1>4 DEF AssetsInv, TypeOK, Added
<1>9. Recorded'
  <2> SUFFICES ASSUME NEW k \in Jobs, NEW m \in Jobs,
                      job'[k].st = "running", job'[m].st = "running",
                      job'[k].tx = job'[m].tx, k # m
               PROVE  job'[k].tx \in overlapped'
    BY DEF Recorded
  <2>1. CASE k # j /\ m # j
    BY <1>4, <1>5, <2>1 DEF AssetsInv, Recorded
  <2>2. CASE k = j
    BY <1>3, <1>4, <1>5, <2>2 DEF RunningJobs
  <2>3. CASE m = j
    BY <1>3, <1>4, <1>5, <2>3 DEF RunningJobs
  <2> QED
    BY <2>1, <2>2, <2>3
<1>10. \A u : DescsOf(u)' = DescsOf(u)
  BY <1>4 DEF DescsOf
<1>11. ASSUME NEW k \in Jobs PROVE Kept(k)'
  <2>1. CASE k # j
    BY <1>4, <1>5, <1>10, <2>1 DEF AssetsInv, Kept
  <2>2. CASE k = j
    <3>1. Left(r) = {}
      BY <1>3 DEF Left
    <3>2. Sound(r)
      BY <1>1, <1>3, <3>1, RealNone DEF Sound
    <3>3. Fits(j, r, DescsOf(r.tx))
      BY <1>3, SumOfNone DEF Fits, Undone
    <3> QED
      BY <2>2, <1>4, <1>10, <3>2, <3>3 DEF Kept
  <2> QED
    BY <2>1, <2>2
<1>12. SupplyMatches'
  BY <1>4, <1>5 DEF AssetsInv, SupplyMatches
<1>13. FollowsLastJob'
  <2>1. \A u \in Txs : last[u] # None => job'[last[u]].main = job[last[u]].main
    BY <1>3, <1>4 DEF AssetsInv, TypeOK
  <2>2. \A u \in Txs : LeftBy(last[u], u)' = LeftBy(last[u], u)
    BY <1>4, <2>1 DEF LeftBy
  <2> QED
    BY <1>5, <1>4, <2>2, <1>10 DEF AssetsInv, FollowsLastJob
<1> QED
  BY <1>6, <1>7, <1>8, <1>9, <1>11, <1>12, <1>13 DEF AssetsInv

\* What is known of the job that takes a step.
LEMMA OfRunning ==
  ASSUME AssetsInv, NEW j \in Jobs, job[j].st = "running"
  PROVE  /\ job[j] \in Job
         /\ Sound(job[j])
         /\ job[j].tx \in Txs
         /\ job[j].tx \notin overlapped => Fits(j, job[j], DescsOf(job[j].tx))
         /\ DescsOf(job[j].tx) \in SUBSET Desc /\ Real(DescsOf(job[j].tx))
         /\ Ops[job[j].tx] \in Seq(Op)
<1>1. job[j] \in Job /\ Kept(j)
  BY DEF AssetsInv, TypeOK
<1>2. Sound(job[j]) /\ job[j].tx \in Txs
  BY <1>1 DEF Kept, Sound
<1>3. DescsOf(job[j].tx) \in SUBSET Desc /\ Real(DescsOf(job[j].tx))
  BY DescsOfAreReal DEF AssetsInv
<1> QED
  BY <1>1, <1>2, <1>3, AssetsAssumption DEF Kept

\* updateSupply adds to what the job moves of one asset.
LEMMA MoveMoves ==
  ASSUME NEW r \in Job, NEW a \in Assets, NEW n \in Int
  PROVE  /\ Move(r, a, n) \in Job
         /\ \A b \in Assets : Move(r, a, n).delta[b] = IF b = a THEN r.delta[b] + n ELSE r.delta[b]
<1>1. Move(r, a, n) = [r EXCEPT !.moved = r.moved \cup {a},
                               !.delta = [r.delta EXCEPT ![a] = @ + n]]
  BY DEF Move, Job
<1> DEFINE new == [r.delta EXCEPT ![a] = @ + n]
<1>2. /\ new \in [Assets -> Int]
      /\ \A b \in Assets : new[b] = IF b = a THEN r.delta[b] + n ELSE r.delta[b]
  BY DEF Job
<1> HIDE DEF new
<1>3. [r EXCEPT !.moved = r.moved \cup {a}, !.delta = new] \in Job
      /\ [r EXCEPT !.moved = r.moved \cup {a}, !.delta = new].delta = new
  BY <1>2 DEF Job
<1> QED
  BY <1>1, <1>2, <1>3 DEF new

LEMMA ReadDescriptionsKeepsIt ==
  ASSUME AssetsInv, NEW j \in Jobs, ReadDescriptions(j)
  PROVE  AssetsInv'
<1> DEFINE rows == DescsOf(job[j].tx)
<1>1. PICK todo \in Orders(rows) :
        Update(j, [job[j] EXCEPT !.todo = todo,
                                 !.pc = IF todo = <<>> THEN AfterDelete(j) ELSE "undo"])
  BY DEF ReadDescriptions, DescsOf
<1> DEFINE r == [job[j] EXCEPT !.todo = todo,
                               !.pc = IF todo = <<>> THEN AfterDelete(j) ELSE "undo"]
<1>2. job[j].st = "running" /\ job[j].pc = "read"
  BY DEF ReadDescriptions, At
<1>3. /\ job[j] \in Job /\ Sound(job[j])
      /\ job[j].tx \notin overlapped => Fits(j, job[j], rows)
      /\ rows \in SUBSET Desc /\ Real(rows)
      /\ Ops[job[j].tx] \in Seq(Op)
  BY <1>2, OfRunning
<1>4. /\ todo \in Seq(Desc)
      /\ {todo[n] : n \in 1..Len(todo)} = rows
      /\ \A m, n \in 1..Len(todo) : todo[m] = todo[n] => m = n
  <2> HIDE DEF rows
  <2> QED
    BY <1>1, <1>3, OrdersAreOrders DEF Real
<1>5. \A d \in rows : d.tx = job[j].tx
  BY DEF DescsOf
<1> HIDE DEF rows
<1>6. /\ r \in Job /\ r.todo = todo
      /\ r.st = "running" /\ r.tx = job[j].tx /\ r.main = job[j].main
      /\ r.tries = job[j].tries /\ r.i = job[j].i /\ r.delta = job[j].delta
      /\ r.made = job[j].made /\ r.gone = job[j].gone
      /\ r.pc = IF todo = <<>> THEN AfterDelete(j) ELSE "undo"
  BY <1>2, <1>3, <1>4 DEF Job, Stages, AfterDelete
<1>7. Update(j, r)
  BY <1>1
<1> HIDE DEF r
<1>8. Left(r) = rows
  BY <1>4, <1>6 DEF Left
<1>9. \/ r.pc = "undo" /\ todo # <<>>
      \/ rows = {} /\ r.pc = AfterDelete(j)
  <2>1. CASE todo = <<>>
    <3>1. 1..Len(todo) = {}
      BY <2>1
    <3> QED
      BY <1>4, <1>6, <2>1, <3>1
  <2>2. CASE todo # <<>>
    BY <1>6, <2>2
  <2> QED
    BY <2>1, <2>2
<1>10. Sound(r)
  <2>1. r.i = 1 /\ 1 <= Len(Ops[r.tx]) + 1
    BY <1>2, <1>3, <1>6 DEF Sound
  <2>2. r.pc \in {"undo", "ops", "commit"} /\ (r.pc = "ops" => r.main)
        /\ (r.pc = "commit" => ~r.main) /\ (r.pc = "undo" => r.todo # <<>>)
    BY <1>6, <1>9 DEF AfterDelete
  <2>3. /\ r.tx \in Txs /\ r.made = {} /\ r.gone = {}
        /\ \A a \in Assets \ Moves(r.tx) : r.delta[a] = 0
    BY <1>2, <1>3, <1>6 DEF Sound
  <2> QED
    BY <1>3, <1>5, <1>6, <1>8, <2>1, <2>2, <2>3, RealNone DEF Sound
<1>11. ASSUME r.tx \notin overlapped PROVE Fits(j, r, DescsOf(r.tx))
  <2>1. r.made = {} /\ r.gone = {} /\ r.i = 1
    BY <1>2, <1>3, <1>6 DEF Sound
  <2>2. \A a \in Assets : r.delta[a] = SumOf({}, a) - SumOf({}, a)
    BY <1>2, <1>3, <1>6, <1>11, <2>1 DEF Fits, Undone
  <2>3. Undone(r, rows) = {}
    BY <1>8, <1>9 DEF Undone, AfterDelete
  <2>4. MadeUpTo(j, r) = {}
    BY <2>1 DEF MadeUpTo
  <2>5. r.pc # "undo" => r.gone = rows
    BY <1>9, <2>1
  <2>6. r.pc = "undo" => Left(r) \subseteq rows
                         /\ \A m, n \in 1..Len(r.todo) : r.todo[m] = r.todo[n] => m = n
    BY <1>4, <1>6, <1>8
  <2>7. DescsOf(r.tx) = rows
    BY <1>6 DEF rows
  <2> QED
    BY <2>1, <2>2, <2>3, <2>4, <2>5, <2>6, <2>7 DEF Fits
<1> QED
  BY <1>2, <1>6, <1>7, <1>10, <1>11, JobGoesOn DEF ReadDescriptions

\* The supply change of a row is reversed: the job has one row less to undo,
\* and one more is undone.
LEMMA UndoDescriptionKeepsIt ==
  ASSUME AssetsInv, NEW j \in Jobs, UndoDescription(j)
  PROVE  AssetsInv'
<1> DEFINE d == Head(job[j].todo)
           b == OpOf(d).asset
           rows == DescsOf(job[j].tx)
           r == [Move(job[j], b, -Signed(OpOf(d))) EXCEPT
                   !.todo = Tail(@),
                   !.pc = IF Len(job[j].todo) = 1 THEN "delete" ELSE "undo"]
<1>1. /\ job[j].st = "running" /\ job[j].pc = "undo"
      /\ Update(j, r)
      /\ UNCHANGED <<assets, supply, descs, overlapped, last>>
  BY DEF UndoDescription, At
<1>2. /\ job[j] \in Job /\ Sound(job[j])
      /\ job[j].tx \notin overlapped => Fits(j, job[j], rows)
      /\ rows \in SUBSET Desc /\ Real(rows)
  BY <1>1, OfRunning
<1> DEFINE todo == job[j].todo
<1>3. /\ todo \in Seq(Desc) /\ todo # <<>>
      /\ d = todo[1] /\ d \in Desc /\ d \in Left(job[j])
      /\ Tail(todo) \in Seq(Desc) /\ Len(Tail(todo)) = Len(todo) - 1
      /\ \A n \in 1..Len(Tail(todo)) : Tail(todo)[n] = todo[n + 1]
      /\ Len(todo) \in Nat \ {0}
  <2>1. todo \in Seq(Desc) /\ todo # <<>>
    BY <1>1, <1>2 DEF Sound, Job
  <2>2. Len(todo) \in Nat \ {0} /\ d = todo[1]
    BY <2>1
  <2>3. d \in Left(job[j])
    BY <2>2 DEF Left
  <2> QED
    BY <2>1, <2>2, <2>3, HeadTailProperties
<1>4. /\ d.tx = job[j].tx /\ d.op \in 1..Len(Ops[d.tx]) /\ OpOf(d).value <= MaxValue
  BY <1>2, <1>3 DEF Sound, Real
<1>5. /\ OpOf(d) \in Op /\ b \in Assets /\ Signed(OpOf(d)) \in Int
      /\ b \in Moves(job[j].tx)
  <2>1. OpOf(d).value \in Nat /\ b \in Assets /\ OpOf(d) \in Op
    BY <1>3, <1>4, OpIsOp
  <2>2. b \in Moves(job[j].tx)
    BY <1>4 DEF Moves, OpOf
  <2> QED
    BY <2>1, <2>2 DEF Signed
<1> HIDE DEF d, b, rows, todo
<1>6. /\ r \in Job /\ r.todo = Tail(todo)
      /\ r.st = "running" /\ r.tx = job[j].tx /\ r.main = job[j].main
      /\ r.tries = job[j].tries /\ r.i = job[j].i
      /\ r.made = job[j].made /\ r.gone = job[j].gone
      /\ r.pc = IF Len(todo) = 1 THEN "delete" ELSE "undo"
  <2> DEFINE v == -Signed(OpOf(d))
             m == Move(job[j], b, v)
  <2>1. m \in Job
    <3>1. v \in Int
      BY <1>5
    <3> HIDE DEF v
    <3> QED
      BY <1>2, <1>5, <3>1, MoveMoves
  <2>2. /\ m.st = "running" /\ m.tx = job[j].tx /\ m.main = job[j].main
        /\ m.tries = job[j].tries /\ m.i = job[j].i /\ m.todo = todo
        /\ m.made = job[j].made /\ m.gone = job[j].gone
    BY <1>1, <1>2 DEF Move, Job, todo
  <2> HIDE DEF m
  <2>3. r = [m EXCEPT !.todo = Tail(@), !.pc = IF Len(todo) = 1 THEN "delete" ELSE "undo"]
    BY DEF m, todo
  <2> HIDE DEF r
  <2> QED
    BY <1>3, <2>1, <2>2, <2>3 DEF Job, Stages
<1>7. \A a \in Assets :
        r.delta[a] = IF a = b THEN job[j].delta[a] - Signed(OpOf(d)) ELSE job[j].delta[a]
  <2> DEFINE v == -Signed(OpOf(d))
             m == Move(job[j], b, v)
  <2>1. /\ m \in Job
        /\ \A a \in Assets : m.delta[a] = IF a = b THEN job[j].delta[a] + v ELSE job[j].delta[a]
    <3>1. v \in Int
      BY <1>5
    <3> HIDE DEF v
    <3>2. /\ Move(job[j], b, v) \in Job
          /\ \A a \in Assets : Move(job[j], b, v).delta[a]
                                = IF a = b THEN job[j].delta[a] + v ELSE job[j].delta[a]
      BY <1>2, <1>5, <3>1, MoveMoves
    <3> QED
      BY <3>2
  <2> HIDE DEF m
  <2>2. r.delta = m.delta
    BY <2>1 DEF Job, m
  <2>3. \A a \in Assets : job[j].delta[a] \in Int
    BY <1>2 DEF Job
  <2> HIDE DEF r
  <2> QED
    BY <1>5, <2>1, <2>2, <2>3
<1> HIDE DEF r
<1>8. /\ Left(r) \subseteq Left(job[j])
      /\ r.pc = "undo" => r.todo # <<>>
      /\ r.pc = "delete" => Left(r) = {}
  <2>1. Left(r) \subseteq Left(job[j])
    <3> SUFFICES ASSUME NEW n \in 1..Len(Tail(todo)) PROVE Tail(todo)[n] \in Left(job[j])
      BY <1>6 DEF Left
    <3>1. n + 1 \in 1..Len(todo) /\ Tail(todo)[n] = todo[n + 1]
      BY <1>3
    <3> QED
      BY <3>1 DEF Left, todo
  <2> DEFINE rest == Tail(todo)
  <2>2. /\ rest \in Seq(Desc) /\ Len(rest) \in Nat
        /\ Len(todo) = 1 => Len(rest) = 0
        /\ Len(todo) # 1 => Len(rest) # 0
    BY <1>3
  <2> HIDE DEF rest
  <2>3. Len(todo) = 1 => 1..Len(rest) = {}
    BY <2>2
  <2>4. Len(todo) # 1 => rest # <<>>
    BY <2>2
  <2> QED
    BY <1>6, <2>1, <2>3, <2>4 DEF Left, rest
<1>9. Sound(r)
  <2>1. Real(Left(r))
    BY <1>2, <1>8, RealSubset DEF Sound
  <2>2. \A a \in Assets \ Moves(r.tx) : r.delta[a] = 0
    BY <1>2, <1>5, <1>6, <1>7 DEF Sound
  <2>3. r.pc \in {"undo", "delete"}
    BY <1>6
  <2> QED
    BY <1>1, <1>2, <1>6, <1>8, <2>1, <2>2, <2>3 DEF Sound
<1>10. ASSUME r.tx \notin overlapped PROVE Fits(j, r, DescsOf(r.tx))
  <2>1. /\ Fits(j, job[j], rows) /\ DescsOf(r.tx) = rows
        /\ r.made = {} /\ job[j].made = {} /\ r.pc \in {"undo", "delete"}
    BY <1>1, <1>2, <1>6, <1>10 DEF rows, Sound
  <2>2. Left(job[j]) \subseteq rows /\ \A m, n \in 1..Len(todo) : todo[m] = todo[n] => m = n
    BY <1>1, <2>1 DEF Fits, todo
  <2>3. Left(r) = Left(job[j]) \ {d}
    <3>1. ASSUME NEW n \in 1..Len(todo), todo[n] # d
          PROVE  n - 1 \in 1..Len(Tail(todo)) /\ Tail(todo)[n - 1] = todo[n]
      <4>1. n # 1 /\ n - 1 \in 1..Len(Tail(todo))
        BY <1>3, <3>1
      <4> QED
        BY <1>3, <4>1
    <3>2. d \notin Left(r)
      <4> SUFFICES ASSUME NEW n \in 1..Len(Tail(todo)) PROVE Tail(todo)[n] # d
        BY <1>6 DEF Left
      <4>1. n + 1 \in 1..Len(todo) /\ Tail(todo)[n] = todo[n + 1] /\ 1 \in 1..Len(todo) /\ n + 1 # 1
        BY <1>3
      <4> QED
        BY <1>3, <2>2, <4>1
    <3>3. Left(job[j]) \ {d} \subseteq Left(r)
      BY <1>6, <3>1, SMTT(30) DEF Left, todo
    <3> QED
      BY <1>8, <3>2, <3>3
  <2>4. Undone(r, rows) = rows \ Left(r) /\ Undone(job[j], rows) = rows \ Left(job[j])
    BY <1>1, <1>8, <2>1 DEF Undone
  <2>5. Undone(r, rows) = Undone(job[j], rows) \cup {d}
        /\ Undone(job[j], rows) \cap {d} = {}
    BY <1>3, <2>2, <2>3, <2>4
  <2>6. /\ Undone(job[j], rows) \in SUBSET Desc /\ Real(Undone(job[j], rows))
        /\ {d} \in SUBSET Desc /\ Real({d})
    <3>1. Undone(job[j], rows) \in SUBSET rows /\ {d} \in SUBSET rows
      BY <1>3, <2>2, <2>4
    <3> QED
      BY <1>2, <3>1, RealSubset
  <2>7. ASSUME NEW a \in Assets
        PROVE  r.delta[a] = SumOf(r.made, a) - SumOf(Undone(r, rows), a)
    <3>1. SumOf(Undone(r, rows), a) = SumOf(Undone(job[j], rows), a) + SumOf({d}, a)
      BY <2>5, <2>6, SumOfUnion
    <3>2. SumOf({d}, a) = IF b = a THEN Signed(OpOf(d)) ELSE 0
      BY <1>3, <1>4, SumOfOne DEF b
    <3>3. job[j].delta[a] = SumOf({}, a) - SumOf(Undone(job[j], rows), a)
      BY <2>1 DEF Fits
    <3>4. SumOf(Undone(job[j], rows), a) \in Int /\ SumOf({}, a) = 0
      BY <2>6, SumIsInt, SumOfNone
    <3> QED
      BY <1>5, <1>7, <2>1, <3>1, <3>2, <3>3, <3>4
  <2>8. \A m, n \in 1..Len(r.todo) : r.todo[m] = r.todo[n] => m = n
    BY <1>3, <1>6, <2>2
  <2> QED
    BY <2>1, <2>2, <2>3, <2>7, <2>8 DEF Fits
<1> QED
  BY <1>1, <1>6, <1>9, <1>10, JobGoesOn

\* The rows deleted are all there are, and those undone: no other job made one.
LEMMA DeleteDescriptionsKeepsIt ==
  ASSUME AssetsInv, NEW j \in Jobs, DeleteDescriptions(j)
  PROVE  AssetsInv'
<1> DEFINE rows == DescsOf(job[j].tx)
           r == [job[j] EXCEPT !.gone = rows, !.pc = AfterDelete(j)]
<1>1. /\ job[j].st = "running" /\ job[j].pc = "delete"
      /\ Update(j, r)
      /\ UNCHANGED <<assets, supply, descs, overlapped, last>>
  BY DEF DeleteDescriptions, At, DescsOf
<1>2. /\ job[j] \in Job /\ Sound(job[j])
      /\ job[j].tx \notin overlapped => Fits(j, job[j], rows)
      /\ rows \in SUBSET Desc /\ Real(rows)
      /\ Ops[job[j].tx] \in Seq(Op)
  BY <1>1, OfRunning
<1>3. \A d \in rows : d.tx = job[j].tx
  BY DEF DescsOf
<1> HIDE DEF rows
<1>4. /\ r \in Job /\ r.todo = job[j].todo
      /\ r.st = "running" /\ r.tx = job[j].tx /\ r.main = job[j].main
      /\ r.tries = job[j].tries /\ r.i = job[j].i /\ r.delta = job[j].delta
      /\ r.made = job[j].made /\ r.gone = rows /\ r.pc = AfterDelete(j)
  BY <1>1, <1>2 DEF Job, Stages, AfterDelete
<1> HIDE DEF r
<1>5. /\ r.pc \in {"ops", "commit"} /\ (r.pc = "ops" => r.main) /\ (r.pc = "commit" => ~r.main)
      /\ r.made = {} /\ r.i = 1 /\ Len(Ops[r.tx]) \in Nat
  BY <1>1, <1>2, <1>4 DEF Sound, AfterDelete
<1>6. Sound(r)
  <2>1. Left(r) = Left(job[j])
    BY <1>4 DEF Left
  <2>2. Real(r.gone) /\ Real(r.made) /\ \A d \in r.gone : d.tx = r.tx
    BY <1>2, <1>3, <1>4, <1>5, RealNone
  <2> QED
    BY <1>2, <1>4, <1>5, <2>1, <2>2 DEF Sound
<1>7. ASSUME r.tx \notin overlapped PROVE Fits(j, r, DescsOf(r.tx))
  <2>1. Fits(j, job[j], rows) /\ DescsOf(r.tx) = rows
    BY <1>2, <1>4, <1>7 DEF rows
  <2>2. Undone(r, rows) = rows /\ Undone(job[j], rows) = rows
    BY <1>1, <1>5 DEF Undone
  <2>3. MadeUpTo(j, r) = {}
    BY <1>5 DEF MadeUpTo
  <2> QED
    BY <1>4, <1>5, <2>1, <2>2, <2>3 DEF Fits
<1> QED
  BY <1>1, <1>4, <1>6, <1>7, JobGoesOn

\* What the mint and the burn at hand are.
LEMMA OpAtIsOp ==
  ASSUME AssetsInv, NEW j \in Jobs, job[j].st = "running", job[j].i <= Len(OpsOf(j))
  PROVE  /\ job[j].i \in 1..Len(Ops[job[j].tx])
         /\ OpAt(j) = Ops[job[j].tx][job[j].i]
         /\ OpAt(j) \in Op
<1>1. job[j].i \in Nat /\ job[j].i # 0 /\ Ops[job[j].tx] \in Seq(Op)
  BY OfRunning DEF Sound, Job
<1>2. job[j].i \in 1..Len(Ops[job[j].tx])
  BY <1>1 DEF OpsOf
<1> QED
  BY <1>1, <1>2, ElementOfSeq DEF OpAt, OpsOf

\* An operation above the limit is passed over.
LEMMA OpPassedKeepsIt ==
  ASSUME AssetsInv, NEW j \in Jobs, At(j, "ops"), job[j].i <= Len(OpsOf(j)),
         OpAt(j).value > MaxValue, NEW fresh \in SUBSET Assets,
         Update(j, [Next1(j) EXCEPT !.fresh = fresh]),
         UNCHANGED <<assets, supply, descs, overlapped, last>>
  PROVE  AssetsInv'
<1> DEFINE rows == DescsOf(job[j].tx)
           r == [Next1(j) EXCEPT !.fresh = fresh]
<1>1. job[j].st = "running" /\ job[j].pc = "ops"
  BY DEF At
<1>2. /\ job[j] \in Job /\ Sound(job[j])
      /\ job[j].tx \notin overlapped => Fits(j, job[j], rows)
      /\ Ops[job[j].tx] \in Seq(Op)
  BY <1>1, OfRunning
<1>3. /\ job[j].i \in 1..Len(Ops[job[j].tx]) /\ Len(Ops[job[j].tx]) \in Nat
      /\ Ops[job[j].tx][job[j].i].value \in Nat
      /\ Ops[job[j].tx][job[j].i].value > MaxValue
  BY <1>1, <1>2, OpAtIsOp DEF Op
<1>4. /\ r \in Job /\ r.todo = job[j].todo
      /\ r.st = "running" /\ r.tx = job[j].tx /\ r.main = job[j].main
      /\ r.tries = job[j].tries /\ r.i = job[j].i + 1 /\ r.delta = job[j].delta
      /\ r.made = job[j].made /\ r.gone = job[j].gone /\ r.pc = "ops"
  <2> DEFINE next == job[j].i + 1
  <2>1. next \in Nat
    BY <1>3
  <2>2. r = [job[j] EXCEPT !.i = next, !.pc = "ops", !.fresh = fresh]
    BY <1>2 DEF Next1, Job
  <2> HIDE DEF r, next
  <2>3. /\ r \in Job /\ r.todo = job[j].todo
        /\ r.st = "running" /\ r.tx = job[j].tx /\ r.main = job[j].main
        /\ r.tries = job[j].tries /\ r.i = next /\ r.delta = job[j].delta
        /\ r.made = job[j].made /\ r.gone = job[j].gone /\ r.pc = "ops"
    BY <1>1, <1>2, <2>1, <2>2 DEF Job, Stages
  <2> QED
    BY <2>3 DEF next
<1> HIDE DEF r, rows
<1>5. Sound(r)
  <2>1. Left(r) = Left(job[j])
    BY <1>4 DEF Left
  <2>2. r.i <= Len(Ops[r.tx]) + 1 /\ r.i # 0
    BY <1>3, <1>4
  <2> QED
    BY <1>1, <1>2, <1>4, <2>1, <2>2 DEF Sound
<1>6. ASSUME r.tx \notin overlapped PROVE Fits(j, r, DescsOf(r.tx))
  <2>1. Fits(j, job[j], rows) /\ DescsOf(r.tx) = rows
    BY <1>2, <1>4, <1>6 DEF rows
  <2>2. Undone(r, rows) = rows /\ Undone(job[j], rows) = rows
    BY <1>1, <1>4 DEF Undone
  <2>3. \A m \in 1..Len(Ops[r.tx]) :
          m < r.i /\ Ops[r.tx][m].value <= MaxValue
            <=> m < job[j].i /\ Ops[r.tx][m].value <= MaxValue
    <3> SUFFICES ASSUME NEW m \in 1..Len(Ops[r.tx]), Ops[r.tx][m].value <= MaxValue
                 PROVE  m < r.i <=> m < job[j].i
      OBVIOUS
    <3>1. m # job[j].i
      BY <1>3, <1>4, AssetsAssumption, SMTT(30)
    <3> QED
      BY <1>3, <1>4, <3>1
  <2>4. MadeUpTo(j, r) = MadeUpTo(j, job[j])
    BY <1>4, <2>3 DEF MadeUpTo
  <2> QED
    BY <1>1, <1>4, <2>1, <2>2, <2>4 DEF Fits
<1> QED
  BY <1>1, <1>4, <1>5, <1>6, JobGoesOn DEF r

\* An operation within the limit is to be described.
LEMMA OpTakenKeepsIt ==
  ASSUME AssetsInv, NEW j \in Jobs, At(j, "ops"), job[j].i <= Len(OpsOf(j)),
         OpAt(j).value <= MaxValue, NEW fresh \in SUBSET Assets,
         Update(j, [job[j] EXCEPT !.pc = "add", !.fresh = fresh]),
         UNCHANGED <<assets, supply, descs, overlapped, last>>
  PROVE  AssetsInv'
<1> DEFINE rows == DescsOf(job[j].tx)
           r == [job[j] EXCEPT !.pc = "add", !.fresh = fresh]
<1>1. job[j].st = "running" /\ job[j].pc = "ops"
  BY DEF At
<1>2. /\ job[j] \in Job /\ Sound(job[j])
      /\ job[j].tx \notin overlapped => Fits(j, job[j], rows)
  BY <1>1, OfRunning
<1>3. /\ job[j].i \in 1..Len(Ops[job[j].tx])
      /\ Ops[job[j].tx][job[j].i].value <= MaxValue
  BY <1>1, <1>2, OpAtIsOp
<1>4. /\ r \in Job /\ r.todo = job[j].todo
      /\ r.st = "running" /\ r.tx = job[j].tx /\ r.main = job[j].main
      /\ r.tries = job[j].tries /\ r.i = job[j].i /\ r.delta = job[j].delta
      /\ r.made = job[j].made /\ r.gone = job[j].gone /\ r.pc = "add"
  BY <1>1, <1>2 DEF Job, Stages
<1> HIDE DEF r, rows
<1>5. Sound(r)
  <2>1. Left(r) = Left(job[j])
    BY <1>4 DEF Left
  <2> QED
    BY <1>1, <1>2, <1>3, <1>4, <2>1 DEF Sound
<1>6. ASSUME r.tx \notin overlapped PROVE Fits(j, r, DescsOf(r.tx))
  <2>1. Fits(j, job[j], rows) /\ DescsOf(r.tx) = rows
    BY <1>2, <1>4, <1>6 DEF rows
  <2>2. Undone(r, rows) = rows /\ Undone(job[j], rows) = rows
    BY <1>1, <1>4 DEF Undone
  <2>3. MadeUpTo(j, r) = MadeUpTo(j, job[j])
    BY <1>4 DEF MadeUpTo
  <2> QED
    BY <1>1, <1>4, <2>1, <2>2, <2>3 DEF Fits
<1> QED
  BY <1>1, <1>4, <1>5, <1>6, JobGoesOn DEF r

LEMMA UpsertAssetKeepsIt ==
  ASSUME AssetsInv, NEW j \in Jobs, UpsertAsset(j)
  PROVE  AssetsInv'
<1> DEFINE a == OpAt(j).asset
           fresh == IF a \in assets THEN job[j].fresh ELSE job[j].fresh \cup {a}
<1>1. /\ At(j, "ops") /\ job[j].i <= Len(OpsOf(j)) /\ job[j].st = "running"
      /\ UNCHANGED <<assets, supply, descs, overlapped, last>>
  BY DEF UpsertAsset, At
<1>2. job[j] \in Job /\ OpAt(j) \in Op
  BY <1>1, OfRunning, OpAtIsOp
<1>3. fresh \in SUBSET Assets
  BY <1>2 DEF Job, Op
<1>4. CASE OpAt(j).value > MaxValue
  <2>1. Update(j, [Next1(j) EXCEPT !.fresh = fresh])
    BY <1>2, <1>4 DEF UpsertAsset, Next1, Job
  <2> HIDE DEF fresh
  <2> QED
    BY <1>1, <1>3, <1>4, <2>1, OpPassedKeepsIt
<1>5. CASE OpAt(j).value <= MaxValue
  <2>1. ~(OpAt(j).value > MaxValue)
    BY <1>2, <1>5, AssetsAssumption DEF Op
  <2>2. Update(j, [job[j] EXCEPT !.pc = "add", !.fresh = fresh])
    BY <1>2, <2>1 DEF UpsertAsset, Job
  <2> HIDE DEF fresh
  <2> QED
    BY <1>1, <1>3, <1>5, <2>2, OpTakenKeepsIt
<1> QED
  BY <1>2, <1>4, <1>5, AssetsAssumption DEF Op

LEMMA FindAssetKeepsIt ==
  ASSUME AssetsInv, NEW j \in Jobs, FindAsset(j)
  PROVE  AssetsInv'
<1>1. /\ At(j, "ops") /\ job[j].i <= Len(OpsOf(j)) /\ job[j].st = "running"
      /\ UNCHANGED <<assets, supply, descs, overlapped, last>>
  BY DEF FindAsset, At
<1>2. job[j] \in Job /\ job[j].fresh \in SUBSET Assets
  BY <1>1, OfRunning DEF Job
<1>3. CASE OpAt(j).value > MaxValue /\ Update(j, Next1(j))
  <2>1. Next1(j) = [Next1(j) EXCEPT !.fresh = job[j].fresh]
    BY <1>2 DEF Next1, Job
  <2>2. Update(j, [Next1(j) EXCEPT !.fresh = job[j].fresh])
    BY <1>3, <2>1
  <2> QED
    BY <1>1, <1>2, <1>3, <2>2, OpPassedKeepsIt
<1>4. CASE OpAt(j).value <= MaxValue /\ Update(j, [job[j] EXCEPT !.pc = "add"])
  <2>1. [job[j] EXCEPT !.pc = "add"] = [job[j] EXCEPT !.pc = "add", !.fresh = job[j].fresh]
    BY <1>2 DEF Job
  <2>2. Update(j, [job[j] EXCEPT !.pc = "add", !.fresh = job[j].fresh])
    BY <1>4, <2>1
  <2> QED
    BY <1>1, <1>2, <1>4, <2>2, OpTakenKeepsIt
<1> QED
  BY <1>3, <1>4 DEF FindAsset

\* The row made and the supply moved go together.
LEMMA AddDescriptionKeepsIt ==
  ASSUME AssetsInv, NEW j \in Jobs, AddDescription(j)
  PROVE  AssetsInv'
<1> DEFINE rows == DescsOf(job[j].tx)
           op == OpAt(j)
           d == [by |-> j, tx |-> job[j].tx, op |-> job[j].i]
           m == Move(Next1(j), op.asset, Signed(op))
           r == [m EXCEPT !.made = @ \cup {d}]
<1>1. /\ job[j].st = "running" /\ job[j].pc = "add"
      /\ Update(j, r)
      /\ UNCHANGED <<assets, supply, descs, overlapped, last>>
  BY DEF AddDescription, At
<1>2. /\ job[j] \in Job /\ Sound(job[j])
      /\ job[j].tx \notin overlapped => Fits(j, job[j], rows)
      /\ rows \in SUBSET Desc /\ Real(rows)
      /\ Ops[job[j].tx] \in Seq(Op)
  BY <1>1, OfRunning
<1>3. job[j].i <= Len(OpsOf(j)) /\ Len(Ops[job[j].tx]) \in Nat
  BY <1>1, <1>2 DEF Sound, OpsOf
<1>4. /\ job[j].i \in 1..Len(Ops[job[j].tx])
      /\ op = Ops[job[j].tx][job[j].i] /\ op \in Op
  BY <1>1, <1>3, OpAtIsOp
<1>5. /\ op.value <= MaxValue /\ op.asset \in Assets /\ Signed(op) \in Int
      /\ op.asset \in Moves(job[j].tx)
  <2>1. op.value <= MaxValue /\ op.value \in Nat /\ op.asset \in Assets
    BY <1>1, <1>2, <1>4 DEF Sound, Op
  <2>2. op.asset \in Moves(job[j].tx)
    BY <1>4, <2>1 DEF Moves
  <2> QED
    BY <2>1, <2>2 DEF Signed
<1>6. d \in Desc /\ d.tx = job[j].tx /\ d.op = job[j].i /\ OpOf(d) = op
  <2>1. job[j].tx \in Txs /\ job[j].i \in Nat
    BY <1>2, <1>4 DEF Sound
  <2> QED
    BY <1>4, <2>1 DEF Desc, OpOf
<1>7. /\ Next1(j) \in Job
      /\ Next1(j).st = "running" /\ Next1(j).tx = job[j].tx /\ Next1(j).main = job[j].main
      /\ Next1(j).tries = job[j].tries /\ Next1(j).i = job[j].i + 1
      /\ Next1(j).todo = job[j].todo /\ Next1(j).delta = job[j].delta
      /\ Next1(j).made = job[j].made /\ Next1(j).gone = job[j].gone /\ Next1(j).pc = "ops"
  <2> DEFINE next == job[j].i + 1
  <2>1. next \in Nat
    BY <1>4
  <2>2. Next1(j) = [job[j] EXCEPT !.i = next, !.pc = "ops"]
    BY <1>2 DEF Next1, Job
  <2> HIDE DEF next
  <2>3. /\ Next1(j) \in Job
        /\ Next1(j).st = "running" /\ Next1(j).tx = job[j].tx /\ Next1(j).main = job[j].main
        /\ Next1(j).tries = job[j].tries /\ Next1(j).i = next
        /\ Next1(j).todo = job[j].todo /\ Next1(j).delta = job[j].delta
        /\ Next1(j).made = job[j].made /\ Next1(j).gone = job[j].gone /\ Next1(j).pc = "ops"
    BY <1>1, <1>2, <2>1, <2>2 DEF Job, Stages
  <2> QED
    BY <2>3 DEF next
<1> HIDE DEF rows, op, d
<1>8. /\ m \in Job
      /\ m.st = "running" /\ m.tx = job[j].tx /\ m.main = job[j].main
      /\ m.tries = job[j].tries /\ m.i = job[j].i + 1 /\ m.todo = job[j].todo
      /\ m.made = job[j].made /\ m.gone = job[j].gone /\ m.pc = "ops"
      /\ \A a \in Assets : m.delta[a] = IF a = op.asset THEN job[j].delta[a] + Signed(op)
                                        ELSE job[j].delta[a]
  <2>1. /\ m \in Job
        /\ \A a \in Assets : m.delta[a] = IF a = op.asset THEN Next1(j).delta[a] + Signed(op)
                                          ELSE Next1(j).delta[a]
    BY <1>5, <1>7, MoveMoves
  <2>2. /\ m.st = Next1(j).st /\ m.tx = Next1(j).tx /\ m.main = Next1(j).main
        /\ m.tries = Next1(j).tries /\ m.i = Next1(j).i /\ m.todo = Next1(j).todo
        /\ m.made = Next1(j).made /\ m.gone = Next1(j).gone /\ m.pc = Next1(j).pc
    BY <1>7 DEF Move, Job
  <2> HIDE DEF m
  <2> QED
    BY <1>7, <2>1, <2>2
<1> HIDE DEF m
<1>9. /\ r \in Job /\ r.todo = job[j].todo
      /\ r.st = "running" /\ r.tx = job[j].tx /\ r.main = job[j].main
      /\ r.tries = job[j].tries /\ r.i = job[j].i + 1 /\ r.delta = m.delta
      /\ r.made = job[j].made \cup {d} /\ r.gone = job[j].gone /\ r.pc = "ops"
  BY <1>6, <1>8 DEF Job
<1> HIDE DEF r
<1>10. Real(job[j].made) /\ job[j].made \in SUBSET Desc /\ Real({d}) /\ {d} \in SUBSET Desc
  <2>1. Real({d})
    BY <1>4, <1>5, <1>6, FS_Singleton DEF Real
  <2> QED
    BY <1>2, <1>6, <2>1 DEF Sound, Job
<1>11. Sound(r)
  <2>1. Left(r) = Left(job[j])
    BY <1>9 DEF Left
  <2>2. r.i <= Len(Ops[r.tx]) + 1 /\ r.i # 0
    BY <1>3, <1>4, <1>9
  <2>3. Real(r.made) /\ \A e \in r.made : e.tx = r.tx
    BY <1>2, <1>6, <1>9, <1>10, RealUnion DEF Sound
  <2>4. \A a \in Assets \ Moves(r.tx) : r.delta[a] = 0
    BY <1>2, <1>5, <1>8, <1>9 DEF Sound
  <2> QED
    BY <1>1, <1>2, <1>9, <2>1, <2>2, <2>3, <2>4 DEF Sound
<1>12. ASSUME r.tx \notin overlapped PROVE Fits(j, r, DescsOf(r.tx))
  <2>1. /\ Fits(j, job[j], rows) /\ DescsOf(r.tx) = rows
        /\ job[j].main /\ job[j].made = MadeUpTo(j, job[j])
    BY <1>1, <1>2, <1>9, <1>12 DEF rows, Sound, Fits
  <2>2. Undone(r, rows) = rows /\ Undone(job[j], rows) = rows
    BY <1>1, <1>9 DEF Undone
  <2>3. MadeUpTo(j, r) = MadeUpTo(j, job[j]) \cup {d}
    <3>1. {n \in 1..Len(Ops[r.tx]) : n < r.i /\ Ops[r.tx][n].value <= MaxValue}
            = {n \in 1..Len(Ops[r.tx]) : n < job[j].i /\ Ops[r.tx][n].value <= MaxValue}
                \cup {job[j].i}
      BY <1>3, <1>4, <1>5, <1>9
    <3> DEFINE Made(n) == [by |-> j, tx |-> r.tx, op |-> n]
               A == {n \in 1..Len(Ops[r.tx]) : n < r.i /\ Ops[r.tx][n].value <= MaxValue}
               B == {n \in 1..Len(Ops[r.tx]) : n < job[j].i /\ Ops[r.tx][n].value <= MaxValue}
    <3>2. MadeUpTo(j, r) = {Made(n) : n \in A}
      BY DEF MadeUpTo
    <3>3. MadeUpTo(j, job[j]) = {Made(n) : n \in B}
      BY <1>9 DEF MadeUpTo
    <3>4. d = Made(job[j].i)
      BY <1>9 DEF d
    <3>5. A = B \cup {job[j].i}
      BY <3>1
    <3> HIDE DEF Made, A, B, d
    <3> QED
      BY <3>2, <3>3, <3>4, <3>5
  <2>4. job[j].made \cap {d} = {}
    <3>1. \A e \in MadeUpTo(j, job[j]) : e.op < job[j].i
      BY DEF MadeUpTo
    <3> QED
      BY <1>4, <1>6, <2>1, <3>1
  <2>5. ASSUME NEW a \in Assets
        PROVE  r.delta[a] = SumOf(r.made, a) - SumOf(Undone(r, rows), a)
    <3>1. SumOf(r.made, a) = SumOf(job[j].made, a) + SumOf({d}, a)
      BY <1>9, <1>10, <2>4, SumOfUnion
    <3>2. SumOf({d}, a) = IF op.asset = a THEN Signed(op) ELSE 0
      BY <1>4, <1>5, <1>6, SumOfOne
    <3>3. job[j].delta[a] = SumOf(job[j].made, a) - SumOf(rows, a)
      BY <2>1, <2>2 DEF Fits
    <3>4. SumOf(job[j].made, a) \in Int /\ SumOf(rows, a) \in Int
      BY <1>2, <1>10, SumIsInt
    <3> QED
      BY <1>5, <1>8, <1>9, <2>2, <3>1, <3>2, <3>3, <3>4
  <2>6. r.gone = rows
    BY <1>1, <1>9, <2>1 DEF Fits
  <2> QED
    BY <1>9, <2>1, <2>3, <2>5, <2>6 DEF Fits
<1> QED
  BY <1>1, <1>9, <1>11, <1>12, JobGoesOn

\* A commit moves the supplies by what the rows it replaces and makes amount to;
\* if another job of the transaction ran, the assets of others are left alone.
LEMMA CommitKeepsIt ==
  ASSUME AssetsInv, NEW j \in Jobs, Commit(j)
  PROVE  AssetsInv'
<1> DEFINE t == job[j].tx
           rows == DescsOf(t)
           r == Blank("done", job[j].tx, job[j].main, job[j].tries)
<1>1. /\ job[j].st = "running"
      /\ \/ job[j].pc = "commit"
         \/ job[j].pc = "ops" /\ job[j].i > Len(OpsOf(j))
  BY DEF Commit, Finish, At
<1>2. /\ job[j] \in Job /\ Sound(job[j]) /\ t \in Txs
      /\ t \notin overlapped => Fits(j, job[j], rows)
      /\ rows \in SUBSET Desc /\ Real(rows)
      /\ Ops[t] \in Seq(Op)
  BY <1>1, OfRunning
<1>3. /\ r \in Job /\ r.st = "done" /\ r.tx = t /\ r.main = job[j].main
      /\ r.tries = job[j].tries
  BY <1>2 DEF Blank, Job, Stages
<1>4. /\ assets' = assets \cup job[j].fresh
      /\ supply' = [a \in Assets |-> supply[a] + job[j].delta[a]]
      /\ descs' = (descs \ job[j].gone) \cup job[j].made
      /\ last' = [last EXCEPT ![t] = j]
      /\ overlapped' = overlapped
      /\ job' = [job EXCEPT ![j] = r]
  BY DEF Commit, Update
<1>5. TypeOK /\ Real(descs)
  BY DEF AssetsInv
<1>6. /\ job' \in [Jobs -> Job]
      /\ job'[j] = r
      /\ \A k \in Jobs \ {j} : job'[k] = job[k]
      /\ last' \in [Txs -> Jobs \cup {None}]
      /\ last'[t] = j
      /\ \A u \in Txs \ {t} : last'[u] = last[u]
  <2> HIDE DEF r
  <2> QED
    BY <1>2, <1>3, <1>4, <1>5 DEF TypeOK
<1>7. /\ job[j].made \in SUBSET Desc /\ job[j].gone \in SUBSET Desc
      /\ Real(job[j].made)
      /\ \A d \in job[j].made \cup job[j].gone :
           d.tx = t /\ d.op \in 1..Len(Ops[t]) /\ OpOf(d).asset \in Moves(t)
  <2>1. /\ job[j].made \in SUBSET Desc /\ job[j].gone \in SUBSET Desc
        /\ Real(job[j].made) /\ Real(job[j].gone)
        /\ \A d \in job[j].made \cup job[j].gone : d.tx = t
    BY <1>2 DEF Sound, Job
  <2>2. \A d \in job[j].made \cup job[j].gone :
          d.op \in 1..Len(Ops[t]) /\ Ops[t][d.op].value <= MaxValue /\ OpOf(d) = Ops[t][d.op]
    BY <2>1 DEF Real, OpOf
  <2> HIDE DEF t
  <2> QED
    BY <2>1, <2>2 DEF Moves
<1> HIDE DEF r
<1>8. TypeOK'
  <2>1. supply' \in [Assets -> Int]
    BY <1>2, <1>4, <1>5 DEF TypeOK, Job
  <2>2. assets' \subseteq Assets /\ descs' \subseteq Desc
    BY <1>2, <1>4, <1>5, <1>7 DEF TypeOK, Job
  <2> QED
    BY <1>3, <1>4, <1>5, <1>6, <2>1, <2>2 DEF TypeOK
<1>9. Real(descs')
  <2>1. Real(descs \ job[j].gone)
    BY <1>5, RealSubset
  <2> QED
    BY <1>4, <1>7, <2>1, RealUnion
<1>10. Added'
  BY <1>1, <1>2, <1>3, <1>5, <1>6 DEF AssetsInv, Added, TypeOK
<1>11. Recorded'
  BY <1>3, <1>4, <1>6 DEF AssetsInv, Recorded
<1>12. \A u \in Txs \ {t} : DescsOf(u)' = DescsOf(u)
  BY <1>4, <1>7 DEF DescsOf
<1>13. ASSUME NEW k \in Jobs PROVE Kept(k)'
  <2> SUFFICES ASSUME job'[k].st = "running" PROVE Kept(k)'
    BY DEF Kept
  <2>1. k # j /\ job'[k] = job[k] /\ Kept(k)
    BY <1>3, <1>6 DEF AssetsInv
  <2>2. Sound(job[k]) /\ job[k].tx \in Txs
    BY <2>1 DEF Kept, Sound
  <2>3. ASSUME job[k].tx \notin overlapped PROVE job[k].tx # t
    BY <1>1, <2>1, <2>3 DEF AssetsInv, Recorded
  <2> HIDE DEF t
  <2> QED
    BY <1>4, <1>12, <2>1, <2>2, <2>3 DEF Kept
<1>14. ASSUME t \notin overlapped
       PROVE  /\ job[j].gone = rows
              /\ job[j].made = IF job[j].main THEN MadeUpTo(j, job[j]) ELSE {}
              /\ \A a \in Assets : job[j].delta[a] = SumOf(job[j].made, a) - SumOf(rows, a)
  BY <1>1, <1>2, <1>14 DEF Fits, Undone
<1>15. SupplyMatches'
  <2> SUFFICES ASSUME NEW a \in Assets, \A u \in overlapped : a \notin Moves(u)
               PROVE  supply'[a] = SumOf(descs', a)
    BY <1>4 DEF SupplyMatches
  <2>1. supply'[a] = supply[a] + job[j].delta[a] /\ supply[a] = SumOf(descs, a)
    BY <1>4 DEF AssetsInv, SupplyMatches
  <2>2. SumOf(descs, a) \in Int
    BY <1>5, SumIsInt DEF TypeOK
  <2>3. CASE t \in overlapped
    <3>1. job[j].delta[a] = 0
      BY <1>2, <2>3 DEF Sound
    <3>2. {e \in descs' : OpOf(e).asset = a} = {e \in descs : OpOf(e).asset = a}
      BY <1>4, <1>7, <2>3
    <3>3. SumOf(descs', a) = SumOf(descs, a)
      BY <3>2, SumSame
    <3> QED
      BY <2>1, <2>2, <3>1, <3>3
  <2>4. CASE t \notin overlapped
    <3> DEFINE others == descs \ rows
    <3>1. /\ others \in SUBSET Desc /\ Real(others)
          /\ descs = others \cup rows /\ others \cap rows = {}
          /\ descs' = others \cup job[j].made /\ others \cap job[j].made = {}
      <4>1. rows \subseteq descs /\ \A d \in others : d.tx # t
        BY DEF DescsOf
      <4>2. Real(others)
        BY <1>5, RealSubset
      <4> HIDE DEF rows, t
      <4> QED
        BY <1>4, <1>5, <1>7, <1>14, <2>4, <4>1, <4>2 DEF TypeOK
    <3> HIDE DEF others
    <3>2. SumOf(descs, a) = SumOf(others, a) + SumOf(rows, a)
      BY <1>2, <3>1, SumOfUnion
    <3>3. SumOf(descs', a) = SumOf(others, a) + SumOf(job[j].made, a)
      BY <1>7, <3>1, SumOfUnion
    <3>4. job[j].delta[a] = SumOf(job[j].made, a) - SumOf(rows, a)
      BY <1>14, <2>4
    <3>5. SumOf(others, a) \in Int /\ SumOf(rows, a) \in Int /\ SumOf(job[j].made, a) \in Int
      BY <1>2, <1>7, <3>1, SumIsInt
    <3> QED
      BY <2>1, <3>2, <3>3, <3>4, <3>5
  <2> QED
    BY <2>3, <2>4
<1>16. FollowsLastJob'
  <2> SUFFICES ASSUME NEW u \in Txs, u \notin overlapped
               PROVE  DescsOf(u)' = LeftBy(last[u], u)'
    BY <1>4 DEF FollowsLastJob
  <2>1. CASE u # t
    <3>1. last'[u] = last[u] /\ DescsOf(u)' = DescsOf(u)
      BY <1>6, <1>12, <2>1
    <3>2. last[u] # None => job'[last[u]].main = job[last[u]].main
      BY <1>3, <1>5, <1>6 DEF TypeOK
    <3>3. LeftBy(last[u], u)' = LeftBy(last[u], u)
      BY <3>1, <3>2 DEF LeftBy
    <3> QED
      BY <3>1, <3>3 DEF AssetsInv, FollowsLastJob
  <2>2. CASE u = t
    <3>1. DescsOf(u)' = job[j].made
      <4>1. DescsOf(u)' = {d \in descs' : d.tx = t}
        BY <2>2 DEF DescsOf
      <4>2. descs' = {d \in descs : d.tx # t} \cup job[j].made
        BY <1>4, <1>14, <2>2 DEF DescsOf
      <4> QED
        BY <1>7, <4>1, <4>2
    <3>2. j # None /\ job'[j].main = job[j].main /\ last'[u] = j
      BY <1>3, <1>6, <2>2, AssetsAssumption
    <3>3. job[j].main => MadeUpTo(j, job[j])
            = {[by |-> j, tx |-> t, op |-> n] :
                 n \in {n \in 1..Len(Ops[t]) : Ops[t][n].value <= MaxValue}}
      <4> SUFFICES ASSUME job[j].main
                   PROVE  \A n \in 1..Len(Ops[t]) : n < job[j].i
        BY DEF MadeUpTo
      <4>1. job[j].i > Len(Ops[t]) /\ job[j].i \in Nat /\ Len(Ops[t]) \in Nat
        BY <1>1, <1>2 DEF Sound, OpsOf, Job
      <4> QED
        BY <4>1
    <3>4. LeftBy(last[u], u)' = job[j].made
      <4>1. job[j].made = IF job[j].main THEN MadeUpTo(j, job[j]) ELSE {}
        BY <1>14, <2>2
      <4>2. LeftBy(last[u], u)'
              = IF job[j].main
                THEN {[by |-> j, tx |-> u, op |-> n] :
                        n \in {n \in 1..Len(Ops[u]) : Ops[u][n].value <= MaxValue}}
                ELSE {}
        BY <3>2 DEF LeftBy
      <4> QED
        BY <2>2, <3>3, <4>1, <4>2
    <3> QED
      BY <3>1, <3>4
  <2> QED
    BY <2>1, <2>2
<1> QED
  BY <1>8, <1>9, <1>10, <1>11, <1>13, <1>15, <1>16 DEF AssetsInv

-----------------------------------------------------------------------------
(* The theorems.                                                           *)

LEMMA AssetsStepKeepsIt == AssetsInv /\ [Next]_vars => AssetsInv'
<1> SUFFICES ASSUME AssetsInv, [Next]_vars PROVE AssetsInv'
  OBVIOUS
<1>1. ASSUME UNCHANGED vars PROVE AssetsInv'
  <2>1. /\ UNCHANGED <<assets, supply, descs, job, overlapped, last>>
        /\ \A t : DescsOf(t)' = DescsOf(t)
    BY <1>1 DEF vars, DescsOf
  <2>2. (TypeOK /\ Real(descs) /\ Added /\ Recorded)'
    BY <2>1 DEF AssetsInv, TypeOK, Added, Recorded
  <2>3. \A j \in Jobs : Kept(j)'
    BY <2>1 DEF AssetsInv, Kept
  <2>4. SupplyMatches' /\ FollowsLastJob'
    BY <2>1 DEF AssetsInv, SupplyMatches, FollowsLastJob, LeftBy
  <2> QED
    BY <2>2, <2>3, <2>4 DEF AssetsInv
<1>2. ASSUME NEW j \in Jobs, AddJob(j) PROVE AssetsInv'
  BY <1>2, AddJobKeepsIt
<1>3. ASSUME NEW j \in Jobs, Work(j) PROVE AssetsInv'
  <2>1. CASE StartJob(j)
    BY <2>1, StartJobKeepsIt
  <2>2. CASE ReadDescriptions(j)
    BY <2>2, ReadDescriptionsKeepsIt
  <2>3. CASE UndoDescription(j)
    BY <2>3, UndoDescriptionKeepsIt
  <2>4. CASE DeleteDescriptions(j)
    BY <2>4, DeleteDescriptionsKeepsIt
  <2>5. CASE UpsertAsset(j)
    BY <2>5, UpsertAssetKeepsIt
  <2>6. CASE FindAsset(j)
    BY <2>6, FindAssetKeepsIt
  <2>7. CASE AddDescription(j)
    BY <2>7, AddDescriptionKeepsIt
  <2>8. CASE Commit(j)
    BY <2>8, CommitKeepsIt
  <2>9. CASE AssetNotFound(j)
    BY <2>9, RollbackKeepsIt DEF AssetNotFound
  <2>10. CASE DeadlockAbort(j)
    BY <2>10, RollbackKeepsIt DEF DeadlockAbort
  <2> QED
    BY <1>3, <2>1, <2>2, <2>3, <2>4, <2>5, <2>6, <2>7, <2>8, <2>9, <2>10 DEF Work
<1>4. ASSUME NEW j \in Jobs, Disturb(j) PROVE AssetsInv'
  BY <1>4, RollbackKeepsIt DEF Disturb
<1> QED
  BY <1>1, <1>2, <1>3, <1>4 DEF Next

LEMMA AssetsAlways == Spec => []AssetsInv
  BY AssetsInitHolds, AssetsStepKeepsIt, PTL DEF Spec

\* The rows of the loader's tables and of its jobs have their types, and no job
\* is tried more often than its max_attempts (assets-loader.ts 29-97).
THEOREM AssetsTypeCorrect == Spec => []TypeOK
<1>1. AssetsInv => TypeOK
  BY DEF AssetsInv
<1> QED
  BY <1>1, AssetsAlways, PTL

\* An asset's supply is at any time the sum of its mints less its burns, whatever
\* jobs of different transactions run, fail and are retried at the same time
\* (assets-loader.ts 44-132, assets.service.ts 109).
THEOREM SupplyIsTheSum == Spec => []SupplyMatches
<1>1. AssetsInv => SupplyMatches
  BY DEF AssetsInv
<1> QED
  BY <1>1, AssetsAlways, PTL

\* A transaction's descriptions are those its last committed job leaves, if no
\* two of its jobs have run at once (assets-loader.ts 44-132).
THEOREM DescriptionsFollowLastJob == Spec => []FollowsLastJob
<1>1. AssetsInv => FollowsLastJob
  BY DEF AssetsInv
<1> QED
  BY <1>1, AssetsAlways, PTL

=============================================================================
