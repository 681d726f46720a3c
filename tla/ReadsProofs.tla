---------------------------- MODULE ReadsProofs -----------------------------
(***************************************************************************)
(* Proofs about Reads: although a transaction's descriptions and their     *)
(* assets are read by different queries, while jobs add and delete         *)
(* descriptions and the replica moves on, no answer fails for want of an   *)
(* asset; and although a block and its transactions are read by different  *)
(* queries while blocks are uploaded, no answer has a block and only some  *)
(* of its transactions.                                                    *)
(***************************************************************************)
EXTENDS Reads, FiniteSetTheorems, SequenceTheorems, WellFoundedInduction, TLAPS

\* A description is there with its asset only: on the primary, since a job
\* commits both at once and nothing deletes an asset; on the replica, since it
\* takes over whole commits, and has no asset the primary has not.
Described ==
  /\ \A t \in descs : AssetOf[t] \in assets
  /\ \A t \in copy.descs : AssetOf[t] \in copy.assets
  /\ copy.assets \subseteq assets

\* Of the request at hand, where it stands agrees with what it asks for; what
\* it looks up next is still there; and only GET /blocks/head asserts what may
\* fail.
Standing ==
  /\ {"pc", "kind", "nth", "txs"} \subseteq DOMAIN query
  /\ query.pc = "links" => query.kind \in {"head", "supply", "block"}
  /\ query.pc = "head" => query.kind \in {"head", "supply"}
  /\ query.pc = "previous" => query.kind = "head"
  /\ query.pc = "asset" => AssetOf[query.txs[query.nth]] \in copy.assets
  /\ query.pc = "threw" => query.kind = "head"

ReadsInv == Described /\ Standing

-----------------------------------------------------------------------------
LEMMA ReadsInitHolds == ReadsInit => ReadsInv
  BY DEF ReadsInit, NoQuery, ReadsInv, Described, Standing

\* The loader, the jobs and the replica leave the request alone, and take no
\* asset away.
LEMMA TablesKeepIt ==
  ASSUME ReadsInv, Load \/ CatchUp \/ \E t \in Txs : LoadDescriptions(t)
  PROVE  ReadsInv'
<1>1. CASE Load
  BY <1>1 DEF Load, ReadsInv, Described, Standing
<1>2. CASE CatchUp
  <2>1. /\ copy' = Now
        /\ UNCHANGED <<assets, descs, query>>
    BY <1>2 DEF CatchUp, tables
  <2>2. copy'.descs = descs /\ copy'.assets = assets
    BY <2>1 DEF Now
  <2> QED
    BY <2>1, <2>2 DEF ReadsInv, Described, Standing
<1>3. ASSUME NEW t \in Txs, LoadDescriptions(t) PROVE ReadsInv'
  <2>1. assets \subseteq assets' /\ UNCHANGED <<copy, query>>
    BY <1>3 DEF LoadDescriptions
  <2>2. \A d \in descs' : AssetOf[d] \in assets'
    BY <1>3 DEF LoadDescriptions, ReadsInv, Described
  <2> QED
    BY <2>1, <2>2 DEF ReadsInv, Described, Standing
<1> QED
  BY <1>1, <1>2, <1>3

\* A step of the request changes no table, so it remains to say where it stands.
LEMMA QueryKeepsTables ==
  ASSUME ReadsInv, NEW new, Become(new), Standing'
  PROVE  ReadsInv'
  BY DEF ReadsInv, Described, Become, tables

\* A request arrives, and stands at its first query.
LEMMA AskStands ==
  ASSUME ReadsInv, Ask
  PROVE  ReadsInv'
<1>1. PICK kind \in QueryKinds, full \in BOOLEAN, b \in Blocks \cup {None},
           t \in Txs \cup {None} : Become(Query0(kind, full, b, t))
  BY DEF Ask, QueryKinds
<1>2. query' = Query0(kind, full, b, t)
  BY <1>1 DEF Become
<1>3. /\ {"pc", "kind", "nth", "txs"} \subseteq DOMAIN query'
      /\ query'.kind = kind
      /\ query'.pc = IF kind \in {"head", "supply"} THEN "head" ELSE "find"
  BY <1>2 DEF Query0, NoQuery
<1>4. Standing'
  BY <1>3 DEF Standing
<1> QED
  BY <1>1, <1>4, QueryKeepsTables

\* One query after the other, until the answer.
LEMMA QueriesStand ==
  ASSUME ReadsInv,
         \/ ReadHead \/ FindBlock \/ FindTransactions \/ FindPrevious \/ FindTransaction
         \/ FindAsset \/ FindBlocks \/ FindDescriptions \/ FindDescribedAsset
  PROVE  ReadsInv'
<1> USE DEF ReadsInv, Standing
<1>1. ASSUME NEW pc, To(pc), pc \notin {"links", "head", "previous", "asset", "threw"}
      PROVE  ReadsInv'
  <2>1. query' = [query EXCEPT !.pc = pc]
    BY <1>1 DEF To, Become
  <2>2. Standing'
    BY <1>1, <2>1
  <2> QED
    BY <1>1, <2>2, QueryKeepsTables DEF To
<1>2. CASE ReadHead
  <2>1. CASE To("notfound")
    BY <2>1, <1>1
  <2>2. ASSUME NEW b \in chain, query.pc = "head",
               Become([query EXCEPT !.pc = "links", !.block = b])
        PROVE  ReadsInv'
    <3>1. query' = [query EXCEPT !.pc = "links", !.block = b]
      BY <2>2 DEF Become
    <3>2. Standing'
      BY <2>2, <3>1
    <3> QED
      BY <2>2, <3>2, QueryKeepsTables
  <2> QED
    BY <1>2, <2>1, <2>2 DEF ReadHead
<1>3. CASE FindBlock
  <2>1. CASE To("links")
    <3>1. query' = [query EXCEPT !.pc = "links"] /\ query.kind = "block"
      BY <1>3, <2>1 DEF FindBlock, To, Become
    <3>2. Standing'
      BY <3>1
    <3> QED
      BY <2>1, <3>2, QueryKeepsTables DEF To
  <2>2. CASE To("notfound") \/ To("done")
    BY <2>2, <1>1
  <2> QED
    BY <1>3, <2>1, <2>2 DEF FindBlock
<1>4. CASE FindTransactions
  <2> DEFINE next == CASE query.kind = "head" -> "previous"
                       [] query.kind = "supply" -> "done"
                       [] query.kind = "block" -> "descriptions"
  <2>1. PICK txs : Become([query EXCEPT !.txs = txs, !.pc = next])
    BY <1>4 DEF FindTransactions
  <2>2. next \in {"previous", "done", "descriptions"} /\ (next = "previous" => query.kind = "head")
    BY <1>4 DEF FindTransactions
  <2> HIDE DEF next
  <2>3. query' = [query EXCEPT !.txs = txs, !.pc = next]
    BY <2>1 DEF Become
  <2>4. Standing'
    BY <2>2, <2>3
  <2> QED
    BY <2>1, <2>4, QueryKeepsTables
<1>5. CASE FindPrevious
  <2>1. CASE To("threw")
    <3>1. query' = [query EXCEPT !.pc = "threw"] /\ query.kind = "head"
      BY <1>5, <2>1 DEF FindPrevious, To, Become
    <3>2. Standing'
      BY <3>1
    <3> QED
      BY <2>1, <3>2, QueryKeepsTables DEF To
  <2>2. CASE To("done")
    BY <2>2, <1>1
  <2> QED
    BY <1>5, <2>1, <2>2 DEF FindPrevious
<1>6. CASE FindTransaction
  <2>1. CASE To("notfound")
    BY <2>1, <1>1
  <2>2. ASSUME NEW pc \in {"blocks", "descriptions"},
               Become([query EXCEPT !.txs = <<query.tx>>, !.pc = pc])
        PROVE  ReadsInv'
    <3>1. query' = [query EXCEPT !.txs = <<query.tx>>, !.pc = pc]
      BY <2>2 DEF Become
    <3>2. Standing'
      BY <2>2, <3>1
    <3> QED
      BY <2>2, <3>2, QueryKeepsTables
  <2> QED
    BY <1>6, <2>1, <2>2 DEF FindTransaction
<1>7. CASE FindAsset
  BY <1>7, <1>1 DEF FindAsset
<1>8. CASE FindBlocks
  BY <1>8, <1>1 DEF FindBlocks
<1>9. ASSUME query.pc # "threw",
             \/ query.pc = "descriptions" /\ Become([query EXCEPT !.nth = @ + 1])
             \/ Become([query EXCEPT !.pc = "descriptions", !.nth = @ + 1])
      PROVE  ReadsInv'
  <2>1. /\ {"pc", "kind", "nth", "txs"} \subseteq DOMAIN query'
        /\ query'.pc = "descriptions"
    BY <1>9 DEF Become
  <2>2. Standing'
    BY <2>1
  <2> QED
    BY <1>9, <2>2, QueryKeepsTables
<1>10. CASE FindDescriptions
  <2>1. CASE To("asset") /\ query.txs[query.nth] \in copy.descs
    <3>1. query' = [query EXCEPT !.pc = "asset"] /\ UNCHANGED copy
      BY <2>1 DEF To, Become
    <3>2. AssetOf[query.txs[query.nth]] \in copy.assets
      BY <2>1 DEF Described
    <3>3. Standing'
      BY <3>1, <3>2
    <3> QED
      BY <2>1, <3>3, QueryKeepsTables DEF To
  <2>2. CASE To("done")
    BY <2>2, <1>1
  <2> QED
    BY <1>10, <1>9, <2>1, <2>2 DEF FindDescriptions
<1>11. CASE FindDescribedAsset
  BY <1>11, <1>9 DEF FindDescribedAsset
<1> QED
  BY <1>2, <1>3, <1>4, <1>5, <1>6, <1>7, <1>8, <1>10, <1>11

LEMMA ReadsNextKeeps ==
  ASSUME ReadsInv, [ReadsNext]_readsVars
  PROVE  ReadsInv'
<1>1. CASE UNCHANGED readsVars
  BY <1>1 DEF readsVars, tables, ReadsInv, Described, Standing
<1>2. CASE ReadsNext
  BY <1>2, TablesKeepIt, AskStands, QueriesStand DEF ReadsNext
<1> QED
  BY <1>1, <1>2

-----------------------------------------------------------------------------
\* An answer with descriptions never fails for want of their asset, whatever
\* blocks, transactions and assets there are
\* (asset-descriptions.service.ts 39-46, assets.service.ts 23-40).
THEOREM AssetOfDescriptionHolds == ReadsSpec => []AssetOfDescription
<1>1. ReadsInv => AssetOfDescription
  BY DEF ReadsInv, Standing, AssetOfDescription
<1> QED
  BY <1>1, ReadsInitHolds, ReadsNextKeeps, PTL DEF ReadsSpec

-----------------------------------------------------------------------------
\* Induction, for a set of numbers: the least number outside is neither 0 nor a
\* successor.
LEMMA SetInduction ==
  ASSUME NEW S, 0 \in S, \A n \in Nat : n \in S => n + 1 \in S
  PROVE  Nat \subseteq S
<1> SUFFICES ASSUME Nat \ S # {} PROVE FALSE
  OBVIOUS
<1>1. PICK m \in Nat \ S : \A k \in Nat \ S : <<k, m>> \notin OpToRel(<, Nat)
  BY NatLessThanWellFounded, WFMin
<1>2. m - 1 \in Nat /\ m - 1 < m
  OBVIOUS
<1>3. m - 1 \in S
  BY <1>1, <1>2 DEF OpToRel
<1>4. (m - 1) + 1 = m
  OBVIOUS
<1> QED
  BY <1>2, <1>3, <1>4

\* An increasing numbering of 1..n by 1..n is the identity.
LEMMA IncreasingIsIdentity ==
  ASSUME NEW n \in Nat, NEW f \in [1..n -> 1..n],
         \A i, k \in 1..n : i < k => f[i] < f[k]
  PROVE  \A i \in 1..n : f[i] = i
<1> DEFINE S == {k \in Nat : k \in 1..n => f[k] >= k}
           T == {k \in Nat : k < n => f[n - k] <= n - k}
<1>1. 0 \in S
  OBVIOUS
<1>2. ASSUME NEW k \in Nat, k \in S PROVE k + 1 \in S
  <2> SUFFICES ASSUME k + 1 \in 1..n PROVE f[k + 1] >= k + 1
    OBVIOUS
  <2>1. CASE k = 0
    BY <2>1
  <2>2. CASE k # 0
    <3>1. k \in 1..n /\ k < k + 1
      BY <2>2
    <3>2. f[k] >= k
      BY <1>2, <3>1
    <3> HIDE DEF S
    <3>3. f[k] < f[k + 1] /\ f[k] \in 1..n /\ f[k + 1] \in 1..n
      BY <3>1
    <3> QED
      BY <3>2, <3>3
  <2> QED
    BY <2>1, <2>2
<1>3. 0 \in T
  OBVIOUS
<1>4. ASSUME NEW k \in Nat, k \in T PROVE k + 1 \in T
  <2> SUFFICES ASSUME k + 1 < n PROVE f[n - (k + 1)] <= n - (k + 1)
    OBVIOUS
  <2>1. /\ n - k \in 1..n /\ n - (k + 1) \in 1..n /\ n - (k + 1) < n - k
        /\ f[n - k] <= n - k
    BY <1>4
  <2>2. f[n - (k + 1)] < f[n - k] /\ f[n - k] \in Nat /\ f[n - (k + 1)] \in Nat
    BY <2>1
  <2> HIDE DEF T
  <2> QED
    BY <2>1, <2>2
<1> HIDE DEF S, T
<1>5. Nat \subseteq S /\ Nat \subseteq T
  <2>1. Nat \subseteq S
    BY <1>1, <1>2, SetInduction
  <2>2. Nat \subseteq T
    BY <1>3, <1>4, SetInduction
  <2> QED
    BY <2>1, <2>2
<1> TAKE i \in 1..n
<1>6. f[i] >= i
  BY <1>5 DEF S
<1>7. n - i \in Nat /\ n - i < n /\ n - (n - i) = i
  OBVIOUS
<1>8. f[i] <= i
  BY <1>5, <1>7 DEF T
<1>9. f[i] \in Nat
  OBVIOUS
<1> QED
  BY <1>6, <1>8, <1>9

\* What the answer takes from the index of a block all of whose transactions
\* are linked is all of them, in order.
LEMMA LinkedIsWhole ==
  ASSUME NEW b \in Blocks, \A i \in 1..Len(TxsOf[b]) : <<b, TxsOf[b][i]>> \in copy.links,
         NEW order \in ByIndex(Linked(b))
  PROVE  [k \in 1..Len(order) |-> TxsOf[b][order[k]]] = TxsOf[b]
<1> DEFINE n == Len(TxsOf[b])
<1>1. TxsOf[b] \in Seq(Txs) /\ n \in Nat
  BY BlockStoreAssumption
<1>2. Linked(b) = 1..n
  BY DEF Linked
<1>3. Cardinality(1..n) = n
  BY <1>1, FS_Interval
<1>4. order \in [1..n -> 1..n] /\ \A i, k \in 1..n : i < k => order[i] < order[k]
  BY <1>2, <1>3 DEF ByIndex
<1>5. \A i \in 1..n : order[i] = i
  BY <1>1, <1>4, IncreasingIsIdentity
<1>6. Len(order) = n
  BY <1>1, <1>4
<1>7. TxsOf[b] = [k \in 1..n |-> TxsOf[b][k]]
  BY <1>1
<1> HIDE DEF n
<1> QED
  BY <1>5, <1>6, <1>7

\* In any case they are some of its transactions.
LEMMA LinkedAreTransactions ==
  ASSUME NEW b \in Blocks, NEW order \in ByIndex(Linked(b))
  PROVE  [k \in 1..Len(order) |-> TxsOf[b][order[k]]] \in Seq(Txs)
<1> DEFINE n == Len(TxsOf[b])
           m == Cardinality(Linked(b))
<1>1. TxsOf[b] \in Seq(Txs) /\ n \in Nat /\ \A i \in 1..n : TxsOf[b][i] \in Txs
  BY BlockStoreAssumption
<1>2. Linked(b) \subseteq 1..n
  BY DEF Linked
<1>3. m \in Nat
  <2>1. IsFiniteSet(1..n)
    BY <1>1, FS_Interval
  <2> QED
    BY <1>2, <2>1, FS_Subset, FS_CardinalityType
<1>4. order \in [1..m -> Linked(b)]
  BY DEF ByIndex
<1>5. Len(order) = m
  BY <1>3, <1>4
<1>6. \A k \in 1..m : TxsOf[b][order[k]] \in Txs
  BY <1>1, <1>2, <1>4
<1> HIDE DEF m, n
<1> QED
  BY <1>3, <1>5, <1>6

-----------------------------------------------------------------------------
\* A block is there with its links only, on both servers, and the replica has
\* no block the primary has not: nothing deletes one.
Linking ==
  /\ \A b \in stored : \A i \in 1..Len(TxsOf[b]) : <<b, TxsOf[b][i]>> \in links
  /\ \A b \in copy.stored : \A i \in 1..Len(TxsOf[b]) : <<b, TxsOf[b][i]>> \in copy.links
  /\ copy.stored \subseteq stored
  /\ copy.chain \subseteq copy.stored

\* What the answer for a block is made of.
Whole ==
  /\ query.pc = "find" /\ query.kind = "block" => query.block \in Blocks
  /\ query.pc = "find" /\ query.kind = "transaction" => query.tx \in Txs
  /\ query.pc = "links" => query.block \in Blocks
  /\ query.pc = "links" /\ query.kind = "block" => query.block \in copy.stored
  /\ query.pc = "blocks" => query.kind \in {"transaction", "asset"}
  /\ query.pc \in {"descriptions", "asset", "done"} /\ query.kind = "block" /\ query.full =>
       query.txs = TxsOf[query.block]

\* Query, with names for the sets its fields are from.
QueryPcs == {"idle", "head", "find", "links", "previous", "blocks", "descriptions", "asset",
             "done", "notfound", "threw"}
TxSeqs == Seq(Txs)
SomeBlock == Blocks \cup {None}
SomeTx == Txs \cup {None}

QueryShape ==
  [pc : QueryPcs, kind : QueryKinds, full : BOOLEAN, block : SomeBlock, tx : SomeTx,
   txs : TxSeqs, nth : Nat]

LEMMA QueryHasShape == Query = QueryShape
  BY DEF Query, QueryShape, QueryPcs, TxSeqs, SomeBlock, SomeTx

AnswersInv == ReadsTypeOK /\ Linking /\ Whole

LEMMA AnswersInitHolds == ReadsInit => AnswersInv
<1> SUFFICES ASSUME ReadsInit PROVE AnswersInv
  OBVIOUS
<1> USE DEF ReadsInit, StoreInit
<1>1. NoQuery \in Query
  BY DEF NoQuery, Query, QueryKinds
<1>2. copy \in Copy
  BY DEF Copy
<1>3. ReadsTypeOK
  BY <1>1, <1>2 DEF ReadsTypeOK
<1>4. Linking
  BY DEF Linking
<1>5. Whole
  BY DEF Whole, NoQuery
<1> QED
  BY <1>3, <1>4, <1>5 DEF AnswersInv

\* The loader adds a block and its links at once.
LEMMA LoadKeepsWhole ==
  ASSUME AnswersInv, Load
  PROVE  AnswersInv'
<1> USE DEF AnswersInv
<1>1. UNCHANGED <<assets, descs, copy, query>>
  BY DEF Load
<1> DEFINE Grown ==
             /\ stored' \subseteq Blocks /\ stored \subseteq stored' /\ chain' \subseteq stored'
             /\ seen' \in [Txs -> Nat \cup {None}]
             /\ links' \subseteq stored' \X Txs
             /\ \A b \in stored' : \A i \in 1..Len(TxsOf[b]) : <<b, TxsOf[b][i]>> \in links'
<1>2. Grown
  <2>1. ASSUME NEW b \in Blocks, StoreBlock(b)
        PROVE  Grown
    <3>1. TxsOf[b] \in Seq(Txs) /\ SeqOf[b] \in Nat
      BY BlockStoreAssumption
    <3>2. TxSet(b) \subseteq Txs
      BY <3>1 DEF TxSet
    <3>3. seen' \in [Txs -> Nat \cup {None}]
      BY <2>1, <3>1 DEF StoreBlock, FirstSeen, ReadsTypeOK
    <3>4. links' \subseteq stored' \X Txs
      BY <2>1, <3>2 DEF StoreBlock, ReadsTypeOK
    <3>5. \A i \in 1..Len(TxsOf[b]) : <<b, TxsOf[b][i]>> \in links'
      BY <2>1 DEF StoreBlock, TxSet
    <3>6. \A c \in stored : \A i \in 1..Len(TxsOf[c]) : <<c, TxsOf[c][i]>> \in links'
      BY <2>1 DEF StoreBlock, Linking
    <3>7. stored' = stored \cup {b} /\ chain' \subseteq stored' /\ stored' \subseteq Blocks
      BY <2>1 DEF StoreBlock, ReadsTypeOK
    <3> QED
      BY <3>3, <3>4, <3>5, <3>6, <3>7
  <2>2. ASSUME NEW txs \in SUBSET Txs, NEW b \in Blocks, StorePool(txs, b)
        PROVE  Grown
    <3>1. SeqOf[b] \in Nat
      BY BlockStoreAssumption
    <3>2. seen' \in [Txs -> Nat \cup {None}]
      BY <2>2, <3>1 DEF StorePool, FirstSeen, ReadsTypeOK
    <3> QED
      BY <2>2, <3>2 DEF StorePool, ReadsTypeOK, Linking
  <2>3. ASSUME NEW blocks \in SUBSET stored, Disconnect(blocks)
        PROVE  Grown
    BY <2>3 DEF Disconnect, ReadsTypeOK, Linking
  <2> QED
    BY <2>1, <2>2, <2>3 DEF Load, StoreNext
<1>3. ReadsTypeOK'
  BY <1>1, <1>2 DEF ReadsTypeOK
<1>4. Linking'
  BY <1>1, <1>2 DEF Linking
<1>5. Whole'
  BY <1>1 DEF Whole
<1> QED
  BY <1>3, <1>4, <1>5

\* The replica takes over all of it; it only gets more blocks.
LEMMA CatchUpKeepsWhole ==
  ASSUME AnswersInv, CatchUp
  PROVE  AnswersInv'
<1> USE DEF AnswersInv
<1>1. copy' = Now /\ UNCHANGED <<stored, chain, seen, links, assets, descs, query>>
  BY DEF CatchUp, tables
<1>2. copy'.stored = stored /\ copy'.chain = chain /\ copy'.links = links
  BY <1>1 DEF Now
<1>3. copy' \in Copy
  <2>1. chain \subseteq Blocks /\ links \subseteq Blocks \X Txs
    BY DEF ReadsTypeOK
  <2> QED
    BY <1>1, <2>1 DEF Now, Copy, ReadsTypeOK
<1>4. ReadsTypeOK'
  BY <1>1, <1>3 DEF ReadsTypeOK
<1>5. Linking'
  BY <1>1, <1>2 DEF Linking, ReadsTypeOK
<1>6. Whole'
  BY <1>1, <1>2 DEF Whole, Linking
<1> QED
  BY <1>4, <1>5, <1>6

LEMMA LoadDescriptionsKeepsWhole ==
  ASSUME AnswersInv, NEW t \in Txs, LoadDescriptions(t)
  PROVE  AnswersInv'
<1>1. AssetOf[t] \in Txs
  BY ReadsAssumption
<1>2. assets' \subseteq Txs /\ descs' \subseteq Txs /\ UNCHANGED <<stored, chain, seen, links, copy, query>>
  BY <1>1 DEF LoadDescriptions, storeVars, AnswersInv, ReadsTypeOK
<1> QED
  BY <1>2 DEF AnswersInv, ReadsTypeOK, Linking, Whole

\* A step of the request leaves the tables alone.
LEMMA QueryKeepsWhole ==
  ASSUME AnswersInv, NEW new, Become(new), query' \in Query, Whole'
  PROVE  AnswersInv'
  BY DEF Become, tables, AnswersInv, ReadsTypeOK, Linking

LEMMA ToKeepsWhole ==
  ASSUME AnswersInv, NEW pc \in QueryPcs, To(pc), pc \notin {"find", "links", "blocks"},
         pc \in {"descriptions", "asset", "done"} /\ query.kind = "block" /\ query.full =>
           query.txs = TxsOf[query.block]
  PROVE  AnswersInv'
<1>1. query \in Query /\ query' = [query EXCEPT !.pc = pc]
  BY DEF AnswersInv, ReadsTypeOK, To, Become
<1>2. query' \in Query
  BY <1>1, QueryHasShape DEF QueryShape
<1>3. /\ query'.pc = pc /\ query'.kind = query.kind /\ query'.full = query.full
      /\ query'.block = query.block /\ query'.txs = query.txs
  BY <1>1, QueryHasShape DEF QueryShape
<1>4. Whole'
  BY <1>3 DEF Whole
<1> QED
  BY <1>2, <1>4, QueryKeepsWhole DEF To

LEMMA AskKeepsWhole ==
  ASSUME AnswersInv, Ask
  PROVE  AnswersInv'
<1>1. PICK kind \in QueryKinds, full \in BOOLEAN, b \in SomeBlock, t \in SomeTx :
        /\ Become(Query0(kind, full, b, t))
        /\ kind = "block" => b \in Blocks
        /\ kind = "transaction" => t \in Txs
  BY DEF Ask, QueryKinds, SomeBlock, SomeTx
<1> DEFINE pc == IF kind \in {"head", "supply"} THEN "head" ELSE "find"
<1>2. query' = [NoQuery EXCEPT !.pc = pc, !.kind = kind, !.full = full, !.block = b, !.tx = t]
  BY <1>1 DEF Query0, Become
<1>3. NoQuery \in QueryShape
  <2>1. NoQuery \in Query
    BY DEF NoQuery, Query, QueryKinds
  <2> QED
    BY <2>1, QueryHasShape
<1>4. pc \in QueryPcs /\ pc \in {"head", "find"}
  BY DEF QueryPcs
<1> HIDE DEF pc
<1>5. query' \in Query
  BY <1>2, <1>3, <1>4, QueryHasShape DEF QueryShape
<1>6. query'.pc = pc /\ query'.kind = kind /\ query'.block = b /\ query'.tx = t
  BY <1>2, <1>3 DEF QueryShape
<1>7. Whole'
  BY <1>1, <1>4, <1>6 DEF Whole
<1> QED
  BY <1>1, <1>5, <1>7, QueryKeepsWhole

\* The block's row is found, or its head, and its transactions are next.
LEMMA FindBlockKeepsWhole ==
  ASSUME AnswersInv, ReadsInv, ReadHead \/ FindBlock
  PROVE  AnswersInv'
<1>1. query \in Query
  BY DEF AnswersInv, ReadsTypeOK
<1>2. ASSUME NEW b \in Blocks, Become([query EXCEPT !.pc = "links", !.block = b]),
             query.kind = "block" => b \in copy.stored
      PROVE  AnswersInv'
  <2>1. query' = [query EXCEPT !.pc = "links", !.block = b]
    BY <1>2 DEF Become
  <2>2. query' \in Query
    <3>1. "links" \in QueryPcs /\ b \in SomeBlock
      BY DEF QueryPcs, SomeBlock
    <3> QED
      BY <1>1, <2>1, <3>1, QueryHasShape DEF QueryShape
  <2>3. query'.pc = "links" /\ query'.kind = query.kind /\ query'.block = b
    BY <1>1, <2>1, QueryHasShape DEF QueryShape
  <2>4. Whole'
    BY <1>2, <2>3 DEF Whole, Become
  <2> QED
    BY <1>2, <2>2, <2>4, QueryKeepsWhole
<1>3. CASE To("notfound")
  BY <1>3, ToKeepsWhole DEF QueryPcs
<1>4. CASE ReadHead /\ ~To("notfound")
  <2>1. PICK b \in chain : Become([query EXCEPT !.pc = "links", !.block = b])
    BY <1>4 DEF ReadHead
  <2>2. query.kind # "block"
    BY <1>4 DEF ReadHead, ReadsInv, Standing
  <2>3. b \in Blocks
    BY DEF AnswersInv, ReadsTypeOK
  <2> QED
    BY <1>2, <2>1, <2>2, <2>3
<1>5. CASE FindBlock /\ ~To("notfound")
  <2>1. query.block \in Blocks /\ query.block \in copy.stored
    BY <1>5 DEF FindBlock, AnswersInv, Whole
  <2>2. CASE query.full
    <3>1. query' = [query EXCEPT !.pc = "links"] /\ To("links")
      BY <1>5, <2>2 DEF FindBlock, To, Become
    <3>2. query' \in Query
      <4>1. "links" \in QueryPcs
        BY DEF QueryPcs
      <4> QED
        BY <1>1, <3>1, <4>1, QueryHasShape DEF QueryShape
    <3>3. query'.pc = "links" /\ query'.kind = query.kind /\ query'.block = query.block
      BY <1>1, <3>1, QueryHasShape DEF QueryShape
    <3>4. Whole'
      BY <2>1, <3>1, <3>3 DEF Whole, To, Become
    <3> QED
      BY <3>1, <3>2, <3>4, QueryKeepsWhole DEF To
  <2>3. CASE ~query.full
    <3>1. To("done")
      BY <1>5, <2>3 DEF FindBlock
    <3> QED
      BY <2>3, <3>1, ToKeepsWhole DEF QueryPcs
  <2> QED
    BY <2>2, <2>3
<1> QED
  BY <1>3, <1>4, <1>5

LEMMA FindTransactionsKeepsWhole ==
  ASSUME AnswersInv, ReadsInv, FindTransactions
  PROVE  AnswersInv'
<1>1. PICK order \in ByIndex(Linked(query.block)) :
        Become([query EXCEPT
                  !.txs = [k \in 1..Len(order) |-> TxsOf[query.block][order[k]]],
                  !.pc = CASE query.kind = "head" -> "previous"
                           [] query.kind = "supply" -> "done"
                           [] query.kind = "block" -> "descriptions"])
  BY DEF FindTransactions
<1> DEFINE txs == [k \in 1..Len(order) |-> TxsOf[query.block][order[k]]]
           next == CASE query.kind = "head" -> "previous"
                     [] query.kind = "supply" -> "done"
                     [] query.kind = "block" -> "descriptions"
<1>2. query \in Query /\ query.pc = "links" /\ query.block \in Blocks
  BY DEF FindTransactions, AnswersInv, ReadsTypeOK, Whole
<1>3. query' = [query EXCEPT !.txs = txs, !.pc = next]
  BY <1>1 DEF Become
<1>4. txs \in TxSeqs
  BY <1>2, LinkedAreTransactions DEF TxSeqs
<1>5. next \in {"previous", "done", "descriptions"} /\ next \in QueryPcs
  BY <1>2 DEF ReadsInv, Standing, QueryPcs
<1>6. query.kind = "block" => txs = TxsOf[query.block]
  BY <1>2, LinkedIsWhole DEF AnswersInv, Whole, Linking
<1> HIDE DEF txs, next
<1>7. query' \in Query
  BY <1>2, <1>3, <1>4, <1>5, QueryHasShape DEF QueryShape
<1>8. /\ query'.pc = next /\ query'.kind = query.kind /\ query'.txs = txs
      /\ query'.block = query.block
  BY <1>2, <1>3, QueryHasShape DEF QueryShape
<1>9. Whole'
  BY <1>5, <1>6, <1>8 DEF Whole
<1> QED
  BY <1>1, <1>7, <1>9, QueryKeepsWhole

\* The rest does not touch a block's transactions.
LEMMA QueriesKeepWhole ==
  ASSUME AnswersInv, ReadsInv,
         \/ FindPrevious \/ FindTransaction \/ FindAsset \/ FindBlocks \/ FindDescriptions
         \/ FindDescribedAsset
  PROVE  AnswersInv'
<1>1. query \in Query
  BY DEF AnswersInv, ReadsTypeOK
<1>2. CASE FindPrevious
  <2>1. query.kind = "head"
    BY <1>2 DEF FindPrevious, ReadsInv, Standing
  <2> QED
    BY <1>2, <2>1, ToKeepsWhole DEF FindPrevious, QueryPcs
<1>3. CASE FindTransaction
  <2>1. CASE To("notfound")
    BY <2>1, ToKeepsWhole DEF QueryPcs
  <2>2. ASSUME NEW pc \in {"blocks", "descriptions"}, query.kind = "transaction",
               query.tx \in Txs, Become([query EXCEPT !.txs = <<query.tx>>, !.pc = pc])
        PROVE  AnswersInv'
    <3>1. query' = [query EXCEPT !.txs = <<query.tx>>, !.pc = pc]
      BY <2>2 DEF Become
    <3>2. query' \in Query
      <4>1. <<query.tx>> \in TxSeqs /\ pc \in QueryPcs
        BY <2>2 DEF TxSeqs, QueryPcs
      <4> QED
        BY <1>1, <3>1, <4>1, QueryHasShape DEF QueryShape
    <3>3. query'.pc = pc /\ query'.kind = "transaction"
      BY <1>1, <2>2, <3>1, QueryHasShape DEF QueryShape
    <3>4. Whole'
      BY <3>3 DEF Whole
    <3> QED
      BY <2>2, <3>2, <3>4, QueryKeepsWhole
  <2> QED
    BY <1>3, <2>1, <2>2 DEF FindTransaction, AnswersInv, Whole
<1>4. CASE FindAsset
  <2>1. CASE To("notfound")
    BY <2>1, ToKeepsWhole DEF QueryPcs
  <2>2. CASE query.kind = "asset" /\ To("blocks")
    <3>1. query' = [query EXCEPT !.pc = "blocks"]
      BY <2>2 DEF To, Become
    <3>2. query' \in Query
      <4>1. "blocks" \in QueryPcs
        BY DEF QueryPcs
      <4> QED
        BY <1>1, <3>1, <4>1, QueryHasShape DEF QueryShape
    <3>3. query'.pc = "blocks" /\ query'.kind = "asset"
      BY <1>1, <2>2, <3>1, QueryHasShape DEF QueryShape
    <3>4. Whole'
      BY <3>3 DEF Whole
    <3> QED
      BY <2>2, <3>2, <3>4, QueryKeepsWhole DEF To
  <2> QED
    BY <1>4, <2>1, <2>2 DEF FindAsset
<1>5. CASE FindBlocks
  <2>1. query.kind # "block"
    BY <1>5 DEF FindBlocks, AnswersInv, Whole
  <2> QED
    BY <1>5, <2>1, ToKeepsWhole DEF FindBlocks, QueryPcs
<1>6. ASSUME query.pc \in {"descriptions", "asset"},
             \/ query.pc = "descriptions" /\ Become([query EXCEPT !.nth = query.nth + 1])
             \/ Become([query EXCEPT !.pc = "descriptions", !.nth = query.nth + 1])
      PROVE  AnswersInv'
  <2>1. /\ query' \in Query
        /\ query'.pc = "descriptions" /\ query'.kind = query.kind /\ query'.full = query.full
        /\ query'.block = query.block /\ query'.txs = query.txs
    <3>1. "descriptions" \in QueryPcs /\ query.nth + 1 \in Nat
      BY <1>1 DEF QueryPcs, Query
    <3> QED
      BY <1>1, <1>6, <3>1, QueryHasShape DEF QueryShape, Become
  <2>2. Whole'
    BY <1>6, <2>1 DEF AnswersInv, Whole
  <2> QED
    BY <1>6, <2>1, <2>2, QueryKeepsWhole
<1>7. ASSUME query.pc \in {"descriptions", "asset"},
             To("done") \/ To("asset") \/ To("threw")
      PROVE  AnswersInv'
  <2>1. query.kind = "block" /\ query.full => query.txs = TxsOf[query.block]
    BY <1>7 DEF AnswersInv, Whole
  <2> QED
    BY <1>7, <2>1, ToKeepsWhole DEF QueryPcs
<1>8. CASE FindDescriptions \/ FindDescribedAsset
  BY <1>6, <1>7, <1>8 DEF FindDescriptions, FindDescribedAsset
<1> QED
  BY <1>2, <1>3, <1>4, <1>5, <1>8

LEMMA ReadsKeepWhole ==
  ASSUME AnswersInv, ReadsInv, [ReadsNext]_readsVars
  PROVE  AnswersInv'
<1>1. CASE UNCHANGED readsVars
  BY <1>1 DEF readsVars, tables, AnswersInv, ReadsTypeOK, Linking, Whole
<1>2. CASE ReadsNext
  BY <1>2, LoadKeepsWhole, CatchUpKeepsWhole, AskKeepsWhole, LoadDescriptionsKeepsWhole,
     FindBlockKeepsWhole, FindTransactionsKeepsWhole, QueriesKeepWhole DEF ReadsNext
<1> QED
  BY <1>1, <1>2

LEMMA AnswersInvariant == ReadsSpec => [](AnswersInv /\ ReadsInv)
  BY AnswersInitHolds, ReadsKeepWhole, ReadsInitHolds, ReadsNextKeeps, PTL DEF ReadsSpec

\* A block that is found, of any number of transactions, has all of them in the
\* answer, in order, although the two are read by two queries while the replica
\* moves on (blocks.service.ts 472-487, blocks-transactions.service.ts
\* 118-133).
THEOREM FoundBlocksAreWhole == ReadsSpec => []FoundBlockIsWhole
<1>1. AnswersInv => FoundBlockIsWhole
  BY DEF AnswersInv, Whole, FoundBlockIsWhole
<1> QED
  BY <1>1, AnswersInvariant, PTL

=============================================================================
