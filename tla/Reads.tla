------------------------------- MODULE Reads --------------------------------
(***************************************************************************)
(* The requests that put an answer together from several queries           *)
(* (GET /blocks/head, /blocks/find, /transactions/find, /assets/find and   *)
(* /supply), some of the primary and some of the read replica, which lags  *)
(* behind it.  What the loader writes is specified by BlockStore, which it *)
(* implements; a job's transaction writes descriptions and assets.         *)
(***************************************************************************)
EXTENDS BlockStore

CONSTANTS Parent,   \* a block's previous_block_hash, or None
          AssetOf   \* the asset of a transaction's mint or burn, named by the
                    \* transaction that minted it first

ASSUME ReadsAssumption ==
  /\ Parent \in [Blocks -> Blocks \cup {None}]
  /\ AssetOf \in [Txs -> Txs]

VARIABLES
  assets,   \* "assets" on the primary
  descs,    \* "asset_descriptions": the transactions that have theirs
  copy,     \* the read replica
  query     \* the request at hand

tables == <<stored, chain, seen, links, assets, descs>>
readsVars == <<tables, copy, query>>

Copy == [stored : SUBSET Blocks, chain : SUBSET Blocks, links : SUBSET (Blocks \X Txs),
         assets : SUBSET Txs, descs : SUBSET Txs]

QueryKinds == {"head", "supply", "block", "transaction", "asset"}

Query ==
  [pc : {"idle", "head", "find", "links", "previous", "blocks", "descriptions", "asset",
         "done", "notfound", "threw"},
   kind : QueryKinds,
   full : BOOLEAN,            \* with_transactions, with_blocks
   block : Blocks \cup {None}, tx : Txs \cup {None},
   txs : Seq(Txs),            \* findTransactionsByBlock
   nth : Nat]                 \* the transaction whose descriptions are looked up

ReadsTypeOK ==
  /\ stored \subseteq Blocks
  /\ chain \subseteq stored
  /\ seen \in [Txs -> Nat \cup {None}]
  /\ links \subseteq stored \X Txs
  /\ descs \subseteq Txs
  /\ assets \subseteq Txs
  /\ copy \in Copy
  /\ query \in Query

NoQuery == [pc |-> "idle", kind |-> "head", full |-> FALSE, block |-> None, tx |-> None,
            txs |-> <<>>, nth |-> 1]

ReadsInit ==
  /\ StoreInit
  /\ assets = {}
  /\ descs = {}
  /\ copy = [stored |-> {}, chain |-> {}, links |-> {}, assets |-> {}, descs |-> {}]
  /\ query = NoQuery

-----------------------------------------------------------------------------
\* A step of the loader's, see BlocksTransactionsLoader.
Load == StoreNext /\ UNCHANGED <<assets, descs, copy, query>>

\* A LOAD_ASSET_DESCRIPTIONS job commits, see AssetsLoader: a mint makes its
\* asset if need be, a burn needs one; of a block off the main chain, the
\* descriptions are deleted.
LoadDescriptions(t) ==
  /\ seen[t] # None
  /\ \/ /\ AssetOf[t] \in assets \cup {t}
        /\ assets' = assets \cup {AssetOf[t]}
        /\ descs' = descs \cup {t}
     \/ descs' = descs \ {t} /\ assets' = assets
  /\ UNCHANGED <<storeVars, copy, query>>

Now == [stored |-> stored, chain |-> chain, links |-> links, assets |-> assets, descs |-> descs]

\* The replica shows the primary's commits, in their order, some time later.
CatchUp ==
  /\ copy # Now
  /\ copy' = Now
  /\ UNCHANGED <<tables, query>>

-----------------------------------------------------------------------------
Become(new) == query' = new /\ UNCHANGED <<tables, copy>>
To(pc) == Become([query EXCEPT !.pc = pc])

Query0(kind, full, block, tx) ==
  [NoQuery EXCEPT !.pc = IF kind \in {"head", "supply"} THEN "head" ELSE "find",
                  !.kind = kind, !.full = full, !.block = block, !.tx = tx]

\* A request arrives.
Ask ==
  /\ query.pc \in {"idle", "done", "notfound", "threw"}
  /\ \/ \E kind \in {"head", "supply"} : Become(Query0(kind, TRUE, None, None))
     \/ \E full \in BOOLEAN, b \in Blocks : Become(Query0("block", full, b, None))
     \/ \E full \in BOOLEAN, t \in Txs : Become(Query0("transaction", full, None, t))
     \/ \E t \in Txs : Become(Query0("asset", TRUE, None, t))

\* head: the highest block of the main chain, on the primary.
ReadHead ==
  /\ query.pc = "head"
  /\ \/ chain = {} /\ To("notfound")
     \/ \E b \in chain : /\ \A c \in chain : SeqOf[c] <= SeqOf[b]
                         /\ Become([query EXCEPT !.pc = "links", !.block = b])

\* Mutant: find looks for the block on the primary.
MutFindBlock ==
  /\ query.pc = "find"
  /\ query.kind = "block"
  /\ To(IF query.block \notin stored THEN "notfound"
        ELSE IF query.full THEN "links" ELSE "done")

\* find, by hash or, for a block of the main chain, by sequence: on the replica.
FindBlock ==
  /\ query.pc = "find"
  /\ query.kind = "block"
  /\ \/ query.block \notin copy.chain /\ To("notfound")
     \/ query.block \in copy.stored /\ To(IF query.full THEN "links" ELSE "done")
     \/ query.block \notin copy.stored /\ To("notfound")

\* A block's transactions, as far as they are linked, in the order of the index.
Linked(b) == {i \in 1..Len(TxsOf[b]) : <<b, TxsOf[b][i]>> \in copy.links}
ByIndex(found) ==
  {order \in [1..Cardinality(found) -> found] :
     \A i, k \in 1..Cardinality(found) : i < k => order[i] < order[k]}

\* findTransactionsByBlock, on the replica.
FindTransactions ==
  /\ query.pc = "links"
  /\ \E order \in ByIndex(Linked(query.block)) :
       Become([query EXCEPT
                 !.txs = [k \in 1..Len(order) |-> TxsOf[query.block][order[k]]],
                 !.pc = CASE query.kind = "head" -> "previous"
                          [] query.kind = "supply" -> "done"
                          [] query.kind = "block" -> "descriptions"])

\* The head's parent, on the replica, for the hash rate, which is 0 without
\* it; then the head's first transaction is asserted to be there.
FindPrevious ==
  /\ query.pc = "previous"
  /\ To(IF query.txs = <<>> THEN "threw" ELSE "done")

\* Transactions are found on the primary, their blocks on the replica.
FindTransaction ==
  /\ query.pc = "find"
  /\ query.kind = "transaction"
  /\ \/ seen[query.tx] = None /\ To("notfound")
     \/ /\ seen[query.tx] # None
        /\ Become([query EXCEPT !.txs = <<query.tx>>,
                                !.pc = IF query.full THEN "blocks" ELSE "descriptions"])

\* An asset and the transaction that made it, on the primary.
FindAsset ==
  /\ query.pc = "find"
  /\ query.kind = "asset"
  /\ To(IF query.tx \in assets THEN "blocks" ELSE "notfound")

\* findBlocksByTransaction, on the replica; an asset without a main block is
\* not found.
FindBlocks ==
  /\ query.pc = "blocks"
  /\ To(IF query.kind = "transaction" THEN "descriptions"
        ELSE IF \E b \in copy.chain : <<b, query.tx>> \in copy.links THEN "done"
        ELSE "notfound")

\* Mutant: findByTransaction reads the descriptions from the primary.
MutFindDescriptions ==
  /\ query.pc = "descriptions"
  /\ \/ query.nth > Len(query.txs) /\ To("done")
     \/ /\ query.nth <= Len(query.txs)
        /\ IF query.txs[query.nth] \in descs THEN To("asset")
           ELSE Become([query EXCEPT !.nth = @ + 1])

\* getAssetDescriptionsWithAssets, for one transaction after the other: its
\* descriptions,
FindDescriptions ==
  /\ query.pc = "descriptions"
  /\ \/ query.nth > Len(query.txs) /\ To("done")
     \/ /\ query.nth <= Len(query.txs)
        /\ IF query.txs[query.nth] \in copy.descs THEN To("asset")
           ELSE Become([query EXCEPT !.nth = @ + 1])

\* and the asset of each, or findOrThrow throws: both on the replica.
FindDescribedAsset ==
  /\ query.pc = "asset"
  /\ IF AssetOf[query.txs[query.nth]] \in copy.assets
     THEN Become([query EXCEPT !.pc = "descriptions", !.nth = @ + 1])
     ELSE To("threw")

-----------------------------------------------------------------------------
ReadsNext ==
  \/ Load \/ CatchUp \/ Ask
  \/ \E t \in Txs : LoadDescriptions(t)
  \/ ReadHead \/ FindBlock \/ FindTransactions \/ FindPrevious \/ FindTransaction
  \/ FindAsset \/ FindBlocks \/ FindDescriptions \/ FindDescribedAsset

ReadsSpec == ReadsInit /\ [][ReadsNext]_readsVars

-----------------------------------------------------------------------------
\* A block that is found has all its transactions in the answer, in order,
\* although the two are read by two queries while the replica moves on
\* (blocks.service.ts 472-487, blocks-transactions.service.ts 118-133).
FoundBlockIsWhole ==
  query.pc = "done" /\ query.kind = "block" /\ query.full => query.txs = TxsOf[query.block]

\* An answer with descriptions never fails for want of their asset
\* (findOrThrow), although jobs add and delete descriptions between the queries
\* (asset-descriptions.service.ts 39-46, assets.service.ts 23-25).
AssetOfDescription == query.kind # "head" => query.pc # "threw"

\* 'assert.ok(head.transactions[0])' (blocks.controller.ts 124): the head has a
\* transaction, as every block has.
HeadHasTransactions == query.kind = "head" => query.pc # "threw"

=============================================================================
