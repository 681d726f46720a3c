----------------------------- MODULE BlockStore -----------------------------
(***************************************************************************)
(* What the write path promises its readers: a block, its transactions and *)
(* its links appear at once and for good, a transaction keeps the sequence *)
(* it was first seen at, and only the main chain changes.  The loader      *)
(* implements this specification statement by statement                    *)
(* (BlocksTransactionsLoader); the readers are modelled on top of it       *)
(* (Reads).                                                                *)
(***************************************************************************)
EXTENDS Integers, Sequences, FiniteSets

CONSTANTS Blocks, Txs, None,
          SeqOf,  \* a block's sequence
          TxsOf   \* a block's transactions, in order

ASSUME BlockStoreAssumption ==
  /\ None \notin Nat
  /\ SeqOf \in [Blocks -> Nat]
  /\ TxsOf \in [Blocks -> Seq(Txs)]

VARIABLES
  stored,  \* the blocks there are
  chain,   \* those on the main chain
  seen,    \* the sequence a transaction was first seen at
  links    \* which block has which transaction

storeVars == <<stored, chain, seen, links>>

TxSet(b) == {TxsOf[b][i] : i \in 1..Len(TxsOf[b])}

StoreInit ==
  /\ stored = {}
  /\ chain = {}
  /\ seen = [t \in Txs |-> None]
  /\ links = {}

FirstSeen(txs, sequence) ==
  [t \in Txs |-> IF t \in txs /\ seen[t] = None THEN sequence ELSE seen[t]]

\* A block of POST /blocks, new or sent again, on the main chain or off it.
StoreBlock(b) ==
  /\ stored' = stored \cup {b}
  /\ chain' \in {chain \cup {b}, chain \ {b}}
  /\ seen' = FirstSeen(TxSet(b), SeqOf[b])
  /\ links' = links \cup ({b} \X TxSet(b))

\* POST /transactions, seen at a block that was the head.
StorePool(txs, b) ==
  /\ b \in stored
  /\ seen' = FirstSeen(txs, SeqOf[b])
  /\ UNCHANGED <<stored, chain, links>>

\* POST /blocks/disconnect: blocks that come in meanwhile are not among them.
Disconnect(blocks) ==
  /\ chain' = chain \ blocks
  /\ UNCHANGED <<stored, seen, links>>

StoreNext ==
  \/ \E b \in Blocks : StoreBlock(b)
  \/ \E txs \in SUBSET Txs, b \in Blocks : StorePool(txs, b)
  \/ \E blocks \in SUBSET stored : Disconnect(blocks)

StoreSpec == StoreInit /\ [][StoreNext]_storeVars
=============================================================================
