------------------------------- MODULE Lists --------------------------------
(***************************************************************************)
(* Cursor pagination: a client walks through a list (GET /blocks, /assets, *)
(* /assets/descriptions; GET /transactions has one page only), page after  *)
(* page, with the last item it got as `after`, or the first as `before`.   *)
(* Each page takes several queries, some of the primary and some of the    *)
(* read replica, with rows inserted, deleted, or moved in and out of the   *)
(* filter and of the main chain in between.                                *)
(***************************************************************************)
EXTENDS Integers, Sequences, FiniteSets

CONSTANTS MaxRows,    \* bound: rows of the table, by id
          Limits,     \* the page sizes asked for
          MaxChanges, \* bound: changes of the table during a walk
          NoCursor        \* no cursor

ASSUME ListsAssumption ==
  /\ {MaxRows, MaxChanges} \subseteq Nat
  /\ Limits \subseteq Nat \ {0}
  /\ NoCursor \notin Nat

VARIABLES
  primary,  \* the table walked through, on the primary
  replica,  \* and on the read replica
  changes,  \* how many there were
  walk      \* the walk, and its request at hand

listsVars == <<primary, replica, changes, walk>>

Ids == 1..MaxRows

\* A row is not there yet, deleted, there but not selected by the request's
\* filter, or selected; and its transaction may have no block on the main chain.
Table == [row : [Ids -> {"none", "gone", "other", "in"}], hidden : SUBSET Ids]

Kinds == {"blocks", "range", "transaction", "assets", "descriptions", "transactions"}

Walk ==
  [pc : {"idle", "ids", "data", "next", "previous", "show", "done", "stuck"},
   kind : Kinds, before : BOOLEAN, limit : Nat,
   from : Ids \cup {NoCursor},    \* the cursor of the first request
   cursor : Ids \cup {NoCursor},
   ids : SUBSET Ids,          \* read from blocks_transactions
   page : Seq(Ids),           \* the rows found
   hasNext : BOOLEAN, hasPrevious : BOOLEAN,
   nth : Nat, out : Seq(Ids), \* the row looked at, the items of the answer
   got : Seq(Ids),            \* the items of all answers, highest id first
   steady : SUBSET Ids,       \* history: rows listed, and unchanged so far
   lost : BOOLEAN]            \* history: a query began at a row not in the filter

ListsTypeOK ==
  /\ primary \in Table
  /\ replica \in Table
  /\ changes \in 0..MaxChanges
  /\ walk \in Walk
  /\ Len(walk.out) <= Len(walk.page) /\ Len(walk.page) <= walk.limit

\* Assets and descriptions of transactions without a main block are left out.
Hides(kind) == kind \in {"assets", "descriptions"}

\* What the rows of a list may be: a row enters and leaves the filter when its
\* block does the main chain, when it is verified, or not.
Statuses(kind) ==
  IF kind \in {"blocks", "range", "assets"} THEN {"other", "in"} ELSE {"in"}

BlankWalk(kind) ==
  [pc |-> "idle", kind |-> kind, before |-> FALSE, limit |-> 1, from |-> NoCursor,
   cursor |-> NoCursor, ids |-> {}, page |-> <<>>, hasNext |-> FALSE,
   hasPrevious |-> FALSE, nth |-> 1, out |-> <<>>, got |-> <<>>, steady |-> {},
   lost |-> FALSE]

ListsInit ==
  /\ \E kind \in Kinds :
       /\ walk = BlankWalk(kind)
       /\ primary \in [row : [Ids -> {"none"} \cup Statuses(kind)],
                       hidden : IF Hides(kind) THEN SUBSET Ids ELSE {{}}]
  /\ \A i \in primary.hidden : primary.row[i] # "none"
  /\ replica = primary
  /\ changes = 0

-----------------------------------------------------------------------------
\* The queries of other requests, and of the worker, on the table.
ChangeRow(i, row, hidden) ==
  /\ walk.pc \notin {"idle", "done", "stuck"}
  /\ changes < MaxChanges
  /\ changes' = changes + 1
  /\ primary' = [row |-> [primary.row EXCEPT ![i] = row], hidden |-> hidden]
  /\ walk' = [walk EXCEPT !.steady = @ \ {i}]
  /\ UNCHANGED replica

\* Ids are given out in order, but transactions commit in any order.
InsertRow(i) ==
  /\ primary.row[i] = "none"
  /\ \E row \in Statuses(walk.kind) :
       \/ ChangeRow(i, row, primary.hidden)
       \/ Hides(walk.kind) /\ ChangeRow(i, row, primary.hidden \cup {i})

\* upsert or disconnectAfter set main; updateVerified, deleteUnverified.
FlipRow(i) ==
  /\ primary.row[i] \in {"other", "in"}
  /\ \E row \in Statuses(walk.kind) \ {primary.row[i]} : ChangeRow(i, row, primary.hidden)

\* The block of the row's transaction leaves or enters the main chain.
ReorganiseRow(i) ==
  /\ Hides(walk.kind)
  /\ primary.row[i] \in {"other", "in"}
  /\ ChangeRow(i, primary.row[i], IF i \in primary.hidden THEN primary.hidden \ {i}
                               ELSE primary.hidden \cup {i})

\* A job replaces descriptions by new ones.
DeleteRow(i) ==
  /\ walk.kind = "descriptions"
  /\ primary.row[i] = "in"
  /\ ChangeRow(i, "gone", primary.hidden \ {i})

Replicate ==
  /\ replica # primary
  /\ replica' = primary
  /\ UNCHANGED <<primary, changes, walk>>

-----------------------------------------------------------------------------
Selected(table) == {i \in Ids : table.row[i] = "in"}
There(table) == {i \in Ids : table.row[i] \in {"other", "in"}}

\* findMany: the rows from the cursor's row on, which has to exist but need not
\* be selected, downward or, for a negative take, upward; after the first skip
\* of them, as many as are to be taken.
FindMany(selected, there, cursor, skip, take) ==
  LET rows == IF cursor = NoCursor THEN selected
              ELSE {i \in selected : /\ cursor \in there
                                     /\ IF take > 0 THEN i <= cursor ELSE i >= cursor}
      Before(i) == {k \in rows : IF take > 0 THEN k > i ELSE k < i}
      count == IF take > 0 THEN take ELSE -take
  IN {i \in rows : Cardinality(Before(i)) \in skip..skip + count - 1}

\* They come ordered by id, descending.
Ordered(found) ==
  {page \in [1..Cardinality(found) -> found] :
     \A i, k \in 1..Cardinality(found) : i < k => page[i] > page[k]}

Take(w) == IF w.before THEN -w.limit ELSE w.limit

\* Where a list's rows, and its flags, are read.
DataTable == IF walk.kind = "descriptions" THEN primary ELSE replica
FlagsTable == IF walk.kind = "assets" THEN replica ELSE primary

\* The rows of one transaction, or one block, are selected by the ids read.
Where(table) ==
  IF walk.kind \in {"transaction", "transactions"} THEN Selected(table) \cap walk.ids
  ELSE Selected(table)

Lists(kind) == IF kind \in {"transaction", "transactions"} THEN "ids" ELSE "data"
HasFlags(kind) == kind \notin {"range", "transactions"}
Misses(table, cursor) == cursor # NoCursor /\ cursor \notin Selected(table)

WalkStep(new) == walk' = new /\ UNCHANGED <<primary, replica, changes>>

\* The first request, with a cursor the client has from elsewhere or none
\* (before = 0 counts as none, but turns the direction).  GET /transactions
\* takes neither cursor nor limit.
BeginWalk ==
  /\ walk.pc = "idle"
  /\ \E before \in BOOLEAN, cursor \in Selected(primary) \cup {NoCursor}, limit \in Limits :
       /\ walk.kind = "transactions" => cursor = NoCursor /\ ~before
       /\ WalkStep([walk EXCEPT !.pc = Lists(walk.kind), !.before = before, !.limit = limit,
                            !.from = cursor, !.cursor = cursor,
                            !.steady = {i \in Selected(primary) \cap Selected(replica) :
                                          i \notin primary.hidden \cup replica.hidden}])

\* blocks_transactions, on the primary.
ReadIds ==
  /\ walk.pc = "ids"
  /\ WalkStep([walk EXCEPT !.pc = "data", !.ids = Selected(primary)])

\* The blocks of a transaction are found without the cursor, but with its skip.
Cursor(w) == IF w.kind = "transaction" THEN NoCursor ELSE w.cursor

\* Mutant: the cursor's own row is not skipped.
MutSkip(w) == 0

Skip(w) == IF w.cursor = NoCursor THEN 0 ELSE 1

ReadData ==
  /\ walk.pc = "data"
  /\ \E page \in Ordered(FindMany(Where(DataTable), There(DataTable), Cursor(walk),
                                 Skip(walk), Take(walk))) :
        WalkStep([walk EXCEPT !.page = page,
                          !.pc = IF HasFlags(walk.kind) /\ page # <<>> THEN "next" ELSE "show",
                          !.lost = @ \/ Misses(DataTable, walk.cursor)])

\* Mutant: there is a next page when this one is longer than the limit.
MutReadNext ==
  /\ walk.pc = "next"
  /\ WalkStep([walk EXCEPT !.pc = "previous", !.hasNext = Len(walk.page) > walk.limit])

\* getListMetadata: is there a row after the page's last,
ReadNext ==
  /\ walk.pc = "next"
  /\ LET last == walk.page[Len(walk.page)]
     IN WalkStep([walk EXCEPT
                !.pc = "previous",
                !.hasNext = FindMany(Where(FlagsTable), There(FlagsTable), last, 1, 1) # {},
                !.lost = @ \/ (~walk.before /\ Misses(FlagsTable, last))])

\* and one before its first?
ReadPrevious ==
  /\ walk.pc = "previous"
  /\ LET first == Head(walk.page)
     IN WalkStep([walk EXCEPT
                !.pc = "show",
                !.hasPrevious =
                  FindMany(Where(FlagsTable), There(FlagsTable), first, 1, -1) # {},
                !.lost = @ \/ (walk.before /\ Misses(FlagsTable, first))])

\* The blocks of a row's transaction are read from the replica, row by row.  A
\* row the replica does not have yet may be that of a block it has or lacks.
ShowRow ==
  /\ walk.pc = "show"
  /\ walk.nth <= Len(walk.page)
  /\ LET id == walk.page[walk.nth]
     IN \/ /\ Hides(walk.kind) => id \notin replica.hidden
           /\ WalkStep([walk EXCEPT !.nth = @ + 1, !.out = Append(@, id)])
        \/ /\ Hides(walk.kind)
           /\ id \in replica.hidden \/ replica.row[id] = "none"
           /\ WalkStep([walk EXCEPT !.nth = @ + 1])

\* The answer.  The client asks for the next page if there is one and it got an
\* item to ask with; as a bound, only as long as it has fewer items than rows.
AnswerPage ==
  /\ walk.pc = "show"
  /\ walk.nth > Len(walk.page)
  /\ LET more == IF walk.before THEN walk.hasPrevious ELSE walk.hasNext
         got == IF walk.before THEN walk.out \o walk.got ELSE walk.got \o walk.out
         last == IF walk.before THEN Head(walk.out) ELSE walk.out[Len(walk.out)]
         answered == [walk EXCEPT !.pc = IF more THEN "stuck" ELSE "done", !.got = got,
                                  !.ids = {}, !.page = <<>>, !.nth = 1, !.out = <<>>,
                                  !.hasNext = FALSE, !.hasPrevious = FALSE]
     IN WalkStep(IF more /\ walk.out # <<>> /\ Len(got) < MaxRows
             THEN [answered EXCEPT !.pc = Lists(walk.kind), !.cursor = last]
             ELSE answered)

-----------------------------------------------------------------------------
ListsNext ==
  \/ \E i \in Ids : InsertRow(i) \/ FlipRow(i) \/ ReorganiseRow(i) \/ DeleteRow(i)
  \/ Replicate
  \/ BeginWalk \/ ReadIds \/ ReadData \/ ReadNext \/ ReadPrevious \/ ShowRow \/ AnswerPage

ListsSpec == ListsInit /\ [][ListsNext]_listsVars

-----------------------------------------------------------------------------
Items(items) == {items[i] : i \in 1..Len(items)}

Descends(got) == \A i, k \in DOMAIN got : i < k => got[i] > got[k]

\* However rows come, go and move between its queries, a walk gives no row
\* twice and keeps the order, within a page and from page to page, in both
\* directions (assets.service.ts 131-168, asset-descriptions.service.ts 75-91,
\* blocks.service.ts 190-308); the blocks of a transaction excepted, see
\* PagesFollow.
WalkDescends == walk.kind # "transaction" => Descends(walk.got)

\* A walk that ends because its last answer said there is nothing more has
\* every row beyond where it began that was in the list all along, although
\* page and flag are read by different queries of different servers - unless a
\* query began at a row that had left the filter by then
\* (blocks.service.ts 397-456, assets.service.ts 157-203).
WalkComplete ==
  walk.pc = "done" /\ HasFlags(walk.kind) /\ walk.kind # "transaction" /\ ~walk.lost =>
    \A i \in walk.steady :
      (walk.from # NoCursor => IF walk.before THEN i > walk.from ELSE i < walk.from)
        => i \in Items(walk.got)

\* 'An object identifier to use as a cursor pagination to fetch records after'
\* (pagination-args.dto.ts 11): what a request with `after` finds comes after
\* that record.
PagesFollow ==
  walk.cursor # NoCursor /\ ~walk.before => \A i \in Items(walk.page) : i < walk.cursor

=============================================================================
