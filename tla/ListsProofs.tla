---------------------------- MODULE ListsProofs -----------------------------
(***************************************************************************)
(* Proofs about Lists, for any number of rows and of changes, and any page *)
(* sizes: what findMany finds comes right after the cursor, and a walk made*)
(* of such pages gives no row twice, keeps the order and, when it is told  *)
(* that there is no more, has left out no row that was there all along.    *)
(***************************************************************************)
EXTENDS Lists, FiniteSetTheorems, SequenceTheorems, WellFoundedInduction, TLAPS

\* Whether row i comes after c in a walk, which goes up or down; a walk without
\* a cursor begins before all rows.
Past(i, c, up) == c # NoCursor => IF up THEN i > c ELSE i < c

\* The rows that come before i.
Ahead(rows, i, up) == {k \in rows : IF up THEN k < i ELSE k > i}
Rank(rows, i, up) == Cardinality(Ahead(rows, i, up))

LEMMA RowsAreFinite ==
  ASSUME NEW rows \in SUBSET Ids
  PROVE  IsFiniteSet(rows) /\ Cardinality(rows) \in Nat /\ \A i \in rows : i \in Nat
<1>1. MaxRows \in Nat
  BY ListsAssumption
<1>2. IsFiniteSet(1..MaxRows)
  BY <1>1, FS_Interval
<1>3. IsFiniteSet(rows)
  BY <1>2, FS_Subset DEF Ids
<1>4. Cardinality(rows) \in Nat
  BY <1>3, FS_CardinalityType
<1>5. \A i \in rows : i \in Nat
  BY <1>1 DEF Ids
<1> QED
  BY <1>3, <1>4, <1>5

LEMMA RankIsNumber ==
  ASSUME NEW rows \in SUBSET Ids, NEW i, NEW up
  PROVE  Rank(rows, i, up) \in Nat /\ IsFiniteSet(Ahead(rows, i, up))
<1>1. Ahead(rows, i, up) \in SUBSET Ids
  BY DEF Ahead
<1> QED
  BY <1>1, RowsAreFinite DEF Rank

\* Of two rows, the later one has the higher rank.
LEMMA RankGrows ==
  ASSUME NEW rows \in SUBSET Ids, NEW up \in BOOLEAN, NEW i \in rows, NEW k \in Ahead(rows, i, up)
  PROVE  Rank(rows, k, up) < Rank(rows, i, up)
<1> DEFINE A == Ahead(rows, i, up)
           B == Ahead(rows, k, up)
<1>1. B \subseteq A \ {k}
  BY RowsAreFinite DEF Ahead
<1>2. IsFiniteSet(A) /\ Cardinality(A) \in Nat /\ Cardinality(B) \in Nat
  BY RankIsNumber DEF Rank
<1> HIDE DEF A, B
<1>3. IsFiniteSet(A \ {k}) /\ Cardinality(A \ {k}) = Cardinality(A) - 1
  BY <1>2, FS_RemoveElement DEF A
<1>4. Cardinality(B) <= Cardinality(A) - 1
  BY <1>1, <1>3, FS_Subset
<1> QED
  BY <1>2, <1>4 DEF Rank, A, B

\* Among any rows there is a first one, in either direction.
LEMMA FirstExists ==
  ASSUME NEW rows \in SUBSET Ids, rows # {}, NEW up \in BOOLEAN
  PROVE  \E f \in rows : Ahead(rows, f, up) = {}
<1>1. \A i \in rows : i \in Nat /\ MaxRows - i \in Nat
  BY ListsAssumption DEF Ids
<1>2. CASE up
  <2>1. PICK f \in rows : \A k \in rows : <<k, f>> \notin OpToRel(<, Nat)
    BY <1>1, NatLessThanWellFounded, WFMin
  <2> QED
    BY <1>1, <1>2, <2>1 DEF OpToRel, Ahead
<1>3. CASE ~up
  <2> DEFINE left == {MaxRows - i : i \in rows}
  <2>1. left \subseteq Nat /\ left # {}
    BY <1>1
  <2>2. PICK l \in left : \A k \in left : <<k, l>> \notin OpToRel(<, Nat)
    BY <2>1, NatLessThanWellFounded, WFMin
  <2>3. PICK f \in rows : l = MaxRows - f
    OBVIOUS
  <2>4. \A i \in rows : ~(MaxRows - i < MaxRows - f)
    BY <1>1, <2>2, <2>3 DEF OpToRel
  <2> QED
    BY <1>1, <1>3, <2>4, ListsAssumption DEF Ahead
<1> QED
  BY <1>2, <1>3

\* No rank is left out: if a row has one of at least 0 or 1, a row has that.
LEMMA RankReached ==
  ASSUME NEW rows \in SUBSET Ids, NEW up \in BOOLEAN, NEW i \in rows,
         NEW skip \in 0..1, Rank(rows, i, up) >= skip
  PROVE  \E k \in rows : Rank(rows, k, up) = skip
<1>1. PICK f \in rows : Ahead(rows, f, up) = {}
  BY FirstExists
<1>2. Rank(rows, f, up) = 0
  BY <1>1, FS_EmptySet DEF Rank
<1>3. CASE skip = 0
  BY <1>2, <1>3
<1>4. CASE skip = 1
  <2> DEFINE rest == rows \ {f}
  <2>1. i \in rest /\ rest \in SUBSET Ids
    BY <1>2, <1>4
  <2>2. PICK g \in rest : Ahead(rest, g, up) = {}
    BY <2>1, FirstExists
  <2>3. Ahead(rows, g, up) \subseteq {f}
    BY <2>2 DEF Ahead
  <2>4. f \in Ahead(rows, g, up)
    <3>1. f \in Nat /\ g \in Nat /\ f # g /\ g \in rows
      BY RowsAreFinite
    <3>2. g \notin Ahead(rows, f, up)
      BY <1>1
    <3> QED
      BY <3>1, <3>2 DEF Ahead
  <2>5. Ahead(rows, g, up) = {f}
    BY <2>3, <2>4
  <2>6. Rank(rows, g, up) = 1
    BY <2>5, FS_Singleton DEF Rank
  <2> QED
    BY <1>4, <2>6
<1> QED
  BY <1>3, <1>4

\* findMany in these terms.
From(selected, there, cursor, up) ==
  IF cursor = NoCursor THEN selected
  ELSE {i \in selected : cursor \in there /\ IF up THEN i >= cursor ELSE i <= cursor}

\* A page is never longer than its limit.
LEMMA PageFits ==
  ASSUME NEW rows \in SUBSET Ids, NEW up \in BOOLEAN, NEW skip, skip = 0 \/ skip = 1,
         NEW n \in Nat \ {0}, NEW F \in SUBSET rows,
         \A i \in F : Rank(rows, i, up) \in skip..skip + n - 1
  PROVE  F \in SUBSET Ids /\ IsFiniteSet(F) /\ Cardinality(F) \in Nat /\ Cardinality(F) <= n
<1> DEFINE f == [i \in F |-> Rank(rows, i, up)]
<1>1. F \in SUBSET Ids /\ IsFiniteSet(F) /\ Cardinality(F) \in Nat
  BY RowsAreFinite
<1>2. \A i, k \in F : f[i] = f[k] => i = k
  <2> SUFFICES ASSUME NEW i \in F, NEW k \in F, f[i] = f[k], i # k PROVE FALSE
    OBVIOUS
  <2>1. i \in Nat /\ k \in Nat /\ i \in rows /\ k \in rows
    BY <1>1, RowsAreFinite
  <2>2. k \in Ahead(rows, i, up) \/ i \in Ahead(rows, k, up)
    BY <2>1 DEF Ahead
  <2>3. Rank(rows, i, up) = Rank(rows, k, up) /\ Rank(rows, i, up) \in Nat
    BY <2>1, RankIsNumber
  <2> HIDE DEF f
  <2> QED
    BY <2>1, <2>2, <2>3, RankGrows
<1>3. f \in Injection(F, skip..skip + n - 1)
  BY <1>2 DEF Injection, IsInjective
<1> HIDE DEF f
<1>4. IsFiniteSet(skip..skip + n - 1) /\ Cardinality(skip..skip + n - 1) = n
  <2>1. skip \in Int /\ skip + n - 1 \in Int /\ ~(skip > skip + n - 1)
    OBVIOUS
  <2>2. (skip + n - 1) - skip + 1 = n
    OBVIOUS
  <2> QED
    BY <2>1, <2>2, FS_Interval
<1>5. Cardinality(F) <= n
  BY <1>3, <1>4, FS_Injection
<1> QED
  BY <1>1, <1>5

\* What findMany finds, in these terms.
Toward(up, n) == IF up THEN -n ELSE n

LEMMA FoundByRank ==
  ASSUME NEW selected \in SUBSET Ids, NEW there, NEW cursor, NEW skip, skip = 0 \/ skip = 1,
         NEW up \in BOOLEAN, NEW n \in Nat \ {0},
         NEW F, F = FindMany(selected, there, cursor, skip, Toward(up, n)),
         NEW rows, rows = From(selected, there, cursor, up)
  PROVE  /\ rows \subseteq selected
         /\ F \subseteq rows
         /\ \A i \in rows : i \in F <=> Rank(rows, i, up) \in skip..skip + n - 1
<1>1. rows \in SUBSET selected /\ rows \in SUBSET Ids
  BY DEF From
<1>2. F = {i \in rows : Rank(rows, i, up) \in skip..skip + n - 1}
  <2> DEFINE take == Toward(up, n)
  <2>1. F = FindMany(selected, there, cursor, skip, take)
    OBVIOUS
  <2>2. CASE up
    <3>1. ~(take > 0) /\ -take = n
      BY <2>2 DEF Toward
    <3> HIDE DEF take
    <3> QED
      BY <2>1, <2>2, <3>1 DEF FindMany, From, Rank, Ahead
  <2>3. CASE ~up
    <3>1. take > 0 /\ take = n
      BY <2>3 DEF Toward
    <3> HIDE DEF take
    <3> QED
      BY <2>1, <2>3, <3>1 DEF FindMany, From, Rank, Ahead
  <2> QED
    BY <2>2, <2>3
<1> QED
  BY <1>1, <1>2

LEMMA FoundFits ==
  ASSUME NEW selected \in SUBSET Ids, NEW there, NEW cursor, NEW skip, skip = 0 \/ skip = 1,
         NEW up \in BOOLEAN, NEW n \in Nat \ {0},
         NEW F, F = FindMany(selected, there, cursor, skip, Toward(up, n))
  PROVE  F \subseteq selected /\ IsFiniteSet(F) /\ Cardinality(F) \in Nat /\ Cardinality(F) <= n
<1> DEFINE rows == From(selected, there, cursor, up)
<1>1. rows = From(selected, there, cursor, up)
  OBVIOUS
<1> HIDE DEF rows
<1>2. /\ F \subseteq rows
      /\ \A i \in rows : i \in F <=> Rank(rows, i, up) \in skip..skip + n - 1
  BY <1>1, FoundByRank
<1>3. rows \in SUBSET Ids /\ rows \subseteq selected
  BY <1>1 DEF From
<1>4. F \in SUBSET rows /\ \A i \in F : Rank(rows, i, up) \in skip..skip + n - 1
  BY <1>2
<1>5. IsFiniteSet(F) /\ Cardinality(F) \in Nat /\ Cardinality(F) <= n
  BY <1>3, <1>4, PageFits
<1> QED
  BY <1>3, <1>4, <1>5

\* What findMany finds comes after the cursor, and unless the cursor's own row
\* is not selected, it leaves nothing out but what comes after all of it.
LEMMA FoundComesNext ==
  ASSUME NEW selected \in SUBSET Ids, NEW there, NEW cursor \in Ids \cup {NoCursor},
         NEW skip, skip = 0 \/ skip = 1, skip = 0 <=> cursor = NoCursor,
         NEW up \in BOOLEAN, NEW n \in Nat \ {0},
         NEW F, F = FindMany(selected, there, cursor, skip, Toward(up, n))
  PROVE  /\ F \subseteq selected
         /\ \A i \in F : Past(i, cursor, up)
         /\ cursor = NoCursor \/ (cursor \in selected /\ selected \subseteq there) =>
              \A i \in selected : Past(i, cursor, up) /\ i \notin F =>
                F # {} /\ \A k \in F : Past(i, k, up)
<1> DEFINE rows == From(selected, there, cursor, up)
<1>1. rows \in SUBSET Ids /\ rows \subseteq selected /\ skip \in 0..1
  BY DEF From
<1>2. /\ F \subseteq rows
      /\ \A i \in rows : i \in F <=> Rank(rows, i, up) \in skip..skip + n - 1
  <2> HIDE DEF rows
  <2>1. rows = From(selected, there, cursor, up)
    BY DEF rows
  <2> QED
    BY <2>1, FoundByRank
<1>3. \A i \in F : Past(i, cursor, up)
  <2> SUFFICES ASSUME NEW i \in F, cursor # NoCursor PROVE IF up THEN i > cursor ELSE i < cursor
    BY DEF Past
  <2>1. i \in rows /\ Rank(rows, i, up) >= 1
    BY <1>2, RankIsNumber
  <2>2. i \in Nat /\ cursor \in Nat /\ IF up THEN i >= cursor ELSE i <= cursor
    <3>1. cursor \in Ids
      OBVIOUS
    <3>2. i \in Nat /\ cursor \in Nat
      BY <1>1, <2>1, <3>1, RowsAreFinite
    <3> QED
      BY <2>1, <3>2 DEF From
  <2>3. i # cursor
    <3> SUFFICES ASSUME i = cursor PROVE FALSE
      OBVIOUS
    <3>1. \A k \in rows : k \in Nat /\ IF up THEN k >= cursor ELSE k <= cursor
      BY <1>1, RowsAreFinite DEF From
    <3>2. Ahead(rows, i, up) = {}
      BY <2>2, <3>1 DEF Ahead
    <3>3. Rank(rows, i, up) = 0
      BY <3>2, FS_EmptySet DEF Rank
    <3> QED
      BY <2>1, <3>3
  <2> QED
    BY <2>2, <2>3
<1>4. ASSUME cursor = NoCursor \/ (cursor \in selected /\ selected \subseteq there),
             NEW i \in selected, Past(i, cursor, up), i \notin F
      PROVE  F # {} /\ \A k \in F : Past(i, k, up)
  <2>1. i \in rows /\ i \in Nat
    BY <1>1, <1>4, RowsAreFinite DEF From, Past
  <2>2. Rank(rows, i, up) >= skip
    <3>1. CASE cursor = NoCursor
      BY <3>1, <1>1, RankIsNumber
    <3>2. CASE cursor # NoCursor
      <4>1. cursor \in Ahead(rows, i, up)
        <5>1. cursor \in rows
          BY <1>4, <3>2, RowsAreFinite DEF From
        <5> QED
          BY <1>4, <3>2, <5>1 DEF Ahead, Past
      <4>2. Rank(rows, cursor, up) < Rank(rows, i, up) /\ Rank(rows, cursor, up) \in Nat
            /\ Rank(rows, i, up) \in Nat
        BY <1>1, <2>1, <4>1, RankGrows, RankIsNumber
      <4> QED
        BY <3>2, <4>2
    <3> QED
      BY <3>1, <3>2
  <2> HIDE DEF rows
  <2>3. Rank(rows, i, up) > skip + n - 1 /\ Rank(rows, i, up) \in Nat
    BY <1>1, <1>2, <1>4, <2>1, <2>2, RankIsNumber
  <2>4. F # {}
    <3>1. PICK k \in rows : Rank(rows, k, up) = skip
      BY <1>1, <2>1, <2>2, RankReached
    <3>2. k \in F
      BY <1>1, <1>2, <3>1
    <3> QED
      BY <3>2
  <2>5. ASSUME NEW k \in F PROVE Past(i, k, up)
    <3>1. k \in rows /\ k \in Nat /\ Rank(rows, k, up) \in Nat /\ Rank(rows, k, up) <= skip + n - 1
      BY <1>1, <1>2, RowsAreFinite, RankIsNumber
    <3>2. k # i /\ i \notin Ahead(rows, k, up)
      BY <1>1, <1>4, <2>3, <3>1, RankGrows
    <3> QED
      BY <2>1, <3>1, <3>2 DEF Ahead, Past
  <2> QED
    BY <2>4, <2>5
<1> QED
  BY <1>1, <1>2, <1>3, <1>4

-----------------------------------------------------------------------------
\* The inductive invariant.  A walk is under way between its first request and
\* its last answer, and its page is read.
UnderWay == walk.pc \in {"ids", "data", "next", "previous", "show"}
PageRead == walk.pc \in {"next", "previous", "show"}

\* The last item of a list in the direction of the walk.
EndOf(items, up) == IF up THEN items[1] ELSE items[Len(items)]

ListsShape ==
  /\ primary \in Table
  /\ replica \in Table
  /\ changes \in 0..MaxChanges
  /\ walk \in Walk

\* A steady row is listed, wherever one looks.
Steadily ==
  /\ walk.steady \subseteq Selected(primary) \cap Selected(replica)
  /\ walk.steady \cap (primary.hidden \cup replica.hidden) = {}

\* The page read, in order, and what of it is answered.
Paging ==
  /\ walk.limit # 0
  /\ ~PageRead => walk.page = <<>>
  /\ walk.pc \in {"next", "previous"} => walk.page # <<>>
  /\ walk.pc # "show" => walk.out = <<>> /\ walk.nth = 1
  /\ Len(walk.page) <= walk.limit
  /\ Descends(walk.page)
  /\ walk.nth \in 1..Len(walk.page) + 1

Showing ==
  /\ Len(walk.out) < walk.nth
  /\ Descends(walk.out)
  /\ \A j \in 1..Len(walk.out) : \E k \in 1..walk.nth - 1 : walk.out[j] = walk.page[k]
  /\ \A k \in 1..walk.nth - 1 : walk.page[k] \in walk.steady => walk.page[k] \in Items(walk.out)

\* All answers together are in order, and the page comes after them.
Walking ==
  walk.kind # "transaction" =>
    /\ Descends(walk.got)
    /\ walk.pc = "idle" => walk.got = <<>>
    /\ UnderWay /\ walk.got = <<>> => walk.cursor = walk.from
    /\ UnderWay /\ walk.got # <<>> => walk.cursor = EndOf(walk.got, walk.before)
    /\ \A i \in Items(walk.page) : Past(i, walk.cursor, walk.before)

\* A steady row beyond the walk's beginning is in an answer, or in the page, or
\* comes after it; and not that, once the flag is read and says so.
More == IF walk.before THEN walk.hasPrevious ELSE walk.hasNext
FlagRead == walk.pc = "show" \/ (walk.pc = "previous" /\ ~walk.before)

Covering ==
  HasFlags(walk.kind) /\ walk.kind # "transaction" /\ ~walk.lost =>
    /\ UnderWay => \A i \in walk.steady :
         Past(i, walk.from, walk.before) =>
           i \in Items(walk.got) \/ Past(i, walk.cursor, walk.before)
    /\ PageRead => \A i \in walk.steady :
         Past(i, walk.cursor, walk.before) /\ i \notin Items(walk.page) =>
           /\ walk.page # <<>>
           /\ Past(i, EndOf(walk.page, walk.before), walk.before)
    /\ FlagRead /\ ~More => \A i \in walk.steady :
         Past(i, walk.cursor, walk.before) => i \in Items(walk.page)
    /\ walk.pc = "done" => \A i \in walk.steady :
         Past(i, walk.from, walk.before) => i \in Items(walk.got)

ListsInv == ListsShape /\ Steadily /\ Paging /\ Showing /\ Walking /\ Covering

-----------------------------------------------------------------------------
\* The walk is a record of sets the provers need not look into.
Pcs == {"idle", "ids", "data", "next", "previous", "show", "done", "stuck"}
Cursors == Ids \cup {NoCursor}
IdSeqs == Seq(Ids)
IdSets == SUBSET Ids
RowStates == {"none", "gone", "other", "in"}

WalkShape ==
  [pc : Pcs, kind : Kinds, before : BOOLEAN, limit : Nat, from : Cursors, cursor : Cursors,
   ids : IdSets, page : IdSeqs, hasNext : BOOLEAN, hasPrevious : BOOLEAN, nth : Nat,
   out : IdSeqs, got : IdSeqs, steady : IdSets, lost : BOOLEAN]

LEMMA HasWalkShape == Walk = WalkShape
BY DEF Walk, WalkShape, Pcs, Cursors, IdSeqs, IdSets

LEMMA ListsInitHolds == ListsInit => ListsInv
<1> SUFFICES ASSUME ListsInit PROVE ListsInv
  OBVIOUS
<1>1. PICK kind \in Kinds :
        /\ walk = BlankWalk(kind)
        /\ primary \in [row : [Ids -> {"none"} \cup Statuses(kind)],
                        hidden : IF Hides(kind) THEN SUBSET Ids ELSE {{}}]
  BY DEF ListsInit
<1>2. replica = primary /\ changes = 0
  BY DEF ListsInit
<1>3. walk \in Walk
  <2>1. <<>> \in IdSeqs /\ {} \in IdSets /\ NoCursor \in Cursors /\ "idle" \in Pcs
    BY DEF IdSeqs, IdSets, Cursors, Pcs
  <2>2. walk \in WalkShape
    BY <1>1, <2>1 DEF BlankWalk, WalkShape
  <2> QED
    BY <2>2, HasWalkShape
<1>4. primary \in Table
  BY <1>1 DEF Table, Statuses
<1>5. changes \in 0..MaxChanges
  BY <1>2, ListsAssumption
<1>6. /\ walk.pc = "idle" /\ walk.limit = 1 /\ walk.page = <<>> /\ walk.out = <<>>
      /\ walk.nth = 1 /\ walk.got = <<>> /\ walk.steady = {}
  BY <1>1 DEF BlankWalk
<1>7. ListsShape /\ Steadily
  BY <1>2, <1>3, <1>4, <1>5, <1>6 DEF ListsShape, Steadily
<1>8. Len(<<>>) = 0 /\ DOMAIN <<>> = {} /\ Items(<<>>) = {} /\ 1..0 = {}
  BY DEF Items
<1>9. Paging
  BY <1>6, <1>8 DEF Paging, PageRead, Descends
<1>10. Showing
  BY <1>6, <1>8 DEF Showing, Descends
<1>11. Walking /\ Covering
  BY <1>6, <1>8 DEF Walking, Covering, UnderWay, PageRead, FlagRead, Descends
<1> QED
  BY <1>7, <1>9, <1>10, <1>11 DEF ListsInv

-----------------------------------------------------------------------------
\* A row changes.
LEMMA ChangeKeeps ==
  ASSUME ListsInv, NEW i \in Ids, NEW row \in RowStates, NEW hidden \in SUBSET Ids,
         hidden \ {i} = primary.hidden \ {i}, ChangeRow(i, row, hidden)
  PROVE  ListsInv'
<1>1. walk \in WalkShape /\ primary \in Table /\ replica \in Table /\ changes \in 0..MaxChanges
  BY HasWalkShape DEF ListsInv, ListsShape
<1>2. /\ walk' \in WalkShape
      /\ walk'.pc = walk.pc /\ walk'.kind = walk.kind /\ walk'.before = walk.before
      /\ walk'.limit = walk.limit /\ walk'.from = walk.from /\ walk'.cursor = walk.cursor
      /\ walk'.ids = walk.ids /\ walk'.page = walk.page /\ walk'.hasNext = walk.hasNext
      /\ walk'.hasPrevious = walk.hasPrevious /\ walk'.nth = walk.nth /\ walk'.out = walk.out
      /\ walk'.got = walk.got /\ walk'.lost = walk.lost /\ walk'.steady = walk.steady \ {i}
  <2>1. walk.steady \ {i} \in IdSets
    BY <1>1 DEF WalkShape, IdSets
  <2> DEFINE steady == walk.steady \ {i}
  <2>2. walk' = [walk EXCEPT !.steady = steady]
    BY DEF ChangeRow
  <2>3. steady \in IdSets
    BY <2>1
  <2> HIDE DEF steady
  <2>4. /\ walk' \in WalkShape /\ walk'.steady = steady
        /\ walk'.pc = walk.pc /\ walk'.kind = walk.kind /\ walk'.before = walk.before
        /\ walk'.limit = walk.limit /\ walk'.from = walk.from /\ walk'.cursor = walk.cursor
        /\ walk'.ids = walk.ids /\ walk'.page = walk.page /\ walk'.hasNext = walk.hasNext
        /\ walk'.hasPrevious = walk.hasPrevious /\ walk'.nth = walk.nth /\ walk'.out = walk.out
        /\ walk'.got = walk.got /\ walk'.lost = walk.lost
    BY <1>1, <2>2, <2>3 DEF WalkShape
  <2> QED
    BY <2>4 DEF steady
<1>3. /\ primary' = [row |-> [primary.row EXCEPT ![i] = row], hidden |-> hidden]
      /\ replica' = replica /\ changes' = changes + 1 /\ changes < MaxChanges
  BY DEF ChangeRow
<1>4. primary' \in Table
  BY <1>1, <1>3 DEF Table, RowStates
<1>5. changes' \in 0..MaxChanges
  BY <1>1, <1>3, ListsAssumption
<1>6. ListsShape'
  BY <1>1, <1>2, <1>3, <1>4, <1>5, HasWalkShape DEF ListsShape
<1>7. Steadily'
  <2>1. \A k \in Ids \ {i} : primary'.row[k] = primary.row[k]
    BY <1>1, <1>3 DEF Table
  <2>2. primary'.hidden = hidden
    BY <1>3
  <2>3. Steadily
    BY DEF ListsInv
  <2> QED
    BY <1>2, <1>3, <2>1, <2>2, <2>3 DEF Steadily, Selected
<1>8. Paging'
  <2>1. Paging
    BY DEF ListsInv
  <2> QED
    BY <1>2, <2>1 DEF Paging, PageRead
<1>9. Showing'
  <2>1. Showing
    BY DEF ListsInv
  <2> QED
    BY <1>2, <2>1 DEF Showing
<1>10. Walking'
  <2>1. Walking
    BY DEF ListsInv
  <2> QED
    BY <1>2, <2>1 DEF Walking, UnderWay
<1>11. Covering'
  <2>1. Covering
    BY DEF ListsInv
  <2> QED
    BY <1>2, <2>1 DEF Covering, UnderWay, PageRead, FlagRead, More
<1> QED
  BY <1>6, <1>7, <1>8, <1>9, <1>10, <1>11 DEF ListsInv

LEMMA RowsKeep ==
  ASSUME ListsInv, NEW i \in Ids,
         InsertRow(i) \/ FlipRow(i) \/ ReorganiseRow(i) \/ DeleteRow(i)
  PROVE  ListsInv'
<1>1. primary.row[i] \in RowStates /\ primary.hidden \in SUBSET Ids
  BY DEF ListsInv, ListsShape, Table, RowStates
<1>2. \A kind : Statuses(kind) \subseteq RowStates
  BY DEF Statuses, RowStates
<1>3. \E row \in RowStates, hidden \in SUBSET Ids :
         hidden \ {i} = primary.hidden \ {i} /\ ChangeRow(i, row, hidden)
  <2>1. CASE InsertRow(i)
    <3>1. PICK row \in Statuses(walk.kind) : \/ ChangeRow(i, row, primary.hidden)
                                             \/ ChangeRow(i, row, primary.hidden \cup {i})
      BY <2>1 DEF InsertRow
    <3> QED
      BY <1>1, <1>2, <3>1
  <2>2. CASE FlipRow(i)
    BY <1>1, <1>2, <2>2 DEF FlipRow
  <2>3. CASE ReorganiseRow(i)
    <3> DEFINE hidden == IF i \in primary.hidden THEN primary.hidden \ {i}
                         ELSE primary.hidden \cup {i}
    <3>1. ChangeRow(i, primary.row[i], hidden)
      BY <2>3 DEF ReorganiseRow
    <3>2. hidden \in SUBSET Ids /\ hidden \ {i} = primary.hidden \ {i}
      BY <1>1
    <3> QED
      BY <1>1, <3>1, <3>2
  <2>4. CASE DeleteRow(i)
    <3>1. ChangeRow(i, "gone", primary.hidden \ {i}) /\ "gone" \in RowStates
      BY <2>4 DEF DeleteRow, RowStates
    <3> QED
      BY <1>1, <3>1
  <2> QED
    BY <2>1, <2>2, <2>3, <2>4
<1> QED
  BY <1>3, ChangeKeeps

LEMMA ReplicateKeeps ==
  ASSUME ListsInv, Replicate
  PROVE  ListsInv'
<1>1. replica' = primary /\ primary' = primary /\ changes' = changes /\ walk' = walk
  BY DEF Replicate
<1>2. ListsShape' /\ Steadily'
  BY <1>1 DEF ListsInv, ListsShape, Steadily
<1>3. Paging' /\ Showing'
  BY <1>1 DEF ListsInv, Paging, Showing, PageRead
<1>4. Walking' /\ Covering'
  BY <1>1 DEF ListsInv, Walking, Covering, UnderWay, PageRead, FlagRead, More
<1> QED
  BY <1>2, <1>3, <1>4 DEF ListsInv

-----------------------------------------------------------------------------
\* A walk begins, with nothing behind it.
LEMMA BeginKeeps ==
  ASSUME ListsInv, BeginWalk
  PROVE  ListsInv'
<1>1. walk \in WalkShape /\ primary \in Table /\ replica \in Table
  BY HasWalkShape DEF ListsInv, ListsShape
<1>2. PICK before \in BOOLEAN, cursor \in Selected(primary) \cup {NoCursor}, limit \in Limits :
        WalkStep([walk EXCEPT !.pc = Lists(walk.kind), !.before = before, !.limit = limit,
                              !.from = cursor, !.cursor = cursor,
                              !.steady = {i \in Selected(primary) \cap Selected(replica) :
                                            i \notin primary.hidden \cup replica.hidden}])
  BY DEF BeginWalk
<1>3. walk.pc = "idle"
  BY DEF BeginWalk
<1> DEFINE steady == {i \in Selected(primary) \cap Selected(replica) :
                        i \notin primary.hidden \cup replica.hidden}
           pc == Lists(walk.kind)
<1>4. steady \in IdSets /\ pc \in Pcs /\ cursor \in Cursors /\ limit \in Nat /\ limit # 0
      /\ pc \in {"ids", "data"}
  BY ListsAssumption DEF IdSets, Selected, Lists, Pcs, Cursors
<1>5. /\ steady \subseteq Selected(primary) \cap Selected(replica)
      /\ steady \cap (primary.hidden \cup replica.hidden) = {}
  OBVIOUS
<1>6. /\ walk' = [walk EXCEPT !.pc = pc, !.before = before, !.limit = limit,
                              !.from = cursor, !.cursor = cursor, !.steady = steady]
      /\ primary' = primary /\ replica' = replica /\ changes' = changes
  BY <1>2 DEF WalkStep
<1> HIDE DEF steady, pc
<1>7. /\ walk' \in WalkShape
      /\ walk'.pc = pc /\ walk'.kind = walk.kind /\ walk'.before = before
      /\ walk'.limit = limit /\ walk'.from = cursor /\ walk'.cursor = cursor
      /\ walk'.page = walk.page /\ walk'.nth = walk.nth /\ walk'.out = walk.out
      /\ walk'.got = walk.got /\ walk'.lost = walk.lost /\ walk'.steady = steady
  BY <1>1, <1>4, <1>6 DEF WalkShape
<1>8. Paging /\ Showing /\ Walking
  BY DEF ListsInv
<1>9. walk.page = <<>> /\ walk.out = <<>> /\ walk.nth = 1
  BY <1>3, <1>8 DEF Paging, PageRead
<1>10. ListsShape' /\ Steadily'
  <2>1. ListsShape /\ Steadily
    BY DEF ListsInv
  <2>2. ListsShape'
    BY <1>6, <1>7, <2>1, HasWalkShape DEF ListsShape
  <2>3. Steadily'
    BY <1>5, <1>6, <1>7 DEF Steadily, Selected
  <2> QED
    BY <2>2, <2>3
<1>11. Len(<<>>) = 0 /\ DOMAIN <<>> = {} /\ Items(<<>>) = {} /\ 1..0 = {}
  BY DEF Items
<1>12. Paging'
  BY <1>4, <1>7, <1>9, <1>11 DEF Paging, PageRead, Descends
<1>13. Showing'
  BY <1>7, <1>9, <1>11 DEF Showing, Descends
<1>14. Walking' /\ Covering'
  <2>1. walk'.kind # "transaction" => walk'.got = <<>>
    BY <1>3, <1>7, <1>8 DEF Walking
  <2>2. Walking'
    BY <1>4, <1>7, <1>9, <1>11, <2>1 DEF Walking, UnderWay, Descends
  <2>3. Covering'
    BY <1>4, <1>7, <1>11, <2>1 DEF Covering, UnderWay, PageRead, FlagRead
  <2> QED
    BY <2>2, <2>3
<1> QED
  BY <1>10, <1>12, <1>13, <1>14 DEF ListsInv

LEMMA ReadIdsKeeps ==
  ASSUME ListsInv, ReadIds
  PROVE  ListsInv'
<1>1. walk \in WalkShape /\ primary \in Table /\ replica \in Table
  BY HasWalkShape DEF ListsInv, ListsShape
<1> DEFINE ids == Selected(primary)
           pc == "data"
<1>2. ids \in IdSets /\ pc \in Pcs /\ pc = "data"
  BY DEF IdSets, Selected, Pcs
<1>3. /\ walk' = [walk EXCEPT !.pc = pc, !.ids = ids]
      /\ primary' = primary /\ replica' = replica /\ changes' = changes
      /\ walk.pc = "ids"
  BY DEF ReadIds, WalkStep
<1> HIDE DEF ids, pc
<1>4. /\ walk' \in WalkShape
      /\ walk'.pc = pc /\ walk'.kind = walk.kind /\ walk'.before = walk.before
      /\ walk'.limit = walk.limit /\ walk'.from = walk.from /\ walk'.cursor = walk.cursor
      /\ walk'.page = walk.page /\ walk'.nth = walk.nth /\ walk'.out = walk.out
      /\ walk'.got = walk.got /\ walk'.lost = walk.lost /\ walk'.steady = walk.steady
  BY <1>1, <1>2, <1>3 DEF WalkShape
<1>5. ListsShape' /\ Steadily'
  <2>1. ListsShape /\ Steadily
    BY DEF ListsInv
  <2>2. ListsShape'
    BY <1>3, <1>4, <2>1, HasWalkShape DEF ListsShape
  <2>3. Steadily'
    BY <1>3, <1>4, <2>1 DEF Steadily, Selected
  <2> QED
    BY <2>2, <2>3
<1>6. Paging'
  BY <1>2, <1>3, <1>4 DEF ListsInv, Paging, PageRead
<1>7. Showing'
  BY <1>4 DEF ListsInv, Showing
<1>8. Walking'
  BY <1>2, <1>3, <1>4 DEF ListsInv, Walking, UnderWay
<1>9. Covering'
  <2>1. Covering
    BY DEF ListsInv
  <2> QED
    BY <1>2, <1>3, <1>4, <2>1 DEF Covering, UnderWay, PageRead, FlagRead
<1> QED
  BY <1>5, <1>6, <1>7, <1>8, <1>9 DEF ListsInv

-----------------------------------------------------------------------------
\* A page holds all that was found, in order.
LEMMA OrderedHoldsAll ==
  ASSUME NEW F \in SUBSET Ids, IsFiniteSet(F), Cardinality(F) \in Nat, NEW page \in Ordered(F)
  PROVE  /\ page \in Seq(Ids)
         /\ Len(page) = Cardinality(F)
         /\ Descends(page)
         /\ Items(page) = F
<1> DEFINE n == Cardinality(F)
<1>1. page \in [1..n -> F] /\ \A i, k \in 1..n : i < k => page[i] > page[k]
  BY DEF Ordered
<1> HIDE DEF n
<1>2. n \in Nat
  BY DEF n
<1>3. page \in Seq(Ids) /\ Len(page) = n /\ DOMAIN page = 1..n
  BY <1>1, <1>2
<1>4. Descends(page)
  BY <1>1, <1>3 DEF Descends
<1>5. Items(page) \subseteq F
  BY <1>1, <1>3 DEF Items
<1>6. IsFiniteSet(Items(page)) /\ Cardinality(Items(page)) \in Nat
  BY <1>5, FS_Subset, FS_CardinalityType
<1>7. page \in Injection(1..n, Items(page))
  <2>1. \A i, k \in 1..n : i # k => page[i] # page[k]
    <3> SUFFICES ASSUME NEW i \in 1..n, NEW k \in 1..n, i < k PROVE page[i] # page[k]
      OBVIOUS
    <3>1. page[i] \in Nat /\ page[k] \in Nat
      BY <1>1, RowsAreFinite
    <3> QED
      BY <1>1, <3>1
  <2>2. page \in [1..n -> Items(page)]
    BY <1>1, <1>3 DEF Items
  <2> QED
    BY <2>1, <2>2 DEF Injection, IsInjective
<1>8. IsFiniteSet(1..n) /\ Cardinality(1..n) = n
  <2>1. /\ IsFiniteSet(1..n)
        /\ Cardinality(1..n) = IF 1 > n THEN 0 ELSE n - 1 + 1
    BY <1>2, FS_Interval
  <2> QED
    BY <1>2, <2>1
<1>9. n <= Cardinality(Items(page))
  BY <1>6, <1>7, <1>8, FS_Injection
<1>10. Items(page) = F
  <2>1. Cardinality(Items(page)) <= n
    BY <1>5, FS_Subset DEF n
  <2> QED
    BY <1>2, <1>5, <1>6, <1>9, <2>1, FS_Subset DEF n
<1> QED
  BY <1>3, <1>4, <1>10 DEF n

LEMMA EndIsItem ==
  ASSUME NEW page \in Seq(Ids), page # <<>>, NEW up \in BOOLEAN
  PROVE  /\ Len(page) \in Nat /\ Len(page) >= 1
         /\ EndOf(page, up) \in Items(page)
         /\ Head(page) = page[1] /\ Head(page) \in Ids /\ page[Len(page)] \in Ids
BY DEF EndOf, Items

LEMMA TablesSelect ==
  ASSUME ListsInv, NEW table \in {primary, replica}
  PROVE  /\ Selected(table) \in SUBSET Ids
         /\ Selected(table) \subseteq There(table)
         /\ Where(table) \in SUBSET Ids
         /\ walk.steady \subseteq Selected(table)
         /\ walk.kind \notin {"transaction", "transactions"} => Where(table) = Selected(table)
BY DEF ListsInv, Steadily, Selected, There, Where

\* The page is read from the cursor on.
LEMMA ReadDataKeeps ==
  ASSUME ListsInv, ReadData
  PROVE  ListsInv'
<1>1. walk \in WalkShape
  BY HasWalkShape DEF ListsInv, ListsShape
<1> DEFINE F == FindMany(Where(DataTable), There(DataTable), Cursor(walk), Skip(walk), Take(walk))
<1>2. PICK page \in Ordered(F) :
        WalkStep([walk EXCEPT !.page = page,
                          !.pc = IF HasFlags(walk.kind) /\ page # <<>> THEN "next" ELSE "show",
                          !.lost = @ \/ Misses(DataTable, walk.cursor)])
  BY DEF ReadData
<1>3. walk.pc = "data"
  BY DEF ReadData
<1>4. /\ DataTable \in {primary, replica}
      /\ Take(walk) = Toward(walk.before, walk.limit)
      /\ Skip(walk) = 0 \/ Skip(walk) = 1
      /\ walk.before \in BOOLEAN /\ walk.limit \in Nat \ {0}
  <2>1. walk.limit # 0
    BY DEF ListsInv, Paging
  <2> QED
    BY <1>1, <2>1 DEF DataTable, Take, Toward, Skip, WalkShape
<1>5. /\ F \subseteq Where(DataTable)
      /\ IsFiniteSet(F) /\ Cardinality(F) \in Nat /\ Cardinality(F) <= walk.limit
  <2>1. Where(DataTable) \in SUBSET Ids
    BY <1>4, TablesSelect
  <2>2. F = FindMany(Where(DataTable), There(DataTable), Cursor(walk), Skip(walk),
                     Toward(walk.before, walk.limit))
    BY <1>4
  <2> HIDE DEF F
  <2> QED
    BY <1>4, <2>1, <2>2, FoundFits
<1>6. F \in SUBSET Ids
  BY <1>4, <1>5, TablesSelect
<1> HIDE DEF F
<1>7. page \in IdSeqs /\ Len(page) = Cardinality(F) /\ Descends(page) /\ Items(page) = F
  BY <1>5, <1>6, OrderedHoldsAll DEF IdSeqs
<1> DEFINE pc == IF HasFlags(walk.kind) /\ page # <<>> THEN "next" ELSE "show"
           lost == walk.lost \/ Misses(DataTable, walk.cursor)
<1>8. /\ pc \in Pcs /\ pc \in {"next", "show"} /\ (pc = "next" => page # <<>>)
      /\ HasFlags(walk.kind) /\ pc = "show" => page = <<>>
      /\ lost \in BOOLEAN
  BY <1>1 DEF Pcs, Misses, WalkShape
<1>9. ~lost => ~walk.lost /\ ~Misses(DataTable, walk.cursor)
  OBVIOUS
<1>10. /\ walk' = [walk EXCEPT !.page = page, !.pc = pc, !.lost = lost]
       /\ primary' = primary /\ replica' = replica /\ changes' = changes
  BY <1>2 DEF WalkStep
<1> HIDE DEF pc, lost
<1>11. /\ walk' \in WalkShape
       /\ walk'.pc = pc /\ walk'.kind = walk.kind /\ walk'.before = walk.before
       /\ walk'.limit = walk.limit /\ walk'.from = walk.from /\ walk'.cursor = walk.cursor
       /\ walk'.page = page /\ walk'.nth = walk.nth /\ walk'.out = walk.out
       /\ walk'.got = walk.got /\ walk'.lost = lost /\ walk'.steady = walk.steady
  BY <1>1, <1>7, <1>8, <1>10 DEF WalkShape
<1>12. Paging /\ Showing /\ Walking /\ Covering
  BY DEF ListsInv
<1>13. walk.out = <<>> /\ walk.nth = 1
  BY <1>3, <1>12 DEF Paging
<1>14. ListsShape' /\ Steadily'
  <2>1. ListsShape /\ Steadily
    BY DEF ListsInv
  <2>2. ListsShape'
    BY <1>10, <1>11, <2>1, HasWalkShape DEF ListsShape
  <2>3. Steadily'
    BY <1>10, <1>11, <2>1 DEF Steadily, Selected
  <2> QED
    BY <2>2, <2>3
<1>15. Paging'
  <2>1. Len(page) \in Nat /\ Len(page) <= walk.limit
    BY <1>5, <1>7
  <2>2. 1 \in 1..Len(page) + 1
    BY <2>1
  <2> QED
    BY <1>4, <1>7, <1>8, <1>11, <1>13, <2>1, <2>2 DEF Paging, PageRead
<1>16. Showing'
  <2>1. Len(<<>>) = 0 /\ DOMAIN <<>> = {} /\ 1..0 = {}
    OBVIOUS
  <2> QED
    BY <1>11, <1>13, <2>1 DEF Showing, Descends
<1>17. walk.kind # "transaction" =>
         /\ \A i \in F : Past(i, walk.cursor, walk.before)
         /\ walk.cursor = NoCursor
              \/ (walk.cursor \in Where(DataTable) /\ Where(DataTable) \subseteq There(DataTable)) =>
              \A i \in Where(DataTable) : Past(i, walk.cursor, walk.before) /\ i \notin F =>
                F # {} /\ \A k \in F : Past(i, k, walk.before)
  <2> SUFFICES ASSUME walk.kind # "transaction"
               PROVE  /\ \A i \in F : Past(i, walk.cursor, walk.before)
                      /\ walk.cursor = NoCursor
                           \/ (/\ walk.cursor \in Where(DataTable)
                               /\ Where(DataTable) \subseteq There(DataTable)) =>
                           \A i \in Where(DataTable) :
                             Past(i, walk.cursor, walk.before) /\ i \notin F =>
                               F # {} /\ \A k \in F : Past(i, k, walk.before)
    OBVIOUS
  <2>1. Cursor(walk) = walk.cursor /\ walk.cursor \in Ids \cup {NoCursor}
    BY <1>1 DEF Cursor, WalkShape, Cursors
  <2>2. Skip(walk) = 0 <=> walk.cursor = NoCursor
    BY DEF Skip
  <2>3. F = FindMany(Where(DataTable), There(DataTable), walk.cursor, Skip(walk),
                     Toward(walk.before, walk.limit))
    BY <1>4, <2>1 DEF F
  <2>4. Where(DataTable) \in SUBSET Ids
    BY <1>4, TablesSelect
  <2> QED
    BY <1>4, <2>1, <2>2, <2>3, <2>4, FoundComesNext
<1>18. Walking'
  BY <1>3, <1>7, <1>8, <1>11, <1>12, <1>17 DEF Walking, UnderWay
<1>19. Covering'
  <2> SUFFICES ASSUME HasFlags(walk.kind), walk.kind # "transaction", ~lost
               PROVE  Covering'
    BY <1>11 DEF Covering
  <2>1. \A i \in walk.steady : Past(i, walk.from, walk.before) =>
          i \in Items(walk.got) \/ Past(i, walk.cursor, walk.before)
    BY <1>3, <1>9, <1>12 DEF Covering, UnderWay
  <2>2. \A i \in walk.steady : Past(i, walk.cursor, walk.before) /\ i \notin Items(page) =>
          /\ page # <<>>
          /\ Past(i, EndOf(page, walk.before), walk.before)
    <3> SUFFICES ASSUME NEW i \in walk.steady, Past(i, walk.cursor, walk.before),
                        i \notin Items(page)
                 PROVE  page # <<>> /\ Past(i, EndOf(page, walk.before), walk.before)
      OBVIOUS
    <3>1. /\ walk.cursor = NoCursor \/ walk.cursor \in Where(DataTable)
          /\ Where(DataTable) \subseteq There(DataTable)
          /\ i \in Where(DataTable)
      <4>1. walk.kind \notin {"transaction", "transactions"}
        BY DEF HasFlags
      <4>2. walk.cursor = NoCursor \/ walk.cursor \in Selected(DataTable)
        BY <1>9 DEF Misses
      <4> QED
        BY <1>4, <4>1, <4>2, TablesSelect
    <3>2. F # {} /\ \A k \in F : Past(i, k, walk.before)
      BY <1>7, <1>17, <3>1
    <3>3. page # <<>>
      BY <1>7, <3>2 DEF Items
    <3>4. EndOf(page, walk.before) \in F
      BY <1>4, <1>7, <3>3, EndIsItem DEF IdSeqs
    <3> QED
      BY <3>2, <3>3, <3>4
  <2>3. pc = "show" => \A i \in walk.steady : ~Past(i, walk.cursor, walk.before) \/ i \in Items(page)
    BY <1>8, <2>2
  <2> QED
    BY <1>8, <1>11, <2>1, <2>2, <2>3 DEF Covering, UnderWay, PageRead, FlagRead
<1> QED
  BY <1>14, <1>15, <1>16, <1>18, <1>19 DEF ListsInv

-----------------------------------------------------------------------------
\* A flag that says no, asked at a selected row, has no steady row after it.
LEMMA FlagIsRight ==
  ASSUME ListsInv, HasFlags(walk.kind), walk.kind # "transaction",
         NEW table \in {primary, replica}, NEW end \in Selected(table), NEW up \in BOOLEAN,
         FindMany(Where(table), There(table), end, 1, Toward(up, 1)) = {},
         NEW i \in walk.steady
  PROVE  ~Past(i, end, up)
<1>1. /\ Selected(table) \in SUBSET Ids
      /\ Selected(table) \subseteq There(table)
      /\ Where(table) = Selected(table)
      /\ i \in Selected(table)
  BY TablesSelect DEF HasFlags
<1>2. end \in Ids \cup {NoCursor} /\ end # NoCursor
  BY <1>1, RowsAreFinite, ListsAssumption
<1> DEFINE F == FindMany(Selected(table), There(table), end, 1, Toward(up, 1))
<1>3. F = FindMany(Selected(table), There(table), end, 1, Toward(up, 1)) /\ F = {}
  BY <1>1
<1> HIDE DEF F
<1>4. \A k \in Selected(table) : Past(k, end, up) /\ k \notin F =>
         F # {} /\ \A l \in F : Past(k, l, up)
  BY <1>1, <1>2, <1>3, FoundComesNext
<1> QED
  BY <1>1, <1>3, <1>4

\* A flag is read.
LEMMA ReadNextKeeps ==
  ASSUME ListsInv, ReadNext
  PROVE  ListsInv'
<1>1. walk \in WalkShape
  BY HasWalkShape DEF ListsInv, ListsShape
<1> DEFINE last == walk.page[Len(walk.page)]
           hasNext == FindMany(Where(FlagsTable), There(FlagsTable), last, 1, 1) # {}
           lost == walk.lost \/ (~walk.before /\ Misses(FlagsTable, last))
           pc == "previous"
<1>2. pc \in Pcs /\ pc = "previous" /\ hasNext \in BOOLEAN /\ lost \in BOOLEAN
  BY <1>1 DEF Pcs, WalkShape, Misses
<1>3. ~lost => ~walk.lost /\ (walk.before \/ ~Misses(FlagsTable, last))
  OBVIOUS
<1>4. /\ walk' = [walk EXCEPT !.pc = pc, !.hasNext = hasNext, !.lost = lost]
      /\ primary' = primary /\ replica' = replica /\ changes' = changes
      /\ walk.pc = "next"
  BY DEF ReadNext, WalkStep
<1> HIDE DEF pc, lost, hasNext, last
<1>5. /\ walk' \in WalkShape
      /\ walk'.pc = pc /\ walk'.kind = walk.kind /\ walk'.before = walk.before
      /\ walk'.limit = walk.limit /\ walk'.from = walk.from /\ walk'.cursor = walk.cursor
      /\ walk'.page = walk.page /\ walk'.nth = walk.nth /\ walk'.out = walk.out
      /\ walk'.hasNext = hasNext
      /\ walk'.got = walk.got /\ walk'.lost = lost /\ walk'.steady = walk.steady
  BY <1>1, <1>2, <1>4 DEF WalkShape
<1>6. Paging /\ Showing /\ Walking /\ Covering
  BY DEF ListsInv
<1>7. ListsShape' /\ Steadily'
  <2>1. ListsShape /\ Steadily
    BY DEF ListsInv
  <2>2. ListsShape'
    BY <1>4, <1>5, <2>1, HasWalkShape DEF ListsShape
  <2>3. Steadily'
    BY <1>4, <1>5, <2>1 DEF Steadily, Selected
  <2> QED
    BY <2>2, <2>3
<1>8. Paging' /\ Showing' /\ Walking'
  <2>1. Paging'
    BY <1>2, <1>4, <1>5, <1>6 DEF Paging, PageRead
  <2>2. Showing'
    BY <1>5, <1>6 DEF Showing
  <2>3. Walking'
    BY <1>2, <1>4, <1>5, <1>6 DEF Walking, UnderWay
  <2> QED
    BY <2>1, <2>2, <2>3
<1>9. Covering'
  <2> SUFFICES ASSUME HasFlags(walk.kind), walk.kind # "transaction", ~lost
               PROVE  Covering'
    BY <1>5 DEF Covering
  <2>1. ~walk.before /\ ~hasNext => \A i \in walk.steady :
           Past(i, walk.cursor, walk.before) => i \in Items(walk.page)
    <3> SUFFICES ASSUME ~walk.before, ~hasNext, NEW i \in walk.steady,
                        Past(i, walk.cursor, walk.before), i \notin Items(walk.page)
                 PROVE  FALSE
      OBVIOUS
    <3>1. walk.page # <<>> /\ Past(i, EndOf(walk.page, FALSE), FALSE)
      <4>1. walk.before = FALSE
        BY <1>1 DEF WalkShape
      <4>2. walk.page # <<>> /\ Past(i, EndOf(walk.page, walk.before), walk.before)
        BY <1>3, <1>4, <1>6 DEF Covering, PageRead
      <4> QED
        BY <4>1, <4>2
    <3>2. EndOf(walk.page, FALSE) = last
      BY DEF EndOf, last
    <3>3. last \in Selected(FlagsTable) /\ FlagsTable \in {primary, replica}
      <4>1. last \in Ids
        BY <1>1, <3>1, EndIsItem DEF last, WalkShape, IdSeqs
      <4>2. last # NoCursor
        BY <4>1, ListsAssumption DEF Ids
      <4> QED
        BY <1>3, <4>2 DEF Misses, FlagsTable
    <3>4. FindMany(Where(FlagsTable), There(FlagsTable), last, 1, Toward(FALSE, 1)) = {}
      BY DEF hasNext, Toward
    <3> QED
      BY <3>1, <3>2, <3>3, <3>4, FlagIsRight
  <2> QED
    BY <1>2, <1>3, <1>4, <1>5, <1>6, <2>1 DEF Covering, UnderWay, PageRead, FlagRead, More
<1> QED
  BY <1>7, <1>8, <1>9 DEF ListsInv

LEMMA ReadPreviousKeeps ==
  ASSUME ListsInv, ReadPrevious
  PROVE  ListsInv'
<1>1. walk \in WalkShape
  BY HasWalkShape DEF ListsInv, ListsShape
<1> DEFINE first == Head(walk.page)
           hasPrevious == FindMany(Where(FlagsTable), There(FlagsTable), first, 1, -1) # {}
           lost == walk.lost \/ (walk.before /\ Misses(FlagsTable, first))
           pc == "show"
<1>2. pc \in Pcs /\ pc = "show" /\ hasPrevious \in BOOLEAN /\ lost \in BOOLEAN
  BY <1>1 DEF Pcs, WalkShape, Misses
<1>3. ~lost => ~walk.lost /\ (~walk.before \/ ~Misses(FlagsTable, first))
  OBVIOUS
<1>4. /\ walk' = [walk EXCEPT !.pc = pc, !.hasPrevious = hasPrevious, !.lost = lost]
      /\ primary' = primary /\ replica' = replica /\ changes' = changes
      /\ walk.pc = "previous"
  BY DEF ReadPrevious, WalkStep
<1> HIDE DEF pc, lost, hasPrevious, first
<1>5. /\ walk' \in WalkShape
      /\ walk'.pc = pc /\ walk'.kind = walk.kind /\ walk'.before = walk.before
      /\ walk'.limit = walk.limit /\ walk'.from = walk.from /\ walk'.cursor = walk.cursor
      /\ walk'.page = walk.page /\ walk'.nth = walk.nth /\ walk'.out = walk.out
      /\ walk'.hasPrevious = hasPrevious /\ walk'.hasNext = walk.hasNext
      /\ walk'.got = walk.got /\ walk'.lost = lost /\ walk'.steady = walk.steady
  BY <1>1, <1>2, <1>4 DEF WalkShape
<1>6. Paging /\ Showing /\ Walking /\ Covering
  BY DEF ListsInv
<1>7. ListsShape' /\ Steadily'
  <2>1. ListsShape /\ Steadily
    BY DEF ListsInv
  <2>2. ListsShape'
    BY <1>4, <1>5, <2>1, HasWalkShape DEF ListsShape
  <2>3. Steadily'
    BY <1>4, <1>5, <2>1 DEF Steadily, Selected
  <2> QED
    BY <2>2, <2>3
<1>8. Paging' /\ Showing' /\ Walking'
  <2>1. Paging'
    BY <1>2, <1>4, <1>5, <1>6 DEF Paging, PageRead
  <2>2. Showing'
    BY <1>5, <1>6 DEF Showing
  <2>3. Walking'
    BY <1>2, <1>4, <1>5, <1>6 DEF Walking, UnderWay
  <2> QED
    BY <2>1, <2>2, <2>3
<1>9. Covering'
  <2> SUFFICES ASSUME HasFlags(walk.kind), walk.kind # "transaction", ~lost
               PROVE  Covering'
    BY <1>5 DEF Covering
  <2>1. walk.before /\ ~hasPrevious => \A i \in walk.steady :
           Past(i, walk.cursor, walk.before) => i \in Items(walk.page)
    <3> SUFFICES ASSUME walk.before, ~hasPrevious, NEW i \in walk.steady,
                        Past(i, walk.cursor, walk.before), i \notin Items(walk.page)
                 PROVE  FALSE
      OBVIOUS
    <3>1. walk.page # <<>> /\ Past(i, EndOf(walk.page, TRUE), TRUE)
      <4>1. walk.before = TRUE
        BY <1>1 DEF WalkShape
      <4>2. walk.page # <<>> /\ Past(i, EndOf(walk.page, walk.before), walk.before)
        BY <1>3, <1>4, <1>6 DEF Covering, PageRead
      <4> QED
        BY <4>1, <4>2
    <3>2. first \in Ids /\ EndOf(walk.page, TRUE) = first
      BY <1>1, <3>1, EndIsItem DEF EndOf, first, WalkShape, IdSeqs
    <3>3. first \in Selected(FlagsTable) /\ FlagsTable \in {primary, replica}
      <4>1. first # NoCursor
        BY <3>2, ListsAssumption DEF Ids
      <4> QED
        BY <1>3, <4>1 DEF Misses, FlagsTable
    <3>4. FindMany(Where(FlagsTable), There(FlagsTable), first, 1, Toward(TRUE, 1)) = {}
      BY DEF hasPrevious, Toward
    <3> QED
      BY <3>1, <3>2, <3>3, <3>4, FlagIsRight
  <2> QED
    BY <1>2, <1>3, <1>4, <1>5, <1>6, <2>1 DEF Covering, UnderWay, PageRead, FlagRead, More
<1> QED
  BY <1>7, <1>8, <1>9 DEF ListsInv

-----------------------------------------------------------------------------
\* A row is shown, unless it is hidden.
LEMMA ShowKeeps ==
  ASSUME ListsInv, ShowRow
  PROVE  ListsInv'
<1>1. walk \in WalkShape
  BY HasWalkShape DEF ListsInv, ListsShape
<1> DEFINE id == walk.page[walk.nth]
<1>2. walk.pc = "show" /\ walk.nth <= Len(walk.page)
  BY DEF ShowRow
<1>3. Paging /\ Showing /\ Walking /\ Covering /\ Steadily
  BY DEF ListsInv
<1>4. /\ walk.page \in Seq(Ids) /\ walk.out \in Seq(Ids) /\ walk.nth \in Nat
      /\ walk.nth \in 1..Len(walk.page) /\ Len(walk.page) \in Nat /\ Len(walk.out) \in Nat
  BY <1>1, <1>2, <1>3 DEF WalkShape, IdSeqs, Paging
<1>5. id \in Ids
  BY <1>4
<1>6. PICK hides \in BOOLEAN :
        /\ hides => id \notin walk.steady
        /\ walk' = [walk EXCEPT !.nth = walk.nth + 1,
                                !.out = IF hides THEN walk.out ELSE Append(walk.out, id)]
        /\ primary' = primary /\ replica' = replica /\ changes' = changes
  <2>1. CASE WalkStep([walk EXCEPT !.nth = @ + 1, !.out = Append(@, id)])
    <3>1. /\ walk' = [walk EXCEPT !.nth = walk.nth + 1, !.out = Append(walk.out, id)]
          /\ primary' = primary /\ replica' = replica /\ changes' = changes
      BY <2>1 DEF WalkStep
    <3> QED
      BY <3>1
  <2>2. CASE /\ id \in replica.hidden \/ replica.row[id] = "none"
             /\ WalkStep([walk EXCEPT !.nth = @ + 1])
    <3>1. id \notin walk.steady
      BY <1>3, <1>5, <2>2 DEF Steadily, Selected
    <3>2. /\ walk' = [walk EXCEPT !.nth = walk.nth + 1, !.out = walk.out]
          /\ primary' = primary /\ replica' = replica /\ changes' = changes
      BY <1>1, <2>2 DEF WalkStep, WalkShape
    <3> QED
      BY <3>1, <3>2
  <2> QED
    BY <2>1, <2>2 DEF ShowRow
<1> DEFINE out == IF hides THEN walk.out ELSE Append(walk.out, id)
           nth == walk.nth + 1
<1>7. out \in IdSeqs /\ nth \in Nat
  BY <1>4, <1>5 DEF IdSeqs
<1>8. /\ walk' = [walk EXCEPT !.nth = nth, !.out = out]
      /\ primary' = primary /\ replica' = replica /\ changes' = changes
  BY <1>6
<1>9. (hides /\ out = walk.out) \/ out = Append(walk.out, id)
  OBVIOUS
<1>10. nth = walk.nth + 1 /\ id = walk.page[walk.nth]
  OBVIOUS
<1> HIDE DEF out, nth, id
<1>11. /\ walk' \in WalkShape
       /\ walk'.pc = walk.pc /\ walk'.kind = walk.kind /\ walk'.before = walk.before
       /\ walk'.limit = walk.limit /\ walk'.from = walk.from /\ walk'.cursor = walk.cursor
       /\ walk'.page = walk.page /\ walk'.nth = nth /\ walk'.out = out
       /\ walk'.hasPrevious = walk.hasPrevious /\ walk'.hasNext = walk.hasNext
       /\ walk'.got = walk.got /\ walk'.lost = walk.lost /\ walk'.steady = walk.steady
  BY <1>1, <1>7, <1>8 DEF WalkShape
<1>12. ListsShape' /\ Steadily'
  <2>1. ListsShape
    BY DEF ListsInv
  <2>2. ListsShape'
    BY <1>8, <1>11, <2>1, HasWalkShape DEF ListsShape
  <2>3. Steadily'
    BY <1>3, <1>8, <1>11 DEF Steadily, Selected
  <2> QED
    BY <2>2, <2>3
<1>13. Paging'
  <2>1. nth \in 1..Len(walk.page) + 1
    BY <1>4, <1>10
  <2> QED
    BY <1>2, <1>3, <1>11, <2>1 DEF Paging, PageRead
<1>14. /\ Len(out) < nth
       /\ Descends(out)
       /\ \A j \in 1..Len(out) : \E k \in 1..nth - 1 : out[j] = walk.page[k]
       /\ \A k \in 1..nth - 1 : walk.page[k] \in walk.steady => walk.page[k] \in Items(out)
  <2>1. nth - 1 = walk.nth /\ 1..walk.nth - 1 \subseteq 1..walk.nth
        /\ 1..walk.nth = (1..walk.nth - 1) \cup {walk.nth}
    BY <1>4, <1>10
  <2>2. CASE hides /\ out = walk.out
    <3>1. Len(out) < nth
      BY <1>3, <1>4, <1>10, <2>2 DEF Showing
    <3>2. Descends(out)
      BY <1>3, <2>2 DEF Showing
    <3>3. \A j \in 1..Len(out) : \E k \in 1..nth - 1 : out[j] = walk.page[k]
      BY <1>3, <2>1, <2>2 DEF Showing
    <3>4. \A k \in 1..nth - 1 : walk.page[k] \in walk.steady => walk.page[k] \in Items(out)
      BY <1>3, <1>6, <1>10, <2>1, <2>2 DEF Showing
    <3> QED
      BY <3>1, <3>2, <3>3, <3>4
  <2>3. CASE out = Append(walk.out, id)
    <3>1. /\ Len(out) = Len(walk.out) + 1 /\ out[Len(walk.out) + 1] = id
          /\ DOMAIN out = 1..Len(walk.out) + 1
          /\ \A j \in 1..Len(walk.out) : out[j] = walk.out[j]
      BY <1>4, <1>5, <2>3
    <3>2. Len(out) < nth
      BY <1>3, <1>4, <1>10, <3>1 DEF Showing
    <3>3. \A j \in 1..Len(walk.out) : walk.out[j] > id
      <4> SUFFICES ASSUME NEW j \in 1..Len(walk.out) PROVE walk.out[j] > id
        OBVIOUS
      <4>1. PICK k \in 1..walk.nth - 1 : walk.out[j] = walk.page[k]
        BY <1>3 DEF Showing
      <4>2. k < walk.nth /\ k \in DOMAIN walk.page /\ walk.nth \in DOMAIN walk.page
        BY <1>4
      <4> QED
        BY <1>3, <1>10, <4>1, <4>2 DEF Paging, Descends
    <3>4. Descends(out)
      <4> SUFFICES ASSUME NEW i \in DOMAIN out, NEW k \in DOMAIN out, i < k
                   PROVE  out[i] > out[k]
        BY DEF Descends
      <4>1. i \in 1..Len(walk.out)
        BY <1>4, <3>1
      <4>2. CASE k = Len(walk.out) + 1
        BY <3>1, <3>3, <4>1, <4>2
      <4>3. CASE k # Len(walk.out) + 1
        <5>1. k \in 1..Len(walk.out)
          BY <1>4, <3>1, <4>3
        <5>2. walk.out[i] > walk.out[k]
          BY <1>3, <1>4, <4>1, <5>1 DEF Showing, Descends
        <5> QED
          BY <3>1, <4>1, <5>1, <5>2
      <4> QED
        BY <4>2, <4>3
    <3>5. \A j \in 1..Len(out) : \E k \in 1..nth - 1 : out[j] = walk.page[k]
      <4> SUFFICES ASSUME NEW j \in 1..Len(out)
                   PROVE  \E k \in 1..nth - 1 : out[j] = walk.page[k]
        OBVIOUS
      <4>1. CASE j \in 1..Len(walk.out)
        BY <1>3, <2>1, <3>1, <4>1 DEF Showing
      <4>2. CASE j \notin 1..Len(walk.out)
        <5>1. j = Len(walk.out) + 1
          BY <1>4, <3>1, <4>2
        <5> QED
          BY <1>10, <2>1, <3>1, <5>1
      <4> QED
        BY <4>1, <4>2
    <3>6. Items(walk.out) \subseteq Items(out) /\ id \in Items(out)
      BY <1>4, <3>1 DEF Items
    <3>7. \A k \in 1..nth - 1 : walk.page[k] \in walk.steady => walk.page[k] \in Items(out)
      BY <1>3, <1>10, <2>1, <3>6 DEF Showing
    <3> QED
      BY <3>2, <3>4, <3>5, <3>7
  <2> QED
    BY <1>9, <2>2, <2>3
<1>15. Showing'
  BY <1>11, <1>14 DEF Showing
<1>16. Walking'
  BY <1>3, <1>11 DEF Walking, UnderWay
<1>17. Covering'
  BY <1>3, <1>11 DEF Covering, UnderWay, PageRead, FlagRead, More
<1> QED
  BY <1>12, <1>13, <1>15, <1>16, <1>17 DEF ListsInv

-----------------------------------------------------------------------------
\* Two lists in order are in order, one after the other.
LEMMA DescendsOn ==
  ASSUME NEW s \in Seq(Ids), NEW t \in Seq(Ids), Descends(s), Descends(t),
         \A i \in Items(s), k \in Items(t) : i > k
  PROVE  /\ s \o t \in Seq(Ids)
         /\ Descends(s \o t)
         /\ Items(s \o t) = Items(s) \cup Items(t)
<1>1. /\ s \o t \in Seq(Ids) /\ Len(s \o t) = Len(s) + Len(t)
      /\ Len(s) \in Nat /\ Len(t) \in Nat
      /\ DOMAIN s = 1..Len(s) /\ DOMAIN t = 1..Len(t) /\ DOMAIN (s \o t) = 1..Len(s) + Len(t)
  OBVIOUS
<1>2. \A i \in 1..Len(s) : (s \o t)[i] = s[i] /\ s[i] \in Items(s)
  BY DEF Items
<1>3. \A i \in 1..Len(s) + Len(t) : i > Len(s) =>
         /\ i - Len(s) \in 1..Len(t)
         /\ (s \o t)[i] = t[i - Len(s)]
         /\ t[i - Len(s)] \in Items(t)
  BY <1>1 DEF Items
<1> DEFINE st == s \o t
<1>4. /\ st \in Seq(Ids) /\ Len(st) = Len(s) + Len(t) /\ DOMAIN st = 1..Len(s) + Len(t)
      /\ \A i \in 1..Len(s) : st[i] = s[i] /\ s[i] \in Items(s)
      /\ \A i \in 1..Len(s) + Len(t) : i > Len(s) =>
            i - Len(s) \in 1..Len(t) /\ st[i] = t[i - Len(s)] /\ t[i - Len(s)] \in Items(t)
  BY <1>1, <1>2, <1>3
<1> HIDE DEF st
<1>5. Descends(st)
  <2> SUFFICES ASSUME NEW i \in 1..Len(s) + Len(t), NEW k \in 1..Len(s) + Len(t), i < k
               PROVE  st[i] > st[k]
    BY <1>4 DEF Descends
  <2>1. CASE k <= Len(s)
    <3>1. i \in 1..Len(s) /\ k \in 1..Len(s)
      BY <1>1, <2>1
    <3> QED
      BY <1>1, <1>4, <3>1 DEF Descends
  <2>2. CASE i <= Len(s) /\ k > Len(s)
    <3>1. i \in 1..Len(s)
      BY <1>1, <2>2
    <3> QED
      BY <1>4, <2>2, <3>1
  <2>3. CASE i > Len(s)
    <3>1. /\ k > Len(s) /\ i - Len(s) < k - Len(s)
      BY <1>1, <2>3
    <3>2. t[i - Len(s)] > t[k - Len(s)]
      BY <1>1, <1>4, <2>3, <3>1 DEF Descends
    <3> QED
      BY <1>4, <2>3, <3>1, <3>2
  <2> QED
    BY <1>1, <2>1, <2>2, <2>3
<1>6. Items(st) = Items(s) \cup Items(t)
  <2>1. Items(st) \subseteq Items(s) \cup Items(t)
    <3> SUFFICES ASSUME NEW i \in 1..Len(s) + Len(t) PROVE st[i] \in Items(s) \cup Items(t)
      BY <1>4 DEF Items
    <3>1. CASE i <= Len(s)
      <4>1. i \in 1..Len(s)
        BY <1>1, <3>1
      <4> QED
        BY <1>4, <4>1
    <3>2. CASE i > Len(s)
      BY <1>4, <3>2
    <3> QED
      BY <1>1, <3>1, <3>2
  <2>2. Items(s) \subseteq Items(st)
    BY <1>1, <1>4 DEF Items
  <2>3. ASSUME NEW k \in 1..Len(t) PROVE t[k] \in Items(st)
    <3>1. Len(s) + k \in 1..Len(s) + Len(t) /\ Len(s) + k > Len(s) /\ (Len(s) + k) - Len(s) = k
      BY <1>1
    <3>2. st[Len(s) + k] = t[k]
      BY <1>4, <3>1
    <3> QED
      BY <1>4, <3>1, <3>2 DEF Items
  <2> QED
    BY <2>1, <2>2, <2>3 DEF Items
<1> QED
  BY <1>1, <1>5, <1>6 DEF st

LEMMA EndsJoin ==
  ASSUME NEW s \in Seq(Ids), NEW t \in Seq(Ids), s # <<>>
  PROVE  /\ s \o t # <<>> /\ t \o s # <<>>
         /\ EndOf(s \o t, TRUE) = EndOf(s, TRUE)
         /\ EndOf(t \o s, FALSE) = EndOf(s, FALSE)
<1>1. Len(s) \in Nat /\ Len(s) >= 1 /\ Len(t) \in Nat
  OBVIOUS
<1>2. Len(s \o t) = Len(s) + Len(t) /\ (s \o t)[1] = s[1]
  BY <1>1
<1>3. Len(t \o s) = Len(t) + Len(s) /\ (t \o s)[Len(t) + Len(s)] = s[Len(s)]
  BY <1>1
<1>4. Len(<<>>) = 0
  OBVIOUS
<1> QED
  BY <1>1, <1>2, <1>3, <1>4 DEF EndOf

\* What the walk has after an answer: in order, with the answer's items, and
\* ending with the answer.
Joined(w) == IF w.before THEN w.out \o w.got ELSE w.got \o w.out

LEMMA AnswerJoins ==
  ASSUME ListsInv, walk.pc = "show"
  PROVE  /\ walk.out \in Seq(Ids) /\ walk.got \in Seq(Ids) /\ Joined(walk) \in Seq(Ids)
         /\ Items(walk.out) \subseteq Items(walk.page)
         /\ walk.out # <<>> => /\ Joined(walk) # <<>>
                               /\ EndOf(walk.out, walk.before) \in Items(walk.out)
                               /\ EndOf(Joined(walk), walk.before) = EndOf(walk.out, walk.before)
         /\ walk.kind # "transaction" =>
              /\ Descends(Joined(walk))
              /\ Items(Joined(walk)) = Items(walk.got) \cup Items(walk.out)
<1>1. walk \in WalkShape /\ Paging /\ Showing /\ Walking
  BY HasWalkShape DEF ListsInv, ListsShape
<1>2. /\ walk.page \in Seq(Ids) /\ walk.out \in Seq(Ids) /\ walk.got \in Seq(Ids)
      /\ walk.cursor \in Ids \cup {NoCursor} /\ walk.before \in BOOLEAN
      /\ Len(walk.page) \in Nat /\ Len(walk.out) \in Nat /\ Len(walk.got) \in Nat
      /\ walk.nth \in 1..Len(walk.page) + 1
  BY <1>1 DEF WalkShape, IdSeqs, Cursors, Paging
<1>3. Items(walk.out) \subseteq Items(walk.page)
  <2> SUFFICES ASSUME NEW j \in 1..Len(walk.out) PROVE walk.out[j] \in Items(walk.page)
    BY DEF Items
  <2>1. PICK k \in 1..walk.nth - 1 : walk.out[j] = walk.page[k]
    BY <1>1 DEF Showing
  <2>2. k \in 1..Len(walk.page)
    BY <1>2
  <2> QED
    BY <2>1, <2>2 DEF Items
<1>4. Joined(walk) \in Seq(Ids)
  BY <1>2 DEF Joined
<1>5. ASSUME walk.out # <<>>
      PROVE  /\ Joined(walk) # <<>>
             /\ EndOf(walk.out, walk.before) \in Items(walk.out)
             /\ EndOf(Joined(walk), walk.before) = EndOf(walk.out, walk.before)
  <2>1. Len(walk.out) >= 1 /\ EndOf(walk.out, walk.before) \in Items(walk.out)
    BY <1>2, <1>5, EndIsItem
  <2>2. /\ walk.out \o walk.got # <<>> /\ walk.got \o walk.out # <<>>
        /\ EndOf(walk.out \o walk.got, TRUE) = EndOf(walk.out, TRUE)
        /\ EndOf(walk.got \o walk.out, FALSE) = EndOf(walk.out, FALSE)
    BY <1>2, <1>5, EndsJoin
  <2>3. (walk.before = TRUE) \/ (walk.before = FALSE)
    BY <1>2
  <2> QED
    BY <2>1, <2>2, <2>3 DEF Joined
<1>6. ASSUME walk.kind # "transaction"
      PROVE  /\ Descends(Joined(walk))
             /\ Items(Joined(walk)) = Items(walk.got) \cup Items(walk.out)
  <2>1. Descends(walk.got) /\ Descends(walk.out)
    BY <1>1, <1>6 DEF Walking, Showing
  <2>2. \A i \in Items(walk.out) : i \in Nat /\ Past(i, walk.cursor, walk.before)
    <3>1. Items(walk.out) \subseteq Ids
      BY <1>2 DEF Items
    <3>2. \A i \in Items(walk.out) : i \in Nat
      BY <3>1, RowsAreFinite
    <3> QED
      BY <1>1, <1>3, <1>6, <3>2 DEF Walking
  <2>3. \A i \in Items(walk.got) : i \in Nat /\ walk.cursor \in Nat
          /\ IF walk.before THEN i <= walk.cursor ELSE i >= walk.cursor
    <3> SUFFICES ASSUME NEW j \in 1..Len(walk.got)
                 PROVE  walk.got[j] \in Nat /\ walk.cursor \in Nat
                        /\ IF walk.before THEN walk.got[j] <= walk.cursor
                           ELSE walk.got[j] >= walk.cursor
      BY DEF Items
    <3>1. \A k \in 1..Len(walk.got) : walk.got[k] \in Nat
      <4>1. \A k \in Ids : k \in Nat
        BY RowsAreFinite
      <4> QED
        BY <1>2, <4>1
    <3>2. walk.got # <<>> /\ Len(walk.got) \in 1..Len(walk.got) /\ 1 \in 1..Len(walk.got)
      BY <1>2
    <3>3. walk.cursor = EndOf(walk.got, walk.before)
      BY <1>1, <1>6, <3>2 DEF Walking, UnderWay
    <3>4. /\ j < Len(walk.got) => walk.got[j] > walk.got[Len(walk.got)]
          /\ 1 < j => walk.got[1] > walk.got[j]
      BY <1>2, <2>1, <3>2 DEF Descends
    <3>5. CASE walk.before
      <4>1. walk.cursor = walk.got[1]
        BY <3>3, <3>5 DEF EndOf
      <4>2. j = 1 \/ 1 < j
        BY <1>2
      <4> QED
        BY <3>1, <3>2, <3>4, <3>5, <4>1, <4>2
    <3>6. CASE ~walk.before
      <4>1. walk.cursor = walk.got[Len(walk.got)]
        BY <3>3, <3>6 DEF EndOf
      <4>2. j = Len(walk.got) \/ j < Len(walk.got)
        BY <1>2
      <4> QED
        BY <3>1, <3>2, <3>4, <3>6, <4>1, <4>2
    <3> QED
      BY <3>5, <3>6
  <2>4. walk.cursor \in Nat => walk.cursor # NoCursor
    BY ListsAssumption
  <2>5. CASE walk.before
    <3>1. \A i \in Items(walk.out), k \in Items(walk.got) : i > k
      BY <2>2, <2>3, <2>4, <2>5 DEF Past
    <3> QED
      BY <1>2, <2>1, <2>5, <3>1, DescendsOn DEF Joined
  <2>6. CASE ~walk.before
    <3>1. \A i \in Items(walk.got), k \in Items(walk.out) : i > k
      BY <2>2, <2>3, <2>4, <2>6 DEF Past
    <3> QED
      BY <1>2, <2>1, <2>6, <3>1, DescendsOn DEF Joined
  <2> QED
    BY <2>5, <2>6
<1> QED
  BY <1>2, <1>3, <1>4, <1>5, <1>6

\* The fields of the walk after an answer.
LEMMA AnswerIsWalk ==
  ASSUME ListsInv, AnswerPage
  PROVE  /\ walk' \in WalkShape
         /\ primary' = primary /\ replica' = replica /\ changes' = changes
         /\ walk'.kind = walk.kind /\ walk'.before = walk.before /\ walk'.limit = walk.limit
         /\ walk'.from = walk.from /\ walk'.page = <<>> /\ walk'.nth = 1 /\ walk'.out = <<>>
         /\ walk'.got = Joined(walk) /\ walk'.lost = walk.lost /\ walk'.steady = walk.steady
         /\ \/ walk'.pc \in {"done", "stuck"} /\ (walk'.pc = "done" => ~More)
            \/ /\ walk'.pc \in {"ids", "data"} /\ walk.out # <<>>
               /\ walk'.cursor = EndOf(walk.out, walk.before)
<1>1. walk \in WalkShape
  BY HasWalkShape DEF ListsInv, ListsShape
<1>2. walk.pc = "show"
  BY DEF AnswerPage
<1> DEFINE got == Joined(walk)
           last == EndOf(walk.out, walk.before)
           pc == IF More THEN "stuck" ELSE "done"
           one == 1
           none == <<>>
           nobody == {}
           answered == [walk EXCEPT !.pc = pc, !.got = got,
                                    !.ids = nobody, !.page = none, !.nth = one, !.out = none,
                                    !.hasNext = FALSE, !.hasPrevious = FALSE]
           further == Lists(walk.kind)
<1>3. /\ got \in IdSeqs /\ pc \in Pcs /\ one \in Nat /\ none \in IdSeqs /\ nobody \in IdSets
      /\ further \in Pcs /\ further \in {"ids", "data"}
      /\ pc \in {"done", "stuck"} /\ (pc = "done" => ~More)
      /\ one = 1 /\ none = <<>>
  BY <1>2, AnswerJoins DEF IdSeqs, IdSets, Pcs, Lists
<1>4. walk.out # <<>> => last \in Cursors
  <2>1. Items(walk.out) \subseteq Ids
    BY <1>2, AnswerJoins DEF Items
  <2> QED
    BY <1>2, <2>1, AnswerJoins DEF Cursors
<1>5. /\ primary' = primary /\ replica' = replica /\ changes' = changes
      /\ \/ walk' = answered
         \/ walk.out # <<>> /\ walk' = [answered EXCEPT !.pc = further, !.cursor = last]
  <2>1. WalkStep(IF More /\ walk.out # <<>> /\ Len(got) < MaxRows
                 THEN [answered EXCEPT !.pc = further,
                                       !.cursor = IF walk.before THEN Head(walk.out)
                                                  ELSE walk.out[Len(walk.out)]]
                 ELSE answered)
    BY DEF AnswerPage, More, Joined
  <2>2. walk.out # <<>> =>
          (IF walk.before THEN Head(walk.out) ELSE walk.out[Len(walk.out)]) = last
    BY <1>1, <1>2, AnswerJoins, EndIsItem DEF EndOf, WalkShape
  <2> HIDE DEF answered, last, further, got
  <2> QED
    BY <2>1, <2>2 DEF WalkStep
<1> HIDE DEF got, last, pc, one, none, nobody, further
<1>6. /\ answered \in WalkShape
      /\ answered.pc = pc /\ answered.kind = walk.kind /\ answered.before = walk.before
      /\ answered.limit = walk.limit /\ answered.from = walk.from
      /\ answered.page = none /\ answered.nth = one /\ answered.out = none
      /\ answered.got = got /\ answered.lost = walk.lost /\ answered.steady = walk.steady
  BY <1>1, <1>3 DEF WalkShape
<1> HIDE DEF answered
<1>7. CASE walk' = answered
  BY <1>3, <1>5, <1>6, <1>7 DEF got
<1>8. CASE walk.out # <<>> /\ walk' = [answered EXCEPT !.pc = further, !.cursor = last]
  <2>1. /\ walk' \in WalkShape /\ walk'.pc = further /\ walk'.cursor = last
        /\ walk'.kind = walk.kind /\ walk'.before = walk.before
        /\ walk'.limit = walk.limit /\ walk'.from = walk.from
        /\ walk'.page = none /\ walk'.nth = one /\ walk'.out = none
        /\ walk'.got = got /\ walk'.lost = walk.lost /\ walk'.steady = walk.steady
    BY <1>3, <1>4, <1>6, <1>8 DEF WalkShape
  <2> QED
    BY <1>3, <1>5, <1>8, <2>1 DEF got, last
<1> QED
  BY <1>5, <1>7, <1>8

\* The answer.
LEMMA AnswerKeeps ==
  ASSUME ListsInv, AnswerPage
  PROVE  ListsInv'
<1>1. walk \in WalkShape /\ walk.pc = "show" /\ walk.nth > Len(walk.page)
  BY HasWalkShape DEF ListsInv, ListsShape, AnswerPage
<1>2. /\ walk' \in WalkShape
      /\ primary' = primary /\ replica' = replica /\ changes' = changes
      /\ walk'.kind = walk.kind /\ walk'.before = walk.before /\ walk'.limit = walk.limit
      /\ walk'.from = walk.from /\ walk'.page = <<>> /\ walk'.nth = 1 /\ walk'.out = <<>>
      /\ walk'.got = Joined(walk) /\ walk'.lost = walk.lost /\ walk'.steady = walk.steady
      /\ \/ walk'.pc \in {"done", "stuck"} /\ (walk'.pc = "done" => ~More)
         \/ /\ walk'.pc \in {"ids", "data"} /\ walk.out # <<>>
            /\ walk'.cursor = EndOf(walk.out, walk.before)
  BY AnswerIsWalk
<1>3. Paging /\ Showing /\ Walking /\ Covering
  BY DEF ListsInv
<1>4. /\ Items(walk.out) \subseteq Items(walk.page)
      /\ walk.out # <<>> => /\ Joined(walk) # <<>>
                            /\ EndOf(walk.out, walk.before) \in Items(walk.out)
                            /\ EndOf(Joined(walk), walk.before) = EndOf(walk.out, walk.before)
      /\ walk.kind # "transaction" =>
           /\ Descends(Joined(walk))
           /\ Items(Joined(walk)) = Items(walk.got) \cup Items(walk.out)
  BY <1>1, AnswerJoins
<1>5. Len(<<>>) = 0 /\ DOMAIN <<>> = {} /\ Items(<<>>) = {} /\ 1..0 = {}
  BY DEF Items
<1>6. ListsShape' /\ Steadily'
  <2>1. ListsShape /\ Steadily
    BY DEF ListsInv
  <2>2. ListsShape'
    BY <1>2, <2>1, HasWalkShape DEF ListsShape
  <2>3. Steadily'
    BY <1>2, <2>1 DEF Steadily, Selected
  <2> QED
    BY <2>2, <2>3
<1>7. Paging'
  <2>1. walk.limit # 0 /\ walk.limit \in Nat
    BY <1>1, <1>3 DEF Paging, WalkShape
  <2> QED
    BY <1>2, <1>5, <2>1 DEF Paging, PageRead, Descends
<1>8. Showing'
  BY <1>2, <1>5 DEF Showing, Descends
<1>9. Walking'
  BY <1>2, <1>4, <1>5 DEF Walking, UnderWay
<1>10. Covering'
  <2> SUFFICES ASSUME HasFlags(walk.kind), walk.kind # "transaction", ~walk.lost
               PROVE  Covering'
    BY <1>2 DEF Covering
  <2>1. \A i \in walk.steady : Past(i, walk.from, walk.before) =>
          i \in Items(walk.got) \/ Past(i, walk.cursor, walk.before)
    BY <1>1, <1>3 DEF Covering, UnderWay
  <2>2. \A i \in walk.steady : i \in Items(walk.page) => i \in Items(walk.out)
    <3> SUFFICES ASSUME NEW k \in 1..Len(walk.page), walk.page[k] \in walk.steady
                 PROVE  walk.page[k] \in Items(walk.out)
      BY DEF Items
    <3>1. walk.nth \in Nat /\ Len(walk.page) \in Nat /\ k \in 1..walk.nth - 1
      BY <1>1 DEF WalkShape, IdSeqs
    <3> QED
      BY <1>3, <3>1 DEF Showing
  <2>3. ~More => \A i \in walk.steady :
          Past(i, walk.from, walk.before) => i \in Items(Joined(walk))
    <3>1. ~More => \A i \in walk.steady :
            Past(i, walk.cursor, walk.before) => i \in Items(walk.page)
      BY <1>1, <1>3 DEF Covering, FlagRead
    <3> QED
      BY <1>4, <2>1, <2>2, <3>1
  <2>4. walk.out # <<>> => \A i \in walk.steady :
          Past(i, walk.from, walk.before) =>
            \/ i \in Items(Joined(walk))
            \/ Past(i, EndOf(walk.out, walk.before), walk.before)
    <3> SUFFICES ASSUME walk.out # <<>>, NEW i \in walk.steady,
                        Past(i, walk.from, walk.before), i \notin Items(Joined(walk))
                 PROVE  Past(i, EndOf(walk.out, walk.before), walk.before)
      OBVIOUS
    <3>1. Past(i, walk.cursor, walk.before) /\ i \notin Items(walk.page)
      BY <1>4, <2>1, <2>2
    <3>2. walk.page # <<>> /\ Past(i, EndOf(walk.page, walk.before), walk.before)
      BY <1>1, <1>3, <3>1 DEF Covering, PageRead
    <3>3. PICK k \in 1..Len(walk.page) : EndOf(walk.out, walk.before) = walk.page[k]
      BY <1>4 DEF Items
    <3>4. walk.page \in Seq(Ids) /\ walk.before \in BOOLEAN /\ i \in Ids
      BY <1>1 DEF WalkShape, IdSeqs, IdSets
    <3>5. /\ Len(walk.page) \in Nat /\ DOMAIN walk.page = 1..Len(walk.page)
          /\ i \in Nat /\ \A j \in 1..Len(walk.page) : walk.page[j] \in Nat
      <4>1. \A j \in Ids : j \in Nat
        BY RowsAreFinite
      <4> QED
        BY <3>4, <4>1
    <3> DEFINE first == walk.page[1]
               last == walk.page[Len(walk.page)]
               end == walk.page[k]
    <3>6. i \in Nat /\ first \in Nat /\ last \in Nat /\ end \in Nat
      BY <3>5
    <3>7. \A c \in Nat : c # NoCursor
      BY ListsAssumption
    <3>8. (end = first \/ first > end) /\ (end = last \/ end > last)
      <4>1. \A a, b \in 1..Len(walk.page) : a < b => walk.page[a] > walk.page[b]
        BY <1>3, <3>5 DEF Paging, Descends
      <4>2. /\ 1 \in 1..Len(walk.page) /\ Len(walk.page) \in 1..Len(walk.page)
            /\ k = 1 \/ 1 < k
            /\ k = Len(walk.page) \/ k < Len(walk.page)
        BY <3>5
      <4> QED
        BY <4>1, <4>2
    <3>9. IF walk.before THEN Past(i, first, TRUE) ELSE Past(i, last, FALSE)
      BY <3>2, <3>4 DEF EndOf
    <3> HIDE DEF first, last, end
    <3>10. IF walk.before THEN Past(i, end, TRUE) ELSE Past(i, end, FALSE)
      BY <3>6, <3>7, <3>8, <3>9 DEF Past
    <3> QED
      BY <3>3, <3>4, <3>10 DEF end
  <2> QED
    BY <1>2, <2>3, <2>4 DEF Covering, UnderWay, PageRead, FlagRead
<1> QED
  BY <1>6, <1>7, <1>8, <1>9, <1>10 DEF ListsInv

-----------------------------------------------------------------------------
LEMMA ListsKeeps ==
  ASSUME ListsInv, [ListsNext]_listsVars
  PROVE  ListsInv'
<1>1. CASE \E i \in Ids : InsertRow(i) \/ FlipRow(i) \/ ReorganiseRow(i) \/ DeleteRow(i)
  BY <1>1, RowsKeep
<1>2. CASE Replicate
  BY <1>2, ReplicateKeeps
<1>3. CASE BeginWalk
  BY <1>3, BeginKeeps
<1>4. CASE ReadIds
  BY <1>4, ReadIdsKeeps
<1>5. CASE ReadData
  BY <1>5, ReadDataKeeps
<1>6. CASE ReadNext
  BY <1>6, ReadNextKeeps
<1>7. CASE ReadPrevious
  BY <1>7, ReadPreviousKeeps
<1>8. CASE ShowRow
  BY <1>8, ShowKeeps
<1>9. CASE AnswerPage
  BY <1>9, AnswerKeeps
<1>10. CASE UNCHANGED listsVars
  <2>1. walk' = walk /\ primary' = primary /\ replica' = replica /\ changes' = changes
    BY <1>10 DEF listsVars
  <2>2. ListsShape' /\ Steadily' /\ Paging' /\ Showing'
    BY <2>1 DEF ListsInv, ListsShape, Steadily, Selected, Paging, PageRead, Showing
  <2>3. Walking' /\ Covering'
    BY <2>1 DEF ListsInv, Walking, Covering, UnderWay, PageRead, FlagRead, More
  <2> QED
    BY <2>2, <2>3 DEF ListsInv
<1> QED
  BY <1>1, <1>2, <1>3, <1>4, <1>5, <1>6, <1>7, <1>8, <1>9, <1>10 DEF ListsNext

\* What the invariant says of the properties.
LEMMA ListsInvImplies == ListsInv => ListsTypeOK /\ WalkDescends /\ WalkComplete
<1> SUFFICES ASSUME ListsInv PROVE ListsTypeOK /\ WalkDescends /\ WalkComplete
  OBVIOUS
<1>1. ListsTypeOK
  <2>1. walk \in WalkShape /\ Paging /\ Showing /\ ListsShape
    BY HasWalkShape DEF ListsInv, ListsShape
  <2>2. /\ Len(walk.out) \in Nat /\ Len(walk.page) \in Nat /\ walk.nth \in Nat
        /\ Len(walk.out) < walk.nth /\ walk.nth \in 1..Len(walk.page) + 1
        /\ Len(walk.page) <= walk.limit
    BY <2>1 DEF WalkShape, IdSeqs, Paging, Showing
  <2>3. Len(walk.out) <= Len(walk.page)
    BY <2>2
  <2> QED
    BY <2>1, <2>2, <2>3 DEF ListsTypeOK, ListsShape
<1>2. WalkDescends
  BY DEF ListsInv, Walking, WalkDescends
<1>3. WalkComplete
  BY DEF ListsInv, Covering, WalkComplete, Past
<1> QED
  BY <1>1, <1>2, <1>3

-----------------------------------------------------------------------------
LEMMA ListsInvariant == ListsSpec => []ListsInv
BY ListsInitHolds, ListsKeeps, PTL DEF ListsSpec

\* However rows come, go and move between the queries of a walk, it gives no
\* row twice and keeps the order, within a page and from page to page, in both
\* directions, for every number of rows, of changes and every page size
\* (assets.service.ts 131-168, asset-descriptions.service.ts 75-91,
\* blocks.service.ts 190-308).
THEOREM WalksDescend == ListsSpec => []WalkDescends
BY ListsInvariant, ListsInvImplies, PTL

\* A walk told that there is nothing more has every row beyond its beginning
\* that was in the list all along, although pages and flags are read by
\* different queries of two servers (blocks.service.ts 397-456,
\* assets.service.ts 157-203).
THEOREM FinishedWalksAreWhole == ListsSpec => []WalkComplete
BY ListsInvariant, ListsInvImplies, PTL

=============================================================================
