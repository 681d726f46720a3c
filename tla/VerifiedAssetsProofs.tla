------------------------ MODULE VerifiedAssetsProofs ------------------------
(***************************************************************************)
(* Proofs about VerifiedAssets, for any lists, posts, clients and length   *)
(* of a second: the table is what the last post says, and a client told    *)
(* that its copy is not modified has every row as it is.                   *)
(***************************************************************************)
EXTENDS VerifiedAssets, FiniteSetTheorems, SequenceTheorems, WellFoundedInduction, TLAPS

\* A post works on a list, entry by entry.
Under ==
  \A p \in Posts : Running(p) =>
    /\ post[p].list \in Lists
    /\ post[p].nth \in 1..(Len(post[p].list) + 1)
    /\ post[p].pc = "upsert" => post[p].nth <= Len(post[p].list)

\* While a post has been alone, whatever runs carries its list.
Alone ==
  \A p, q \in Posts :
    Running(p) /\ post[p].alone /\ Running(q) => post[q].list = post[p].list

\* An entry that a post has passed: its row, if there is one, holds it, and
\* there is one unless the entry is to be answered as missing.
Passed(list, missing, n) ==
  \A i \in 1..Len(list) : i < n =>
    LET a == list[i].identifier
    IN /\ rows[a] # None => Holds(rows[a].data, list[i])
       /\ a \notin missing => rows[a] # None

PassedByPosts ==
  \A p \in Posts : Running(p) /\ post[p].alone =>
    Passed(post[p].list, post[p].missing, post[p].nth)

\* What the posts agreed on stands as long as whatever runs carries that list.
Agreed ==
  agreed # None => \A p \in Posts : Running(p) => post[p].list = agreed.list

ListsInv == Under /\ Alone /\ PassedByPosts /\ Agreed /\ LastPostHolds

\* A copy that was settled has every row that is not of a later second; and what
\* is on its way is of a later second.
Complete(c) ==
  client[c].sound =>
    /\ client[c].since # None
    /\ UTC(now) > client[c].since
    /\ \A p \in Posts : post[p].pc = "upsert" => UTC(post[p].at) > client[c].since
    /\ \A a \in Assets : rows[a] # None =>
         \/ client[c].copy[a] = rows[a].data
         \/ UTC(rows[a].at) > client[c].since

CopiesInv == \A c \in Clients : Complete(c)

-----------------------------------------------------------------------------
(* Types.                                                                  *)

LEMMA NoneIsNone ==
  /\ \A r \in Row : r # None
  /\ \A n \in Nat : n # None
  /\ MaxTime \in Nat /\ MaxPosts \in Nat
BY VerifiedAssumption

LEMMA TypeOKInit == Init => TypeOK
<1> SUFFICES ASSUME Init PROVE TypeOK
  OBVIOUS
<1>1. Begun("idle", <<>>, TRUE) \in Post
  BY NoneIsNone DEF Begun, Post
<1>2. post \in [Posts -> Post]
  BY <1>1 DEF Init
<1>3. client \in [Clients -> Client]
  BY DEF Init, Nothing, Client
<1>4. rows \in Table /\ replica \in Table /\ \A a \in Assets : rows[a] # None => a \in known
  BY DEF Init, Nothing, Table
<1>5. now \in 0..MaxTime /\ posts \in 0..MaxPosts
  BY NoneIsNone DEF Init
<1>6. known \subseteq Assets /\ agreed \in [list : Lists, missing : SUBSET Assets] \cup {None}
  BY DEF Init
<1> QED
  BY <1>2, <1>3, <1>4, <1>5, <1>6 DEF TypeOK

\* toUTCString gives a date no later, and keeps the order of dates.
LEMMA UTCKeepsOrder ==
  ASSUME NEW d \in Nat, NEW e \in Nat, d <= e
  PROVE  UTC(d) \in 0..d /\ UTC(e) \in 0..e /\ UTC(d) <= UTC(e)
<1> DEFINE S == Second
           q == d \div S
           r == e \div S
<1>1. S \in Nat /\ S > 0
  BY VerifiedAssumption
<1>2. UTC(d) = d - (d % S) /\ UTC(e) = e - (e % S)
  BY NoneIsNone DEF UTC
<1> HIDE DEF S
<1>3. /\ q \in Nat /\ d = S * q + (d % S) /\ (d % S) \in 0..(S - 1)
      /\ r \in Nat /\ e = S * r + (e % S) /\ (e % S) \in 0..(S - 1)
  BY <1>1
<1> HIDE DEF q, r
<1>4. q <= r
  <2> SUFFICES ASSUME q >= r + 1 PROVE FALSE
    BY <1>3
  <2>1. S * q >= S * (r + 1)
    BY <1>1, <1>3
  <2>2. S * (r + 1) = S * r + S
    BY <1>1, <1>3
  <2>3. S * q \in Nat /\ S * r \in Nat
    BY <1>1, <1>3
  <2> DEFINE sq == S * q
             sr == S * r
             sr1 == S * (r + 1)
  <2> HIDE DEF sq, sr, sr1
  <2>4. /\ sq >= sr1 /\ sr1 = sr + S /\ sq \in Nat /\ sr \in Nat
        /\ d = sq + (d % S) /\ e = sr + (e % S)
    BY <1>3, <2>1, <2>2, <2>3 DEF sq, sr, sr1
  <2> QED
    BY <1>1, <1>3, <2>4
<1>5. S * q <= S * r
  BY <1>1, <1>3, <1>4
<1> QED
  <2>1. UTC(d) = S * q /\ UTC(e) = S * r /\ S * q \in Nat /\ S * r \in Nat
    BY <1>1, <1>2, <1>3
  <2> QED
    BY <1>1, <1>2, <1>3, <1>5, <2>1

\* The latest of some dates is one of them, and none is later.
LEMMA MaxIsLatest ==
  ASSUME NEW dates \in SUBSET (0..MaxTime), dates # {}
  PROVE  Max(dates) \in dates /\ \A d \in dates : Max(dates) >= d
<1> DEFINE Later(x) == {y \in dates : y > x}
           T == {Later(x) : x \in dates}
<1>1. IsFiniteSet(dates) /\ dates \subseteq Nat
  <2>1. IsFiniteSet(0..MaxTime) /\ 0..MaxTime \subseteq Nat
    BY NoneIsNone, FS_Interval
  <2>2. dates \subseteq Nat
    BY <2>1
  <2>3. IsFiniteSet(dates)
    BY <2>1, FS_Subset
  <2> QED
    BY <2>2, <2>3
<1>2. T \subseteq FiniteSubsetsOf(dates) /\ T # {}
  <2>1. \A x \in dates : Later(x) \in SUBSET dates /\ IsFiniteSet(Later(x))
    BY <1>1, FS_Subset
  <2> QED
    BY <2>1 DEF FiniteSubsetsOf
<1>3. \E L \in T : \A M \in T : <<M, L>> \notin StrictSubsetOrdering(dates)
  <2> HIDE DEF T
  <2> QED
    BY <1>2, FS_StrictSubsetOrderingWellFounded, WFMin
<1>4. PICK x \in dates : \A y \in dates : <<Later(y), Later(x)>> \notin StrictSubsetOrdering(dates)
  BY <1>3
<1>5. \A y \in dates : x >= y
  <2> SUFFICES ASSUME NEW y \in dates, y > x PROVE FALSE
    BY <1>1
  <2>1. Later(y) \subseteq Later(x) /\ y \in Later(x) /\ y \notin Later(y)
    <3>1. x \in Nat /\ y \in Nat /\ \A z \in dates : z \in Nat
      BY <1>1
    <3>2. \A z \in dates : z > y => z > x
      BY <3>1
    <3>3. ~(y > y)
      BY <3>1
    <3> QED
      BY <3>2, <3>3
  <2> HIDE DEF Later
  <2>2. Later(y) \in SUBSET dates /\ Later(x) \in SUBSET dates
    BY DEF Later
  <2>3. <<Later(y), Later(x)>> \in StrictSubsetOrdering(dates)
    BY <2>1, <2>2 DEF StrictSubsetOrdering
  <2> QED
    BY <1>4, <2>3
<1> QED
  BY <1>5 DEF Max

LEMMA LastUpdateIsLast ==
  ASSUME TypeOK
  PROVE  /\ LastMetadataUpdate \in 0..MaxTime \cup {None}
         /\ \A a \in Assets : rows[a] # None =>
              /\ LastMetadataUpdate # None /\ LastMetadataUpdate >= rows[a].at
<1> DEFINE dates == {rows[a].at : a \in {b \in Assets : rows[b] # None}}
<1>1. dates \in SUBSET (0..MaxTime)
  BY DEF TypeOK, Table, Row
<1>2. LastMetadataUpdate = IF dates = {} THEN None ELSE Max(dates)
  BY DEF LastMetadataUpdate
<1>3. \A a \in Assets : rows[a] # None => rows[a].at \in dates
  OBVIOUS
<1> HIDE DEF dates
<1>4. dates # {} => Max(dates) \in dates /\ \A d \in dates : Max(dates) >= d
  BY <1>1, MaxIsLatest
<1>5. dates # {} => Max(dates) # None
  <2>1. 0..MaxTime \subseteq Nat
    BY NoneIsNone
  <2> QED
    BY <1>1, <1>4, <2>1, NoneIsNone
<1>6. LastMetadataUpdate \in 0..MaxTime \cup {None}
  BY <1>1, <1>2, <1>4
<1>7. ASSUME NEW a \in Assets, rows[a] # None
      PROVE  LastMetadataUpdate # None /\ LastMetadataUpdate >= rows[a].at
  <2>1. rows[a].at \in dates
    BY <1>3, <1>7
  <2>2. LastMetadataUpdate = Max(dates) /\ dates # {}
    BY <1>2, <2>1
  <2> QED
    BY <1>4, <1>5, <2>1, <2>2
<1> QED
  BY <1>6, <1>7

LEMMA BegunIsPost ==
  ASSUME NEW list \in Seq(Entry), NEW alone \in BOOLEAN, NEW pc \in {"idle", "stamp"}
  PROVE  /\ Begun(pc, list, alone) \in Post
         /\ Begun(pc, list, alone).pc = pc
         /\ Begun(pc, list, alone).list = list
         /\ Begun(pc, list, alone).alone = alone
         /\ Begun(pc, list, alone).nth = 1
BY NoneIsNone DEF Begun, Post

LEMMA UTCOfDates ==
  ASSUME NEW d \in 0..MaxTime
  PROVE  UTC(d) \in 0..MaxTime /\ UTC(d) <= d
<1>1. d \in Nat /\ MaxTime \in Nat
  BY NoneIsNone
<1>2. UTC(d) \in 0..d
  BY <1>1, UTCKeepsOrder
<1> QED
  BY <1>1, <1>2

\* The row an upsert writes is of its post.
LEMMA UpsertedRows ==
  ASSUME TypeOK, NEW p \in Posts, NEW a \in Assets, NEW d \in Data
  PROVE  /\ [rows EXCEPT ![a] = [data |-> d, at |-> post[p].at]] \in Table
         /\ [data |-> d, at |-> post[p].at] # None
<1>1. post[p].at \in 0..MaxTime
  BY DEF TypeOK, Post
<1>2. [data |-> d, at |-> post[p].at] \in Row
  BY <1>1 DEF Row
<1> QED
  BY <1>2, NoneIsNone DEF TypeOK, Table

\* What an upsert writes holds its entry.
LEMMA WrittenHolds ==
  ASSUME TypeOK, NEW entry \in Entry
  PROVE  Written(entry) \in Data /\ Holds(Written(entry), entry)
<1>1. /\ entry.identifier \in Assets /\ entry.symbol \in Symbols
      /\ entry.extra \in Extras \cup {None, Undefined}
  BY DEF Entry
<1>2. rows[entry.identifier] # None => rows[entry.identifier].data.extra \in Extras \cup {None}
  BY <1>1 DEF TypeOK, Table, Row, Data
<1> DEFINE extra == IF entry.extra # Undefined THEN entry.extra
                    ELSE IF rows[entry.identifier] = None THEN None
                    ELSE rows[entry.identifier].data.extra
<1>3. extra \in Extras \cup {None} /\ (entry.extra # Undefined => extra = entry.extra)
  BY <1>1, <1>2
<1>4. Written(entry) = [symbol |-> entry.symbol, extra |-> extra]
  BY DEF Written
<1> HIDE DEF extra
<1> QED
  BY <1>1, <1>3, <1>4 DEF Data, Holds

LEMMA EntryIsEntry ==
  ASSUME TypeOK, Under, NEW p \in Posts, post[p].pc = "upsert"
  PROVE  /\ EntryOf(p) = post[p].list[post[p].nth]
         /\ post[p].nth \in 1..Len(post[p].list)
         /\ EntryOf(p) \in Entry
         /\ EntryOf(p).identifier \in Assets /\ Written(EntryOf(p)) \in Data
         /\ Holds(Written(EntryOf(p)), EntryOf(p))
<1>1. post[p].list \in Seq(Entry) /\ post[p].nth \in 1..Len(post[p].list)
  <2>1. post[p] \in Post /\ Running(p)
    BY DEF TypeOK, Running
  <2>2. post[p].nth \in 1..(Len(post[p].list) + 1) /\ post[p].nth <= Len(post[p].list)
    BY <2>1 DEF Under
  <2>3. post[p].list \in Seq(Entry)
    BY <2>1 DEF Post
  <2> QED
    BY <2>2, <2>3
<1>2. post[p].list[post[p].nth] \in Entry
  BY <1>1, ElementOfSeq
<1>3. EntryOf(p) = post[p].list[post[p].nth]
  BY DEF EntryOf
<1>4. \A e \in Entry : e.identifier \in Assets
  BY DEF Entry
<1>5. EntryOf(p) \in Entry
  BY <1>2, <1>3
<1>6. Written(EntryOf(p)) \in Data /\ Holds(Written(EntryOf(p)), EntryOf(p))
  BY <1>5, WrittenHolds
<1> QED
  BY <1>1, <1>3, <1>4, <1>5, <1>6

\* What the steps of the posts leave of the posts' state.
LEMMA PostSteps ==
  ASSUME TypeOK, Under, NEW p \in Posts, Stamp(p) \/ Upsert(p)
  PROVE  /\ post' \in [Posts -> Post]
         /\ \A q \in Posts \ {p} : post'[q] = post[q]
         /\ Running(p) /\ post'[p].pc \in {"stamp", "upsert"}
         /\ post'[p].list = post[p].list /\ post'[p].alone = post[p].alone
         /\ post'[p].nth \in 1..(Len(post[p].list) + 1)
         /\ post'[p].pc = "upsert" => post'[p].nth <= Len(post[p].list)
<1>1. CASE Stamp(p)
  <2>1. post[p] \in Post /\ now \in 0..MaxTime /\ post[p].pc = "stamp"
        /\ post[p].nth <= Len(post[p].list)
    BY <1>1 DEF TypeOK, Stamp
  <2>2. post' = [post EXCEPT ![p] = [post[p] EXCEPT !.pc = "upsert", !.at = now]]
    BY <1>1 DEF Stamp, SetPost
  <2>3. [post[p] EXCEPT !.pc = "upsert", !.at = now] \in Post
    BY <2>1 DEF Post
  <2> QED
    BY <2>1, <2>2, <2>3 DEF TypeOK, Under, Running, Post
<1>2. CASE Upsert(p)
  <2> DEFINE a == EntryOf(p).identifier
             missing == IF a \in known THEN post[p].missing ELSE post[p].missing \cup {a}
             next == post[p].nth + 1
             new == [post[p] EXCEPT !.pc = "stamp", !.nth = next, !.at = 0, !.missing = missing]
  <2>1. post[p] \in Post /\ post[p].pc = "upsert" /\ Len(post[p].list) \in Nat
        /\ post[p].nth \in 1..Len(post[p].list) /\ a \in Assets
    BY <1>2, EntryIsEntry DEF TypeOK, Upsert, Post
  <2>2. post' = [post EXCEPT ![p] = new]
    BY <1>2, <2>1 DEF Upsert, SetPost, Post
  <2>3. next \in Nat /\ missing \in SUBSET Assets /\ 0 \in 0..MaxTime
        /\ next \in 1..(Len(post[p].list) + 1)
    BY <2>1, NoneIsNone DEF Post
  <2> HIDE DEF next, missing
  <2>4. /\ new \in Post /\ new.pc = "stamp" /\ new.list = post[p].list
        /\ new.alone = post[p].alone /\ new.nth = next
    BY <2>1, <2>3 DEF Post
  <2> HIDE DEF new
  <2> QED
    BY <2>1, <2>2, <2>3, <2>4 DEF TypeOK, Running
<1> QED
  BY <1>1, <1>2

\* The end of a post, answered or not.
LEMMA PostEnds ==
  ASSUME TypeOK, NEW p \in Posts, SetPost(p, Begun("idle", <<>>, TRUE))
  PROVE  /\ post' \in [Posts -> Post]
         /\ \A q \in Posts \ {p} : post'[q] = post[q]
         /\ post'[p].pc = "idle"
<1>1. <<>> \in Seq(Entry)
  OBVIOUS
<1>2. Begun("idle", <<>>, TRUE) \in Post /\ Begun("idle", <<>>, TRUE).pc = "idle"
  BY <1>1, BegunIsPost
<1> QED
  BY <1>2 DEF TypeOK, SetPost

LEMMA Received ==
  ASSUME TypeOK, NEW p \in Posts, Receive(p)
  PROVE  \E list \in Lists :
           /\ post' \in [Posts -> Post]
           /\ post'[p].pc = "stamp"
           /\ post'[p] = Begun("stamp", list,
                \A q \in Posts \ {p} : Running(q) => post[q].list = list)
           /\ \A q \in Posts \ {p} :
                /\ post'[q].pc = post[q].pc /\ post'[q].list = post[q].list
                /\ post'[q].nth = post[q].nth /\ post'[q].missing = post[q].missing
                /\ post'[q].at = post[q].at
                /\ Running(q) /\ post'[q].alone => post[q].alone /\ post[q].list = list
           /\ agreed' = IF agreed # None /\ agreed.list = list THEN agreed ELSE None
<1>1. PICK list \in Lists :
        LET others == {q \in Posts \ {p} : Running(q) /\ post[q].list # list}
        IN /\ post' = [q \in Posts |->
                        IF q = p
                        THEN Begun("stamp", list, others = {})
                        ELSE [post[q] EXCEPT !.alone = @ /\ q \notin others]]
           /\ agreed' = IF agreed # None /\ agreed.list = list THEN agreed ELSE None
  BY DEF Receive
<1> DEFINE others == {q \in Posts \ {p} : Running(q) /\ post[q].list # list}
<1>2. (others = {}) = (\A q \in Posts \ {p} : Running(q) => post[q].list = list)
  OBVIOUS
<1>3. list \in Seq(Entry) /\ Begun("stamp", list, others = {}) \in Post
  BY VerifiedAssumption, BegunIsPost
<1>4. ASSUME NEW q \in Posts \ {p}
      PROVE  /\ post'[q] = [post[q] EXCEPT !.alone = @ /\ q \notin others]
             /\ post'[q] \in Post
             /\ post'[q].alone = (post[q].alone /\ q \notin others)
             /\ post'[q].pc = post[q].pc /\ post'[q].list = post[q].list
             /\ post'[q].nth = post[q].nth /\ post'[q].missing = post[q].missing
             /\ post'[q].at = post[q].at
  <2> DEFINE b == post[q].alone /\ q \notin others
  <2>1. post'[q] = [post[q] EXCEPT !.alone = @ /\ q \notin others]
    BY <1>1
  <2>2. post[q] \in Post /\ b \in BOOLEAN
    BY DEF TypeOK, Post
  <2>3. post'[q] = [post[q] EXCEPT !.alone = b]
    BY <2>1, <2>2 DEF Post
  <2> HIDE DEF b
  <2>4. /\ post'[q] \in Post /\ post'[q].alone = b
        /\ post'[q].pc = post[q].pc /\ post'[q].list = post[q].list
        /\ post'[q].nth = post[q].nth /\ post'[q].missing = post[q].missing
        /\ post'[q].at = post[q].at
    BY <2>2, <2>3 DEF Post
  <2> QED
    BY <2>1, <2>4 DEF b
<1>5. post' \in [Posts -> Post]
  BY <1>1, <1>3, <1>4
<1>6. \A q \in Posts \ {p} :
        /\ post'[q].pc = post[q].pc /\ post'[q].list = post[q].list
        /\ post'[q].nth = post[q].nth /\ post'[q].missing = post[q].missing
        /\ post'[q].at = post[q].at
        /\ Running(q) /\ post'[q].alone => post[q].alone /\ post[q].list = list
  BY <1>4
<1>7. post'[p] = Begun("stamp", list, \A q \in Posts \ {p} : Running(q) => post[q].list = list)
  BY <1>1, <1>2
<1>8. post'[p].pc = "stamp"
  BY <1>7 DEF Begun
<1> QED
  BY <1>1, <1>5, <1>6, <1>7, <1>8

-----------------------------------------------------------------------------
(* The posts.                                                              *)

LEMMA TypeOKStep == TypeOK /\ Under /\ [Next]_vars => TypeOK'
<1> SUFFICES ASSUME TypeOK, Under, [Next]_vars PROVE TypeOK'
  OBVIOUS
<1>1. CASE UNCHANGED vars
  BY <1>1 DEF vars, TypeOK
<1>2. CASE Tick
  BY <1>2, NoneIsNone DEF Tick, TypeOK
<1>3. CASE CreateAsset
  BY <1>3 DEF CreateAsset, TypeOK
<1>4. CASE Replicate
  BY <1>4 DEF Replicate, TypeOK
<1>5. ASSUME NEW p \in Posts, Receive(p) PROVE TypeOK'
  <2>1. post' \in [Posts -> Post]
        /\ agreed' \in [list : Lists, missing : SUBSET Assets] \cup {None}
    BY <1>5, Received DEF TypeOK
  <2>2. posts' \in 0..MaxPosts /\ UNCHANGED <<now, known, rows, replica, client>>
    BY <1>5, NoneIsNone DEF Receive, TypeOK
  <2> QED
    BY <2>1, <2>2 DEF TypeOK
<1>6. ASSUME NEW p \in Posts, Stamp(p) PROVE TypeOK'
  <2>1. post' \in [Posts -> Post]
    BY <1>6, PostSteps
  <2> QED
    BY <1>6, <2>1 DEF Stamp, TypeOK
<1>7. ASSUME NEW p \in Posts, Upsert(p) PROVE TypeOK'
  <2> DEFINE a == EntryOf(p).identifier
             d == Written(EntryOf(p))
             row == [data |-> d, at |-> post[p].at]
  <2>1. post' \in [Posts -> Post]
    BY <1>7, PostSteps
  <2>2. a \in Assets /\ d \in Data
    BY <1>7, EntryIsEntry DEF Upsert
  <2>3. /\ UNCHANGED <<now, known, replica, posts, client, agreed>>
        /\ rows' = IF a \in known THEN [rows EXCEPT ![a] = row] ELSE rows
    BY <1>7 DEF Upsert
  <2> HIDE DEF a, d
  <2>4. [rows EXCEPT ![a] = row] \in Table /\ row # None
    BY <2>2, UpsertedRows
  <2>5. rows' \in Table
    BY <2>3, <2>4 DEF TypeOK
  <2>6. \A b \in Assets : rows'[b] # None => b \in known'
    BY <2>2, <2>3 DEF TypeOK, Table
  <2> QED
    BY <2>1, <2>3, <2>5, <2>6 DEF TypeOK
<1>8. ASSUME NEW p \in Posts, DeleteUnverified(p) PROVE TypeOK'
  <2>1. post' \in [Posts -> Post]
    BY <1>8, PostEnds DEF DeleteUnverified
  <2>2. rows' \in Table /\ \A b \in Assets : rows'[b] # None => b \in known
    BY <1>8 DEF DeleteUnverified, TypeOK, Table
  <2>3. post[p].list \in Lists /\ post[p].missing \in SUBSET Assets
    BY <1>8 DEF DeleteUnverified, TypeOK, Under, Running, Post
  <2>4. agreed' \in [list : Lists, missing : SUBSET Assets] \cup {None}
    BY <1>8, <2>3 DEF DeleteUnverified
  <2> QED
    BY <1>8, <2>1, <2>2, <2>4 DEF DeleteUnverified, TypeOK
<1>9. ASSUME NEW p \in Posts, Fail(p) PROVE TypeOK'
  <2>1. post' \in [Posts -> Post]
    BY <1>9, PostEnds DEF Fail
  <2> QED
    BY <1>9, <2>1 DEF Fail, TypeOK
<1>10. ASSUME NEW c \in Clients, Ask(c) PROVE TypeOK'
  <2>1. client[c] \in Client /\ LastMetadataUpdate \in 0..MaxTime \cup {None}
    BY LastUpdateIsLast DEF TypeOK
  <2>2. [client[c] EXCEPT !.pc = "list", !.latest = LastMetadataUpdate] \in Client
    BY <2>1 DEF Client
  <2> QED
    BY <1>10, <2>1, <2>2 DEF Ask, SetClient, TypeOK
<1>11. ASSUME NEW c \in Clients, ListMetadata(c) PROVE TypeOK'
  <2> DEFINE copy == [a \in Assets |-> IF replica[a] = None THEN None ELSE replica[a].data]
             new == [pc |-> "idle", latest |-> None, since |-> UTC(client[c].latest),
                     copy |-> copy, sound |-> Settled(client[c].latest)]
  <2>1. client[c] \in Client
    BY DEF TypeOK
  <2>2. [client[c] EXCEPT !.pc = "idle", !.latest = None] \in Client
    BY <2>1 DEF Client
  <2>3. copy \in [Assets -> Data \cup {None}]
    BY DEF TypeOK, Table, Row
  <2>4. UTC(client[c].latest) \in 0..MaxTime \cup {None}
    <3>1. CASE client[c].latest = None
      BY <3>1 DEF UTC
    <3>2. CASE client[c].latest \in 0..MaxTime
      BY <3>2, UTCOfDates
    <3> QED
      BY <2>1, <3>1, <3>2 DEF Client
  <2>5. Settled(client[c].latest) \in BOOLEAN
    BY DEF Settled
  <2>6. new \in Client
    <3> HIDE DEF copy
    <3> QED
      BY <2>3, <2>4, <2>5 DEF Client
  <2>7. \/ client' = [client EXCEPT ![c] = [client[c] EXCEPT !.pc = "idle", !.latest = None]]
        \/ client' = [client EXCEPT ![c] = new]
    BY <1>11 DEF ListMetadata, SetClient
  <2> HIDE DEF new
  <2>8. client' \in [Clients -> Client]
    BY <2>2, <2>6, <2>7 DEF TypeOK
  <2> QED
    BY <1>11, <2>8 DEF ListMetadata, TypeOK
<1> QED
  BY <1>1, <1>2, <1>3, <1>4, <1>5, <1>6, <1>7, <1>8, <1>9, <1>10, <1>11 DEF Next

LEMMA ListsInvInit == Init => ListsInv
<1>1. Init => \A p \in Posts : ~Running(p)
  BY DEF Init, Begun, Running
<1> QED
  BY <1>1 DEF ListsInv, Under, Alone, PassedByPosts, Agreed, LastPostHolds, Init

LEMMA ListedAreEntries ==
  ASSUME NEW list \in Seq(Entry)
  PROVE  /\ \A i \in 1..Len(list) : /\ list[i] \in Entry /\ list[i].identifier \in Assets
                                    /\ list[i].identifier \in Listed(list)
         /\ \A b \in Listed(list) : b \in Assets
<1>1. \A e \in Entry : e.identifier \in Assets
  BY DEF Entry
<1>2. \A i \in 1..Len(list) : list[i] \in Entry
  BY ElementOfSeq
<1>3. DOMAIN list = 1..Len(list)
  OBVIOUS
<1> QED
  BY <1>1, <1>2, <1>3 DEF Listed

\* Steps of others than the posts leave rows, posts and agreement alone.
LEMMA OthersKeepLists ==
  ASSUME ListsInv, UNCHANGED <<rows, post, agreed>>
  PROVE  ListsInv'
BY DEF ListsInv, Under, Alone, PassedByPosts, Passed, Agreed, LastPostHolds, Running

LEMMA ReceiveKeepsLists ==
  ASSUME TypeOK, ListsInv, NEW p \in Posts, Receive(p)
  PROVE  ListsInv'
<1>1. PICK list \in Lists :
        /\ post' \in [Posts -> Post]
        /\ post'[p] = Begun("stamp", list,
             \A q \in Posts \ {p} : Running(q) => post[q].list = list)
        /\ \A q \in Posts \ {p} :
             /\ post'[q].pc = post[q].pc /\ post'[q].list = post[q].list
             /\ post'[q].nth = post[q].nth /\ post'[q].missing = post[q].missing
             /\ post'[q].at = post[q].at
             /\ Running(q) /\ post'[q].alone => post[q].alone /\ post[q].list = list
        /\ agreed' = IF agreed # None /\ agreed.list = list THEN agreed ELSE None
  BY Received, ZenonT(30)
<1>2. rows' = rows
  BY DEF Receive
<1>3. /\ post'[p].pc = "stamp" /\ post'[p].list = list /\ post'[p].nth = 1
      /\ post'[p].alone = (\A q \in Posts \ {p} : Running(q) => post[q].list = list)
  BY <1>1 DEF Begun
<1>4. list \in Seq(Entry) /\ Len(list) \in Nat
  BY VerifiedAssumption
<1>5. \A q \in Posts \ {p} : Running(q)' = Running(q)
  BY <1>1 DEF Running
<1>6. Under'
  <2> SUFFICES ASSUME NEW q \in Posts, Running(q)'
               PROVE  /\ post'[q].list \in Lists
                      /\ post'[q].nth \in 1..(Len(post'[q].list) + 1)
                      /\ post'[q].pc = "upsert" => post'[q].nth <= Len(post'[q].list)
    BY DEF Under
  <2>1. CASE q = p
    BY <1>3, <1>4, <2>1
  <2>2. CASE q # p
    BY <1>1, <1>5, <2>2 DEF ListsInv, Under
  <2> QED
    BY <2>1, <2>2
<1>7. Alone'
  <2> SUFFICES ASSUME NEW q \in Posts, NEW r \in Posts,
                      Running(q)', post'[q].alone, Running(r)'
               PROVE  post'[r].list = post'[q].list
    BY DEF Alone
  <2>1. CASE q = p
    BY <1>1, <1>3, <1>5, <2>1
  <2>2. CASE q # p
    <3>1. post[q].alone /\ post[q].list = list /\ Running(q)
      BY <1>1, <1>5, <2>2
    <3>2. r # p => post[r].list = list
      BY <1>5, <3>1 DEF ListsInv, Alone
    <3> QED
      BY <1>1, <1>3, <2>2, <3>1, <3>2
  <2> QED
    BY <2>1, <2>2
<1>8. PassedByPosts'
  <2> SUFFICES ASSUME NEW q \in Posts, Running(q)', post'[q].alone
               PROVE  Passed(post[q].list, post[q].missing, post[q].nth)'
    BY DEF PassedByPosts
  <2>1. CASE q = p
    <3>1. \A i \in 1..Len(list) : ~(i < 1)
      BY <1>4
    <3> QED
      BY <1>3, <2>1, <3>1 DEF Passed
  <2>2. CASE q # p
    <3>1. Passed(post[q].list, post[q].missing, post[q].nth)
      BY <1>1, <1>5, <2>2 DEF ListsInv, PassedByPosts
    <3> QED
      BY <1>1, <1>2, <2>2, <3>1 DEF Passed
  <2> QED
    BY <2>1, <2>2
<1>9. Agreed'
  BY <1>1, <1>3, <1>5 DEF ListsInv, Agreed
<1>10. LastPostHolds'
  BY <1>1, <1>2 DEF ListsInv, LastPostHolds
<1> QED
  BY <1>6, <1>7, <1>8, <1>9, <1>10 DEF ListsInv

\* Steps that leave post p where it is in its list, or end it.
LEMMA StampKeepsLists ==
  ASSUME TypeOK, ListsInv, NEW p \in Posts, Stamp(p)
  PROVE  ListsInv'
<1>1. /\ post' \in [Posts -> Post]
      /\ \A q \in Posts \ {p} : post'[q] = post[q]
      /\ Running(p) /\ Running(p)'
      /\ post'[p].list = post[p].list /\ post'[p].alone = post[p].alone
      /\ post'[p].nth \in 1..(Len(post[p].list) + 1)
      /\ post'[p].pc = "upsert" => post'[p].nth <= Len(post[p].list)
  BY PostSteps DEF ListsInv, Running
<1>2. /\ post'[p].nth = post[p].nth /\ post'[p].missing = post[p].missing
      /\ UNCHANGED <<rows, agreed>>
  BY DEF Stamp, SetPost, TypeOK, Post
<1>3. Under' /\ Alone' /\ Agreed'
  BY <1>1, <1>2 DEF ListsInv, Under, Alone, Agreed, Running
<1>4. PassedByPosts'
  BY <1>1, <1>2 DEF ListsInv, PassedByPosts, Passed, Running
<1>5. LastPostHolds'
  BY <1>2 DEF ListsInv, LastPostHolds
<1> QED
  BY <1>3, <1>4, <1>5 DEF ListsInv

LEMMA FailKeepsLists ==
  ASSUME TypeOK, ListsInv, NEW p \in Posts, Fail(p)
  PROVE  ListsInv'
<1>1. /\ \A q \in Posts \ {p} : post'[q] = post[q]
      /\ ~Running(p)'
      /\ UNCHANGED <<rows, agreed>>
  BY PostEnds DEF Fail, Running
<1>2. Under' /\ Alone' /\ Agreed'
  BY <1>1 DEF ListsInv, Under, Alone, Agreed, Running
<1>3. PassedByPosts'
  BY <1>1 DEF ListsInv, PassedByPosts, Passed, Running
<1>4. LastPostHolds'
  BY <1>1 DEF ListsInv, LastPostHolds
<1> QED
  BY <1>2, <1>3, <1>4 DEF ListsInv

\* An upsert writes what every post of its list has for that asset, and no row
\* the list does not name.
LEMMA UpsertKeepsLists ==
  ASSUME TypeOK, ListsInv, NEW p \in Posts, Upsert(p)
  PROVE  ListsInv'
<1> DEFINE list == post[p].list
           n == post[p].nth
           a == EntryOf(p).identifier
           row == [data |-> Written(EntryOf(p)), at |-> post[p].at]
<1>1. /\ post' \in [Posts -> Post]
      /\ \A q \in Posts \ {p} : post'[q] = post[q]
      /\ Running(p) /\ Running(p)'
      /\ post'[p].list = list /\ post'[p].alone = post[p].alone
      /\ post'[p].nth \in 1..(Len(list) + 1)
      /\ post'[p].pc = "upsert" => post'[p].nth <= Len(list)
  BY PostSteps DEF ListsInv, Running
<1>2. /\ post'[p].nth = n + 1
      /\ post'[p].missing = IF a \in known THEN post[p].missing ELSE post[p].missing \cup {a}
      /\ rows' = IF a \in known THEN [rows EXCEPT ![a] = row] ELSE rows
      /\ agreed' = agreed
  BY DEF Upsert, SetPost, TypeOK, Post
<1>3. /\ EntryOf(p) = list[n] /\ n \in 1..Len(list) /\ a \in Assets
      /\ Written(EntryOf(p)) \in Data /\ list[n] \in Entry
      /\ Holds(Written(EntryOf(p)), list[n])
  BY EntryIsEntry DEF ListsInv, Upsert
<1>4. list \in Lists /\ \A i \in 1..Len(list) : list[i].identifier = a => i = n
  BY <1>1, <1>3, VerifiedAssumption, SMTT(30) DEF ListsInv, Under
<1>5. row # None /\ Holds(row.data, list[n]) /\ list[n].identifier = a
  BY <1>3, UpsertedRows
<1>6. \A b \in Assets : rows[b] # None => b \in known
  BY DEF TypeOK
<1>7. /\ \A b \in Assets \ {a} : rows'[b] = rows[b]
      /\ rows'[a] = IF a \in known THEN row ELSE None
  BY <1>2, <1>3, <1>6 DEF TypeOK, Table
<1>8. list \in Seq(Entry) /\ Len(list) \in Nat
  BY <1>4, VerifiedAssumption
<1> HIDE DEF list, n, a, row
<1>9. Under' /\ Alone' /\ Agreed'
  BY <1>1, <1>2 DEF ListsInv, Under, Alone, Agreed, Running, list
<1>10. PassedByPosts'
  <2> SUFFICES ASSUME NEW q \in Posts, Running(q)', post'[q].alone
               PROVE  Passed(post[q].list, post[q].missing, post[q].nth)'
    BY DEF PassedByPosts
  <2>1. /\ Running(q) /\ post[q].alone /\ post[q].list = list /\ post'[q].list = list
        /\ Passed(list, post[q].missing, post[q].nth)
    BY <1>1 DEF ListsInv, Alone, PassedByPosts, Running, list
  <2> SUFFICES ASSUME NEW i \in 1..Len(list), i < post'[q].nth
               PROVE  LET b == list[i].identifier
                      IN /\ rows'[b] # None => Holds(rows'[b].data, list[i])
                         /\ b \notin post'[q].missing => rows'[b] # None
    BY <2>1 DEF Passed
  <2> DEFINE b == list[i].identifier
  <2>2. b \in Assets
    BY <1>8, ListedAreEntries
  <2>3. CASE i = n
    <3>1. b = a /\ list[i] = list[n]
      BY <1>5, <2>3
    <3>2. rows'[b] # None => Holds(rows'[b].data, list[i])
      BY <1>5, <1>7, <3>1
    <3>3. ASSUME b \notin post'[q].missing PROVE rows'[b] # None
      <4>1. CASE a \in known
        BY <1>5, <1>7, <3>1, <4>1
      <4>2. CASE a \notin known
        <5>1. q # p
          BY <1>2, <3>1, <3>3, <4>2
        <5>2. b \notin post[q].missing /\ i < post[q].nth
          BY <1>1, <3>3, <5>1
        <5>3. rows[b] # None
          BY <2>1, <5>2 DEF Passed
        <5> QED
          BY <1>6, <2>2, <3>1, <4>2, <5>3
      <4> QED
        BY <4>1, <4>2
    <3> QED
      BY <3>2, <3>3
  <2>4. CASE i # n
    <3>1. b # a /\ rows'[b] = rows[b]
      BY <1>4, <1>7, <2>2, <2>4
    <3>2. i < post[q].nth
      <4>1. CASE q = p
        BY <1>2, <1>3, <1>8, <2>4, <4>1 DEF n
      <4>2. CASE q # p
        BY <1>1, <4>2
      <4> QED
        BY <4>1, <4>2
    <3>3. b \notin post'[q].missing => b \notin post[q].missing
      BY <1>1, <1>2, <3>1
    <3> QED
      BY <2>1, <3>1, <3>2, <3>3 DEF Passed
  <2> QED
    BY <2>3, <2>4
<1>11. LastPostHolds'
  <2> SUFFICES ASSUME agreed # None PROVE LastPostHolds'
    BY <1>2 DEF LastPostHolds
  <2>1. agreed.list = list
    BY <1>1 DEF ListsInv, Agreed, list
  <2>2. /\ \A b \in Assets : rows[b] # None =>
             \E i \in 1..Len(list) : list[i].identifier = b /\ Holds(rows[b].data, list[i])
        /\ \A b \in Listed(list) \ agreed.missing : rows[b] # None
    BY <1>8, <2>1 DEF ListsInv, LastPostHolds
  <2>3. \E i \in 1..Len(list) : list[i].identifier = a /\ Holds(row.data, list[i])
    BY <1>3, <1>5
  <2>4. \A b \in Assets : rows'[b] # None =>
          \E i \in DOMAIN list : list[i].identifier = b /\ Holds(rows'[b].data, list[i])
    BY <1>7, <1>8, <2>2, <2>3
  <2>5. \A b \in Listed(list) : b \in Assets
    BY <1>8, ListedAreEntries
  <2>6. \A b \in Listed(list) \ agreed.missing : rows'[b] # None
    BY <1>5, <1>6, <1>7, <2>2, <2>5
  <2> QED
    BY <1>2, <2>1, <2>4, <2>6 DEF LastPostHolds
<1> QED
  BY <1>9, <1>10, <1>11 DEF ListsInv

\* The deletion leaves the entries of the list, all of them passed.
LEMMA DeleteKeepsLists ==
  ASSUME TypeOK, ListsInv, NEW p \in Posts, DeleteUnverified(p)
  PROVE  ListsInv'
<1> DEFINE list == post[p].list
           missing == post[p].missing
<1>1. /\ \A q \in Posts \ {p} : post'[q] = post[q]
      /\ ~Running(p)' /\ Running(p)
  BY PostEnds DEF DeleteUnverified, Running
<1>2. /\ post[p].nth > Len(list)
      /\ rows' = [b \in Assets |-> IF b \in Listed(list) THEN rows[b] ELSE None]
      /\ agreed' = IF post[p].alone THEN [list |-> list, missing |-> missing] ELSE None
  BY DEF DeleteUnverified
<1>3. list \in Lists /\ list \in Seq(Entry) /\ Len(list) \in Nat /\ post[p].nth \in Nat
  BY <1>1, VerifiedAssumption DEF ListsInv, Under, TypeOK, Post
<1>4. \A i \in 1..Len(list) : list[i].identifier \in Listed(list)
                              /\ list[i].identifier \in Assets /\ list[i] \in Entry
  <2> HIDE DEF list
  <2> QED
    BY <1>3, ListedAreEntries
<1> HIDE DEF list, missing
<1>5. Under' /\ Alone'
  BY <1>1 DEF ListsInv, Under, Alone, Running
<1>6. Agreed'
  BY <1>1, <1>2 DEF ListsInv, Agreed, Alone, Running, list
<1>7. PassedByPosts'
  <2> SUFFICES ASSUME NEW q \in Posts, Running(q)', post'[q].alone
               PROVE  Passed(post[q].list, post[q].missing, post[q].nth)'
    BY DEF PassedByPosts
  <2>1. /\ post'[q] = post[q] /\ post[q].list = list
        /\ Passed(list, post[q].missing, post[q].nth)
    BY <1>1 DEF ListsInv, Alone, PassedByPosts, Running, list
  <2>2. \A i \in 1..Len(list) : rows'[list[i].identifier] = rows[list[i].identifier]
    BY <1>2, <1>4
  <2> QED
    BY <2>1, <2>2 DEF Passed
<1>8. LastPostHolds'
  <2> SUFFICES ASSUME post[p].alone PROVE LastPostHolds'
    BY <1>2 DEF LastPostHolds
  <2>1. \A i \in 1..Len(list) :
          LET b == list[i].identifier
          IN /\ rows[b] # None => Holds(rows[b].data, list[i])
             /\ b \notin missing => rows[b] # None
    <3>1. Passed(list, missing, post[p].nth)
      BY <1>1 DEF ListsInv, PassedByPosts, list, missing
    <3>2. \A i \in 1..Len(list) : i < post[p].nth
      BY <1>2, <1>3
    <3> QED
      BY <3>1, <3>2 DEF Passed
  <2>2. ASSUME NEW b \in Assets, rows'[b] # None
        PROVE  \E i \in DOMAIN list : /\ list[i].identifier = b
                                      /\ Holds(rows'[b].data, list[i])
    <3>1. b \in Listed(list) /\ rows'[b] = rows[b]
      BY <1>2, <2>2
    <3>2. PICK i \in 1..Len(list) : list[i].identifier = b
      BY <1>3, <3>1 DEF Listed
    <3>3. Holds(rows'[b].data, list[i])
      BY <2>1, <2>2, <3>1, <3>2
    <3> QED
      BY <1>3, <3>2, <3>3
  <2>3. ASSUME NEW b \in Listed(list) \ missing PROVE rows'[b] # None
    <3>1. PICK i \in 1..Len(list) : list[i].identifier = b
      BY <1>3 DEF Listed
    <3> QED
      BY <1>2, <1>4, <2>1, <3>1
  <2>4. agreed'.list = list /\ agreed'.missing = missing
    BY <1>2
  <2> QED
    BY <2>2, <2>3, <2>4 DEF LastPostHolds
<1> QED
  BY <1>5, <1>6, <1>7, <1>8 DEF ListsInv

LEMMA ListsInvStep == TypeOK /\ ListsInv /\ [Next]_vars => ListsInv'
<1> SUFFICES ASSUME TypeOK, ListsInv, [Next]_vars PROVE ListsInv'
  OBVIOUS
<1>1. CASE UNCHANGED <<rows, post, agreed>>
  BY <1>1, OthersKeepLists
<1>2. ASSUME NEW p \in Posts,
             Receive(p) \/ Stamp(p) \/ Upsert(p) \/ DeleteUnverified(p) \/ Fail(p)
      PROVE  ListsInv'
  BY <1>2, ReceiveKeepsLists, StampKeepsLists, UpsertKeepsLists, DeleteKeepsLists,
     FailKeepsLists
<1>3. ASSUME NEW c \in Clients, Ask(c) \/ ListMetadata(c) PROVE ListsInv'
  BY <1>3, <1>1 DEF Ask, ListMetadata
<1>4. CASE Tick \/ CreateAsset \/ Replicate
  BY <1>4, <1>1 DEF Tick, CreateAsset, Replicate
<1>5. CASE UNCHANGED vars
  BY <1>5, <1>1 DEF vars
<1> QED
  BY <1>2, <1>3, <1>4, <1>5 DEF Next

-----------------------------------------------------------------------------
(* The copies.                                                             *)

LEMMA CopiesInvInit == Init => CopiesInv
  BY DEF Init, CopiesInv, Complete

\* Dates are numbers; so are the seconds they are cut to.
LEMMA DatesAreNumbers ==
  ASSUME TypeOK
  PROVE  /\ now \in 0..MaxTime /\ UTC(now) \in 0..MaxTime
         /\ \A p \in Posts : post[p].at \in 0..MaxTime /\ UTC(post[p].at) \in 0..MaxTime
         /\ \A a \in Assets : rows[a] # None =>
              rows[a].at \in 0..MaxTime /\ UTC(rows[a].at) \in 0..MaxTime
         /\ \A c \in Clients : /\ client[c] \in Client
                               /\ client[c].since # None => client[c].since \in 0..MaxTime
<1>1. /\ now \in 0..MaxTime /\ \A p \in Posts : post[p].at \in 0..MaxTime
      /\ \A a \in Assets : rows[a] # None => rows[a].at \in 0..MaxTime
      /\ \A c \in Clients : /\ client[c] \in Client
                            /\ client[c].since # None => client[c].since \in 0..MaxTime
  BY DEF TypeOK, Post, Table, Row, Client
<1> QED
  BY <1>1, UTCOfDates

\* A step that leaves the clients alone, dates nothing back and writes no row
\* but of a post's date keeps what is known of a copy.
LEMMA CopyStaysComplete ==
  ASSUME TypeOK, TypeOK', NEW c \in Clients, Complete(c), client' = client,
         now <= now',
         \A p \in Posts : post'[p].pc = "upsert" =>
           \/ post[p].pc = "upsert" /\ post'[p].at = post[p].at
           \/ post'[p].at = now,
         \A a \in Assets : rows'[a] # None =>
           \/ rows[a] # None /\ rows'[a] = rows[a]
           \/ \E p \in Posts : post[p].pc = "upsert" /\ rows'[a].at = post[p].at
  PROVE  Complete(c)'
<1> SUFFICES ASSUME client[c].sound PROVE Complete(c)'
  BY DEF Complete
<1> DEFINE since == client[c].since
<1>1. /\ since # None /\ UTC(now) > since
      /\ \A p \in Posts : post[p].pc = "upsert" => UTC(post[p].at) > since
      /\ \A a \in Assets : rows[a] # None =>
           client[c].copy[a] = rows[a].data \/ UTC(rows[a].at) > since
  BY DEF Complete
<1>2. since \in Nat /\ now \in Nat /\ now' \in Nat
  BY <1>1, DatesAreNumbers DEF TypeOK
<1> HIDE DEF since
<1>3. UTC(now') > since
  <2>1. UTC(now) \in Nat /\ UTC(now') \in Nat /\ UTC(now) <= UTC(now')
    BY <1>2, UTCKeepsOrder
  <2> QED
    BY <1>1, <1>2, <2>1
<1>4. \A p \in Posts : post'[p].pc = "upsert" => UTC(post'[p].at) > since
  BY <1>1
<1>5. \A a \in Assets : rows'[a] # None =>
        client[c].copy[a] = rows'[a].data \/ UTC(rows'[a].at) > since
  BY <1>1
<1>6. UTC(now)' = UTC(now') /\ (\A p \in Posts : UTC(post[p].at)' = UTC(post'[p].at))
      /\ (\A a \in Assets : UTC(rows[a].at)' = UTC(rows'[a].at))
  BY DEF UTC
<1> QED
  BY <1>1, <1>3, <1>4, <1>5, <1>6 DEF Complete, since

\* A client that takes the rows when all was settled has them as they are, and
\* what is written later is of a later second.
LEMMA TakenIsComplete ==
  ASSUME TypeOK, NEW c \in Clients, ListMetadata(c), Complete(c)
  PROVE  Complete(c)'
<1> DEFINE latest == client[c].latest
           copy == [a \in Assets |-> IF replica[a] = None THEN None ELSE replica[a].data]
<1>1. /\ UNCHANGED <<now, known, rows, replica, post, posts, agreed>>
      /\ client \in [Clients -> Client] /\ latest \in 0..MaxTime \cup {None}
  BY DEF ListMetadata, TypeOK, Client
<1>2. CASE Fresh(client[c].since, latest)
  <2>1. client' = [client EXCEPT ![c] = [client[c] EXCEPT !.pc = "idle", !.latest = None]]
    BY <1>2 DEF ListMetadata, SetClient
  <2>2. /\ client'[c].since = client[c].since /\ client'[c].copy = client[c].copy
        /\ client'[c].sound = client[c].sound
    BY <1>1, <2>1 DEF Client
  <2> QED
    BY <1>1, <2>2 DEF Complete, UTC
<1>3. CASE ~Fresh(client[c].since, latest)
  <2> DEFINE new == [pc |-> "idle", latest |-> None, since |-> UTC(latest),
                     copy |-> copy, sound |-> Settled(latest)]
  <2>1. client' = [client EXCEPT ![c] = new]
    BY <1>3 DEF ListMetadata, SetClient
  <2>2. /\ client'[c].since = UTC(latest) /\ client'[c].copy = copy
        /\ client'[c].sound = Settled(latest)
    BY <1>1, <2>1
  <2> SUFFICES ASSUME Settled(latest) PROVE Complete(c)'
    BY <2>2 DEF Complete
  <2>3. /\ replica = rows /\ \A p \in Posts : post[p].pc # "upsert"
        /\ latest # None /\ UTC(latest) < UTC(now)
    BY DEF Settled
  <2>4. UTC(latest) \in Nat /\ UTC(now) \in Nat
    BY <1>1, <2>3, UTCOfDates, DatesAreNumbers
  <2>5. UTC(latest) # None /\ UTC(now) > UTC(latest)
    BY <2>3, <2>4, NoneIsNone
  <2>6. \A a \in Assets : rows[a] # None => copy[a] = rows[a].data
    BY <2>3
  <2> HIDE DEF copy, latest
  <2>7. UTC(now)' = UTC(now)
    BY <1>1 DEF UTC
  <2> QED
    BY <1>1, <2>2, <2>3, <2>5, <2>6, <2>7 DEF Complete
<1> QED
  BY <1>2, <1>3

LEMMA CopiesInvStep == TypeOK /\ TypeOK' /\ Under /\ CopiesInv /\ [Next]_vars => CopiesInv'
<1> SUFFICES ASSUME TypeOK, TypeOK', Under, CopiesInv, [Next]_vars, NEW c \in Clients
             PROVE  Complete(c)'
  BY DEF CopiesInv
<1>1. Complete(c)
  BY DEF CopiesInv
<1>2. now \in Nat
  BY DEF TypeOK
<1>3. CASE Tick
  BY <1>1, <1>2, <1>3, CopyStaysComplete DEF Tick
<1>4. CASE UNCHANGED <<now, rows, post, client>>
  BY <1>1, <1>2, <1>4, CopyStaysComplete
<1>5. CASE CreateAsset \/ Replicate \/ UNCHANGED vars
  BY <1>4, <1>5 DEF CreateAsset, Replicate, vars
<1>6. ASSUME NEW p \in Posts, Receive(p) PROVE Complete(c)'
  <2>1. \A q \in Posts : post'[q].pc = "upsert" =>
          post[q].pc = "upsert" /\ post'[q].at = post[q].at
    <3>1. \A q \in Posts \ {p} : post'[q].pc = post[q].pc /\ post'[q].at = post[q].at
      BY <1>6, Received, ZenonT(30)
    <3>2. post'[p].pc = "stamp"
      BY <1>6, Received
    <3> QED
      BY <3>1, <3>2
  <2>2. UNCHANGED <<now, rows, client>>
    BY <1>6 DEF Receive
  <2> QED
    BY <1>1, <1>2, <2>1, <2>2, CopyStaysComplete
<1>7. ASSUME NEW p \in Posts, Stamp(p) PROVE Complete(c)'
  <2>1. post' = [post EXCEPT ![p] = [post[p] EXCEPT !.pc = "upsert", !.at = now]]
        /\ UNCHANGED <<now, rows, client>>
    BY <1>7 DEF Stamp, SetPost
  <2>2. \A q \in Posts : (q = p /\ post'[q].at = now) \/ (q # p /\ post'[q] = post[q])
    <3>1. post \in [Posts -> Post] /\ post[p] \in Post
      BY DEF TypeOK
    <3>2. [post[p] EXCEPT !.pc = "upsert", !.at = now].at = now
      BY <3>1 DEF Post
    <3> QED
      BY <2>1, <3>1, <3>2
  <2>3. \A q \in Posts : post'[q].pc = "upsert" =>
          \/ post[q].pc = "upsert" /\ post'[q].at = post[q].at
          \/ post'[q].at = now
    BY <2>2
  <2> QED
    BY <1>1, <1>2, <2>1, <2>3, CopyStaysComplete
<1>8. ASSUME NEW p \in Posts, Upsert(p) PROVE Complete(c)'
  <2> DEFINE a == EntryOf(p).identifier
             row == [data |-> Written(EntryOf(p)), at |-> post[p].at]
  <2>1. /\ post[p].pc = "upsert" /\ a \in Assets
        /\ rows' = IF a \in known THEN [rows EXCEPT ![a] = row] ELSE rows
        /\ UNCHANGED <<now, client>>
    BY <1>8, EntryIsEntry DEF Upsert
  <2>2. \A q \in Posts : post'[q].pc = "upsert" =>
          post[q].pc = "upsert" /\ post'[q].at = post[q].at
    <3>1. post'[p].pc = "stamp" /\ \A q \in Posts \ {p} : post'[q] = post[q]
      BY <1>8 DEF Upsert, SetPost, TypeOK, Post
    <3> QED
      BY <3>1
  <2>3. row.at = post[p].at
    OBVIOUS
  <2> HIDE DEF a, row
  <2>4. \A b \in Assets : rows'[b] # None =>
          \/ rows[b] # None /\ rows'[b] = rows[b]
          \/ \E q \in Posts : post[q].pc = "upsert" /\ rows'[b].at = post[q].at
    BY <2>1, <2>3 DEF TypeOK, Table
  <2> QED
    BY <1>1, <1>2, <2>1, <2>2, <2>4, CopyStaysComplete
<1>9. ASSUME NEW p \in Posts, DeleteUnverified(p) \/ Fail(p) PROVE Complete(c)'
  <2>1. post'[p].pc = "idle" /\ \A q \in Posts \ {p} : post'[q] = post[q]
    BY <1>9, PostEnds DEF DeleteUnverified, Fail
  <2>2. \A q \in Posts : post'[q].pc = "upsert" =>
          post[q].pc = "upsert" /\ post'[q].at = post[q].at
    BY <2>1
  <2>3. /\ UNCHANGED <<now, client>>
        /\ \A b \in Assets : rows'[b] # None => rows[b] # None /\ rows'[b] = rows[b]
    BY <1>9 DEF DeleteUnverified, Fail
  <2> QED
    BY <1>1, <1>2, <2>2, <2>3, CopyStaysComplete
<1>10. ASSUME NEW d \in Clients, Ask(d) PROVE Complete(c)'
  <2>1. /\ UNCHANGED <<now, rows, post>>
        /\ \/ client' = [client EXCEPT ![d] = client[d]]
           \/ client' = [client EXCEPT ![d] = [client[d] EXCEPT !.pc = "list",
                                                 !.latest = LastMetadataUpdate]]
    BY <1>10 DEF Ask, SetClient
  <2>2. /\ client'[c].since = client[c].since /\ client'[c].copy = client[c].copy
        /\ client'[c].sound = client[c].sound
    <3>1. client \in [Clients -> Client] /\ client[d] \in Client
      BY DEF TypeOK
    <3> DEFINE new == [client[d] EXCEPT !.pc = "list", !.latest = LastMetadataUpdate]
    <3>2. new.since = client[d].since /\ new.copy = client[d].copy /\ new.sound = client[d].sound
      BY <3>1 DEF Client
    <3> HIDE DEF new
    <3>3. client' = [client EXCEPT ![d] = client[d]] \/ client' = [client EXCEPT ![d] = new]
      BY <2>1 DEF new
    <3> QED
      BY <3>1, <3>2, <3>3
  <2> QED
    BY <1>1, <2>1, <2>2 DEF Complete, UTC
<1>11. ASSUME NEW d \in Clients, ListMetadata(d) PROVE Complete(c)'
  <2>1. CASE d = c
    BY <1>1, <1>11, <2>1, TakenIsComplete
  <2>2. CASE d # c
    <3>1. UNCHANGED <<now, rows, post>> /\ client'[c] = client[c]
      BY <1>11, <2>2 DEF ListMetadata, SetClient, TypeOK
    <3> QED
      BY <1>1, <3>1 DEF Complete, UTC
  <2> QED
    BY <2>1, <2>2
<1> QED
  BY <1>3, <1>5, <1>6, <1>7, <1>8, <1>9, <1>10, <1>11 DEF Next

\* A copy whose date is no earlier than the latest second has what there is.
LEMMA FreshIsWhole ==
  ASSUME TypeOK, NEW c \in Clients, Complete(c), client[c].sound,
         Fresh(client[c].since, LastMetadataUpdate),
         NEW a \in Assets, rows[a] # None
  PROVE  client[c].copy[a] = rows[a].data
<1> DEFINE since == client[c].since
           last == LastMetadataUpdate
<1>1. /\ since # None /\ last # None /\ since >= UTC(last) /\ since \in 0..MaxTime
  BY DatesAreNumbers DEF Fresh
<1>2. last \in 0..MaxTime /\ last >= rows[a].at /\ rows[a].at \in 0..MaxTime
  BY <1>1, LastUpdateIsLast, DatesAreNumbers
<1> HIDE DEF last
<1>3. /\ UTC(rows[a].at) \in Nat /\ UTC(last) \in Nat /\ since \in Nat
      /\ UTC(rows[a].at) <= UTC(last)
  <2>1. rows[a].at \in Nat /\ last \in Nat /\ rows[a].at <= last /\ since \in Nat
    BY <1>1, <1>2
  <2> QED
    BY <2>1, UTCKeepsOrder
<1>4. ~(UTC(rows[a].at) > since)
  BY <1>1, <1>3
<1> QED
  BY <1>4 DEF Complete

-----------------------------------------------------------------------------
(* The theorems.                                                           *)

VerifiedInv == TypeOK /\ ListsInv /\ CopiesInv

LEMMA VerifiedAlways == Spec => []VerifiedInv
<1>1. Init => VerifiedInv
  BY TypeOKInit, ListsInvInit, CopiesInvInit DEF VerifiedInv
<1>2. VerifiedInv /\ [Next]_vars => VerifiedInv'
  <2> SUFFICES ASSUME VerifiedInv, [Next]_vars PROVE VerifiedInv'
    OBVIOUS
  <2>1. TypeOK /\ ListsInv /\ CopiesInv /\ Under
    BY DEF VerifiedInv, ListsInv
  <2>2. TypeOK'
    BY <2>1, TypeOKStep
  <2>3. ListsInv' /\ CopiesInv'
    BY <2>1, <2>2, ListsInvStep, CopiesInvStep
  <2> QED
    BY <2>2, <2>3 DEF VerifiedInv
<1> QED
  BY <1>1, <1>2, PTL DEF Spec

\* Rows, posts and clients have their types, and every verified asset exists
\* (assets.service.ts 248-291, schema.prisma 137-148).
THEOREM VerifiedTypeCorrect == Spec => []TypeOK
<1>1. VerifiedInv => TypeOK
  BY DEF VerifiedInv
<1> QED
  BY <1>1, VerifiedAlways, PTL

\* Once a post has ended that was not disturbed by one of another list, the table
\* has the assets of that list and of each the fields that the list gives,
\* whichever posts failed midway before, and whoever repeats the same list;
\* fields that it leaves out may be of an earlier list
\* (assets.controller.ts 182-203, assets.service.ts 248-291).
THEOREM TableIsLastPost == Spec => []LastPostHolds
<1>1. VerifiedInv => LastPostHolds
  BY DEF VerifiedInv, ListsInv
<1> QED
  BY <1>1, VerifiedAlways, PTL

\* A client told that its copy is not modified has every row as it is, if the
\* copy was settled when it was taken (assets.controller.ts 208-233,
\* request.ts 21-39).
THEOREM NotModifiedMeansWhole == Spec => NothingMissed
<1>1. VerifiedInv /\ [Next]_vars =>
        [\A c \in Clients :
           /\ Ask(c)
           /\ Fresh(client[c].since, LastMetadataUpdate)
           /\ client[c].sound
           => \A a \in Assets : rows[a] # None => client[c].copy[a] = rows[a].data]_vars
  BY FreshIsWhole DEF VerifiedInv, CopiesInv
<1> QED
  BY <1>1, VerifiedAlways, PTL DEF Spec, NothingMissed

=============================================================================
