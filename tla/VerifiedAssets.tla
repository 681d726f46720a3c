--------------------------- MODULE VerifiedAssets ---------------------------
(***************************************************************************)
(* The list of verified assets.  Curators post it whole                    *)
(* (POST /assets/verified): each asset is upserted by a statement of its   *)
(* own, then the rows of all others are deleted.  Clients keep a copy of   *)
(* it and ask for changes with If-Modified-Since                           *)
(* (GET /assets/verified_metadata), which two queries answer: the latest   *)
(* updated_at from the primary, then the rows from the read replica.       *)
(***************************************************************************)
EXTENDS Integers, Sequences, FiniteSets, FiniteSetsExt, SequencesExt

CONSTANTS Assets,   \* asset identifiers
          Symbols,
          Extras,   \* decimals, logo and website, which an entry may leave out
          None,     \* no row; a column that is null; a date that is not sent
          Undefined,  \* a field that is left out
          Lists,    \* the bodies POST /assets/verified may carry
          Posts,    \* the posts served at once
          Clients,
          Second,   \* clock ticks in a second, the unit of HTTP dates
          MaxPosts, MaxTime  \* bounds

Entry == [identifier : Assets, symbol : Symbols, extra : Extras \cup {None, Undefined}]
Data == [symbol : Symbols, extra : Extras \cup {None}]
Row == [data : Data, at : 0..MaxTime]

ASSUME VerifiedAssumption ==
  /\ None \notin Data \cup Nat \cup Row
  /\ Undefined \notin Extras \cup {None}
  /\ Lists \subseteq Seq(Entry)
  /\ \A list \in Lists : \A i, k \in 1..Len(list) :
       list[i].identifier = list[k].identifier => i = k
  /\ Second \in Nat \ {0}
  /\ {MaxPosts, MaxTime} \subseteq Nat

VARIABLES
  now,      \* the clock of the API processes
  known,    \* identifiers of the rows of "assets"
  rows,     \* "verified_asset_metadata" on the primary
  replica,  \* the read replica's copy of it
  post,     \* the posts
  posts,    \* how many there were
  client,   \* the clients, and the request of each
  agreed    \* history: the list and the answer of the post that ended last, unless
            \* a post of another list ran at the same time or has begun since

vars == <<now, known, rows, replica, post, posts, client, agreed>>

Table == [Assets -> Row \cup {None}]

Post == [pc : {"idle", "stamp", "upsert"},
         list : Seq(Entry), nth : Nat,
         at : 0..MaxTime,         \* updated_at of the upsert at hand
         missing : SUBSET Assets, \* to be answered as missing
         alone : BOOLEAN]         \* history: no other list at the same time

Client == [pc : {"idle", "list"},
           latest : 0..MaxTime \cup {None}, \* what the first query found
           since : 0..MaxTime \cup {None},  \* Last-Modified of the copy
           copy : [Assets -> Data \cup {None}],
           sound : BOOLEAN]  \* history: see Settled

TypeOK ==
  /\ now \in 0..MaxTime
  /\ known \subseteq Assets
  /\ rows \in Table
  /\ \A a \in Assets : rows[a] # None => a \in known
  /\ replica \in Table
  /\ post \in [Posts -> Post]
  /\ posts \in 0..MaxPosts
  /\ client \in [Clients -> Client]
  /\ agreed \in [list : Lists, missing : SUBSET Assets] \cup {None}

Nothing == [a \in Assets |-> None]

Begun(pc, list, alone) ==
  [pc |-> pc, list |-> list, nth |-> 1, at |-> 0, missing |-> {}, alone |-> alone]

Init ==
  /\ now = 0
  /\ known = {}
  /\ rows = Nothing
  /\ replica = Nothing
  /\ post = [p \in Posts |-> Begun("idle", <<>>, TRUE)]
  /\ posts = 0
  /\ client = [c \in Clients |-> [pc |-> "idle", latest |-> None, since |-> None,
                                  copy |-> Nothing, sound |-> FALSE]]
  /\ agreed = None

-----------------------------------------------------------------------------
Tick ==
  /\ now < MaxTime
  /\ now' = now + 1
  /\ UNCHANGED <<known, rows, replica, post, posts, client, agreed>>

\* The worker has loaded the first mint of an asset.  Nothing deletes one.
CreateAsset ==
  /\ \E a \in Assets \ known : known' = known \cup {a}
  /\ UNCHANGED <<now, rows, replica, post, posts, client, agreed>>

Replicate ==
  /\ replica # rows
  /\ replica' = rows
  /\ UNCHANGED <<now, known, rows, post, posts, client, agreed>>

-----------------------------------------------------------------------------
Running(p) == post[p].pc # "idle"
Listed(list) == {list[i].identifier : i \in DOMAIN list}
EntryOf(p) == post[p].list[post[p].nth]

SetPost(p, new) == post' = [post EXCEPT ![p] = new]

\* POST /assets/verified arrives.
Receive(p) ==
  /\ ~Running(p)
  /\ posts < MaxPosts
  /\ posts' = posts + 1
  /\ \E list \in Lists :
       LET others == {q \in Posts \ {p} : Running(q) /\ post[q].list # list}
       IN /\ post' = [q \in Posts |->
                       IF q = p
                       THEN Begun("stamp", list, others = {})
                       ELSE [post[q] EXCEPT !.alone = @ /\ q \notin others]]
          /\ agreed' = IF agreed # None /\ agreed.list = list THEN agreed ELSE None
  /\ UNCHANGED <<now, known, rows, replica, client>>

\* The next upsert: Prisma sets updated_at before it sends the statement.
Stamp(p) ==
  /\ post[p].pc = "stamp"
  /\ post[p].nth <= Len(post[p].list)
  /\ SetPost(p, [post[p] EXCEPT !.pc = "upsert", !.at = now])
  /\ UNCHANGED <<now, known, rows, replica, posts, client, agreed>>

\* What the statement writes: Prisma leaves a column alone, on a new row null,
\* whose field is undefined.
Written(entry) ==
  [symbol |-> entry.symbol,
   extra |-> IF entry.extra # Undefined THEN entry.extra
             ELSE IF rows[entry.identifier] = None THEN None
             ELSE rows[entry.identifier].data.extra]

\* Mutant: as for assets, the upsert leaves a row that exists alone.
MutUpsertKeepsRow(p) ==
  /\ post[p].pc = "upsert"
  /\ LET a == EntryOf(p).identifier
     IN /\ rows' = IF a \in known /\ rows[a] = None
                   THEN [rows EXCEPT ![a] = [data |-> Written(EntryOf(p)), at |-> post[p].at]]
                   ELSE rows
        /\ SetPost(p, [post[p] EXCEPT !.pc = "stamp", !.nth = @ + 1, !.at = 0,
                         !.missing = IF a \in known THEN @ ELSE @ \cup {a}])
  /\ UNCHANGED <<now, known, replica, posts, client, agreed>>

\* Mutant: the foreign key is not there, as for a column that is no relation.
MutUpsertUnknown(p) ==
  /\ post[p].pc = "upsert"
  /\ rows' = [rows EXCEPT ![EntryOf(p).identifier] = [data |-> Written(EntryOf(p)),
                                                      at |-> post[p].at]]
  /\ SetPost(p, [post[p] EXCEPT !.pc = "stamp", !.nth = @ + 1, !.at = 0])
  /\ UNCHANGED <<now, known, replica, posts, client, agreed>>

\* Mutant: an update keeps updated_at, as a column without @updatedAt does.
MutUpsertKeepsDate(p) ==
  /\ post[p].pc = "upsert"
  /\ LET a == EntryOf(p).identifier
         at == IF rows[a] = None THEN post[p].at ELSE rows[a].at
     IN /\ rows' = IF a \in known
                   THEN [rows EXCEPT ![a] = [data |-> Written(EntryOf(p)), at |-> at]]
                   ELSE rows
        /\ SetPost(p, [post[p] EXCEPT !.pc = "stamp", !.nth = @ + 1, !.at = 0,
                         !.missing = IF a \in known THEN @ ELSE @ \cup {a}])
  /\ UNCHANGED <<now, known, replica, posts, client, agreed>>

\* The statement; an asset that does not exist violates the foreign key
\* (P2003), which is reported as missing.
Upsert(p) ==
  /\ post[p].pc = "upsert"
  /\ LET a == EntryOf(p).identifier
     IN /\ rows' = IF a \in known
                   THEN [rows EXCEPT ![a] = [data |-> Written(EntryOf(p)), at |-> post[p].at]]
                   ELSE rows
        /\ SetPost(p, [post[p] EXCEPT !.pc = "stamp", !.nth = @ + 1, !.at = 0,
                         !.missing = IF a \in known THEN @ ELSE @ \cup {a}])
  /\ UNCHANGED <<now, known, replica, posts, client, agreed>>

\* One statement deletes every row that is not listed; the post is answered.
DeleteUnverified(p) ==
  /\ post[p].pc = "stamp"
  /\ post[p].nth > Len(post[p].list)
  /\ rows' = [a \in Assets |-> IF a \in Listed(post[p].list) THEN rows[a] ELSE None]
  /\ SetPost(p, Begun("idle", <<>>, TRUE))
  /\ agreed' = IF post[p].alone
               THEN [list |-> post[p].list, missing |-> post[p].missing] ELSE None
  /\ UNCHANGED <<now, known, replica, posts, client>>

\* A statement fails or the process dies: what was done stays.
Fail(p) ==
  /\ Running(p)
  /\ SetPost(p, Begun("idle", <<>>, TRUE))
  /\ UNCHANGED <<now, known, rows, replica, posts, client, agreed>>

-----------------------------------------------------------------------------
\* Of a list's rows, the latest updated_at; null when there are none.
LastMetadataUpdate ==
  LET dates == {rows[a].at : a \in {b \in Assets : rows[b] # None}}
  IN IF dates = {} THEN None ELSE Max(dates)

\* toUTCString drops the fraction of a second.
UTC(date) == IF date = None THEN None ELSE date - (date % Second)

\* The exception that handleIfModifiedSince throws.
NotModified(since, latest) == since # None /\ latest # None /\ since >= latest

\* What res.json does with a Last-Modified header and an If-Modified-Since: it
\* compares the dates of the two headers, and sends a 304 without the body.
Fresh(since, latest) == since # None /\ latest # None /\ since >= UTC(latest)

\* Nothing is on its way that the latest date does not show: the replica has
\* every row, no statement has a date but is not committed, and the second of
\* the latest date is over.
Settled(latest) ==
  /\ replica = rows
  /\ \A p \in Posts : post[p].pc # "upsert"
  /\ latest # None
  /\ UTC(latest) < UTC(now)

SetClient(c, new) == client' = [client EXCEPT ![c] = new]

\* A client asks, with the date of its copy if that has one.
Ask(c) ==
  /\ client[c].pc = "idle"
  /\ SetClient(c, IF NotModified(client[c].since, LastMetadataUpdate)
                  THEN client[c]
                  ELSE [client[c] EXCEPT !.pc = "list", !.latest = LastMetadataUpdate])
  /\ UNCHANGED <<now, known, rows, replica, post, posts, agreed>>

\* The rows are read and the request answered.
ListMetadata(c) ==
  /\ client[c].pc = "list"
  /\ SetClient(c, IF Fresh(client[c].since, client[c].latest)
                  THEN [client[c] EXCEPT !.pc = "idle", !.latest = None]
                  ELSE [pc |-> "idle", latest |-> None, since |-> UTC(client[c].latest),
                        copy |-> [a \in Assets |-> IF replica[a] = None THEN None
                                                   ELSE replica[a].data],
                        sound |-> Settled(client[c].latest)])
  /\ UNCHANGED <<now, known, rows, replica, post, posts, agreed>>

-----------------------------------------------------------------------------
Next ==
  \/ Tick \/ CreateAsset \/ Replicate
  \/ \E p \in Posts : Receive(p) \/ Stamp(p) \/ Upsert(p) \/ DeleteUnverified(p) \/ Fail(p)
  \/ \E c \in Clients : Ask(c) \/ ListMetadata(c)

Spec == Init /\ [][Next]_vars

-----------------------------------------------------------------------------
\* A row holds what an entry gives; what the entry leaves out is as it was.
Holds(data, entry) ==
  /\ data.symbol = entry.symbol
  /\ entry.extra # Undefined => data.extra = entry.extra

\* The table is what the last post said it is, once it has ended and unless a
\* post of another list ran at the same time or has begun since, whichever
\* posts failed midway before: no other asset is verified, each has every field
\* that its entry gives (one that the entry leaves out may be of an earlier
\* list), and those not verified are those answered as missing
\* (assets.controller.ts 182-203, assets.service.ts 248-291).
LastPostHolds ==
  agreed # None =>
    /\ \A a \in Assets : rows[a] # None =>
         \E i \in DOMAIN agreed.list : /\ agreed.list[i].identifier = a
                                      /\ Holds(rows[a].data, agreed.list[i])
    /\ \A a \in Listed(agreed.list) \ agreed.missing : rows[a] # None

\* A client that is told its copy is not modified has every row there is, with
\* the data it has now, although the date of the copy is that of another query
\* on another server than its rows, and is cut to the second - when the copy
\* was settled as it was taken.  Rows it has that were deleted since are not
\* excluded (assets.controller.ts 208-233, request.ts 21-39).
NothingMissed ==
  [][\A c \in Clients :
       /\ Ask(c)
       /\ Fresh(client[c].since, LastMetadataUpdate)
       /\ client[c].sound
       => \A a \in Assets : rows[a] # None => client[c].copy[a] = rows[a].data]_vars

=============================================================================
