---------------------------- MODULE FaucetProofs ----------------------------
(***************************************************************************)
(* Proofs about FaucetTransactions, for any number of requests, processes  *)
(* and connections and any limit: how far the limit can be passed, that a  *)
(* request that comes after a row was completed is rejected, and what GET  *)
(* next and GET status answer while rows move on between their queries.    *)
(***************************************************************************)
EXTENDS FaucetTransactions, FiniteSetTheorems, SequenceTheorems, TLAPS

\* A request that was sent has a key; the controller makes sure of that.
Keyed == \A c \in Clients : c \in Waiting => client[c].key \in Keys

Inserting == {c \in Clients : client[c].pc = "insert"}
InsertingIn(process) == {c \in Inserting : ProcessOf[c] = process}

\* A process has a connection less for inserting than its pool holds: the last
\* of them to pass its count needed one of its own.
Connected ==
  \A process \in Processes : Cardinality(InsertingIn(process)) <= Pool - 1

\* The recent rows with a value in a column, and the requests that are past
\* their count and will add one.
RecentOf(column, v) == {i \in Ids : Recent(i) /\ rows[i][column] = v}
InsertingOf(column, v) == {c \in Inserting : client[c][column] = v}

Bounds == {Cardinality(Clients), Cardinality(Processes) * (Pool - 1)}

Values(column) == IF column = "email" THEN Emails ELSE Keys

Limited ==
  \A others \in Bounds, column \in {"email", "key"} : \A v \in Values(column) :
    Cardinality(RecentOf(column, v)) + Cardinality(InsertingOf(column, v))
      <= Limit - 1 + others

\* A request that found its row unfinished came before it was completed.
InTime ==
  \A o \in Operators :
    /\ op[o].pc = "find" /\ op[o].late => op[o].id \in Completed(rows)
    /\ op[o].pc \in {"update", "done"} => ~op[o].late

\* What GET next has found: rows that were started, so that the second query,
\* for rows that were not, does not find them again.
Found ==
  \A s \in Readers :
    LET got == reader[s].got
    IN /\ reader[s].pc = "nextRunning" => got = <<>>
       /\ reader[s].pc \in {"nextPending", "nextDone"} =>
            /\ Len(got) <= reader[s].count
            /\ \A i, k \in 1..Len(got) : got[i] = got[k] => i = k
       /\ reader[s].pc = "nextPending" =>
            \A i \in 1..Len(got) : got[i] \in Ids /\ rows[got[i]].started

\* What the replica has is there, and as far as it is started or completed.
Behind ==
  /\ Len(replica) <= Len(rows)
  /\ \A i \in 1..Len(replica) :
       /\ replica[i].started => rows[i].started
       /\ replica[i].completed => rows[i].completed

\* Of the rows the replica had when GET status arrived, those that the counts so
\* far have passed over are the ones that the counts to come find.
Asked(s) == 1..reader[s].asked
StatusSum ==
  \A s \in Readers :
    LET r == reader[s]
    IN /\ r.pc \in {"pending", "running", "completed"} => r.asked <= Len(replica)
       /\ r.pc = "running" => r.sum + Cardinality(Asked(s) \ Pending(replica)) >= r.asked
       /\ r.pc = "completed" => r.sum + Cardinality(Asked(s) \cap Completed(replica)) >= r.asked
       /\ r.pc = "statusDone" => r.sum >= r.asked

FaucetInv ==
  TypeOK /\ Keyed /\ Connected /\ Limited /\ InTime /\ Found /\ Behind /\ StatusSum

-----------------------------------------------------------------------------
(* Counting.                                                               *)

\* Clients of which each process has less than its connections are less than
\* the connections of all: each gets a number within its process.
LEMMA SpreadOverProcesses ==
  ASSUME NEW I \in SUBSET Clients,
         \A process \in Processes :
           Cardinality({c \in I : ProcessOf[c] = process}) <= Pool - 1
  PROVE  Cardinality(I) <= Cardinality(Processes) * (Pool - 1)
<1> DEFINE In(process) == {c \in I : ProcessOf[c] = process}
           Numbers == 1..(Pool - 1)
<1>1. /\ IsFiniteSet(Clients) /\ IsFiniteSet(Processes)
      /\ ProcessOf \in [Clients -> Processes] /\ Pool \in Nat \ {0}
  BY FaucetAssumption
<1>2. IsFiniteSet(Numbers) /\ Cardinality(Numbers) = Pool - 1
  <2> DEFINE n == Pool - 1
  <2>1. n \in Nat
    BY <1>1
  <2> HIDE DEF n
  <2>2. IsFiniteSet(1..n) /\ Cardinality(1..n) = n
    BY <2>1, FS_Interval
  <2> QED
    BY <2>2 DEF n
<1>3. ASSUME NEW process \in Processes
      PROVE  \E f \in [In(process) -> Numbers] :
               \A c, d \in In(process) : f[c] = f[d] => c = d
  <2> DEFINE n == Cardinality(In(process))
  <2>1. IsFiniteSet(In(process))
    <3>1. In(process) \in SUBSET Clients
      OBVIOUS
    <3> QED
      BY <1>1, <3>1, FS_Subset
  <2>2. n \in Nat /\ ExistsBijection(1..n, In(process))
    <3> HIDE DEF In
    <3> QED
      BY <2>1, FS_CardinalityType
  <2>3. n <= Pool - 1
    OBVIOUS
  <2> HIDE DEF n, In
  <2>4. PICK b \in Bijection(1..n, In(process)) : TRUE
    BY <2>2 DEF ExistsBijection
  <2>5. /\ b \in [1..n -> In(process)]
        /\ \A c \in In(process) : \E k \in 1..n : b[k] = c
    BY <2>4 DEF Bijection, Surjection
  <2> DEFINE f == [c \in In(process) |-> CHOOSE k \in 1..n : b[k] = c]
  <2>6. \A c \in In(process) : f[c] \in 1..n /\ b[f[c]] = c
    BY <2>5
  <2>7. 1..n \subseteq Numbers
    BY <1>1, <2>2, <2>3
  <2>8. f \in [In(process) -> Numbers]
    BY <2>6, <2>7
  <2>9. \A c, d \in In(process) : f[c] = f[d] => c = d
    BY <2>6
  <2> QED
    BY <2>8, <2>9
<1> DEFINE F(process) == CHOOSE f \in [In(process) -> Numbers] :
                           \A c, d \in In(process) : f[c] = f[d] => c = d
           g == [c \in I |-> <<ProcessOf[c], F(ProcessOf[c])[c]>>]
<1>4. \A process \in Processes :
        /\ F(process) \in [In(process) -> Numbers]
        /\ \A c, d \in In(process) : F(process)[c] = F(process)[d] => c = d
  BY <1>3
<1>5. \A c \in I : c \in In(ProcessOf[c]) /\ ProcessOf[c] \in Processes
  BY <1>1
<1> HIDE DEF F, In, Numbers
<1>6. g \in [I -> Processes \X Numbers]
  BY <1>4, <1>5
<1>7. \A c, d \in I : g[c] = g[d] => c = d
  BY <1>4, <1>5
<1>8. g \in Injection(I, Processes \X Numbers)
  BY <1>6, <1>7 DEF Injection, IsInjective
<1>9. /\ IsFiniteSet(Processes \X Numbers)
      /\ Cardinality(Processes \X Numbers) = Cardinality(Processes) * (Pool - 1)
  BY <1>1, <1>2, FS_Product
<1> HIDE DEF g
<1>10. Cardinality(I) <= Cardinality(Processes \X Numbers)
  BY <1>8, <1>9, FS_Injection
<1> QED
  BY <1>9, <1>10

LEMMA BoundsAreNumbers ==
  /\ \A others \in Bounds : others \in Nat
  /\ Limit \in Nat /\ Limit >= 1 /\ Pool \in Nat /\ Pool >= 1 /\ Window \in Nat
<1>1. Limit \in Nat /\ Limit >= 1 /\ Pool \in Nat /\ Pool >= 1 /\ Window \in Nat
  BY FaucetAssumption
<1>2. Cardinality(Clients) \in Nat /\ Cardinality(Processes) \in Nat
  BY FaucetAssumption, FS_CardinalityType
<1>3. Pool - 1 \in Nat
  BY <1>1
<1>4. Cardinality(Processes) * (Pool - 1) \in Nat
  <2> DEFINE n == Pool - 1
             m == Cardinality(Processes)
  <2> HIDE DEF n, m
  <2>1. n \in Nat /\ m \in Nat
    BY <1>2, <1>3 DEF n, m
  <2>2. m * n \in Nat
    BY <2>1
  <2> QED
    BY <2>2 DEF n, m
<1> QED
  BY <1>1, <1>2, <1>4 DEF Bounds

LEMMA InsertingBound ==
  ASSUME NEW I \in SUBSET Clients,
         \A process \in Processes :
           Cardinality({c \in I : ProcessOf[c] = process}) <= Pool - 1,
         NEW others \in Bounds
  PROVE  Cardinality(I) <= others
<1>1. Cardinality(I) <= Cardinality(Clients)
  BY FaucetAssumption, FS_Subset
<1>2. Cardinality(I) <= Cardinality(Processes) * (Pool - 1)
  BY SpreadOverProcesses
<1> QED
  BY <1>1, <1>2 DEF Bounds

\* Smaller sets have no more elements, and clients are finitely many.
LEMMA FewerClients ==
  ASSUME NEW A \in SUBSET Clients, NEW B \in SUBSET A
  PROVE  /\ IsFiniteSet(A) /\ IsFiniteSet(B)
         /\ Cardinality(A) \in Nat /\ Cardinality(B) \in Nat
         /\ Cardinality(B) <= Cardinality(A)
<1>1. IsFiniteSet(A)
  BY FaucetAssumption, FS_Subset
<1>2. IsFiniteSet(B) /\ Cardinality(B) <= Cardinality(A)
  BY <1>1, FS_Subset
<1> QED
  BY <1>1, <1>2, FS_CardinalityType

LEMMA FewerIds ==
  ASSUME NEW n \in Nat, NEW A \in SUBSET (1..n), NEW B \in SUBSET A
  PROVE  /\ IsFiniteSet(A) /\ IsFiniteSet(B)
         /\ Cardinality(A) \in Nat /\ Cardinality(B) \in Nat
         /\ Cardinality(B) <= Cardinality(A)
<1>1. IsFiniteSet(1..n)
  BY FS_Interval
<1>2. IsFiniteSet(A)
  BY <1>1, FS_Subset
<1>3. IsFiniteSet(B) /\ Cardinality(B) <= Cardinality(A)
  BY <1>2, FS_Subset
<1> QED
  BY <1>2, <1>3, FS_CardinalityType

-----------------------------------------------------------------------------
(* Types, and what becomes of the rows.                                    *)

LEMMA FaucetTypeInit == Init => TypeOK
<1> SUFFICES ASSUME Init PROVE TypeOK
  OBVIOUS
<1>1. client \in [Clients -> Client]
  BY DEF Init, Client
<1>2. op \in [Operators -> Operator] /\ \A o \in Operators : op[o].pc = "idle"
  BY DEF Init, Operator
<1>3. reader \in [Readers -> Reader]
  BY DEF Init, Reader
<1>4. now \in Nat /\ rows \in Seq(Row) /\ replica \in Seq(Row)
  BY DEF Init
<1> QED
  BY <1>1, <1>2, <1>3, <1>4 DEF TypeOK

\* Rows stay, and keep what the requests that made them gave; a row that was
\* started or completed remains so.
RowsKept ==
  /\ rows' \in Seq(Row)
  /\ Len(rows) \in Nat /\ Len(rows') \in Nat /\ Len(rows) <= Len(rows')
  /\ \A i \in Ids :
       /\ rows'[i].created = rows[i].created
       /\ rows'[i].email = rows[i].email /\ rows'[i].key = rows[i].key
       /\ rows[i].started => rows'[i].started
       /\ rows[i].completed => rows'[i].completed

LEMMA InsertAppends ==
  ASSUME TypeOK, Keyed, NEW c \in Clients, Insert(c)
  PROVE  /\ RowsKept
         /\ Len(rows') = Len(rows) + 1
         /\ rows'[Len(rows) + 1].email = client[c].email
         /\ rows'[Len(rows) + 1].key = client[c].key
<1> DEFINE row == [created |-> now, email |-> client[c].email,
                   key |-> client[c].key, started |-> FALSE,
                   completed |-> FALSE, tries |-> 0, hash |-> None]
<1>1. client[c] \in Client /\ client[c].key \in Keys /\ now \in Nat
  BY DEF Insert, TypeOK, Keyed, Waiting
<1>2. row \in Row
  BY <1>1 DEF Row, Client
<1>3. rows' = Append(rows, row) /\ rows \in Seq(Row)
  BY DEF Insert, TypeOK
<1>4. row.email = client[c].email /\ row.key = client[c].key
  OBVIOUS
<1> HIDE DEF row
<1>5. /\ rows' \in Seq(Row) /\ Len(rows) \in Nat /\ Len(rows') = Len(rows) + 1
      /\ \A i \in 1..Len(rows) : rows'[i] = rows[i]
      /\ rows'[Len(rows) + 1] = row
  BY <1>2, <1>3
<1> QED
  BY <1>4, <1>5 DEF RowsKept, Ids

LEMMA UpdateKeeps ==
  ASSUME TypeOK, NEW o \in Operators, StartRow(o) \/ CompleteRow(o)
  PROVE  /\ RowsKept
         /\ Len(rows') = Len(rows)
         /\ op[o].pc = "update" /\ op[o].id \in Ids
<1> DEFINE id == op[o].id
<1>1. id \in Ids /\ rows \in Seq(Row) /\ op[o] \in Operator /\ Len(rows) \in Nat
      /\ op[o].pc = "update"
  BY DEF TypeOK, StartRow, CompleteRow, Ids
<1>2. rows[id] \in Row /\ rows \in [1..Len(rows) -> Row]
  BY <1>1, LenProperties, ElementOfSeq DEF Ids
<1>3. \E new \in Row :
        /\ rows' = [rows EXCEPT ![id] = new]
        /\ new.created = rows[id].created /\ new.email = rows[id].email
        /\ new.key = rows[id].key
        /\ rows[id].started => new.started
        /\ rows[id].completed => new.completed
  <2>1. CASE StartRow(o)
    <3> DEFINE new == [rows[id] EXCEPT !.started = TRUE, !.tries = rows[id].tries + 1]
    <3>1. rows' = [rows EXCEPT ![id] = new]
      BY <1>1, <1>2, <2>1 DEF StartRow, Row, Ids
    <3>2. /\ new \in Row
          /\ new.created = rows[id].created /\ new.email = rows[id].email
          /\ new.key = rows[id].key /\ new.started = TRUE
          /\ new.completed = rows[id].completed
      <4> DEFINE tries == rows[id].tries + 1
      <4>1. tries \in Nat
        BY <1>2 DEF Row
      <4> HIDE DEF tries
      <4>2. [rows[id] EXCEPT !.started = TRUE, !.tries = tries] \in Row
        BY <1>2, <4>1 DEF Row
      <4>3. new = [rows[id] EXCEPT !.started = TRUE, !.tries = tries]
        BY DEF tries
      <4> HIDE DEF new
      <4> QED
        BY <1>2, <4>2, <4>3 DEF Row
    <3> QED
      BY <3>1, <3>2
  <2>2. CASE CompleteRow(o)
    <3> DEFINE hash == IF op[o].hash = None THEN rows[id].hash ELSE op[o].hash
               new == [rows[id] EXCEPT !.completed = TRUE, !.hash = hash]
    <3>1. rows' = [rows EXCEPT ![id] = new]
      <4>1. rows' = [[rows EXCEPT ![id].completed = TRUE] EXCEPT
                       ![id].hash = IF op[o].hash = None THEN @ ELSE op[o].hash]
        BY <2>2 DEF CompleteRow
      <4> DEFINE once == [rows EXCEPT ![id].completed = TRUE]
                 mid == [rows[id] EXCEPT !.completed = TRUE]
      <4>2. once = [rows EXCEPT ![id] = mid] /\ once[id] = mid /\ mid.hash = rows[id].hash
        BY <1>1, <1>2 DEF Row, Ids
      <4>3. rows' = [once EXCEPT ![id].hash = hash]
        BY <4>1, <4>2
      <4>4. new = [mid EXCEPT !.hash = hash]
        BY <1>2 DEF Row
      <4> HIDE DEF hash, mid, once, new
      <4>5. rows' = [once EXCEPT ![id] = new]
        BY <1>1, <4>2, <4>3, <4>4
      <4>6. once = [rows EXCEPT ![id] = mid]
        BY <4>2
      <4> QED
        BY <1>1, <1>2, <4>5, <4>6 DEF Ids
    <3>2. hash \in Hashes \cup {None}
      BY <1>1, <1>2 DEF Operator, Row
    <3> HIDE DEF hash
    <3>3. /\ new \in Row
          /\ new.created = rows[id].created /\ new.email = rows[id].email
          /\ new.key = rows[id].key /\ new.completed /\ new.started = rows[id].started
      BY <1>2, <3>2 DEF Row
    <3> QED
      BY <3>1, <3>3
  <2> QED
    BY <2>1, <2>2
<1>4. PICK new \in Row :
        /\ rows' = [rows EXCEPT ![id] = new]
        /\ new.created = rows[id].created /\ new.email = rows[id].email
        /\ new.key = rows[id].key
        /\ rows[id].started => new.started
        /\ rows[id].completed => new.completed
  BY <1>3
<1>5. /\ rows' \in Seq(Row) /\ Len(rows') = Len(rows)
      /\ \A i \in Ids : rows'[i] = IF i = id THEN new ELSE rows[i]
  BY <1>1, <1>2, <1>4 DEF Ids
<1>6. RowsKept
  <2> HIDE DEF id
  <2> QED
    BY <1>1, <1>4, <1>5 DEF RowsKept
<1> QED
  BY <1>1, <1>5, <1>6

\* The rows a query takes are of those found, each once, and no more than asked.
LEMMA OldestAreFound ==
  ASSUME NEW n \in Nat, NEW found \in SUBSET (1..n), NEW max \in Nat,
         NEW ids \in Oldest(found, max)
  PROVE  /\ ids \in Seq(Nat) /\ Len(ids) \in Nat /\ Len(ids) <= max
         /\ \A i \in 1..Len(ids) : ids[i] \in found
         /\ \A i, k \in 1..Len(ids) : ids[i] = ids[k] => i = k
<1> DEFINE len == IF max < Cardinality(found) THEN max ELSE Cardinality(found)
<1>1. Cardinality(found) \in Nat
  BY FewerIds
<1>2. len \in Nat /\ len <= max
  BY <1>1
<1>3. /\ ids \in [1..len -> found]
      /\ \A i, k \in 1..len : i < k => ids[i] < ids[k]
  BY DEF Oldest
<1> HIDE DEF len
<1>4. found \subseteq Nat
  OBVIOUS
<1>5. ids \in [1..len -> Nat]
  BY <1>3, <1>4
<1>6. ids \in Seq(Nat) /\ Len(ids) = len
  BY <1>2, <1>5
<1>7. \A i, k \in 1..len : ids[i] = ids[k] => i = k
  <2> SUFFICES ASSUME NEW i \in 1..len, NEW k \in 1..len, ids[i] = ids[k], i # k
               PROVE  FALSE
    OBVIOUS
  <2>1. ids[i] \in Nat /\ ids[k] \in Nat
    BY <1>5
  <2>2. i < k \/ k < i
    BY <1>2
  <2> QED
    BY <1>3, <2>1, <2>2
<1> QED
  BY <1>2, <1>3, <1>6, <1>7

-----------------------------------------------------------------------------
(* The initial state, and the types from step to step.                     *)

LEMMA FaucetInit == Init => FaucetInv
<1> SUFFICES ASSUME Init PROVE FaucetInv
  OBVIOUS
<1>1. TypeOK
  BY FaucetTypeInit
<1>2. /\ \A c \in Clients : client[c].pc = "idle"
      /\ \A o \in Operators : op[o].pc = "idle"
      /\ \A s \in Readers : reader[s].pc = "idle"
      /\ Len(rows) = 0 /\ Len(replica) = 0
  BY DEF Init
<1>3. Keyed
  BY <1>2 DEF Keyed, Waiting
<1>4. /\ \A process : InsertingIn(process) = {}
      /\ \A column, v : InsertingOf(column, v) = {} /\ RecentOf(column, v) = {}
  BY <1>2 DEF InsertingIn, InsertingOf, Inserting, RecentOf, Ids
<1>5. Cardinality({}) = 0
  BY FS_EmptySet
<1>6. Connected
  <2>1. Pool - 1 >= 0
    BY BoundsAreNumbers
  <2> QED
    BY <1>4, <1>5, <2>1 DEF Connected
<1>7. Limited
  <2>1. \A others \in Bounds : 0 + 0 <= Limit - 1 + others
    BY BoundsAreNumbers
  <2> QED
    BY <1>4, <1>5, <2>1 DEF Limited
<1>8. InTime /\ Found /\ Behind /\ StatusSum
  BY <1>2 DEF InTime, Found, Behind, StatusSum
<1> QED
  BY <1>1, <1>3, <1>6, <1>7, <1>8 DEF FaucetInv

\* The steps that serve a create request and leave the rows alone.
Admit(c) == Open(c) \/ Count(c) \/ TimeOut(c)

\* The steps of the readers.
ReadStep(s) ==
  \/ Read(s) \/ NextRunning(s) \/ NextPending(s)
  \/ CountPending(s) \/ CountRunning(s) \/ CountCompleted(s)

LEMMA FaucetNext ==
  ASSUME Next
  PROVE  \/ \E c \in Clients : Ask(c) \/ Admit(c) \/ Insert(c)
         \/ \E o \in Operators : Call(o) \/ FindOrThrow(o) \/ StartRow(o) \/ CompleteRow(o)
         \/ \E s \in Readers : ReadStep(s)
         \/ Tick \/ Replicate
  BY DEF Next, Serve, Admit, ReadStep

LEMMA AdmitMoves ==
  ASSUME TypeOK, Keyed, NEW c \in Clients, Admit(c)
  PROVE  /\ c \in Waiting
         /\ client' \in [Clients -> Client]
         /\ \A d \in Clients : d # c => client'[d] = client[d]
         /\ client'[c].email = client[c].email /\ client'[c].key = client[c].key
         /\ client'[c].pc \in {"count", "insert", "refused", "failed"}
         /\ client'[c].pc = "insert" => Count(c)
         /\ UNCHANGED <<now, rows, replica, op, reader>>
<1>1. client \in [Clients -> Client] /\ client[c] \in Client
  BY DEF TypeOK
<1>2. PICK pc \in {"count", "insert", "refused", "failed"} :
        client' = [client EXCEPT ![c].pc = pc] /\ (pc = "insert" => Count(c))
  BY DEF Admit, Open, Count, TimeOut, Step
<1>3. client'[c] = [client[c] EXCEPT !.pc = pc]
  BY <1>1, <1>2
<1>4. /\ [client[c] EXCEPT !.pc = pc] \in Client
      /\ client'[c].email = client[c].email /\ client'[c].key = client[c].key
      /\ client'[c].pc = pc
  BY <1>1, <1>3 DEF Client
<1>5. client' \in [Clients -> Client] /\ \A d \in Clients : d # c => client'[d] = client[d]
  BY <1>1, <1>2, <1>3, <1>4
<1>6. c \in Waiting /\ UNCHANGED <<now, rows, replica, op, reader>>
  BY DEF Admit, Open, Count, TimeOut, Waiting
<1> QED
  BY <1>2, <1>4, <1>5, <1>6

LEMMA InsertMoves ==
  ASSUME TypeOK, NEW c \in Clients, Insert(c)
  PROVE  /\ client[c].pc = "insert"
         /\ client' \in [Clients -> Client]
         /\ \A d \in Clients : d # c => client'[d] = client[d]
         /\ client'[c].pc = "done"
         /\ UNCHANGED <<now, replica, op, reader>>
<1>1. client \in [Clients -> Client] /\ client[c] \in Client
  BY DEF TypeOK
<1>2. client' = [client EXCEPT ![c].pc = "done"]
  BY DEF Insert, Step
<1>3. client'[c] = [client[c] EXCEPT !.pc = "done"]
  BY <1>1, <1>2
<1>4. [client[c] EXCEPT !.pc = "done"] \in Client /\ client'[c].pc = "done"
  BY <1>1, <1>3 DEF Client
<1> QED
  BY <1>1, <1>2, <1>3, <1>4 DEF Insert

LEMMA AskMoves ==
  ASSUME TypeOK, NEW c \in Clients, Ask(c)
  PROVE  /\ client' \in [Clients -> Client]
         /\ \A d \in Clients : d # c => client'[d] = client[d]
         /\ client'[c].pc = "open" /\ client'[c].key \in Keys
         /\ UNCHANGED <<now, rows, replica, op, reader>>
<1>1. client \in [Clients -> Client]
  BY DEF TypeOK
<1>2. PICK email \in Emails \cup {None}, key \in Keys :
        client' = [client EXCEPT ![c] = [pc |-> "open", email |-> email, key |-> key]]
  BY DEF Ask
<1>3. [pc |-> "open", email |-> email, key |-> key] \in Client
  BY DEF Client
<1> QED
  BY <1>1, <1>2, <1>3 DEF Ask

LEMMA OperatorMoves ==
  ASSUME TypeOK, NEW o \in Operators,
         Call(o) \/ FindOrThrow(o) \/ StartRow(o) \/ CompleteRow(o)
  PROVE  /\ op' \in [Operators -> Operator]
         /\ \A q \in Operators : q # o => op'[q] = op[q]
         /\ op'[o].id \in Ids
         /\ \/ Call(o) /\ op'[o].pc = "find" /\ op'[o].late = (op'[o].id \in Completed(rows))
            \/ /\ FindOrThrow(o) /\ op[o].pc = "find"
               /\ op'[o].late = op[o].late /\ op'[o].id = op[o].id
               /\ op'[o].pc = IF op[o].id \in Completed(rows) THEN "rejected" ELSE "update"
            \/ /\ op[o].pc = "update" /\ op'[o].pc = "done"
               /\ op'[o].late = op[o].late
         /\ UNCHANGED <<now, replica, client, reader>>
<1>1. /\ op \in [Operators -> Operator] /\ op[o] \in Operator
      /\ op[o].pc # "idle" => op[o].id \in Ids
  BY DEF TypeOK, Ids
<1>2. Ids \subseteq Nat
  BY DEF Ids
<1>3. CASE Call(o)
  <2>1. PICK i \in Ids, does \in {"start", "complete"}, hash \in Hashes \cup {None} :
          op' = [op EXCEPT ![o] = [pc |-> "find", does |-> does, id |-> i,
                                   hash |-> hash, late |-> i \in Completed(rows)]]
    BY <1>3 DEF Call
  <2>2. (i \in Completed(rows)) \in BOOLEAN
    OBVIOUS
  <2> DEFINE new == [pc |-> "find", does |-> does, id |-> i,
                     hash |-> hash, late |-> i \in Completed(rows)]
  <2>3. /\ new \in Operator /\ new.id = i /\ new.pc = "find"
        /\ new.late = (i \in Completed(rows))
    BY <1>2, <2>2, Zenon DEF Operator
  <2> HIDE DEF new
  <2>4. op' = [op EXCEPT ![o] = new]
    BY <2>1 DEF new
  <2>5. op'[o] = new /\ op' \in [Operators -> Operator]
        /\ \A q \in Operators : q # o => op'[q] = op[q]
    BY <1>1, <2>3, <2>4
  <2> QED
    BY <1>3, <2>3, <2>5, Zenon DEF Call
<1>4. CASE FindOrThrow(o)
  <2> DEFINE pc == IF op[o].id \in Completed(rows) THEN "rejected" ELSE "update"
             new == [op[o] EXCEPT !.pc = pc]
  <2>1. op' = [op EXCEPT ![o] = new] /\ op[o].pc = "find"
    BY <1>1, <1>4 DEF FindOrThrow
  <2>2. pc \in {"rejected", "update"}
    OBVIOUS
  <2>3. /\ new \in Operator /\ new.pc = pc /\ new.late = op[o].late
        /\ new.id = op[o].id
    <3> HIDE DEF pc
    <3> QED
      BY <1>1, <2>2 DEF Operator
  <2>4. op'[o] = new /\ op' \in [Operators -> Operator]
        /\ \A q \in Operators : q # o => op'[q] = op[q]
    <3> HIDE DEF new
    <3> QED
      BY <1>1, <2>1, <2>3
  <2> QED
    BY <1>1, <1>4, <2>1, <2>3, <2>4 DEF FindOrThrow
<1>5. CASE StartRow(o) \/ CompleteRow(o)
  <2> DEFINE new == [op[o] EXCEPT !.pc = "done"]
  <2>1. op' = [op EXCEPT ![o] = new] /\ op[o].pc = "update"
    BY <1>1, <1>5 DEF StartRow, CompleteRow
  <2>2. /\ new \in Operator /\ new.pc = "done" /\ new.late = op[o].late
        /\ new.id = op[o].id
    BY <1>1 DEF Operator
  <2>3. op'[o] = new /\ op' \in [Operators -> Operator]
        /\ \A q \in Operators : q # o => op'[q] = op[q]
    <3> HIDE DEF new
    <3> QED
      BY <1>1, <2>1, <2>2
  <2> QED
    BY <1>1, <1>5, <2>1, <2>2, <2>3 DEF StartRow, CompleteRow
<1> QED
  BY <1>3, <1>4, <1>5

\* A count moves a reader on and adds the rows found to its sum.
Counts(s, found, from, to) ==
  /\ reader[s].pc = from /\ reader'[s].pc = to
  /\ Cardinality(found) \in Nat
  /\ reader'[s].sum = reader[s].sum + Cardinality(found)
  /\ reader'[s].asked = reader[s].asked

LEMMA CountMoves ==
  ASSUME TypeOK, NEW s \in Readers, NEW found \in SUBSET (1..Len(replica)),
         NEW from,
         NEW to \in {"running", "completed", "statusDone"},
         CountRows(s, found, from, to)
  PROVE  /\ reader' \in [Readers -> Reader]
         /\ \A q \in Readers : q # s => reader'[q] = reader[q]
         /\ Counts(s, found, from, to)
<1>1. reader \in [Readers -> Reader] /\ reader[s] \in Reader
  BY DEF TypeOK
<1>2. Cardinality(found) \in Nat
  <2>1. Len(replica) \in Nat
    BY DEF TypeOK
  <2> QED
    BY <2>1, FewerIds
<1> DEFINE sum == reader[s].sum + Cardinality(found)
           new == [reader[s] EXCEPT !.sum = sum, !.pc = to]
<1>3. sum \in Nat
  BY <1>1, <1>2 DEF Reader
<1>4. reader' = [reader EXCEPT ![s] = new] /\ reader[s].pc = from
  BY <1>1 DEF CountRows, Move
<1>5. /\ new \in Reader /\ new.pc = to /\ new.sum = sum
      /\ new.asked = reader[s].asked
  <2> HIDE DEF sum
  <2> QED
    BY <1>1, <1>3 DEF Reader
<1>6. /\ reader'[s] = new /\ reader' \in [Readers -> Reader]
      /\ \A q \in Readers : q # s => reader'[q] = reader[q]
  <2> HIDE DEF new
  <2> QED
    BY <1>1, <1>4, <1>5
<1> QED
  BY <1>2, <1>4, <1>5, <1>6 DEF Counts

\* The answer of the first query of GET next, and then of the second.
Takes(s, found, from, to) ==
  /\ reader[s].pc = from /\ reader'[s].pc \in to
  /\ reader'[s].count = reader[s].count
  /\ \E more \in Oldest(found, reader[s].count - Len(reader[s].got)) :
       reader'[s].got = reader[s].got \o more

LEMMA ReaderMoves ==
  ASSUME TypeOK, Found, NEW s \in Readers, ReadStep(s)
  PROVE  /\ reader' \in [Readers -> Reader]
         /\ \A q \in Readers : q # s => reader'[q] = reader[q]
         /\ \/ /\ reader'[s].pc \in {"nextRunning", "pending"} /\ reader'[s].got = <<>>
               /\ reader'[s].pc = "pending" => reader'[s].asked = Len(replica)
            \/ Takes(s, InProgress(rows), "nextRunning", {"nextPending", "nextDone"})
            \/ Takes(s, Pending(rows), "nextPending", {"nextDone"})
            \/ Counts(s, Pending(replica), "pending", "running")
            \/ Counts(s, InProgress(replica), "running", "completed")
            \/ Counts(s, Completed(replica), "completed", "statusDone")
         /\ UNCHANGED <<now, rows, replica, client, op>>
<1>1. /\ reader \in [Readers -> Reader] /\ reader[s] \in Reader
      /\ reader[s].got \in Seq(Nat) /\ reader[s].count \in Nat
      /\ Len(rows) \in Nat /\ Len(reader[s].got) \in Nat
  BY DEF TypeOK, Reader
<1>2. UNCHANGED <<now, rows, replica, client, op>>
  BY DEF ReadStep, Read, NextRunning, NextPending, CountPending, CountRunning,
         CountCompleted, CountRows
<1>3. /\ InProgress(rows) \in SUBSET Ids /\ Pending(rows) \in SUBSET Ids
      /\ InProgress(replica) \in SUBSET (1..Len(replica))
      /\ Pending(replica) \in SUBSET (1..Len(replica))
      /\ Completed(replica) \in SUBSET (1..Len(replica))
  BY DEF InProgress, Pending, Completed, Ids
<1>4. CASE Read(s)
  <2>1. PICK pc \in {"nextRunning", "pending"}, count \in Nat, asked \in Nat :
          /\ Move(s, [pc |-> pc, count |-> count, got |-> <<>>, sum |-> 0, asked |-> asked])
          /\ pc = "pending" => asked = Len(replica)
    <3>1. Len(replica) \in Nat /\ 1..MaxCount \subseteq Nat
      BY DEF TypeOK
    <3> QED
      BY <1>4, <3>1 DEF Read
  <2> DEFINE new == [pc |-> pc, count |-> count, got |-> <<>>, sum |-> 0, asked |-> asked]
  <2>2. new \in Reader /\ new.pc = pc /\ new.got = <<>> /\ new.asked = asked
    BY DEF Reader
  <2> HIDE DEF new
  <2>3. reader' = [reader EXCEPT ![s] = new]
    BY <2>1 DEF new, Move
  <2>4. /\ reader'[s] = new /\ reader' \in [Readers -> Reader]
        /\ \A q \in Readers : q # s => reader'[q] = reader[q]
    BY <1>1, <2>2, <2>3
  <2> QED
    BY <1>2, <2>1, <2>2, <2>4
<1>5. ASSUME NEW found \in SUBSET Ids, NEW from,
             NEW more \in Oldest(found, reader[s].count - Len(reader[s].got)),
             NEW pc \in {"nextPending", "nextDone"},
             NEW to, pc \in to, reader[s].pc = from,
             reader[s].count - Len(reader[s].got) \in Nat,
             reader' = [reader EXCEPT ![s] = [reader[s] EXCEPT
                          !.got = reader[s].got \o more, !.pc = pc]]
      PROVE  /\ reader' \in [Readers -> Reader]
             /\ \A q \in Readers : q # s => reader'[q] = reader[q]
             /\ Takes(s, found, from, to)
  <2>1. more \in Seq(Nat)
    <3> DEFINE n == Len(rows)
               max == reader[s].count - Len(reader[s].got)
    <3>1. /\ n \in Nat /\ max \in Nat /\ found \in SUBSET (1..n)
          /\ more \in Oldest(found, max)
      BY <1>1, <1>5 DEF Ids
    <3> HIDE DEF n, max
    <3> QED
      BY <3>1, OldestAreFound
  <2> DEFINE got == reader[s].got \o more
             new == [reader[s] EXCEPT !.got = got, !.pc = pc]
  <2>2. got \in Seq(Nat)
    BY <1>1, <2>1
  <2>3. new \in Reader /\ new.pc = pc /\ new.got = got /\ new.count = reader[s].count
    <3> HIDE DEF got
    <3> QED
      BY <1>1, <2>2 DEF Reader
  <2>4. /\ reader'[s] = new /\ reader' \in [Readers -> Reader]
        /\ \A q \in Readers : q # s => reader'[q] = reader[q]
    <3> HIDE DEF new
    <3>1. reader' = [reader EXCEPT ![s] = new]
      BY <1>5 DEF new
    <3> QED
      BY <1>1, <3>1, <2>3
  <2> QED
    BY <1>5, <2>3, <2>4 DEF Takes
<1>6. CASE NextRunning(s)
  <2>1. reader[s].pc = "nextRunning" /\ reader[s].got = <<>>
    BY <1>6 DEF NextRunning, Found
  <2>2. reader[s].count - Len(reader[s].got) = reader[s].count
    BY <1>1, <2>1
  <2>3. PICK got \in Oldest(InProgress(rows), reader[s].count) :
          Move(s, [reader[s] EXCEPT
                     !.got = got,
                     !.pc = IF Len(got) < reader[s].count THEN "nextPending" ELSE "nextDone"])
    BY <1>6 DEF NextRunning
  <2> DEFINE pc == IF Len(got) < reader[s].count THEN "nextPending" ELSE "nextDone"
  <2>4. pc \in {"nextPending", "nextDone"}
    OBVIOUS
  <2>5. got \in Seq(Nat)
    BY <1>1, <1>3, <2>3, OldestAreFound DEF Ids
  <2>6. reader[s].got \o got = got
    BY <2>1, <2>5
  <2>7. reader' = [reader EXCEPT ![s] = [reader[s] EXCEPT !.got = reader[s].got \o got,
                                                          !.pc = pc]]
    BY <2>3, <2>6 DEF Move
  <2> HIDE DEF pc
  <2> QED
    BY <1>1, <1>2, <1>3, <1>5, <2>1, <2>2, <2>3, <2>4, <2>7
<1>7. CASE NextPending(s)
  <2>1. reader[s].pc = "nextPending" /\ Len(reader[s].got) <= reader[s].count
    BY <1>7 DEF NextPending, Found
  <2>2. reader[s].count - Len(reader[s].got) \in Nat
    BY <1>1, <2>1
  <2>3. PICK more \in Oldest(Pending(rows), reader[s].count - Len(reader[s].got)) :
          Move(s, [reader[s] EXCEPT !.got = reader[s].got \o more, !.pc = "nextDone"])
    BY <1>1, <1>7 DEF NextPending
  <2>4. reader' = [reader EXCEPT ![s] = [reader[s] EXCEPT !.got = reader[s].got \o more,
                                                          !.pc = "nextDone"]]
    BY <2>3 DEF Move
  <2> QED
    BY <1>2, <1>3, <1>5, <2>1, <2>2, <2>3, <2>4
<1>8. CASE CountPending(s) \/ CountRunning(s) \/ CountCompleted(s)
  <2>1. CASE CountPending(s)
    <3>1. CountRows(s, Pending(replica), "pending", "running")
      BY <2>1 DEF CountPending
    <3> QED
      BY <1>2, <1>3, <3>1, CountMoves
  <2>2. CASE CountRunning(s)
    <3>1. CountRows(s, InProgress(replica), "running", "completed")
      BY <2>2 DEF CountRunning
    <3> QED
      BY <1>2, <1>3, <3>1, CountMoves
  <2>3. CASE CountCompleted(s)
    <3>1. CountRows(s, Completed(replica), "completed", "statusDone")
      BY <2>3 DEF CountCompleted
    <3> QED
      BY <1>2, <1>3, <3>1, CountMoves
  <2> QED
    BY <1>8, <2>1, <2>2, <2>3
<1> QED
  BY <1>4, <1>6, <1>7, <1>8 DEF ReadStep

LEMMA SameRows ==
  ASSUME TypeOK, rows' = rows
  PROVE  RowsKept
<1>1. rows \in Seq(Row) /\ Len(rows) \in Nat
  BY DEF TypeOK
<1> QED
  BY <1>1 DEF RowsKept

LEMMA RowsStay ==
  ASSUME TypeOK, Keyed, Found, [Next]_vars
  PROVE  /\ RowsKept
         /\ Ids \subseteq Ids'
         /\ Completed(rows) \subseteq Completed(rows')
<1>1. RowsKept
  <2>1. ASSUME NEW c \in Clients, Ask(c) \/ Admit(c)
        PROVE  RowsKept
    BY <2>1, AskMoves, AdmitMoves, SameRows
  <2>2. ASSUME NEW c \in Clients, Insert(c)
        PROVE  RowsKept
    BY <2>2, InsertAppends
  <2>3. ASSUME NEW o \in Operators, Call(o) \/ FindOrThrow(o)
        PROVE  RowsKept
    BY <2>3, SameRows DEF Call, FindOrThrow
  <2>4. ASSUME NEW o \in Operators, StartRow(o) \/ CompleteRow(o)
        PROVE  RowsKept
    BY <2>4, UpdateKeeps
  <2>5. ASSUME NEW s \in Readers, ReadStep(s)
        PROVE  RowsKept
    BY <2>5, ReaderMoves, SameRows
  <2>6. ASSUME Tick \/ Replicate \/ UNCHANGED vars
        PROVE  RowsKept
    BY <2>6, SameRows DEF Tick, Replicate, vars
  <2> QED
    BY <2>1, <2>2, <2>3, <2>4, <2>5, <2>6, FaucetNext
<1>2. Len(rows) \in Nat /\ Len(rows') \in Nat /\ Len(rows) <= Len(rows')
  BY <1>1 DEF RowsKept
<1>3. Ids \subseteq Ids'
  BY <1>2 DEF Ids
<1>4. Completed(rows) \subseteq Completed(rows')
  <2> SUFFICES ASSUME NEW i \in Completed(rows)
               PROVE  i \in Completed(rows')
    OBVIOUS
  <2>1. i \in Ids /\ rows[i].completed
    BY DEF Completed, Ids
  <2>2. i \in Ids' /\ rows'[i].completed
    BY <1>1, <1>3, <2>1 DEF RowsKept
  <2> QED
    BY <2>2 DEF Completed, Ids
<1> QED
  BY <1>1, <1>3, <1>4

LEMMA FaucetTypeStep ==
  ASSUME TypeOK, Keyed, Found, [Next]_vars
  PROVE  TypeOK' /\ Keyed'
<1>1. /\ now \in Nat /\ client \in [Clients -> Client]
      /\ op \in [Operators -> Operator] /\ reader \in [Readers -> Reader]
      /\ \A o \in Operators : op[o].pc # "idle" => op[o].id \in Ids
  BY DEF TypeOK, Ids
<1>2. rows' \in Seq(Row) /\ Ids \subseteq Ids'
  BY RowsStay DEF RowsKept
<1>3. ASSUME NEW c \in Clients, Ask(c) \/ Admit(c) \/ Insert(c)
      PROVE  TypeOK' /\ Keyed'
  <2>1. /\ client' \in [Clients -> Client] /\ UNCHANGED <<now, replica, op, reader>>
        /\ \A d \in Clients : d # c => client'[d] = client[d]
    BY <1>3, AskMoves, AdmitMoves, InsertMoves
  <2>2. client'[c].pc = "done" \/ client'[c].key \in Keys
    <3>1. CASE Ask(c)
      BY <3>1, AskMoves
    <3>2. CASE Admit(c)
      BY <3>2, AdmitMoves DEF Keyed
    <3>3. CASE Insert(c)
      BY <3>3, InsertMoves
    <3> QED
      BY <1>3, <3>1, <3>2, <3>3
  <2>3. TypeOK'
    BY <1>1, <1>2, <2>1 DEF TypeOK, Ids
  <2>4. Keyed'
    BY <2>1, <2>2 DEF Keyed, Waiting
  <2> QED
    BY <2>3, <2>4
<1>4. ASSUME NEW o \in Operators,
             Call(o) \/ FindOrThrow(o) \/ StartRow(o) \/ CompleteRow(o)
      PROVE  TypeOK' /\ Keyed'
  <2>1. /\ op' \in [Operators -> Operator] /\ UNCHANGED <<now, replica, client, reader>>
        /\ \A q \in Operators : q # o => op'[q] = op[q]
        /\ op'[o].id \in Ids
    BY <1>4, OperatorMoves
  <2>2. \A q \in Operators : op'[q].pc # "idle" => op'[q].id \in Ids
    BY <1>1, <2>1
  <2>3. TypeOK'
    BY <1>1, <1>2, <2>1, <2>2 DEF TypeOK, Ids
  <2>4. Keyed'
    BY <2>1 DEF Keyed, Waiting
  <2> QED
    BY <2>3, <2>4
<1>5. ASSUME NEW s \in Readers, ReadStep(s)
      PROVE  TypeOK' /\ Keyed'
  <2>1. reader' \in [Readers -> Reader] /\ UNCHANGED <<now, rows, replica, client, op>>
    BY <1>5, ReaderMoves
  <2> QED
    BY <1>1, <1>2, <2>1 DEF TypeOK, Keyed, Waiting, Ids
<1>6. ASSUME Tick \/ Replicate \/ UNCHANGED vars
      PROVE  TypeOK' /\ Keyed'
  <2>1. now' \in Nat /\ UNCHANGED <<rows, client, op, reader>>
    BY <1>1, <1>6 DEF Tick, Replicate, vars
  <2>2. replica' \in Seq(Row)
    BY <1>6 DEF TypeOK, Tick, Replicate, vars
  <2> QED
    BY <1>1, <1>2, <2>1, <2>2 DEF TypeOK, Keyed, Waiting, Ids
<1> QED
  BY <1>3, <1>4, <1>5, <1>6, FaucetNext

-----------------------------------------------------------------------------
(* The limit.                                                              *)

\* A process that passes a count has its connection, and the one the request
\* holds besides.
LEMMA ConnectedStep ==
  ASSUME TypeOK, Keyed, Found, Connected, [Next]_vars
  PROVE  Connected'
<1>1. Pool \in Nat /\ Pool >= 1
  BY BoundsAreNumbers
<1>2. ASSUME NEW c \in Clients, Count(c), client'[c].pc = "insert",
             \A d \in Clients : d # c => client'[d] = client[d],
             NEW process \in Processes, ProcessOf[c] = process
      PROVE  Cardinality(InsertingIn(process)') <= Pool - 1
  <2> DEFINE held == {d \in Holding : ProcessOf[d] = ProcessOf[c]}
  <2>1. held \in SUBSET Clients
    BY DEF Holding
  <2>2. Pool - Cardinality(held) > 0
    BY <1>2 DEF Count, Free
  <2>3. InsertingIn(process)' \in SUBSET held
    BY <1>2 DEF InsertingIn, Inserting, Holding, Count
  <2> HIDE DEF held
  <2>4. /\ Cardinality(InsertingIn(process)') \in Nat /\ Cardinality(held) \in Nat
        /\ Cardinality(InsertingIn(process)') <= Cardinality(held)
    BY <2>1, <2>3, FewerClients
  <2> QED
    BY <1>1, <2>2, <2>4
<1>3. ASSUME NEW process \in Processes,
             InsertingIn(process)' \subseteq InsertingIn(process)
      PROVE  Cardinality(InsertingIn(process)') <= Pool - 1
  <2>1. InsertingIn(process) \in SUBSET Clients
    BY DEF InsertingIn, Inserting
  <2>2. /\ Cardinality(InsertingIn(process)') \in Nat
        /\ Cardinality(InsertingIn(process)) \in Nat
        /\ Cardinality(InsertingIn(process)') <= Cardinality(InsertingIn(process))
    BY <1>3, <2>1, FewerClients
  <2> QED
    BY <1>1, <2>2 DEF Connected
<1>4. ASSUME NEW c \in Clients, Ask(c) \/ Admit(c) \/ Insert(c)
      PROVE  Connected'
  <2>1. \A d \in Clients : d # c => client'[d] = client[d]
    BY <1>4, AskMoves, AdmitMoves, InsertMoves
  <2>2. client'[c].pc = "insert" => Count(c)
    BY <1>4, AskMoves, AdmitMoves, InsertMoves
  <2> SUFFICES ASSUME NEW process \in Processes
               PROVE  Cardinality(InsertingIn(process)') <= Pool - 1
    BY DEF Connected
  <2>3. CASE client'[c].pc = "insert" /\ ProcessOf[c] = process
    BY <1>2, <2>1, <2>2, <2>3
  <2>4. CASE ~(client'[c].pc = "insert" /\ ProcessOf[c] = process)
    <3>1. InsertingIn(process)' \subseteq InsertingIn(process)
      BY <2>1, <2>4 DEF InsertingIn, Inserting
    <3> QED
      BY <1>3, <3>1
  <2> QED
    BY <2>3, <2>4
<1>5. ASSUME client' = client
      PROVE  Connected'
  BY <1>5 DEF Connected, InsertingIn, Inserting
<1>6. ASSUME NEW o \in Operators,
             Call(o) \/ FindOrThrow(o) \/ StartRow(o) \/ CompleteRow(o)
      PROVE  Connected'
  BY <1>5, <1>6, OperatorMoves
<1>7. ASSUME NEW s \in Readers, ReadStep(s)
      PROVE  Connected'
  BY <1>5, <1>7, ReaderMoves
<1>8. ASSUME Tick \/ Replicate \/ UNCHANGED vars
      PROVE  Connected'
  BY <1>5, <1>8 DEF Tick, Replicate, vars
<1> QED
  BY <1>4, <1>6, <1>7, <1>8, FaucetNext

\* Both sets are finite, and get no larger when they lose elements.
LEMMA LimitSets ==
  ASSUME TypeOK, RowsKept, NEW column, NEW v
  PROVE  /\ IsFiniteSet(RecentOf(column, v)) /\ IsFiniteSet(RecentOf(column, v)')
         /\ IsFiniteSet(InsertingOf(column, v)) /\ IsFiniteSet(InsertingOf(column, v)')
         /\ Cardinality(RecentOf(column, v)) \in Nat
         /\ Cardinality(RecentOf(column, v)') \in Nat
         /\ Cardinality(InsertingOf(column, v)) \in Nat
         /\ Cardinality(InsertingOf(column, v)') \in Nat
         /\ RecentOf(column, v)' \subseteq RecentOf(column, v) =>
              Cardinality(RecentOf(column, v)') <= Cardinality(RecentOf(column, v))
         /\ InsertingOf(column, v)' \subseteq InsertingOf(column, v) =>
              Cardinality(InsertingOf(column, v)') <= Cardinality(InsertingOf(column, v))
<1>1. Len(rows) \in Nat /\ Len(rows') \in Nat
  BY DEF RowsKept
<1>2. /\ RecentOf(column, v) \in SUBSET (1..Len(rows))
      /\ RecentOf(column, v)' \in SUBSET (1..Len(rows'))
  BY DEF RecentOf, Ids
<1>3. InsertingOf(column, v) \in SUBSET Clients /\ InsertingOf(column, v)' \in SUBSET Clients
  BY DEF InsertingOf, Inserting
<1>4. /\ IsFiniteSet(RecentOf(column, v)) /\ IsFiniteSet(RecentOf(column, v)')
      /\ Cardinality(RecentOf(column, v)) \in Nat /\ Cardinality(RecentOf(column, v)') \in Nat
  BY <1>1, <1>2, FewerIds
<1>5. /\ IsFiniteSet(InsertingOf(column, v)) /\ IsFiniteSet(InsertingOf(column, v)')
      /\ Cardinality(InsertingOf(column, v)) \in Nat
      /\ Cardinality(InsertingOf(column, v)') \in Nat
  BY <1>3, FewerClients
<1>6. RecentOf(column, v)' \subseteq RecentOf(column, v) =>
        Cardinality(RecentOf(column, v)') <= Cardinality(RecentOf(column, v))
  BY <1>4, FS_Subset
<1>7. InsertingOf(column, v)' \subseteq InsertingOf(column, v) =>
        Cardinality(InsertingOf(column, v)') <= Cardinality(InsertingOf(column, v))
  BY <1>5, FS_Subset
<1> QED
  BY <1>4, <1>5, <1>6, <1>7

\* Rows that stay, as time passes, are recent only if they were.
LEMMA RecentShrinks ==
  ASSUME TypeOK, RowsKept, now' \in {now, now + 1}, NEW column \in {"email", "key"}, NEW v
  PROVE  RecentOf(column, v)' \cap Ids \subseteq RecentOf(column, v)
<1> SUFFICES ASSUME NEW i \in Ids, i \in RecentOf(column, v)'
             PROVE  i \in RecentOf(column, v)
  OBVIOUS
<1>1. rows'[i].created >= now' - Window /\ rows'[i][column] = v
  BY DEF RecentOf, Recent
<1>2. rows'[i].created = rows[i].created /\ rows'[i][column] = rows[i][column]
  BY DEF RowsKept
<1>3. rows[i].created \in Nat /\ now \in Nat /\ Window \in Nat
  <2>1. i \in 1..Len(rows) /\ rows \in Seq(Row)
    BY DEF Ids, TypeOK
  <2>2. rows[i] \in Row
    BY <2>1, ElementOfSeq
  <2> QED
    BY <2>2, BoundsAreNumbers DEF Row, TypeOK
<1>4. rows[i].created >= now - Window
  BY <1>1, <1>2, <1>3
<1> QED
  BY <1>1, <1>2, <1>4 DEF RecentOf, Recent

LEMMA LimitedStep ==
  ASSUME TypeOK, Keyed, Found, Connected, Connected', Limited, [Next]_vars
  PROVE  Limited'
<1>1. RowsKept /\ Ids \subseteq Ids' /\ Len(rows) \in Nat
  BY RowsStay DEF RowsKept
<1>2. now \in Nat /\ client \in [Clients -> Client]
  BY DEF TypeOK
<1>3. \A others \in Bounds : others \in Nat
  BY BoundsAreNumbers
<1>4. Limit \in Nat
  BY BoundsAreNumbers
<1> SUFFICES ASSUME NEW others \in Bounds', NEW column \in {"email", "key"},
                    NEW v \in Values(column)'
             PROVE  Cardinality(RecentOf(column, v)') + Cardinality(InsertingOf(column, v)')
                      <= Limit - 1 + others
  BY DEF Limited
<1>5. others \in Bounds /\ v \in Values(column) /\ others \in Nat
  BY <1>3 DEF Bounds, Values
<1> DEFINE R == RecentOf(column, v)
           I == InsertingOf(column, v)
<1>6. /\ IsFiniteSet(R) /\ IsFiniteSet(R') /\ IsFiniteSet(I) /\ IsFiniteSet(I')
      /\ Cardinality(R) \in Nat /\ Cardinality(R') \in Nat
      /\ Cardinality(I) \in Nat /\ Cardinality(I') \in Nat
      /\ R' \subseteq R => Cardinality(R') <= Cardinality(R)
      /\ I' \subseteq I => Cardinality(I') <= Cardinality(I)
  BY <1>1, LimitSets
<1>7. Cardinality(R) + Cardinality(I) <= Limit - 1 + others
  BY <1>5 DEF Limited
<1>8. ASSUME now' \in {now, now + 1}, Ids' = Ids
      PROVE  R' \subseteq R
  <2>1. R' \cap Ids \subseteq R
    BY <1>1, <1>8, RecentShrinks
  <2>2. R' \subseteq Ids'
    BY DEF RecentOf
  <2> HIDE DEF R
  <2> QED
    BY <1>8, <2>1, <2>2
<1>9. ASSUME R' \subseteq R, I' \subseteq I
      PROVE  Cardinality(R') + Cardinality(I') <= Limit - 1 + others
  <2> HIDE DEF R, I
  <2>1. Cardinality(R') <= Cardinality(R) /\ Cardinality(I') <= Cardinality(I)
    BY <1>6, <1>9
  <2> QED
    BY <1>4, <1>5, <1>6, <1>7, <2>1
<1>10. ASSUME NEW c \in Clients, Ask(c) \/ Admit(c),
              ~(client'[c].pc = "insert" /\ client[c][column] = v)
       PROVE  Cardinality(R') + Cardinality(I') <= Limit - 1 + others
  <2>1. /\ \A d \in Clients : d # c => client'[d] = client[d]
        /\ client'[c].pc = "insert" => client'[c][column] = client[c][column]
        /\ UNCHANGED <<now, rows>>
    BY <1>10, AskMoves, AdmitMoves
  <2>2. I' \subseteq I
    BY <1>10, <2>1 DEF InsertingOf, Inserting
  <2>3. R' \subseteq R
    BY <1>8, <2>1 DEF Ids
  <2> QED
    BY <1>9, <2>2, <2>3
<1>11. ASSUME NEW c \in Clients, Ask(c) \/ Admit(c),
              client'[c].pc = "insert", client[c][column] = v
       PROVE  Cardinality(R') + Cardinality(I') <= Limit - 1 + others
  <2>1. /\ Count(c) /\ UNCHANGED <<now, rows>>
    BY <1>11, AskMoves, AdmitMoves
  <2> DEFINE counted == Counted(client[c].email, client[c].key)
  <2>2. Cardinality(counted) < Limit
    <3>1. client' = [client EXCEPT ![c].pc = IF Cardinality(counted) >= Limit
                                             THEN "refused" ELSE "insert"]
      BY <2>1 DEF Count, Step
    <3>2. client'[c].pc = IF Cardinality(counted) >= Limit THEN "refused" ELSE "insert"
      BY <1>2, <3>1 DEF Client
    <3>3. Cardinality(counted) \in Nat
      <4>1. counted \in SUBSET (1..Len(rows))
        BY DEF Counted, Ids
      <4> QED
        BY <1>1, <4>1, FewerIds
    <3> HIDE DEF counted
    <3> QED
      BY <1>4, <1>11, <3>2, <3>3
  <2>3. R \subseteq counted
    <3>1. column = "email" => client[c].email # None /\ client[c].email = v
      BY <1>5, <1>11, FaucetAssumption DEF Values
    <3>2. column = "key" => client[c].key = v
      BY <1>11
    <3> QED
      BY <3>1, <3>2 DEF RecentOf, Counted
  <2>4. Cardinality(R) <= Limit - 1
    <3>1. counted \in SUBSET (1..Len(rows))
      BY DEF Counted, Ids
    <3> HIDE DEF R, counted
    <3>2. Cardinality(counted) \in Nat /\ Cardinality(R) <= Cardinality(counted)
      BY <1>1, <2>3, <3>1, FewerIds
    <3> QED
      BY <1>4, <1>6, <2>2, <3>2
  <2>5. Cardinality(I') <= others
    <3>1. Inserting' \in SUBSET Clients
      BY DEF Inserting
    <3>2. \A process \in Processes :
            Cardinality({d \in Inserting' : ProcessOf[d] = process}) <= Pool - 1
      BY DEF Connected, InsertingIn
    <3>3. Cardinality(Inserting') <= others
      BY <1>5, <3>1, <3>2, InsertingBound
    <3>4. I' \in SUBSET Inserting'
      BY DEF InsertingOf
    <3>5. Cardinality(Inserting') \in Nat /\ Cardinality(I') <= Cardinality(Inserting')
      BY <3>1, <3>4, FewerClients
    <3> HIDE DEF I
    <3> QED
      BY <1>5, <1>6, <3>3, <3>5
  <2>6. R' \subseteq R
    BY <1>8, <2>1 DEF Ids
  <2> HIDE DEF R, I
  <2>7. Cardinality(R') <= Cardinality(R)
    BY <1>6, <2>6
  <2> QED
    BY <1>4, <1>5, <1>6, <2>4, <2>5, <2>7
<1>12. ASSUME NEW c \in Clients, Insert(c)
       PROVE  Cardinality(R') + Cardinality(I') <= Limit - 1 + others
  <2> DEFINE new == Len(rows) + 1
  <2>1. /\ client[c].pc = "insert" /\ client'[c].pc = "done"
        /\ \A d \in Clients : d # c => client'[d] = client[d]
        /\ now' = now
    BY <1>12, InsertMoves
  <2>2. /\ Len(rows') = new /\ rows'[new][column] = client[c][column]
    BY <1>12, InsertAppends
  <2>3. Ids' = Ids \cup {new}
    BY <1>1, <2>2 DEF Ids
  <2>4. R' \cap Ids \subseteq R
    BY <1>1, <2>1, RecentShrinks
  <2>5. R' \subseteq Ids'
    BY DEF RecentOf
  <2>6. CASE client[c][column] = v
    <3>1. R' \subseteq R \cup {new}
      <4> HIDE DEF R, new
      <4> QED
        BY <2>3, <2>4, <2>5
    <3>2. c \in I /\ I' \subseteq I \ {c}
      BY <2>1, <2>6 DEF InsertingOf, Inserting
    <3> HIDE DEF R, I, new
    <3>3. Cardinality(R') <= Cardinality(R) + 1
      <4>1. IsFiniteSet(R \cup {new}) /\ Cardinality(R \cup {new}) <= Cardinality(R) + 1
        <5>1. /\ IsFiniteSet(R \cup {new})
              /\ Cardinality(R \cup {new}) = IF new \in R THEN Cardinality(R)
                                             ELSE Cardinality(R) + 1
          BY <1>6, FS_AddElement
        <5> QED
          BY <1>6, <5>1
      <4>2. Cardinality(R') <= Cardinality(R \cup {new}) /\ Cardinality(R \cup {new}) \in Nat
        BY <3>1, <4>1, FS_Subset, FS_CardinalityType
      <4> QED
        BY <1>6, <4>1, <4>2
    <3>4. Cardinality(I') <= Cardinality(I) - 1
      <4>1. IsFiniteSet(I \ {c}) /\ Cardinality(I \ {c}) = Cardinality(I) - 1
        BY <1>6, <3>2, FS_RemoveElement
      <4>2. Cardinality(I') <= Cardinality(I \ {c})
        BY <3>2, <4>1, FS_Subset
      <4> QED
        BY <1>6, <4>1, <4>2
    <3> QED
      BY <1>4, <1>5, <1>6, <1>7, <3>3, <3>4
  <2>7. CASE client[c][column] # v
    <3>1. new \notin R'
      BY <2>2, <2>7 DEF RecentOf
    <3>2. R' \subseteq R
      <4> HIDE DEF R, new
      <4> QED
        BY <2>3, <2>4, <2>5, <3>1
    <3>3. I' \subseteq I
      BY <2>1 DEF InsertingOf, Inserting
    <3> QED
      BY <1>9, <3>2, <3>3
  <2> QED
    BY <2>6, <2>7
<1>13. ASSUME client' = client, now' \in {now, now + 1}, Len(rows') = Len(rows)
       PROVE  Cardinality(R') + Cardinality(I') <= Limit - 1 + others
  <2>1. R' \subseteq R
    BY <1>8, <1>13 DEF Ids
  <2>2. I' \subseteq I
    BY <1>13 DEF InsertingOf, Inserting
  <2> QED
    BY <1>9, <2>1, <2>2
<1>14. ASSUME NEW o \in Operators,
              Call(o) \/ FindOrThrow(o) \/ StartRow(o) \/ CompleteRow(o)
       PROVE  Cardinality(R') + Cardinality(I') <= Limit - 1 + others
  <2>1. UNCHANGED <<now, client>>
    BY <1>14, OperatorMoves
  <2>2. Len(rows') = Len(rows)
    BY <1>14, UpdateKeeps DEF Call, FindOrThrow
  <2> QED
    BY <1>13, <2>1, <2>2
<1>15. ASSUME NEW s \in Readers, ReadStep(s)
       PROVE  Cardinality(R') + Cardinality(I') <= Limit - 1 + others
  <2>1. UNCHANGED <<now, rows, client>>
    BY <1>15, ReaderMoves
  <2> QED
    BY <1>13, <2>1
<1>16. ASSUME Tick \/ Replicate \/ UNCHANGED vars
       PROVE  Cardinality(R') + Cardinality(I') <= Limit - 1 + others
  <2>1. now' \in {now, now + 1} /\ UNCHANGED <<rows, client>>
    BY <1>16 DEF Tick, Replicate, vars
  <2> QED
    BY <1>13, <2>1
<1> HIDE DEF R, I
<1>17. Cardinality(R') + Cardinality(I') <= Limit - 1 + others
  BY <1>10, <1>11, <1>12, <1>14, <1>15, <1>16, FaucetNext
<1> QED
  BY <1>17 DEF R, I

-----------------------------------------------------------------------------
(* Starting and completing, and what the readers see.                      *)

LEMMA InTimeStep ==
  ASSUME TypeOK, Keyed, Found, InTime, [Next]_vars
  PROVE  InTime'
<1>1. Completed(rows) \subseteq Completed(rows')
  BY RowsStay
<1>2. ASSUME op' = op
      PROVE  InTime'
  BY <1>1, <1>2 DEF InTime
<1>3. ASSUME NEW o \in Operators,
             Call(o) \/ FindOrThrow(o) \/ StartRow(o) \/ CompleteRow(o)
      PROVE  InTime'
  <2>1. \A q \in Operators : q # o => op'[q] = op[q]
    BY <1>3, OperatorMoves
  <2>2. /\ op'[o].pc = "find" /\ op'[o].late => op'[o].id \in Completed(rows')
        /\ op'[o].pc \in {"update", "done"} => ~op'[o].late
    <3>1. CASE op'[o].pc = "find" /\ op'[o].late = (op'[o].id \in Completed(rows))
      BY <1>1, <3>1
    <3>2. CASE /\ op[o].pc = "find" /\ op'[o].late = op[o].late
               /\ op'[o].pc = IF op[o].id \in Completed(rows) THEN "rejected" ELSE "update"
      BY <3>2 DEF InTime
    <3>3. CASE op[o].pc = "update" /\ op'[o].pc = "done" /\ op'[o].late = op[o].late
      BY <3>3 DEF InTime
    <3> QED
      BY <1>3, <3>1, <3>2, <3>3, OperatorMoves
  <2> QED
    BY <1>1, <2>1, <2>2 DEF InTime
<1>4. ASSUME NEW c \in Clients, Ask(c) \/ Admit(c) \/ Insert(c)
      PROVE  InTime'
  BY <1>2, <1>4, AskMoves, AdmitMoves, InsertMoves
<1>5. ASSUME NEW s \in Readers, ReadStep(s)
      PROVE  InTime'
  BY <1>2, <1>5, ReaderMoves
<1>6. ASSUME Tick \/ Replicate \/ UNCHANGED vars
      PROVE  InTime'
  BY <1>2, <1>6 DEF Tick, Replicate, vars
<1> QED
  BY <1>3, <1>4, <1>5, <1>6, FaucetNext

\* The steps of other requests leave the readers alone.
LEMMA ReadersStay ==
  ASSUME TypeOK, Keyed, Found, [Next]_vars
  PROVE  reader' = reader \/ \E s \in Readers : ReadStep(s)
<1>1. ASSUME NEW c \in Clients, Ask(c) \/ Admit(c) \/ Insert(c)
      PROVE  reader' = reader
  BY <1>1, AskMoves, AdmitMoves, InsertMoves
<1>2. ASSUME NEW o \in Operators,
             Call(o) \/ FindOrThrow(o) \/ StartRow(o) \/ CompleteRow(o)
      PROVE  reader' = reader
  BY <1>2, OperatorMoves
<1>3. ASSUME Tick \/ Replicate \/ UNCHANGED vars
      PROVE  reader' = reader
  BY <1>3 DEF Tick, Replicate, vars
<1> QED
  BY <1>1, <1>2, <1>3, FaucetNext

LEMMA FoundStep ==
  ASSUME TypeOK, Keyed, Found, [Next]_vars
  PROVE  Found'
<1> DEFINE FoundBy(s) ==
      /\ reader[s].pc = "nextRunning" => reader[s].got = <<>>
      /\ reader[s].pc \in {"nextPending", "nextDone"} =>
           /\ Len(reader[s].got) <= reader[s].count
           /\ \A i, k \in 1..Len(reader[s].got) :
                reader[s].got[i] = reader[s].got[k] => i = k
      /\ reader[s].pc = "nextPending" =>
           \A i \in 1..Len(reader[s].got) :
             reader[s].got[i] \in Ids /\ rows[reader[s].got[i]].started
<1>1. RowsKept /\ Ids \subseteq Ids' /\ Len(rows) \in Nat
  BY RowsStay DEF RowsKept
<1>2. \A s \in Readers : FoundBy(s)
  BY DEF Found
<1>3. ASSUME NEW s \in Readers, reader'[s] = reader[s]
      PROVE  FoundBy(s)'
  BY <1>1, <1>2, <1>3 DEF RowsKept
<1>4. ASSUME NEW s \in Readers, ReadStep(s)
      PROVE  FoundBy(s)'
  <2>1. reader[s] \in Reader /\ rows' = rows
    BY <1>4, ReaderMoves DEF TypeOK
  <2>2. reader[s].got \in Seq(Nat) /\ Len(reader[s].got) \in Nat /\ reader[s].count \in Nat
    BY <2>1 DEF Reader
  <2>3. CASE reader'[s].pc \in {"nextRunning", "pending"} /\ reader'[s].got = <<>>
    BY <2>3
  <2>4. CASE Takes(s, InProgress(rows), "nextRunning", {"nextPending", "nextDone"})
    <3>1. reader[s].got = <<>> /\ reader[s].count - Len(reader[s].got) = reader[s].count
      BY <1>2, <2>2, <2>4 DEF Takes
    <3>2. PICK more \in Oldest(InProgress(rows), reader[s].count) :
            reader'[s].got = reader[s].got \o more
      BY <2>4, <3>1 DEF Takes
    <3>3. InProgress(rows) \in SUBSET (1..Len(rows))
      BY DEF InProgress, Ids
    <3>4. /\ more \in Seq(Nat) /\ Len(more) <= reader[s].count
          /\ \A i \in 1..Len(more) : more[i] \in InProgress(rows)
          /\ \A i, k \in 1..Len(more) : more[i] = more[k] => i = k
      <4> DEFINE n == Len(rows)
                 max == reader[s].count
      <4>1. n \in Nat /\ max \in Nat /\ InProgress(rows) \in SUBSET (1..n)
            /\ more \in Oldest(InProgress(rows), max)
        BY <1>1, <2>2, <3>2, <3>3
      <4> HIDE DEF n, max
      <4>2. /\ more \in Seq(Nat) /\ Len(more) <= max
            /\ \A i \in 1..Len(more) : more[i] \in InProgress(rows)
            /\ \A i, k \in 1..Len(more) : more[i] = more[k] => i = k
        BY <4>1, OldestAreFound
      <4> QED
        BY <4>2 DEF max
    <3>5. reader'[s].got = more
      BY <3>1, <3>2, <3>4
    <3>6. \A i \in 1..Len(more) : more[i] \in Ids' /\ rows'[more[i]].started
      BY <1>1, <2>1, <3>4 DEF InProgress, Ids
    <3>7. reader'[s].count = reader[s].count /\ reader'[s].pc # "nextRunning"
      BY <2>4 DEF Takes
    <3> QED
      BY <3>4, <3>5, <3>6, <3>7
  <2>5. CASE Takes(s, Pending(rows), "nextPending", {"nextDone"})
    <3> DEFINE got == reader[s].got
               left == reader[s].count - Len(got)
    <3>1. /\ Len(got) <= reader[s].count
          /\ \A i, k \in 1..Len(got) : got[i] = got[k] => i = k
          /\ \A i \in 1..Len(got) : got[i] \in Ids /\ rows[got[i]].started
      BY <1>2, <2>5 DEF Takes
    <3>2. PICK more \in Oldest(Pending(rows), left) : reader'[s].got = got \o more
      BY <2>5 DEF Takes
    <3>3. Pending(rows) \in SUBSET (1..Len(rows)) /\ left \in Nat
      BY <2>2, <3>1 DEF Pending, Ids
    <3>4. /\ more \in Seq(Nat) /\ Len(more) \in Nat /\ Len(more) <= left
          /\ \A i \in 1..Len(more) : more[i] \in Pending(rows)
          /\ \A i, k \in 1..Len(more) : more[i] = more[k] => i = k
      <4> DEFINE n == Len(rows)
      <4>1. n \in Nat /\ left \in Nat /\ Pending(rows) \in SUBSET (1..n)
            /\ more \in Oldest(Pending(rows), left)
        BY <1>1, <3>2, <3>3
      <4> HIDE DEF n, left
      <4> QED
        BY <4>1, OldestAreFound
    <3>5. \A i \in 1..Len(more) : ~rows[more[i]].started
      BY <3>4 DEF Pending
    <3>6. Len(got \o more) = Len(got) + Len(more)
      BY <2>2, <3>4
    <3>7. \A i \in 1..(Len(got) + Len(more)) :
            (got \o more)[i] = IF i <= Len(got) THEN got[i] ELSE more[i - Len(got)]
      BY <2>2, <3>4
    <3>8. Len(got \o more) <= reader[s].count
      BY <2>2, <3>4, <3>6
    <3>9. \A i, k \in 1..Len(got \o more) : (got \o more)[i] = (got \o more)[k] => i = k
      <4> SUFFICES ASSUME NEW i \in 1..(Len(got) + Len(more)),
                          NEW k \in 1..(Len(got) + Len(more)),
                          (got \o more)[i] = (got \o more)[k]
                   PROVE  i = k
        BY <3>6
      <4>1. CASE i <= Len(got) /\ k <= Len(got)
        <5>1. i \in 1..Len(got) /\ k \in 1..Len(got)
          BY <2>2, <4>1
        <5> QED
          BY <3>1, <3>7, <4>1, <5>1
      <4>2. CASE i > Len(got) /\ k > Len(got)
        <5>1. i - Len(got) \in 1..Len(more) /\ k - Len(got) \in 1..Len(more)
          BY <2>2, <3>4, <4>2
        <5>2. /\ (got \o more)[i] = more[i - Len(got)]
              /\ (got \o more)[k] = more[k - Len(got)]
          BY <2>2, <3>4, <3>7, <4>2
        <5>3. i - Len(got) = k - Len(got)
          BY <3>4, <5>1, <5>2
        <5> QED
          BY <2>2, <5>3
      <4>3. CASE i <= Len(got) /\ k > Len(got)
        <5>1. i \in 1..Len(got) /\ k - Len(got) \in 1..Len(more)
          BY <2>2, <3>4, <4>3
        <5>2. /\ (got \o more)[i] = got[i]
              /\ (got \o more)[k] = more[k - Len(got)]
          BY <2>2, <3>4, <3>7, <4>3
        <5>3. rows[got[i]].started /\ ~rows[more[k - Len(got)]].started
          BY <3>1, <3>5, <5>1
        <5> QED
          BY <5>2, <5>3
      <4>4. CASE i > Len(got) /\ k <= Len(got)
        <5>1. i - Len(got) \in 1..Len(more) /\ k \in 1..Len(got)
          BY <2>2, <3>4, <4>4
        <5>2. /\ (got \o more)[k] = got[k]
              /\ (got \o more)[i] = more[i - Len(got)]
          BY <2>2, <3>4, <3>7, <4>4
        <5>3. rows[got[k]].started /\ ~rows[more[i - Len(got)]].started
          BY <3>1, <3>5, <5>1
        <5> QED
          BY <5>2, <5>3
      <4> QED
        BY <2>2, <3>4, <4>1, <4>2, <4>3, <4>4
    <3>10. reader'[s].count = reader[s].count /\ reader'[s].pc = "nextDone"
      BY <2>5 DEF Takes
    <3> QED
      BY <3>2, <3>8, <3>9, <3>10
  <2>6. CASE reader'[s].pc \in {"running", "completed", "statusDone"}
    BY <2>6
  <2>7. Counts(s, Pending(replica), "pending", "running") => reader'[s].pc = "running"
    BY DEF Counts
  <2>8. Counts(s, InProgress(replica), "running", "completed") => reader'[s].pc = "completed"
    BY DEF Counts
  <2>9. Counts(s, Completed(replica), "completed", "statusDone") => reader'[s].pc = "statusDone"
    BY DEF Counts
  <2> HIDE DEF FoundBy
  <2> QED
    BY <1>4, <2>3, <2>4, <2>5, <2>6, <2>7, <2>8, <2>9, ReaderMoves
<1>5. \A s \in Readers : FoundBy(s)'
  <2> SUFFICES ASSUME NEW s \in Readers
               PROVE  FoundBy(s)'
    OBVIOUS
  <2> HIDE DEF FoundBy
  <2>1. CASE reader' = reader
    BY <1>3, <2>1
  <2>2. CASE ReadStep(s)
    BY <1>4, <2>2
  <2>3. ASSUME NEW q \in Readers, q # s, ReadStep(q)
        PROVE  FoundBy(s)'
    BY <1>3, <2>3, ReaderMoves
  <2> QED
    BY <2>1, <2>2, <2>3, ReadersStay
<1> QED
  BY <1>5 DEF Found

\* The replica only moves forward.
ReplicaKept ==
  /\ Len(replica) \in Nat /\ Len(replica') \in Nat /\ Len(replica) <= Len(replica')
  /\ \A i \in 1..Len(replica) :
       /\ replica[i].started => replica'[i].started
       /\ replica[i].completed => replica'[i].completed

LEMMA ReplicaStays ==
  ASSUME TypeOK, Keyed, Found, Behind, [Next]_vars
  PROVE  /\ ReplicaKept /\ Behind'
         /\ Completed(replica) \subseteq Completed(replica')
<1>1. RowsKept /\ Len(replica) \in Nat
  BY RowsStay DEF TypeOK
<1>2. replica' = replica \/ (replica' = rows /\ rows' = rows)
  <2>1. ASSUME NEW c \in Clients, Ask(c) \/ Admit(c) \/ Insert(c)
        PROVE  replica' = replica
    BY <2>1, AskMoves, AdmitMoves, InsertMoves
  <2>2. ASSUME NEW o \in Operators,
               Call(o) \/ FindOrThrow(o) \/ StartRow(o) \/ CompleteRow(o)
        PROVE  replica' = replica
    BY <2>2, OperatorMoves
  <2>3. ASSUME NEW s \in Readers, ReadStep(s)
        PROVE  replica' = replica
    BY <2>3, ReaderMoves
  <2>4. ASSUME Tick \/ Replicate \/ UNCHANGED vars
        PROVE  replica' = replica \/ (replica' = rows /\ rows' = rows)
    BY <2>4 DEF Tick, Replicate, vars
  <2> QED
    BY <2>1, <2>2, <2>3, <2>4, FaucetNext
<1>3. ReplicaKept /\ Behind'
  <2>1. CASE replica' = replica
    BY <1>1, <2>1 DEF ReplicaKept, RowsKept, Behind, Ids
  <2>2. CASE replica' = rows /\ rows' = rows
    BY <1>1, <2>2 DEF ReplicaKept, RowsKept, Behind
  <2> QED
    BY <1>2, <2>1, <2>2
<1>4. Completed(replica) \subseteq Completed(replica')
  BY <1>3 DEF Completed, ReplicaKept
<1> QED
  BY <1>3, <1>4

\* Two sets that cover a third have together as many elements.
LEMMA CoverIds ==
  ASSUME NEW n \in Nat, NEW A \in SUBSET (1..n), NEW B \in SUBSET (1..n),
         NEW C \in SUBSET (A \cup B)
  PROVE  /\ Cardinality(A) \in Nat /\ Cardinality(B) \in Nat /\ Cardinality(C) \in Nat
         /\ Cardinality(C) <= Cardinality(A) + Cardinality(B)
<1>1. /\ IsFiniteSet(A) /\ IsFiniteSet(B)
      /\ Cardinality(A) \in Nat /\ Cardinality(B) \in Nat
  BY FewerIds
<1>2. A \cap B \in SUBSET A
  OBVIOUS
<1>3. Cardinality(A \cap B) \in Nat
  BY <1>2, FewerIds
<1>4. Cardinality(A \cup B) = Cardinality(A) + Cardinality(B) - Cardinality(A \cap B)
  BY <1>1, FS_Union
<1>5. A \cup B \in SUBSET (1..n)
  OBVIOUS
<1>6. /\ Cardinality(C) \in Nat /\ Cardinality(A \cup B) \in Nat
      /\ Cardinality(C) <= Cardinality(A \cup B)
  BY <1>5, FewerIds
<1> QED
  BY <1>1, <1>3, <1>4, <1>6

LEMMA StatusStep ==
  ASSUME TypeOK, Keyed, Found, Behind, StatusSum, [Next]_vars
  PROVE  StatusSum'
<1> DEFINE Sums(s) ==
      /\ reader[s].pc \in {"pending", "running", "completed"} =>
           reader[s].asked <= Len(replica)
      /\ reader[s].pc = "running" =>
           reader[s].sum + Cardinality(Asked(s) \ Pending(replica)) >= reader[s].asked
      /\ reader[s].pc = "completed" =>
           reader[s].sum + Cardinality(Asked(s) \cap Completed(replica)) >= reader[s].asked
      /\ reader[s].pc = "statusDone" => reader[s].sum >= reader[s].asked
<1>1. /\ ReplicaKept /\ Completed(replica) \subseteq Completed(replica')
      /\ Len(replica) \in Nat /\ Len(replica') \in Nat /\ Len(replica) <= Len(replica')
  BY ReplicaStays DEF ReplicaKept
<1>2. \A s \in Readers : Sums(s) /\ reader[s] \in Reader
  BY DEF StatusSum, TypeOK
<1>3. \A s \in Readers : reader[s].sum \in Nat /\ reader[s].asked \in Nat
  BY <1>2 DEF Reader
<1>4. ASSUME NEW s \in Readers, reader'[s] = reader[s]
      PROVE  Sums(s)'
  <2>1. Asked(s)' = Asked(s)
    BY <1>4 DEF Asked
  <2> DEFINE n == reader[s].asked
             sum == reader[s].sum
  <2>2. n \in Nat /\ sum \in Nat /\ Asked(s) = 1..n
    BY <1>3 DEF Asked
  <2>3. /\ reader[s].pc \in {"pending", "running", "completed"} => n <= Len(replica)
        /\ reader[s].pc = "running" => sum + Cardinality(Asked(s) \ Pending(replica)) >= n
        /\ reader[s].pc = "completed" =>
             sum + Cardinality(Asked(s) \cap Completed(replica)) >= n
    BY <1>2
  <2> HIDE DEF n, sum
  <2>4. reader[s].pc \in {"pending", "running", "completed"} => n <= Len(replica')
    BY <1>1, <2>2, <2>3
  <2>5. CASE reader[s].pc = "pending"
    BY <1>4, <2>5, <2>4 DEF n
  <2>6. CASE reader[s].pc = "running"
    <3>1. Asked(s) \subseteq 1..Len(replica)
      BY <1>1, <2>6, <2>2, <2>3
    <3>2. Asked(s) \ Pending(replica) \subseteq Asked(s) \ Pending(replica')
      BY <1>1, <3>1 DEF Pending, ReplicaKept
    <3>3. Asked(s) \ Pending(replica') \in SUBSET (1..n)
      BY <2>2
    <3>4. /\ Cardinality(Asked(s) \ Pending(replica)) \in Nat
          /\ Cardinality(Asked(s) \ Pending(replica')) \in Nat
          /\ Cardinality(Asked(s) \ Pending(replica)) <=
                Cardinality(Asked(s) \ Pending(replica'))
      BY <2>2, <3>2, <3>3, FewerIds
    <3>5. sum + Cardinality(Asked(s) \ Pending(replica')) >= n
      BY <2>6, <2>2, <2>3, <3>4
    <3> QED
      BY <1>4, <2>1, <2>6, <2>4, <3>5 DEF n, sum
  <2>7. CASE reader[s].pc = "completed"
    <3>1. Asked(s) \cap Completed(replica) \subseteq Asked(s) \cap Completed(replica')
      BY <1>1
    <3>2. Asked(s) \cap Completed(replica') \in SUBSET (1..n)
      BY <2>2
    <3>3. /\ Cardinality(Asked(s) \cap Completed(replica)) \in Nat
          /\ Cardinality(Asked(s) \cap Completed(replica')) \in Nat
          /\ Cardinality(Asked(s) \cap Completed(replica)) <=
                Cardinality(Asked(s) \cap Completed(replica'))
      BY <2>2, <3>1, <3>2, FewerIds
    <3>4. sum + Cardinality(Asked(s) \cap Completed(replica')) >= n
      BY <2>7, <2>2, <2>3, <3>3
    <3> QED
      BY <1>4, <2>1, <2>7, <2>4, <3>4 DEF n, sum
  <2>8. CASE reader[s].pc \notin {"pending", "running", "completed"}
    BY <1>2, <1>4, <2>8
  <2> QED
    BY <2>5, <2>6, <2>7, <2>8
<1>5. ASSUME NEW s \in Readers, ReadStep(s)
      PROVE  Sums(s)'
  <2>1. replica' = replica
    BY <1>5, ReaderMoves
  <2>2. Pending(replica') = Pending(replica) /\ Completed(replica') = Completed(replica)
    BY <2>1 DEF Pending, Completed
  <2> DEFINE n == reader[s].asked
  <2>3. n \in Nat /\ reader[s].sum \in Nat /\ Asked(s) = 1..n
    BY <1>3 DEF Asked
  <2>4. CASE /\ reader'[s].pc \in {"nextRunning", "pending"}
             /\ reader'[s].pc = "pending" => reader'[s].asked = Len(replica)
    BY <1>1, <2>1, <2>4
  <2>5. CASE reader'[s].pc \in {"nextPending", "nextDone"}
    BY <2>5
  <2>6. CASE Counts(s, Pending(replica), "pending", "running")
    <3>1. n <= Len(replica)
      BY <1>2, <2>6 DEF Counts
    <3>2. /\ Pending(replica) \in SUBSET (1..Len(replica))
          /\ Asked(s) \ Pending(replica) \in SUBSET (1..Len(replica))
          /\ Asked(s) \in SUBSET (Pending(replica) \cup (Asked(s) \ Pending(replica)))
      BY <1>1, <2>3, <3>1 DEF Pending
    <3>3. /\ Cardinality(Pending(replica)) \in Nat
          /\ Cardinality(Asked(s) \ Pending(replica)) \in Nat
          /\ Cardinality(Asked(s)) <=
                Cardinality(Pending(replica)) + Cardinality(Asked(s) \ Pending(replica))
      BY <1>1, <3>2, CoverIds
    <3>4. Cardinality(Asked(s)) = n
      <4> HIDE DEF n
      <4>1. Cardinality(1..n) = n
        BY <2>3, FS_Interval
      <4> QED
        BY <2>3, <4>1
    <3>5. reader'[s].pc = "running" /\ reader'[s].asked = n
          /\ reader'[s].sum = reader[s].sum + Cardinality(Pending(replica))
      BY <2>6 DEF Counts
    <3>6. Asked(s)' = Asked(s)
      BY <3>5 DEF Asked
    <3>7. reader'[s].sum + Cardinality(Asked(s) \ Pending(replica)) >= n
      BY <2>3, <3>3, <3>4, <3>5
    <3> QED
      BY <2>1, <2>2, <3>1, <3>5, <3>6, <3>7
  <2>7. CASE Counts(s, InProgress(replica), "running", "completed")
    <3> DEFINE A == Asked(s) \ Pending(replica)
               B == Asked(s) \cap Completed(replica)
    <3>1. n <= Len(replica) /\ reader[s].sum + Cardinality(A) >= n
      BY <1>2, <2>7 DEF Counts
    <3>2. /\ InProgress(replica) \in SUBSET (1..Len(replica)) /\ B \in SUBSET (1..Len(replica))
          /\ A \in SUBSET (InProgress(replica) \cup B)
      BY <1>1, <2>3, <3>1 DEF InProgress, Pending, Completed
    <3>3. /\ Cardinality(InProgress(replica)) \in Nat /\ Cardinality(B) \in Nat
          /\ Cardinality(A) \in Nat
          /\ Cardinality(A) <= Cardinality(InProgress(replica)) + Cardinality(B)
      <4> HIDE DEF A, B
      <4> QED
        BY <1>1, <3>2, CoverIds
    <3>4. reader'[s].pc = "completed" /\ reader'[s].asked = n
          /\ reader'[s].sum = reader[s].sum + Cardinality(InProgress(replica))
      BY <2>7 DEF Counts
    <3>5. Asked(s)' = Asked(s)
      BY <3>4 DEF Asked
    <3>6. reader'[s].sum + Cardinality(B) >= n
      <4> HIDE DEF A, B
      <4> QED
        BY <2>3, <3>1, <3>3, <3>4
    <3> QED
      BY <2>1, <2>2, <3>1, <3>4, <3>5, <3>6
  <2>8. CASE Counts(s, Completed(replica), "completed", "statusDone")
    <3>1. reader[s].sum + Cardinality(Asked(s) \cap Completed(replica)) >= n
      BY <1>2, <2>8 DEF Counts
    <3>2. /\ Completed(replica) \in SUBSET (1..Len(replica))
          /\ Asked(s) \cap Completed(replica) \in SUBSET Completed(replica)
      BY DEF Completed
    <3>3. /\ Cardinality(Completed(replica)) \in Nat
          /\ Cardinality(Asked(s) \cap Completed(replica)) \in Nat
          /\ Cardinality(Asked(s) \cap Completed(replica)) <= Cardinality(Completed(replica))
      BY <1>1, <3>2, FewerIds
    <3>4. reader'[s].pc = "statusDone" /\ reader'[s].asked = n
          /\ reader'[s].sum = reader[s].sum + Cardinality(Completed(replica))
      BY <2>8 DEF Counts
    <3>5. reader'[s].sum >= n
      BY <2>3, <3>1, <3>3, <3>4
    <3> QED
      BY <3>4, <3>5
  <2>9. Takes(s, InProgress(rows), "nextRunning", {"nextPending", "nextDone"})
          => reader'[s].pc \in {"nextPending", "nextDone"}
    BY DEF Takes
  <2>10. Takes(s, Pending(rows), "nextPending", {"nextDone"})
           => reader'[s].pc \in {"nextPending", "nextDone"}
    BY DEF Takes
  <2> HIDE DEF Sums
  <2> QED
    BY <1>5, <2>4, <2>5, <2>6, <2>7, <2>8, <2>9, <2>10, ReaderMoves
<1>6. \A s \in Readers : Sums(s)'
  <2> SUFFICES ASSUME NEW s \in Readers
               PROVE  Sums(s)'
    OBVIOUS
  <2> HIDE DEF Sums
  <2>1. CASE reader' = reader
    BY <1>4, <2>1
  <2>2. CASE ReadStep(s)
    BY <1>5, <2>2
  <2>3. ASSUME NEW q \in Readers, q # s, ReadStep(q)
        PROVE  Sums(s)'
    BY <1>4, <2>3, ReaderMoves
  <2> QED
    BY <2>1, <2>2, <2>3, ReadersStay
<1> QED
  BY <1>6 DEF StatusSum

-----------------------------------------------------------------------------
LEMMA FaucetStep == FaucetInv /\ [Next]_vars => FaucetInv'
<1> SUFFICES ASSUME FaucetInv, [Next]_vars PROVE FaucetInv'
  OBVIOUS
<1>1. TypeOK /\ Keyed /\ Connected /\ Limited /\ InTime /\ Found /\ Behind /\ StatusSum
  BY DEF FaucetInv
<1>2. TypeOK' /\ Keyed'
  BY <1>1, FaucetTypeStep
<1>3. Connected'
  BY <1>1, ConnectedStep
<1>4. Limited'
  BY <1>1, <1>3, LimitedStep
<1>5. InTime' /\ Found' /\ Behind' /\ StatusSum'
  BY <1>1, InTimeStep, FoundStep, ReplicaStays, StatusStep
<1> QED
  BY <1>2, <1>3, <1>4, <1>5 DEF FaucetInv

LEMMA FaucetInvariant == Spec => []FaucetInv
BY FaucetInit, FaucetStep, PTL DEF Spec

\* Whatever clients, operators and readers do and in whatever order their
\* statements run, the variables keep their types: in particular a start or
\* complete request names a row there is (faucet-transactions.service.ts 41-182).
THEOREM FaucetTypeCorrect == Spec => []TypeOK
BY FaucetInvariant, PTL DEF FaucetInv

\* For any limit, window, number of requests, processes and connections: the
\* recent rows of an e-mail address or a key pass the limit by less than the
\* requests that can be past their count at one time
\* (faucet-transactions.service.ts 41-68).
THEOREM LimitIsBounded == Spec => []LimitBound
<1>1. FaucetInv => LimitBound
  <2> SUFFICES ASSUME FaucetInv,
                      NEW others \in {Cardinality(Clients),
                                      Cardinality(Processes) * (Pool - 1)}
               PROVE  /\ \A e \in Emails :
                           Cardinality({i \in Ids : Recent(i) /\ rows[i].email = e})
                             <= Limit - 1 + others
                      /\ \A k \in Keys :
                           Cardinality({i \in Ids : Recent(i) /\ rows[i].key = k})
                             <= Limit - 1 + others
    BY DEF LimitBound
  <2>1. ASSUME NEW column \in {"email", "key"}, NEW v \in Values(column)
        PROVE  Cardinality(RecentOf(column, v)) <= Limit - 1 + others
    <3>1. others \in Bounds /\ others \in Nat /\ Limit \in Nat
      BY BoundsAreNumbers DEF Bounds
    <3>2. Cardinality(RecentOf(column, v)) + Cardinality(InsertingOf(column, v))
            <= Limit - 1 + others
      BY <3>1 DEF FaucetInv, Limited
    <3>3. Cardinality(RecentOf(column, v)) \in Nat
      <4>1. Len(rows) \in Nat /\ RecentOf(column, v) \in SUBSET (1..Len(rows))
        BY DEF FaucetInv, TypeOK, RecentOf, Ids
      <4> QED
        BY <4>1, FewerIds
    <3>4. Cardinality(InsertingOf(column, v)) \in Nat
      <4>1. InsertingOf(column, v) \in SUBSET Clients
        BY DEF InsertingOf, Inserting
      <4> QED
        BY <4>1, FewerClients
    <3> QED
      BY <3>1, <3>2, <3>3, <3>4
  <2>2. /\ \A e \in Emails : Cardinality(RecentOf("email", e)) <= Limit - 1 + others
        /\ \A k \in Keys : Cardinality(RecentOf("key", k)) <= Limit - 1 + others
    BY <2>1 DEF Values
  <2>3. \A v : /\ RecentOf("email", v) = {i \in Ids : Recent(i) /\ rows[i].email = v}
               /\ RecentOf("key", v) = {i \in Ids : Recent(i) /\ rows[i].key = v}
    BY DEF RecentOf
  <2> QED
    BY <2>2, <2>3
<1> QED
  BY <1>1, FaucetInvariant, PTL

\* A start or complete request that arrives after its row was completed never
\* gets through, however it interleaves with others
\* (faucet-transactions.service.ts 114, 136).
THEOREM CompletedIsRejected == Spec => []RejectsCompleted
<1>1. FaucetInv => RejectsCompleted
  BY DEF FaucetInv, InTime, RejectsCompleted
<1> QED
  BY <1>1, FaucetInvariant, PTL

\* The two queries of GET next never return a row twice, nor more rows than
\* asked for, for any number of rows (faucet-transactions.service.ts 74-108).
THEOREM NextIsDistinct == Spec => []NextDistinct
<1>1. FaucetInv => NextDistinct
  BY DEF FaucetInv, Found, NextDistinct
<1> QED
  BY <1>1, FaucetInvariant, PTL

\* The three counts of GET status, on a replica that catches up between them,
\* add up to no less than the rows the replica had when the request arrived
\* (faucet-transactions.service.ts 152-182, prisma.service.ts 24-29).
THEOREM StatusCountsAll == Spec => []StatusLosesNobody
<1>1. FaucetInv => StatusLosesNobody
  BY DEF FaucetInv, StatusSum, StatusLosesNobody
<1> QED
  BY <1>1, FaucetInvariant, PTL

=============================================================================
