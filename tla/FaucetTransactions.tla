------------------------- MODULE FaucetTransactions -------------------------
(***************************************************************************)
(* The faucet: clients ask for coins (POST /faucet_transactions), and the  *)
(* operators' bot takes the next requests, starts each and completes it.   *)
(* A handler awaits between its statements, so the steps of requests       *)
(* interleave; those served by one API process share its connection pool.  *)
(***************************************************************************)
EXTENDS Integers, Sequences, FiniteSets

CONSTANTS Clients,    \* POST /faucet_transactions requests served at once
          Operators,  \* start and complete requests served at once
          Readers,    \* next and status requests served at once
          Processes,  \* the API processes of the cluster
          ProcessOf,  \* the process that serves a create request
          Emails, Keys, Hashes,
          None,       \* a column that is null, a field that is undefined
          Limit,      \* FAUCET_REQUESTS_LIMIT
          Window,     \* FAUCET_TIME_LIMIT_MS, in days
          Pool,       \* connections in the pool of a process
          MaxRows, MaxDay, MaxTries, MaxCount  \* bounds

ASSUME FaucetAssumption ==
  /\ IsFiniteSet(Clients)
  /\ IsFiniteSet(Processes)
  /\ ProcessOf \in [Clients -> Processes]
  /\ None \notin Emails \cup Keys \cup Hashes
  /\ Limit \in Nat \ {0}
  /\ Window \in Nat
  /\ Pool \in Nat \ {0}
  /\ {MaxRows, MaxDay, MaxTries, MaxCount} \subseteq Nat

VARIABLES
  now,     \* the day
  rows,    \* "faucet_transactions", in the order of id and created_at
  replica, \* the rows that the read replica has
  client,  \* the create requests
  op,      \* the start and complete requests
  reader   \* the next and status requests

vars == <<now, rows, replica, client, op, reader>>

Row == [created : Nat, email : Emails \cup {None}, key : Keys, started : BOOLEAN,
        completed : BOOLEAN, tries : Nat, hash : Hashes \cup {None}]

Client == [pc : {"idle", "open", "count", "insert", "done", "refused", "failed"},
           email : Emails \cup {None}, key : Keys \cup {None}]

Operator ==
  [pc : {"idle", "find", "update", "done", "rejected"},
   does : {"start", "complete"}, id : Nat, hash : Hashes \cup {None},
   late : BOOLEAN]  \* history: the row was complete when the request arrived

Reader ==
  [pc : {"idle", "nextRunning", "nextPending", "nextDone",
         "pending", "running", "completed", "statusDone"},
   count : Nat, got : Seq(Nat), sum : Nat,
   asked : Nat]  \* history: the replica's rows when GET status arrived

TypeOK ==
  /\ now \in Nat
  /\ rows \in Seq(Row)
  /\ replica \in Seq(Row)
  /\ client \in [Clients -> Client]
  /\ op \in [Operators -> Operator]
  /\ \A o \in Operators : op[o].pc # "idle" => op[o].id \in 1..Len(rows)
  /\ reader \in [Readers -> Reader]

Init ==
  /\ now = 0
  /\ rows = <<>>
  /\ replica = <<>>
  /\ client = [c \in Clients |-> [pc |-> "idle", email |-> None, key |-> None]]
  /\ op = [o \in Operators |->
            [pc |-> "idle", does |-> "start", id |-> 0, hash |-> None, late |-> FALSE]]
  /\ reader = [s \in Readers |->
                [pc |-> "idle", count |-> 1, got |-> <<>>, sum |-> 0, asked |-> 0]]

-----------------------------------------------------------------------------
Ids == 1..Len(rows)

\* What a query finds in the table of the server it asks.
Pending(table) == {i \in 1..Len(table) : ~table[i].started /\ ~table[i].completed}
InProgress(table) == {i \in 1..Len(table) : table[i].started /\ ~table[i].completed}
Completed(table) == {i \in 1..Len(table) : table[i].completed}

\* The rows a request for email and key is counted against.
Recent(i) == rows[i].created >= now - Window
Counted(email, key) ==
  {i \in Ids : /\ Recent(i)
               /\ \/ email # None /\ rows[i].email = email
                  \/ rows[i].key = key}

\* An open interactive transaction keeps its connection.
Holding == {c \in Clients : client[c].pc \in {"count", "insert"}}
Free(c) == Pool - Cardinality({d \in Holding : ProcessOf[d] = ProcessOf[c]})

Waiting == {c \in Clients : client[c].pc \in {"open", "count", "insert"}}

\* POST /faucet_transactions arrives; the e-mail address is optional.
Ask(c) ==
  /\ c \notin Waiting
  /\ Len(rows) + Cardinality(Waiting) < MaxRows
  /\ \E email \in Emails \cup {None}, key \in Keys :
       client' = [client EXCEPT ![c] = [pc |-> "open", email |-> email, key |-> key]]
  /\ UNCHANGED <<now, rows, replica, op, reader>>

Step(c, pc) == client' = [client EXCEPT ![c].pc = pc]

\* $transaction takes a connection.
Open(c) ==
  /\ client[c].pc = "open"
  /\ Free(c) > 0
  /\ Step(c, "count")
  /\ UNCHANGED <<now, rows, replica, op, reader>>

\* Mutant: one request too many passes.
MutCountOneMore(c) ==
  /\ client[c].pc = "count"
  /\ Free(c) > 0
  /\ Step(c, IF Cardinality(Counted(client[c].email, client[c].key)) > Limit
             THEN "refused" ELSE "insert")
  /\ UNCHANGED <<now, rows, replica, op, reader>>

\* The count goes through this.prisma: it needs a second connection, and it is
\* not isolated from the inserts of other requests.
Count(c) ==
  /\ client[c].pc = "count"
  /\ Free(c) > 0
  /\ Step(c, IF Cardinality(Counted(client[c].email, client[c].key)) >= Limit
             THEN "refused" ELSE "insert")
  /\ UNCHANGED <<now, rows, replica, op, reader>>

\* Mutant: the email of a request without one is written as an empty string.
MutInsertEmptyEmail(c) ==
  /\ client[c].pc = "insert"
  /\ rows' = Append(rows, [created |-> now,
                           email |-> IF client[c].email = None THEN "" ELSE client[c].email,
                           key |-> client[c].key, started |-> FALSE,
                           completed |-> FALSE, tries |-> 0, hash |-> None])
  /\ Step(c, "done")
  /\ UNCHANGED <<now, replica, op, reader>>

\* The row is inserted and the transaction commits.
Insert(c) ==
  /\ client[c].pc = "insert"
  /\ rows' = Append(rows, [created |-> now, email |-> client[c].email,
                           key |-> client[c].key, started |-> FALSE,
                           completed |-> FALSE, tries |-> 0, hash |-> None])
  /\ Step(c, "done")
  /\ UNCHANGED <<now, replica, op, reader>>

\* Mutant: only the wait for a connection is bounded, not the transaction.
MutTimeOutOpenOnly(c) ==
  /\ client[c].pc = "open"
  /\ Step(c, "failed")
  /\ UNCHANGED <<now, rows, replica, op, reader>>

\* Prisma gives up a request that waits for a connection, and rolls back an
\* interactive transaction that is open for too long.
TimeOut(c) ==
  /\ c \in Waiting
  /\ Step(c, "failed")
  /\ UNCHANGED <<now, rows, replica, op, reader>>

Tick ==
  /\ now < MaxDay
  /\ now' = now + 1
  /\ UNCHANGED <<rows, replica, client, op, reader>>

-----------------------------------------------------------------------------
\* POST /faucet_transactions/:id/start or .../complete arrives.
Call(o) ==
  /\ op[o].pc \notin {"find", "update"}
  /\ \E i \in Ids, does \in {"start", "complete"}, hash \in Hashes \cup {None} :
       /\ rows[i].tries < MaxTries
       /\ does = "start" => hash = None
       /\ op' = [op EXCEPT ![o] = [pc |-> "find", does |-> does, id |-> i,
                                   hash |-> hash, late |-> i \in Completed(rows)]]
  /\ UNCHANGED <<now, rows, replica, client, reader>>

\* Mutant: complete does not check the record.
MutFindUnchecked(o) ==
  /\ op[o].pc = "find"
  /\ op' = [op EXCEPT ![o].pc = IF op[o].does = "start" /\ op[o].id \in Completed(rows)
                                THEN "rejected" ELSE "update"]
  /\ UNCHANGED <<now, rows, replica, client, reader>>

\* The controller reads the record, and start or complete checks it.
FindOrThrow(o) ==
  /\ op[o].pc = "find"
  /\ op' = [op EXCEPT ![o].pc = IF op[o].id \in Completed(rows) THEN "rejected" ELSE "update"]
  /\ UNCHANGED <<now, rows, replica, client, reader>>

\* The update names the row by its id only.
StartRow(o) ==
  /\ op[o].pc = "update"
  /\ op[o].does = "start"
  /\ rows' = [rows EXCEPT ![op[o].id].started = TRUE, ![op[o].id].tries = @ + 1]
  /\ op' = [op EXCEPT ![o].pc = "done"]
  /\ UNCHANGED <<now, replica, client, reader>>

\* An undefined hash leaves the column alone.
CompleteRow(o) ==
  /\ op[o].pc = "update"
  /\ op[o].does = "complete"
  /\ rows' = [rows EXCEPT ![op[o].id].completed = TRUE,
                          ![op[o].id].hash = IF op[o].hash = None THEN @ ELSE op[o].hash]
  /\ op' = [op EXCEPT ![o].pc = "done"]
  /\ UNCHANGED <<now, replica, client, reader>>

-----------------------------------------------------------------------------
\* The answer of a query for n rows: of those found, the oldest, in order.
Oldest(found, n) ==
  LET len == IF n < Cardinality(found) THEN n ELSE Cardinality(found)
  IN {ids \in [1..len -> found] :
        /\ \A i, k \in 1..len : i < k => ids[i] < ids[k]
        /\ \A d \in found : \A i \in 1..len : d < ids[i] => \E k \in 1..len : d = ids[k]}

Move(s, new) == reader' = [reader EXCEPT ![s] = new]

\* GET next or GET status arrives.
Read(s) ==
  /\ reader[s].pc \in {"idle", "nextDone", "statusDone"}
  /\ \/ \E count \in 1..MaxCount :
          Move(s, [pc |-> "nextRunning", count |-> count, got |-> <<>>, sum |-> 0,
                   asked |-> 0])
     \/ Move(s, [pc |-> "pending", count |-> 1, got |-> <<>>, sum |-> 0,
                 asked |-> Len(replica)])
  /\ UNCHANGED <<now, rows, replica, client, op>>

NextRunning(s) ==
  /\ reader[s].pc = "nextRunning"
  /\ \E got \in Oldest(InProgress(rows), reader[s].count) :
       Move(s, [reader[s] EXCEPT
                  !.got = got,
                  !.pc = IF Len(got) < reader[s].count THEN "nextPending" ELSE "nextDone"])
  /\ UNCHANGED <<now, rows, replica, client, op>>

\* Mutant: the second query asks for the rows that are not completed.
MutNextUncompleted(s) ==
  /\ reader[s].pc = "nextPending"
  /\ \E more \in Oldest(Ids \ Completed(rows), reader[s].count - Len(reader[s].got)) :
       Move(s, [reader[s] EXCEPT !.got = @ \o more, !.pc = "nextDone"])
  /\ UNCHANGED <<now, rows, replica, client, op>>

NextPending(s) ==
  /\ reader[s].pc = "nextPending"
  /\ \E more \in Oldest(Pending(rows), reader[s].count - Len(reader[s].got)) :
       Move(s, [reader[s] EXCEPT !.got = @ \o more, !.pc = "nextDone"])
  /\ UNCHANGED <<now, rows, replica, client, op>>

\* getGlobalStatus: three counts, one after the other, through readClient.
CountRows(s, found, from, to) ==
  /\ reader[s].pc = from
  /\ Move(s, [reader[s] EXCEPT !.sum = @ + Cardinality(found), !.pc = to])
  /\ UNCHANGED <<now, rows, replica, client, op>>

CountPending(s) == CountRows(s, Pending(replica), "pending", "running")
CountRunning(s) == CountRows(s, InProgress(replica), "running", "completed")

\* Mutant: only rows that were started count as completed.
MutCountStarted(s) ==
  CountRows(s, {i \in Completed(replica) : replica[i].started}, "completed", "statusDone")

CountCompleted(s) == CountRows(s, Completed(replica), "completed", "statusDone")

-----------------------------------------------------------------------------
\* The read replica catches up, no one knows when.
Replicate ==
  /\ replica # rows
  /\ replica' = rows
  /\ UNCHANGED <<now, rows, client, op, reader>>

-----------------------------------------------------------------------------
Serve(c) == Open(c) \/ Count(c) \/ Insert(c)

Next ==
  \/ \E c \in Clients : Ask(c) \/ Serve(c) \/ TimeOut(c)
  \/ \E o \in Operators : Call(o) \/ FindOrThrow(o) \/ StartRow(o) \/ CompleteRow(o)
  \/ \E s \in Readers : \/ Read(s) \/ NextRunning(s) \/ NextPending(s)
                        \/ CountPending(s) \/ CountRunning(s) \/ CountCompleted(s)
  \/ Tick \/ Replicate

Spec == Init /\ [][Next]_vars

\* The process goes on with a request, or the timer that bounds it fires;
\* nothing obliges clients, operators or readers to send one.
FairSpec == Spec /\ \A c \in Clients : WF_vars(Serve(c) \/ TimeOut(c))

-----------------------------------------------------------------------------
\* The limit may be passed, since the count and the insert are two statements,
\* but by no more than the other requests that can be past their count: no more
\* than are served at that time, nor than one less in each process than it has
\* connections, since a count needs one more than those that are held.  So an
\* e-mail address or a key never has more recent rows than that, however long
\* the system runs (faucet-transactions.service.ts 41-68).
LimitBound ==
  \A others \in {Cardinality(Clients), Cardinality(Processes) * (Pool - 1)} :
    /\ \A e \in Emails :
         Cardinality({i \in Ids : Recent(i) /\ rows[i].email = e}) <= Limit - 1 + others
    /\ \A k \in Keys :
         Cardinality({i \in Ids : Recent(i) /\ rows[i].key = k}) <= Limit - 1 + others

\* A start or complete request that arrives after its row was completed is
\* rejected, whatever other requests do meanwhile
\* (faucet-transactions.service.ts 114, 136).
RejectsCompleted == \A o \in Operators : op[o].pc = "done" => ~op[o].late

\* GET next never returns a row twice or more rows than asked for, although
\* rows are started and completed between its two queries
\* (faucet-transactions.service.ts 74-108).
NextDistinct ==
  \A s \in Readers : reader[s].pc = "nextDone" =>
    LET got == reader[s].got
    IN /\ Len(got) <= reader[s].count
       /\ \A i, k \in 1..Len(got) : got[i] = got[k] => i = k

\* GET status loses no row that the replica has: one that moves on between the
\* counts, as the replica catches up, is counted at least once, so the three
\* add up to no less than the rows the replica had when the request arrived
\* (faucet-transactions.service.ts 152-182).
StatusLosesNobody ==
  \A s \in Readers : reader[s].pc = "statusDone" => reader[s].sum >= reader[s].asked

\* Every create request ends, although each holds one connection and waits
\* for a second, so that as many requests as there are connections wait for
\* each other (faucet-transactions.service.ts 41-42).
CreateEnds == \A c \in Clients : c \in Waiting ~> c \notin Waiting

\* 'with too many faucet requests' create 'throws an exception'
\* (faucet-transactions.service.spec.ts 62-63): no more than the limit of
\* requests of an e-mail address in the time window.
LimitHolds ==
  \A e \in Emails : Cardinality({i \in Ids : Recent(i) /\ rows[i].email = e}) <= Limit

\* 'if the FaucetTransaction has completed' complete 'throws an
\* UnprocessableEntityException' (faucet-transactions.service.spec.ts 318-319):
\* the hash of a completed row is not overwritten.
CompletedOnce ==
  [][\A i \in Ids : rows[i].completed /\ rows[i].hash # None
                      => rows'[i].hash = rows[i].hash]_vars

=============================================================================
