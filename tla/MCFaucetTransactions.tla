------------------------ MODULE MCFaucetTransactions ------------------------
(* Two processes; the first serves two clients, on two connections, so that  *)
(* these can wait for each other, while the second's client competes with    *)
(* them for the limit.  To keep the instance small a behaviour either has    *)
(* clients that compete, or operators at work on the rows of one client, two *)
(* at most and without e-mail address, while a reader asks either for the    *)
(* next rows, on the primary, or for the status, on the replica.             *)
EXTENDS FaucetTransactions, TLC

CONSTANTS Scenarios, c1, c2, c3, p1, p2, o1, o2, s1, e1, k1, k2, h1, h2

VARIABLE scenario

MCProcessOf == [c \in Clients |-> IF c = c3 THEN p2 ELSE p1]

MCInit == scenario \in Scenarios /\ Init

Compete ==
  \/ \E c \in Clients : Ask(c) \/ Serve(c) \/ TimeOut(c)
  \/ Tick

Work ==
  \/ /\ Ask(c1)
     /\ client'[c1].email = None
     /\ Len(rows) < 2
  \/ Serve(c1) \/ TimeOut(c1)
  \/ \E o \in Operators : Call(o) \/ FindOrThrow(o) \/ StartRow(o) \/ CompleteRow(o)

TakeNext ==
  \E s \in Readers : \/ Read(s) /\ reader'[s].pc = "nextRunning"
                     \/ NextRunning(s) \/ NextPending(s)

Status ==
  \/ \E s \in Readers : \/ Read(s) /\ reader'[s].pc = "pending"
                        \/ CountPending(s) \/ CountRunning(s) \/ CountCompleted(s)
  \/ Replicate

MCNext ==
  /\ UNCHANGED scenario
  /\ \/ scenario = "compete" /\ Compete
     \/ scenario = "next" /\ (Work \/ TakeNext)
     \/ scenario = "status" /\ (Work \/ Status)

mcVars == <<scenario, vars>>

MCSpec == MCInit /\ [][MCNext]_mcVars

\* The fairness of FairSpec.
MCFairSpec == MCSpec /\ \A c \in Clients : WF_vars(Serve(c) \/ TimeOut(c))

=============================================================================
