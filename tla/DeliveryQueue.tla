--------------------------- MODULE DeliveryQueue ---------------------------
(***************************************************************************)
(* What a bounded asynchronous writer promises to the code that submits    *)
(* to it, with no thread, lock or store in sight: items are numbered in    *)
(* the order they were accepted, wait in a bounded backlog, and leave it    *)
(* either one at a time from the front (handed to the sink) or all         *)
(* together (dropped, and counted), the latter only once the queue no      *)
(* longer accepts.                                                         *)
(***************************************************************************)
EXTENDS Naturals, Sequences

CONSTANT MaxPendingCount   \* capacity of the backlog

VARIABLES
  phase,       \* "new", "open" or "closed"
  accepted,    \* how many items were accepted; item n is the n-th of them
  backlog,     \* the numbers of the items waiting, oldest first
  handed,      \* the numbers of the items given to the sink, in that order
  dropped      \* how many items were dropped

qvars == <<phase, accepted, backlog, handed, dropped>>

QInit ==
  /\ phase = "new"
  /\ accepted = 0
  /\ backlog = <<>>
  /\ handed = <<>>
  /\ dropped = 0

Open ==
  /\ phase = "new"
  /\ phase' = "open"
  /\ UNCHANGED <<accepted, backlog, handed, dropped>>

Accept ==
  /\ phase = "open"
  /\ Len(backlog) < MaxPendingCount
  /\ accepted' = accepted + 1
  /\ backlog' = Append(backlog, accepted + 1)
  /\ UNCHANGED <<phase, handed, dropped>>

\* The sink receives the oldest waiting item; this goes on after closing.
Hand ==
  /\ backlog # <<>>
  /\ handed' = Append(handed, Head(backlog))
  /\ backlog' = Tail(backlog)
  /\ UNCHANGED <<phase, accepted, dropped>>

\* Closing keeps the backlog for the sink, or drops all of it at once.
Close ==
  /\ phase' = "closed"
  /\ \/ UNCHANGED <<backlog, dropped>>
     \/ /\ backlog' = <<>>
        /\ dropped' = dropped + Len(backlog)
  /\ UNCHANGED <<accepted, handed>>

QNext == Open \/ Accept \/ Hand \/ Close

QSpec == QInit /\ [][QNext]_qvars

-----------------------------------------------------------------------------
(* The sink receives items in the order they were accepted, none of them    *)
(* twice and none that was not accepted, whatever was dropped in between.   *)
HandedInOrder ==
  /\ \A i, j \in DOMAIN handed : i < j => handed[i] < handed[j]
  /\ \A i \in DOMAIN handed : handed[i] \in 1 .. accepted
=============================================================================
