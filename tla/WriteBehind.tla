---------------------------- MODULE WriteBehind ----------------------------
(***************************************************************************)
(* What the batch writer promises, without channels, workers or retries:   *)
(* records of each kind are owed to the database in the order in which     *)
(* they were accepted; the oldest ones leave together, as one batch, into  *)
(* the table or, given up, nowhere.  The debt is bounded, and once the     *)
(* writer is closed nothing is written any more.                           *)
(***************************************************************************)
EXTENDS Integers, Sequences

CONSTANTS
  Kind,
  Record,
  MaxBatch,    \* records that leave together
  MaxOwed,     \* records owed at any time
  Repeats      \* may a batch be written and stay owed (a lost acknowledgement)?

VARIABLES
  owed,        \* per kind, the accepted records, oldest first
  table,       \* per kind, the records written, in order
  open

vars == <<owed, table, open>>

Init ==
  /\ owed  = [k \in Kind |-> <<>>]
  /\ table = [k \in Kind |-> <<>>]
  /\ open  = TRUE

Accept(k, x) ==
  /\ Len(owed[k]) < MaxOwed
  /\ owed' = [owed EXCEPT ![k] = Append(@, x)]
  /\ UNCHANGED <<table, open>>

Oldest(k, n) == SubSeq(owed[k], 1, n)
Leave(k, n)  == owed' = [owed EXCEPT ![k] = SubSeq(@, n + 1, Len(@))]
Batches(k)   == {n \in 1..MaxBatch : n <= Len(owed[k])}

Write(k, n) ==
  /\ open
  /\ table' = [table EXCEPT ![k] = @ \o Oldest(k, n)]
  /\ Leave(k, n)
  /\ UNCHANGED open

WriteAndOwe(k, n) ==
  /\ Repeats
  /\ open
  /\ table' = [table EXCEPT ![k] = @ \o Oldest(k, n)]
  /\ UNCHANGED <<owed, open>>

GiveUp(k, n) ==
  /\ Leave(k, n)
  /\ UNCHANGED <<table, open>>

Close ==
  /\ open
  /\ open' = FALSE
  /\ UNCHANGED <<owed, table>>

Settle(k) == \E n \in Batches(k) : Write(k, n) \/ GiveUp(k, n)

Next ==
  \/ \E k \in Kind, x \in Record : Accept(k, x)
  \/ \E k \in Kind : Settle(k)
  \/ \E k \in Kind : \E n \in Batches(k) : WriteAndOwe(k, n)
  \/ Close

\* While the writer is open, what is owed does not stay owed.
Fairness == \A k \in Kind : WF_vars(open /\ Settle(k))

Safety == Init /\ [][Next]_vars
Spec == Safety /\ Fairness
=============================================================================
