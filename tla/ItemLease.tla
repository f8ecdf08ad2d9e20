------------------------------ MODULE ItemLease ------------------------------
(***************************************************************************)
(* What a document stream promises about the items it hands out, whatever  *)
(* the counters that enforce it: an item is a lease on one document, only  *)
(* the latest lease may be used, and a use shows the document the lease    *)
(* was granted for.  The promise about the content ends with the stream    *)
(* itself: once it is closed (end of input, or a document that does not    *)
(* parse) the last lease may also show a torn document.                    *)
(***************************************************************************)
EXTENDS Naturals, Sequences

CONSTANTS
  Documents,   \* what a lease may be granted for
  Torn         \* what is read from a document that is not whole

VARIABLES
  leases,   \* the documents granted, in order; lease k is leases[k]
  open,     \* the stream may still grant
  shown     \* the last use: the lease used and what it showed

vars == <<leases, open, shown>>

Refused == [lease |-> 0, doc |-> Torn]

Init ==
  /\ leases = << >>
  /\ open = TRUE
  /\ shown = Refused

\* A new lease ends every earlier one.
Grant ==
  /\ open
  /\ \E d \in Documents : leases' = Append(leases, d)
  /\ UNCHANGED <<open, shown>>

Close ==
  /\ open' = FALSE
  /\ UNCHANGED <<leases, shown>>

\* A use by the holder of the latest lease.
Use ==
  /\ leases # << >>
  /\ \E d \in {leases[Len(leases)]} \cup (IF open THEN {} ELSE {Torn}) :
       shown' = [lease |-> Len(leases), doc |-> d]
  /\ UNCHANGED <<leases, open>>

\* A use by the holder of an earlier lease, or of any lease on a closed stream.
Refuse ==
  /\ Len(leases) > 1 \/ ~ open
  /\ shown' = Refused
  /\ UNCHANGED <<leases, open>>

Next == Grant \/ Close \/ Use \/ Refuse

Spec == Init /\ [][Next]_vars
=============================================================================
