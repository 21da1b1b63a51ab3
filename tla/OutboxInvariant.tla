---------------------------- MODULE OutboxInvariant ----------------------------
(***************************************************************************)
(* The inductive invariant of OutboxDispatch, part by part.  OutboxProofs  *)
(* proves that it holds; the runs check it on a small instance.            *)
(***************************************************************************)
EXTENDS OutboxDispatch

Waiting == {"complete", "release"}

\* No claim ever touched a row whose transaction has not committed; a receipt is
\* carried by a stored row only, and names its message and its latest claim.
RowInv ==
  \A m \in Messages :
    /\ table[m].state \notin {"stored", "deleted"} =>
         table[m].attempt = 0 /\ table[m].receipt = Null
    /\ table[m].receipt # Null =>
         /\ table[m].state = "stored"
         /\ 1 <= table[m].attempt /\ table[m].receipt = <<m, table[m].attempt>>

\* Rows a claim has locked stay as claimable as they were when it chose them.
ChosenInv ==
  \A d \in Dispatchers : \A m \in chosen[d] : Claimable(table[m], req[d].at)

\* A claim is made for a time some clock has reached.
Reached(at) == \E d \in Dispatchers : at <= Clock(d)
ReachedInv ==
  /\ \A d \in Dispatchers : pc[d] \in {"claim", "claiming"} => Reached(req[d].at)
  /\ \A q \in late : q.op = "claim" => Reached(q.at)

\* Every receipt a process holds or has used is of a claim its row has counted.
Counted(x) == /\ table[x[1]].state \in {"stored", "deleted"}
              /\ 1 <= x[2] /\ x[2] <= table[x[1]].attempt
CountedInv == /\ \A d \in Dispatchers : \A x \in batch[d] : Counted(x)
              /\ \A x \in begun : Counted(x)

\* A batch is held during its deliveries only, and what is published, completed
\* or released is its head.
BatchInv ==
  \A d \in Dispatchers :
    /\ pc[d] \in {"idle", "claim", "claiming"} => batch[d] = {}
    /\ pc[d] \in {"publish"} \cup Waiting => batch[d] # {} /\ Head(d) \in begun
    /\ pc[d] \in Waiting => req[d].receipt = Head(d)
    /\ pc[d] = "complete" => Head(d) \in published

\* No receipt is in two batches.
UniqueInv ==
  \A d, e \in Dispatchers : d # e => batch[d] \cap batch[e] = {}

\* Nobody holds the receipt of a late statement, and a late completion follows
\* a publisher that succeeded.
LateInv ==
  \A q \in late : q.op # "claim" =>
    /\ q.receipt \in begun
    /\ \A d \in Dispatchers : q.receipt \notin batch[d]
    /\ q.op = "complete" => q.receipt \in published

\* The publisher was called under no receipt still to be taken from a batch.
FreshInv ==
  \A d \in Dispatchers : \A x \in batch[d] :
    pc[d] = "deliver" \/ x # Head(d) => x \notin begun

\* As long as no clock has passed the lease of a batch, its rows are as its claim
\* left them.
LeaseInv ==
  \A d \in Dispatchers : (\A e \in Dispatchers : Clock(e) < until[d]) =>
    \A x \in batch[d] : /\ table[x[1]].state = "stored"
                        /\ table[x[1]].receipt = x
                        /\ table[x[1]].lease = until[d]

IInv ==
  /\ TypeOK /\ RowInv /\ SchemaHolds /\ ChosenInv /\ ReachedInv /\ CountedInv
  /\ BatchInv /\ UniqueInv /\ LateInv /\ FreshInv /\ LeaseInv
================================================================================
