-------------------------- MODULE MergeQueueProps --------------------------
(***************************************************************************)
(* What the merge queue promises.                                          *)
(***************************************************************************)
EXTENDS MergeQueue, FiniteSets

\* Rows and processors hold what the code can store in them.
QueueTypeOK ==
  /\ rows \in Seq([pull : Pulls, status : Active \cup Settled, old : BOOLEAN])
  /\ pulls \in [Pulls -> {"open", "conflicting", "merged"}]
  /\ workers \subseteq DOMAIN rows
  /\ pc \in [Deliveries -> {"ready", "count", "insert", "claim", "put", "settle", "worker", "end"}]
  /\ pull \in [Deliveries -> Pulls \cup {"none"}]
  /\ row \in [Deliveries -> {0} \cup DOMAIN rows]
  /\ answer \in [Deliveries -> {"none", "ok", "already", "refused", "error"}]

\* However many processors work the queue, and whatever the watchdog frees, at
\* most one of them merges at a time, and it merges the one row in 'merging'.
OneMergeInFlight ==
  \A d, e \in Deliveries :
    /\ pc[d] \in {"put", "settle"} => Rows({"merging"}) = {row[d]}
    /\ pc[d] \in {"put", "settle"} /\ pc[e] \in {"put", "settle"} => d = e

\* A row says merged only of a pull that GitHub has merged.
MergedMeansMerged == \A i \in Rows({"merged"}) : pulls[rows[i].pull] = "merged"

\* While nothing fails, once a row says merged no later row of the same pull
\* says conflict, in whatever order deliveries enqueue it again: the PUT of a
\* merged pull is no conflict and gets no worker (processMergeQueue's second
\* case).  An earlier row may say so: a refused pull can be merged later.
NoConflictAfterMerge ==
  mishaps = 0 =>
    \A i, j \in DOMAIN rows :
      i < j /\ rows[i].pull = rows[j].pull /\ rows[i].status = "merged"
        => rows[j].status # "conflict"

\* While nothing fails, a queued row has a processor that has yet to look for
\* one: no order of inserts and claims leaves it to the next delivery.
QueuedIsTended ==
  mishaps = 0 /\ Rows({"queued"}) # {} =>
    \E d \in Deliveries : pc[d] \in {"claim", "put", "settle", "worker"}

\* A row never stays 'merging' for ever, whichever statement fails or process
\* dies, and so never blocks the queue of its project for good.
QueueNeverJams ==
  \A i \in 1 .. Cardinality(Deliveries) :
    i \in Rows({"merging"}) ~> i \notin Rows({"merging"})

\* A merge conflict gets a task for an agent to resolve it (the comment on
\* dispatchConflictWorker).
ConflictGetsWorker ==
  mishaps = 0 => \A i \in Rows({"conflict"}) :
    i \in workers \/ \E d \in Deliveries : pc[d] = "worker" /\ row[d] = i
=============================================================================
