-------------------------- MODULE MergeQueueProofs --------------------------
(***************************************************************************)
(* The safety of the merge queue, proved for every number of pulls,        *)
(* deliveries, restarts, refused statements and lost answers.              *)
(*                                                                         *)
(* QueueInv adds to the claims what keeps them: the row a processor holds  *)
(* is the one row in 'merging' and is fresh, what GitHub answered it is    *)
(* true, rows are settled in the order of the table, and while nothing     *)
(* failed a row in 'merging' has its processor, and a pull just refused    *)
(* has no merged row.                                                      *)
(***************************************************************************)
EXTENDS MergeQueueProps, TLAPS

Busy(d) == pc[d] \in {"put", "settle"}

\* A row held is held by one processor and is the only one in 'merging'.
HeldOK ==
  \A d \in Deliveries :
    /\ Busy(d) => Rows({"merging"}) = {row[d]} /\ ~rows[row[d]].old
    /\ pc[d] \in {"count", "insert"} => pull[d] \in Pulls
    /\ pc[d] = "worker" => row[d] \in DOMAIN rows
    /\ \A e \in Deliveries : Busy(d) /\ Busy(e) => d = e

\* What GitHub answered is still so.
AnswerOK ==
  \A d \in Deliveries : pc[d] = "settle" /\ answer[d] \in {"ok", "already"} =>
    pulls[rows[row[d]].pull] = "merged"

\* While nothing has failed, a pull just refused has no merged row.
RefusedOK ==
  mishaps = 0 => \A d \in Deliveries : pc[d] = "settle" /\ answer[d] = "refused" =>
    \A i \in Rows({"merged"}) : rows[i].pull # rows[row[d]].pull

\* Whatever precedes a row that has been claimed is settled.
InOrder ==
  \A i, j \in DOMAIN rows :
    i < j /\ rows[j].status # "queued" => rows[i].status \in Settled

\* While nothing has failed, whoever set a row to 'merging' holds it.
MergingHeld ==
  mishaps = 0 => \A i \in Rows({"merging"}) : \E d \in Deliveries : Holds(d, i)

QueueInv == /\ QueueTypeOK /\ mishaps \in Nat /\ HeldOK /\ AnswerOK /\ RefusedOK
            /\ InOrder /\ MergingHeld /\ MergedMeansMerged /\ NoConflictAfterMerge
            /\ QueuedIsTended

USE MergeAssumption, MishapsAssumption
    DEF Active, Settled, Goes, Takes, Enqueued, Fine, Mishap, mergeVars, mergeQueueVars
-----------------------------------------------------------------------------
(* The table of rows as a sequence. *)

Row == [pull : Pulls, status : Active \cup Settled, old : BOOLEAN]

\* The table is a function into the rows, and any such function is a table.
LEMMA RowsAreFunction ==
  ASSUME QueueTypeOK
  PROVE  /\ rows \in [DOMAIN rows -> Row]
         /\ \A f \in [DOMAIN rows -> Row] : f \in Seq(Row)
<1>1. rows \in Seq(Row) /\ Len(rows) \in Nat /\ DOMAIN rows = 1 .. Len(rows)
  BY DEF QueueTypeOK, Row
<1>2. rows \in [1 .. Len(rows) -> Row]
  BY <1>1
<1> QED
  BY <1>1, <1>2

\* What an insert, and the update of one row, leave.
Added(r) ==
  \E n : /\ n \notin DOMAIN rows
         /\ rows' \in Seq(Row) /\ DOMAIN rows' = DOMAIN rows \cup {n} /\ rows'[n] = r
         /\ \A i \in DOMAIN rows : rows'[i] = rows[i] /\ i < n
Updated(i, s) ==
  /\ rows' \in Seq(Row) /\ DOMAIN rows' = DOMAIN rows
  /\ rows'[i] = [pull |-> rows[i].pull, status |-> s, old |-> FALSE]
  /\ \A j \in DOMAIN rows : j # i => rows'[j] = rows[j]
LEMMA RowAdded ==
  ASSUME QueueTypeOK, NEW r \in Row, rows' = Append(rows, r)
  PROVE  Added(r)
<1>1. rows \in Seq(Row) /\ Len(rows) \in Nat /\ DOMAIN rows = 1 .. Len(rows)
  BY DEF QueueTypeOK, Row
<1>2. /\ Len(rows') = Len(rows) + 1 /\ rows' \in Seq(Row)
      /\ DOMAIN rows' = 1 .. Len(rows) + 1 /\ rows'[Len(rows) + 1] = r
      /\ \A i \in 1 .. Len(rows) : rows'[i] = rows[i] /\ i < Len(rows) + 1
  BY <1>1
<1>3. 1 .. Len(rows) + 1 = (1 .. Len(rows)) \cup {Len(rows) + 1}
      /\ Len(rows) + 1 \notin 1 .. Len(rows)
  BY <1>1
<1> QED
  BY <1>1, <1>2, <1>3 DEF Added
LEMMA RowUpdated ==
  ASSUME QueueTypeOK, NEW i \in DOMAIN rows, NEW s \in Active \cup Settled, SetRow(i, s)
  PROVE  Updated(i, s)
<1>1. rows \in [DOMAIN rows -> Row]
  BY RowsAreFunction
<1>2. rows'[i] = [pull |-> rows[i].pull, status |-> s, old |-> FALSE]
  BY <1>1 DEF SetRow, Row
<1>3. DOMAIN rows' = DOMAIN rows /\ \A j \in DOMAIN rows : j # i => rows'[j] = rows[j]
  BY <1>1 DEF SetRow
<1>4. rows' \in [DOMAIN rows -> Row]
  BY <1>1 DEF SetRow, Row
<1> QED
  BY <1>2, <1>3, <1>4, RowsAreFunction DEF Updated

\* What five minutes, and what the watchdog leave.
LEMMA RowAged ==
  ASSUME QueueTypeOK, NEW i \in DOMAIN rows, rows' = [rows EXCEPT ![i].old = TRUE]
  PROVE  /\ rows' \in Seq(Row) /\ DOMAIN rows' = DOMAIN rows
         /\ \A j \in DOMAIN rows : /\ rows'[j].pull = rows[j].pull
                                  /\ rows'[j].status = rows[j].status
<1>1. rows' \in [DOMAIN rows -> Row] /\ DOMAIN rows' = DOMAIN rows
  BY RowsAreFunction DEF Row
<1>2. \A j \in DOMAIN rows : /\ rows'[j].pull = rows[j].pull
                             /\ rows'[j].status = rows[j].status
  BY RowsAreFunction DEF Row
<1> QED
  BY <1>1, <1>2, RowsAreFunction
LEMMA RowsRecovered ==
  ASSUME QueueTypeOK, RecoverStuckMerges
  PROVE  /\ rows' \in Seq(Row) /\ DOMAIN rows' = DOMAIN rows
         /\ \A i \in DOMAIN rows :
              /\ rows'[i].pull = rows[i].pull
              /\ \/ rows'[i] = rows[i]
                 \/ rows[i].status = "merging" /\ rows'[i].status = "queued"
<1>1. rows' \in [DOMAIN rows -> Row] /\ DOMAIN rows' = DOMAIN rows
  BY RowsAreFunction DEF RecoverStuckMerges, Row
<1>2. \A i \in DOMAIN rows :
        /\ rows'[i].pull = rows[i].pull
        /\ \/ rows'[i] = rows[i]
           \/ rows[i].status = "merging" /\ rows'[i].status = "queued"
  BY RowsAreFunction DEF RecoverStuckMerges, Row
<1> QED
  BY <1>1, <1>2, RowsAreFunction

\* The row a processor holds.
LEMMA HeldRow ==
  ASSUME QueueTypeOK, HeldOK, NEW d \in Deliveries, Busy(d)
  PROVE  row[d] \in DOMAIN rows /\ rows[row[d]].pull \in Pulls
<1>1. row[d] \in DOMAIN rows
  BY DEF HeldOK, Rows
<1> QED
  BY <1>1, RowsAreFunction DEF Row

\* What a merge at GitHub leaves.
LEMMA Merging ==
  ASSUME QueueTypeOK, NEW p \in Pulls, Merge(p)
  PROVE  /\ pulls' \in [Pulls -> {"open", "conflicting", "merged"}]
         /\ pulls'[p] = "merged"
         /\ \A q \in Pulls : pulls[q] = "merged" => pulls'[q] = "merged"
  BY DEF Merge, QueueTypeOK
-----------------------------------------------------------------------------
LEMMA QueueInvInit == MergeInit => QueueInv
  BY DEF MergeInit, QueueInv, QueueTypeOK, HeldOK, Busy, AnswerOK, RefusedOK, InOrder, MergingHeld,
         Rows, MergedMeansMerged, NoConflictAfterMerge, QueuedIsTended

\* The types are kept.
LEMMA TypesKept == QueueInv /\ [MergeNext]_mergeQueueVars => QueueTypeOK'
<1> SUFFICES ASSUME QueueInv, [MergeNext]_mergeQueueVars PROVE QueueTypeOK'
  OBVIOUS
<1> USE DEF QueueInv, QueueTypeOK, Rows, HeldOK, Busy
<1>1. ASSUME NEW d \in Deliveries, NEW p \in Pulls, Deliver(d, p) PROVE QueueTypeOK'
  BY <1>1 DEF Deliver
<1>2. ASSUME NEW d \in Deliveries, Count(d) PROVE QueueTypeOK'
  BY <1>2 DEF Count
<1>3. ASSUME NEW d \in Deliveries, Insert(d) PROVE QueueTypeOK'
  <2>1. CASE Mishap /\ UNCHANGED rows
    BY <1>3, <2>1 DEF Insert
  <2>2. CASE Fine /\ rows' = Append(rows, NewRow(pull[d]))
    <3>1. NewRow(pull[d]) \in Row
      BY <1>3 DEF Insert, HeldOK, NewRow, Row
    <3>2. Added(NewRow(pull[d]))
      BY <2>2, <3>1, RowAdded
    <3> QED
      BY <1>3, <2>2, <3>2 DEF Insert, Added, NewRow, Row
  <2> QED
    BY <1>3, <2>1, <2>2 DEF Insert, NewRow
<1>4. ASSUME NEW d \in Deliveries, Claim(d) PROVE QueueTypeOK'
  <2>1. pc[d] = "claim" /\ UNCHANGED <<pulls, workers, pull, answer>>
    BY <1>4 DEF Claim
  <2>2. CASE /\ pc' = [pc EXCEPT ![d] = "end"] /\ UNCHANGED <<rows, row>>
             /\ \/ (Rows({"queued"}) = {} \/ Rows({"merging"}) # {}) /\ Fine
                \/ Mishap
    BY <2>1, <2>2
  <2>3. ASSUME NEW i \in Rows({"queued"}), Rows({"merging"}) = {}, SetRow(i, "merging"),
               row' = [row EXCEPT ![d] = i], pc' = [pc EXCEPT ![d] = "put"], Fine
        PROVE  QueueTypeOK'
    <3>1. Updated(i, "merging")
      BY <2>3, RowUpdated
    <3> QED
      BY <2>1, <2>3, <3>1 DEF Updated, Row
  <2> QED
    BY <1>4, <2>2, <2>3 DEF Claim
<1>5. ASSUME NEW d \in Deliveries, Put(d) PROVE QueueTypeOK'
  <2>1. row[d] \in DOMAIN rows /\ rows[row[d]].pull \in Pulls
    BY <1>5, HeldRow DEF Put, Busy
  <2>2. CASE Merge(rows[row[d]].pull)
    BY <1>5, <2>1, <2>2, Merging DEF Put
  <2>3. CASE UNCHANGED pulls
    BY <1>5, <2>1, <2>3 DEF Put
  <2> QED
    BY <1>5, <2>2, <2>3 DEF Put
<1>6. ASSUME NEW d \in Deliveries, Settle(d) PROVE QueueTypeOK'
  <2>1. CASE Mishap /\ UNCHANGED rows
    BY <1>6, <2>1 DEF Settle, Outcome
  <2>2. CASE Fine /\ SetRow(row[d], Outcome(answer[d]))
    <3>1. Updated(row[d], Outcome(answer[d]))
      BY <1>6, <2>2, RowUpdated DEF Settle, Outcome
    <3> QED
      BY <1>6, <2>2, <3>1 DEF Settle, Outcome, Updated, Row
  <2> QED
    BY <1>6, <2>1, <2>2 DEF Settle
<1>7. ASSUME NEW d \in Deliveries, DispatchConflictWorker(d) PROVE QueueTypeOK'
  BY <1>7 DEF DispatchConflictWorker, TaskStatuses
<1>8. ASSUME NEW i \in DOMAIN rows, Age(i) PROVE QueueTypeOK'
  BY <1>8, RowAged DEF Age, Row
<1>9. CASE RecoverStuckMerges
  BY <1>9, RowsRecovered DEF RecoverStuckMerges, Row
<1>10. ASSUME NEW p \in Pulls, MergedElsewhere(p) PROVE QueueTypeOK'
  <2>1. /\ pulls' \in [Pulls -> {"open", "conflicting", "merged"}]
        /\ \A q \in Pulls : pulls[q] = "merged" => pulls'[q] = "merged"
    BY <1>10, Merging DEF MergedElsewhere
  <2> QED
    BY <1>10, <2>1, HeldRow, RowsAreFunction DEF MergedElsewhere, Row
<1>11. ASSUME NEW p \in Pulls, Resolved(p) PROVE QueueTypeOK'
  BY <1>11 DEF Resolved
<1>12. CASE Mishap /\ MergeCrash
  BY <1>12 DEF MergeCrash
<1>13. CASE UNCHANGED mergeQueueVars
  BY <1>13
<1> QED
  BY <1>1, <1>2, <1>3, <1>4, <1>5, <1>6, <1>7, <1>8, <1>9, <1>10, <1>11, <1>12, <1>13
  DEF MergeNext, Queue, Process, Watch, Elsewhere

\* The count stays a number.
LEMMA MishapsKept == QueueInv /\ [MergeNext]_mergeQueueVars => (mishaps \in Nat)'
<1> SUFFICES ASSUME QueueInv, [MergeNext]_mergeQueueVars PROVE (mishaps \in Nat)'
  OBVIOUS
<1> USE DEF QueueInv
<1>1. ASSUME NEW d \in Deliveries, NEW p \in Pulls, Deliver(d, p) PROVE (mishaps \in Nat)'
  BY <1>1 DEF Deliver
<1>2. ASSUME NEW d \in Deliveries, Count(d) PROVE (mishaps \in Nat)'
  BY <1>2 DEF Count
<1>3. ASSUME NEW d \in Deliveries, Insert(d) PROVE (mishaps \in Nat)'
  BY <1>3 DEF Insert
<1>4. ASSUME NEW d \in Deliveries, Claim(d) PROVE (mishaps \in Nat)'
  BY <1>4 DEF Claim, SetRow
<1>5. ASSUME NEW d \in Deliveries, Put(d) PROVE (mishaps \in Nat)'
  BY <1>5 DEF Put, Merge
<1>6. ASSUME NEW d \in Deliveries, Settle(d) PROVE (mishaps \in Nat)'
  BY <1>6 DEF Settle, SetRow, Outcome
<1>7. ASSUME NEW d \in Deliveries, DispatchConflictWorker(d) PROVE (mishaps \in Nat)'
  BY <1>7 DEF DispatchConflictWorker, TaskStatuses
<1>8. ASSUME NEW i \in DOMAIN rows, Age(i) PROVE (mishaps \in Nat)'
  BY <1>8 DEF Age
<1>9. CASE RecoverStuckMerges
  BY <1>9 DEF RecoverStuckMerges
<1>10. ASSUME NEW p \in Pulls, MergedElsewhere(p) PROVE (mishaps \in Nat)'
  BY <1>10 DEF MergedElsewhere, Merge
<1>11. ASSUME NEW p \in Pulls, Resolved(p) PROVE (mishaps \in Nat)'
  BY <1>11 DEF Resolved
<1>12. CASE Mishap /\ MergeCrash
  BY <1>12 DEF MergeCrash
<1>13. CASE UNCHANGED mergeQueueVars
  BY <1>13
<1> QED
  BY <1>1, <1>2, <1>3, <1>4, <1>5, <1>6, <1>7, <1>8, <1>9, <1>10, <1>11, <1>12, <1>13
  DEF MergeNext, Queue, Process, Watch, Elsewhere

\* A row held stays the only one in 'merging'.
LEMMA HeldKept == QueueInv /\ [MergeNext]_mergeQueueVars => HeldOK'
<1> SUFFICES ASSUME QueueInv, [MergeNext]_mergeQueueVars PROVE HeldOK'
  OBVIOUS
<1> USE DEF QueueInv, QueueTypeOK, Rows, HeldOK, Busy, Holds
<1>1. ASSUME NEW d \in Deliveries, NEW p \in Pulls, Deliver(d, p) PROVE HeldOK'
  BY <1>1 DEF Deliver
<1>2. ASSUME NEW d \in Deliveries, Count(d) PROVE HeldOK'
  BY <1>2 DEF Count
<1>3. ASSUME NEW d \in Deliveries, Insert(d) PROVE HeldOK'
  <2>1. CASE Mishap /\ UNCHANGED rows
    BY <1>3, <2>1 DEF Insert
  <2>2. CASE Fine /\ rows' = Append(rows, NewRow(pull[d]))
    <3>1. NewRow(pull[d]) \in Row
      BY <1>3 DEF Insert, HeldOK, NewRow, Row
    <3>2. Added(NewRow(pull[d]))
      BY <2>2, <3>1, RowAdded
    <3> QED
      BY <1>3, <2>2, <3>2 DEF Insert, Added, NewRow, Row
  <2> QED
    BY <1>3, <2>1, <2>2 DEF Insert, NewRow
<1>4. ASSUME NEW d \in Deliveries, Claim(d) PROVE HeldOK'
  <2>1. pc[d] = "claim" /\ UNCHANGED <<pulls, workers, pull, answer>>
    BY <1>4 DEF Claim
  <2>2. CASE /\ pc' = [pc EXCEPT ![d] = "end"] /\ UNCHANGED <<rows, row>>
             /\ \/ (Rows({"queued"}) = {} \/ Rows({"merging"}) # {}) /\ Fine
                \/ Mishap
    BY <2>1, <2>2
  <2>3. ASSUME NEW i \in Rows({"queued"}), Rows({"merging"}) = {}, SetRow(i, "merging"),
               row' = [row EXCEPT ![d] = i], pc' = [pc EXCEPT ![d] = "put"], Fine
        PROVE  HeldOK'
    <3>1. Updated(i, "merging")
      BY <2>3, RowUpdated
    <3> QED
      BY <2>1, <2>3, <3>1 DEF Updated, Row
  <2> QED
    BY <1>4, <2>2, <2>3 DEF Claim
<1>5. ASSUME NEW d \in Deliveries, Put(d) PROVE HeldOK'
  BY <1>5 DEF Put, Merge
<1>6. ASSUME NEW d \in Deliveries, Settle(d) PROVE HeldOK'
  <2>1. CASE Mishap /\ UNCHANGED rows
    BY <1>6, <2>1 DEF Settle, Outcome
  <2>2. CASE Fine /\ SetRow(row[d], Outcome(answer[d]))
    <3>1. Updated(row[d], Outcome(answer[d]))
      BY <1>6, <2>2, RowUpdated DEF Settle, Outcome
    <3> QED
      BY <1>6, <2>2, <3>1 DEF Settle, Outcome, Updated, Row
  <2> QED
    BY <1>6, <2>1, <2>2 DEF Settle
<1>7. ASSUME NEW d \in Deliveries, DispatchConflictWorker(d) PROVE HeldOK'
  BY <1>7 DEF DispatchConflictWorker, TaskStatuses
<1>8. ASSUME NEW i \in DOMAIN rows, Age(i) PROVE HeldOK'
  BY <1>8, RowAged DEF Age, Row
<1>9. CASE RecoverStuckMerges
  <2>1. \A d \in Deliveries : ~Busy(d)
    <3>1. PICK i \in Rows({"merging"}) : rows[i].old
      BY <1>9 DEF RecoverStuckMerges
    <3> SUFFICES ASSUME NEW d \in Deliveries, Busy(d) PROVE FALSE
      OBVIOUS
    <3>2. Rows({"merging"}) = {row[d]} /\ ~rows[row[d]].old
      BY DEF HeldOK
    <3> QED
      BY <3>1, <3>2
  <2>2. DOMAIN rows' = DOMAIN rows /\ UNCHANGED <<pc, pull, row>>
    BY <1>9, RowsRecovered DEF RecoverStuckMerges
  <2> QED
    BY <2>1, <2>2
<1>10. ASSUME NEW p \in Pulls, MergedElsewhere(p) PROVE HeldOK'
  BY <1>10 DEF MergedElsewhere, Merge
<1>11. ASSUME NEW p \in Pulls, Resolved(p) PROVE HeldOK'
  BY <1>11 DEF Resolved
<1>12. CASE Mishap /\ MergeCrash
  BY <1>12 DEF MergeCrash
<1>13. CASE UNCHANGED mergeQueueVars
  BY <1>13
<1> QED
  BY <1>1, <1>2, <1>3, <1>4, <1>5, <1>6, <1>7, <1>8, <1>9, <1>10, <1>11, <1>12, <1>13
  DEF MergeNext, Queue, Process, Watch, Elsewhere

\* What GitHub answered stays so.
LEMMA AnswerKept == QueueInv /\ [MergeNext]_mergeQueueVars => AnswerOK'
<1> SUFFICES ASSUME QueueInv, [MergeNext]_mergeQueueVars PROVE AnswerOK'
  OBVIOUS
<1> USE DEF QueueInv, QueueTypeOK, Rows, HeldOK, Busy, AnswerOK
<1>1. ASSUME NEW d \in Deliveries, NEW p \in Pulls, Deliver(d, p) PROVE AnswerOK'
  BY <1>1 DEF Deliver
<1>2. ASSUME NEW d \in Deliveries, Count(d) PROVE AnswerOK'
  BY <1>2 DEF Count
<1>3. ASSUME NEW d \in Deliveries, Insert(d) PROVE AnswerOK'
  <2>1. CASE Mishap /\ UNCHANGED rows
    BY <1>3, <2>1 DEF Insert
  <2>2. CASE Fine /\ rows' = Append(rows, NewRow(pull[d]))
    <3>1. NewRow(pull[d]) \in Row
      BY <1>3 DEF Insert, HeldOK, NewRow, Row
    <3>2. Added(NewRow(pull[d]))
      BY <2>2, <3>1, RowAdded
    <3> QED
      BY <1>3, <2>2, <3>2 DEF Insert, Added, NewRow, Row
  <2> QED
    BY <1>3, <2>1, <2>2 DEF Insert, NewRow
<1>4. ASSUME NEW d \in Deliveries, Claim(d) PROVE AnswerOK'
  <2>1. pc[d] = "claim" /\ UNCHANGED <<pulls, workers, pull, answer>>
    BY <1>4 DEF Claim
  <2>2. CASE /\ pc' = [pc EXCEPT ![d] = "end"] /\ UNCHANGED <<rows, row>>
             /\ \/ (Rows({"queued"}) = {} \/ Rows({"merging"}) # {}) /\ Fine
                \/ Mishap
    BY <2>1, <2>2
  <2>3. ASSUME NEW i \in Rows({"queued"}), Rows({"merging"}) = {}, SetRow(i, "merging"),
               row' = [row EXCEPT ![d] = i], pc' = [pc EXCEPT ![d] = "put"], Fine
        PROVE  AnswerOK'
    <3>1. Updated(i, "merging")
      BY <2>3, RowUpdated
    <3> QED
      BY <2>1, <2>3, <3>1 DEF Updated, Row
  <2> QED
    BY <1>4, <2>2, <2>3 DEF Claim
<1>5. ASSUME NEW d \in Deliveries, Put(d) PROVE AnswerOK'
  <2>1. row[d] \in DOMAIN rows /\ rows[row[d]].pull \in Pulls
    BY <1>5, HeldRow DEF Put, Busy
  <2>2. CASE Merge(rows[row[d]].pull)
    BY <1>5, <2>1, <2>2, Merging DEF Put
  <2>3. CASE UNCHANGED pulls /\ ~Merge(rows[row[d]].pull)
    <3>1. /\ pc' = [pc EXCEPT ![d] = "settle"] /\ UNCHANGED <<rows, row>>
          /\ \/ pulls[rows[row[d]].pull] = "merged" /\ answer' = [answer EXCEPT ![d] = "already"]
             \/ answer' = [answer EXCEPT ![d] = "refused"]
             \/ answer' = [answer EXCEPT ![d] = "error"]
      BY <1>5, <2>3 DEF Put
    <3> QED
      BY <2>1, <2>3, <3>1
  <2> QED
    BY <1>5, <2>2, <2>3 DEF Put
<1>6. ASSUME NEW d \in Deliveries, Settle(d) PROVE AnswerOK'
  <2>1. CASE Mishap /\ UNCHANGED rows
    BY <1>6, <2>1 DEF Settle, Outcome
  <2>2. CASE Fine /\ SetRow(row[d], Outcome(answer[d]))
    <3>1. Updated(row[d], Outcome(answer[d]))
      BY <1>6, <2>2, RowUpdated DEF Settle, Outcome
    <3> QED
      BY <1>6, <2>2, <3>1 DEF Settle, Outcome, Updated, Row
  <2> QED
    BY <1>6, <2>1, <2>2 DEF Settle
<1>7. ASSUME NEW d \in Deliveries, DispatchConflictWorker(d) PROVE AnswerOK'
  BY <1>7 DEF DispatchConflictWorker, TaskStatuses
<1>8. ASSUME NEW i \in DOMAIN rows, Age(i) PROVE AnswerOK'
  BY <1>8, RowAged DEF Age, Row
<1>9. CASE RecoverStuckMerges
  BY <1>9, RowsRecovered DEF RecoverStuckMerges, Row
<1>10. ASSUME NEW p \in Pulls, MergedElsewhere(p) PROVE AnswerOK'
  <2>1. /\ pulls' \in [Pulls -> {"open", "conflicting", "merged"}]
        /\ \A q \in Pulls : pulls[q] = "merged" => pulls'[q] = "merged"
    BY <1>10, Merging DEF MergedElsewhere
  <2> QED
    BY <1>10, <2>1, HeldRow, RowsAreFunction DEF MergedElsewhere, Row
<1>11. ASSUME NEW p \in Pulls, Resolved(p) PROVE AnswerOK'
  BY <1>11 DEF Resolved
<1>12. CASE Mishap /\ MergeCrash
  BY <1>12 DEF MergeCrash
<1>13. CASE UNCHANGED mergeQueueVars
  BY <1>13
<1> QED
  BY <1>1, <1>2, <1>3, <1>4, <1>5, <1>6, <1>7, <1>8, <1>9, <1>10, <1>11, <1>12, <1>13
  DEF MergeNext, Queue, Process, Watch, Elsewhere

\* A row in 'merging' stays held while nothing has failed.
LEMMA MergingKept == QueueInv /\ [MergeNext]_mergeQueueVars => MergingHeld'
<1> SUFFICES ASSUME QueueInv, [MergeNext]_mergeQueueVars PROVE MergingHeld'
  OBVIOUS
<1> USE DEF QueueInv, QueueTypeOK, Rows, HeldOK, Busy, MergingHeld, Holds
<1>1. ASSUME NEW d \in Deliveries, NEW p \in Pulls, Deliver(d, p) PROVE MergingHeld'
  BY <1>1 DEF Deliver
<1>2. ASSUME NEW d \in Deliveries, Count(d) PROVE MergingHeld'
  BY <1>2 DEF Count
<1>3. ASSUME NEW d \in Deliveries, Insert(d) PROVE MergingHeld'
  <2>1. CASE Mishap /\ UNCHANGED rows
    BY <1>3, <2>1 DEF Insert
  <2>2. CASE Fine /\ rows' = Append(rows, NewRow(pull[d]))
    <3>1. NewRow(pull[d]) \in Row
      BY <1>3 DEF Insert, HeldOK, NewRow, Row
    <3>2. Added(NewRow(pull[d]))
      BY <2>2, <3>1, RowAdded
    <3>3. Rows({"merging"})' = Rows({"merging"})
      BY <3>2 DEF Added, NewRow
    <3>4. row' = row /\ \A e \in Deliveries : Busy(e) => pc'[e] = pc[e]
      BY <1>3 DEF Insert
    <3>5. mishaps' = mishaps
      BY <2>2
    <3>6. mishaps = 0 => \A i \in Rows({"merging"}) : \E e \in Deliveries : Busy(e) /\ row[e] = i
      BY DEF Rows
    <3> QED
      BY <3>3, <3>4, <3>5, <3>6
  <2> QED
    BY <1>3, <2>1, <2>2 DEF Insert, NewRow
<1>4. ASSUME NEW d \in Deliveries, Claim(d) PROVE MergingHeld'
  <2>1. pc[d] = "claim" /\ UNCHANGED <<pulls, workers, pull, answer>>
    BY <1>4 DEF Claim
  <2>2. CASE /\ pc' = [pc EXCEPT ![d] = "end"] /\ UNCHANGED <<rows, row>>
             /\ \/ (Rows({"queued"}) = {} \/ Rows({"merging"}) # {}) /\ Fine
                \/ Mishap
    BY <2>1, <2>2
  <2>3. ASSUME NEW i \in Rows({"queued"}), Rows({"merging"}) = {}, SetRow(i, "merging"),
               row' = [row EXCEPT ![d] = i], pc' = [pc EXCEPT ![d] = "put"], Fine
        PROVE  MergingHeld'
    <3>1. Updated(i, "merging")
      BY <2>3, RowUpdated
    <3> QED
      BY <2>1, <2>3, <3>1 DEF Updated, Row
  <2> QED
    BY <1>4, <2>2, <2>3 DEF Claim
<1>5. ASSUME NEW d \in Deliveries, Put(d) PROVE MergingHeld'
  BY <1>5 DEF Put, Merge
<1>6. ASSUME NEW d \in Deliveries, Settle(d) PROVE MergingHeld'
  <2>1. CASE Mishap /\ UNCHANGED rows
    BY <1>6, <2>1 DEF Settle, Outcome
  <2>2. CASE Fine /\ SetRow(row[d], Outcome(answer[d]))
    <3>1. Updated(row[d], Outcome(answer[d]))
      BY <1>6, <2>2, RowUpdated DEF Settle, Outcome
    <3> QED
      BY <1>6, <2>2, <3>1 DEF Settle, Outcome, Updated, Row
  <2> QED
    BY <1>6, <2>1, <2>2 DEF Settle
<1>7. ASSUME NEW d \in Deliveries, DispatchConflictWorker(d) PROVE MergingHeld'
  BY <1>7 DEF DispatchConflictWorker, TaskStatuses
<1>8. ASSUME NEW i \in DOMAIN rows, Age(i) PROVE MergingHeld'
  BY <1>8, RowAged DEF Age, Row
<1>9. CASE RecoverStuckMerges
  <2>1. mishaps # 0
    BY <1>9 DEF RecoverStuckMerges
  <2> QED
    BY <1>9, <2>1 DEF RecoverStuckMerges
<1>10. ASSUME NEW p \in Pulls, MergedElsewhere(p) PROVE MergingHeld'
  BY <1>10 DEF MergedElsewhere, Merge
<1>11. ASSUME NEW p \in Pulls, Resolved(p) PROVE MergingHeld'
  BY <1>11 DEF Resolved
<1>12. CASE Mishap /\ MergeCrash
  BY <1>12 DEF MergeCrash
<1>13. CASE UNCHANGED mergeQueueVars
  BY <1>13
<1> QED
  BY <1>1, <1>2, <1>3, <1>4, <1>5, <1>6, <1>7, <1>8, <1>9, <1>10, <1>11, <1>12, <1>13
  DEF MergeNext, Queue, Process, Watch, Elsewhere

\* Rows that say merged stay true.
LEMMA MergedKept == QueueInv /\ [MergeNext]_mergeQueueVars => MergedMeansMerged'
<1> SUFFICES ASSUME QueueInv, [MergeNext]_mergeQueueVars PROVE MergedMeansMerged'
  OBVIOUS
<1> USE DEF QueueInv, QueueTypeOK, Rows, HeldOK, Busy, AnswerOK, MergedMeansMerged
<1>1. ASSUME NEW d \in Deliveries, NEW p \in Pulls, Deliver(d, p) PROVE MergedMeansMerged'
  BY <1>1 DEF Deliver
<1>2. ASSUME NEW d \in Deliveries, Count(d) PROVE MergedMeansMerged'
  BY <1>2 DEF Count
<1>3. ASSUME NEW d \in Deliveries, Insert(d) PROVE MergedMeansMerged'
  <2>1. CASE Mishap /\ UNCHANGED rows
    BY <1>3, <2>1 DEF Insert
  <2>2. CASE Fine /\ rows' = Append(rows, NewRow(pull[d]))
    <3>1. NewRow(pull[d]) \in Row
      BY <1>3 DEF Insert, HeldOK, NewRow, Row
    <3>2. Added(NewRow(pull[d]))
      BY <2>2, <3>1, RowAdded
    <3> QED
      BY <1>3, <2>2, <3>2 DEF Insert, Added, NewRow, Row
  <2> QED
    BY <1>3, <2>1, <2>2 DEF Insert, NewRow
<1>4. ASSUME NEW d \in Deliveries, Claim(d) PROVE MergedMeansMerged'
  <2>1. pc[d] = "claim" /\ UNCHANGED <<pulls, workers, pull, answer>>
    BY <1>4 DEF Claim
  <2>2. CASE /\ pc' = [pc EXCEPT ![d] = "end"] /\ UNCHANGED <<rows, row>>
             /\ \/ (Rows({"queued"}) = {} \/ Rows({"merging"}) # {}) /\ Fine
                \/ Mishap
    BY <2>1, <2>2
  <2>3. ASSUME NEW i \in Rows({"queued"}), Rows({"merging"}) = {}, SetRow(i, "merging"),
               row' = [row EXCEPT ![d] = i], pc' = [pc EXCEPT ![d] = "put"], Fine
        PROVE  MergedMeansMerged'
    <3>1. Updated(i, "merging")
      BY <2>3, RowUpdated
    <3> QED
      <4>1. \A j \in DOMAIN rows' : rows'[j].status = "merged" =>
              j \in DOMAIN rows /\ rows'[j] = rows[j]
        BY <2>3, <3>1 DEF Updated
      <4> QED
        BY <2>1, <4>1
  <2> QED
    BY <1>4, <2>2, <2>3 DEF Claim
<1>5. ASSUME NEW d \in Deliveries, Put(d) PROVE MergedMeansMerged'
  <2>1. row[d] \in DOMAIN rows /\ rows[row[d]].pull \in Pulls
    BY <1>5, HeldRow DEF Put, Busy
  <2>2. CASE Merge(rows[row[d]].pull)
    <3>1. \A q \in Pulls : pulls[q] = "merged" => pulls'[q] = "merged"
      BY <2>1, <2>2, Merging
    <3> QED
      BY <1>5, <3>1, RowsAreFunction DEF Put, Row
  <2>3. CASE UNCHANGED pulls
    BY <1>5, <2>1, <2>3 DEF Put
  <2> QED
    BY <1>5, <2>2, <2>3 DEF Put
<1>6. ASSUME NEW d \in Deliveries, Settle(d) PROVE MergedMeansMerged'
  <2>1. CASE Mishap /\ UNCHANGED rows
    BY <1>6, <2>1 DEF Settle, Outcome
  <2>2. CASE Fine /\ SetRow(row[d], Outcome(answer[d]))
    <3>1. Updated(row[d], Outcome(answer[d]))
      BY <1>6, <2>2, RowUpdated DEF Settle, Outcome
    <3> QED
      BY <1>6, <2>2, <3>1 DEF Settle, Outcome, Updated, Row
  <2> QED
    BY <1>6, <2>1, <2>2 DEF Settle
<1>7. ASSUME NEW d \in Deliveries, DispatchConflictWorker(d) PROVE MergedMeansMerged'
  BY <1>7 DEF DispatchConflictWorker, TaskStatuses
<1>8. ASSUME NEW i \in DOMAIN rows, Age(i) PROVE MergedMeansMerged'
  BY <1>8, RowAged DEF Age, Row
<1>9. CASE RecoverStuckMerges
  BY <1>9, RowsRecovered DEF RecoverStuckMerges, Row
<1>10. ASSUME NEW p \in Pulls, MergedElsewhere(p) PROVE MergedMeansMerged'
  <2>1. /\ pulls' \in [Pulls -> {"open", "conflicting", "merged"}]
        /\ \A q \in Pulls : pulls[q] = "merged" => pulls'[q] = "merged"
    BY <1>10, Merging DEF MergedElsewhere
  <2> QED
    BY <1>10, <2>1, HeldRow, RowsAreFunction DEF MergedElsewhere, Row
<1>11. ASSUME NEW p \in Pulls, Resolved(p) PROVE MergedMeansMerged'
  BY <1>11 DEF Resolved
<1>12. CASE Mishap /\ MergeCrash
  BY <1>12 DEF MergeCrash
<1>13. CASE UNCHANGED mergeQueueVars
  BY <1>13
<1> QED
  BY <1>1, <1>2, <1>3, <1>4, <1>5, <1>6, <1>7, <1>8, <1>9, <1>10, <1>11, <1>12, <1>13
  DEF MergeNext, Queue, Process, Watch, Elsewhere

\* Rows are settled in the order of the table.
LEMMA OrderKept == QueueInv /\ [MergeNext]_mergeQueueVars => InOrder'
<1> SUFFICES ASSUME QueueInv, [MergeNext]_mergeQueueVars PROVE InOrder'
  OBVIOUS
<1> USE DEF QueueInv, QueueTypeOK, Rows, HeldOK, Busy, InOrder, Oldest
<1>1. ASSUME NEW d \in Deliveries, NEW p \in Pulls, Deliver(d, p) PROVE InOrder'
  BY <1>1 DEF Deliver
<1>2. ASSUME NEW d \in Deliveries, Count(d) PROVE InOrder'
  BY <1>2 DEF Count
<1>3. ASSUME NEW d \in Deliveries, Insert(d) PROVE InOrder'
  <2>1. CASE Mishap /\ UNCHANGED rows
    BY <1>3, <2>1 DEF Insert
  <2>2. CASE Fine /\ rows' = Append(rows, NewRow(pull[d]))
    <3>1. NewRow(pull[d]) \in Row
      BY <1>3 DEF Insert, HeldOK, NewRow, Row
    <3>2. Added(NewRow(pull[d]))
      BY <2>2, <3>1, RowAdded
    <3> QED
      BY <1>3, <2>2, <3>2 DEF Insert, Added, NewRow, Row
  <2> QED
    BY <1>3, <2>1, <2>2 DEF Insert, NewRow
<1>4. ASSUME NEW d \in Deliveries, Claim(d) PROVE InOrder'
  <2>1. pc[d] = "claim" /\ UNCHANGED <<pulls, workers, pull, answer>>
    BY <1>4 DEF Claim
  <2>2. CASE /\ pc' = [pc EXCEPT ![d] = "end"] /\ UNCHANGED <<rows, row>>
             /\ \/ (Rows({"queued"}) = {} \/ Rows({"merging"}) # {}) /\ Fine
                \/ Mishap
    BY <2>1, <2>2
  <2>3. ASSUME NEW i \in Rows({"queued"}), Rows({"merging"}) = {}, Oldest(i),
               SetRow(i, "merging")
        PROVE  InOrder'
    <3>1. Updated(i, "merging")
      BY <2>3, RowUpdated
    <3>2. rows \in [DOMAIN rows -> Row] /\ \A j \in DOMAIN rows : j \in Nat
      BY RowsAreFunction
    <3>3. \A j \in DOMAIN rows : j < i => rows[j].status \in Settled
      BY <2>3, <3>2 DEF Row
    <3>4. \A j \in DOMAIN rows : j # i => rows'[j].status = rows[j].status
      BY <3>1 DEF Updated
    <3>5. rows[i].status = "queued" /\ DOMAIN rows' = DOMAIN rows
      BY <3>1 DEF Updated
    <3> QED
      BY <3>3, <3>4, <3>5
  <2> QED
    BY <1>4, <2>2, <2>3 DEF Claim
<1>5. ASSUME NEW d \in Deliveries, Put(d) PROVE InOrder'
  <2>1. row[d] \in DOMAIN rows /\ rows[row[d]].pull \in Pulls
    BY <1>5, HeldRow DEF Put, Busy
  <2>2. CASE Merge(rows[row[d]].pull)
    BY <1>5, <2>1, <2>2, Merging DEF Put
  <2>3. CASE UNCHANGED pulls
    BY <1>5, <2>1, <2>3 DEF Put
  <2> QED
    BY <1>5, <2>2, <2>3 DEF Put
<1>6. ASSUME NEW d \in Deliveries, Settle(d) PROVE InOrder'
  <2>1. CASE Mishap /\ UNCHANGED rows
    BY <1>6, <2>1 DEF Settle, Outcome
  <2>2. CASE Fine /\ SetRow(row[d], Outcome(answer[d]))
    <3>1. Updated(row[d], Outcome(answer[d]))
      BY <1>6, <2>2, RowUpdated DEF Settle, Outcome
    <3> QED
      BY <1>6, <2>2, <3>1 DEF Settle, Outcome, Updated, Row
  <2> QED
    BY <1>6, <2>1, <2>2 DEF Settle
<1>7. ASSUME NEW d \in Deliveries, DispatchConflictWorker(d) PROVE InOrder'
  BY <1>7 DEF DispatchConflictWorker, TaskStatuses
<1>8. ASSUME NEW i \in DOMAIN rows, Age(i) PROVE InOrder'
  BY <1>8, RowAged DEF Age, Row
<1>9. CASE RecoverStuckMerges
  BY <1>9, RowsRecovered DEF RecoverStuckMerges, Row
<1>10. ASSUME NEW p \in Pulls, MergedElsewhere(p) PROVE InOrder'
  <2>1. /\ pulls' \in [Pulls -> {"open", "conflicting", "merged"}]
        /\ \A q \in Pulls : pulls[q] = "merged" => pulls'[q] = "merged"
    BY <1>10, Merging DEF MergedElsewhere
  <2> QED
    BY <1>10, <2>1, HeldRow, RowsAreFunction DEF MergedElsewhere, Row
<1>11. ASSUME NEW p \in Pulls, Resolved(p) PROVE InOrder'
  BY <1>11 DEF Resolved
<1>12. CASE Mishap /\ MergeCrash
  BY <1>12 DEF MergeCrash
<1>13. CASE UNCHANGED mergeQueueVars
  BY <1>13
<1> QED
  BY <1>1, <1>2, <1>3, <1>4, <1>5, <1>6, <1>7, <1>8, <1>9, <1>10, <1>11, <1>12, <1>13
  DEF MergeNext, Queue, Process, Watch, Elsewhere

\* A pull just refused has no merged row.
LEMMA RefusedKept == QueueInv /\ [MergeNext]_mergeQueueVars => RefusedOK'
<1> SUFFICES ASSUME QueueInv, [MergeNext]_mergeQueueVars PROVE RefusedOK'
  OBVIOUS
<1> USE DEF QueueInv, QueueTypeOK, Rows, HeldOK, Busy, RefusedOK, MergedMeansMerged
<1>1. ASSUME NEW d \in Deliveries, NEW p \in Pulls, Deliver(d, p) PROVE RefusedOK'
  BY <1>1 DEF Deliver
<1>2. ASSUME NEW d \in Deliveries, Count(d) PROVE RefusedOK'
  BY <1>2 DEF Count
<1>3. ASSUME NEW d \in Deliveries, Insert(d) PROVE RefusedOK'
  <2>1. CASE Mishap /\ UNCHANGED rows
    BY <1>3, <2>1 DEF Insert
  <2>2. CASE Fine /\ rows' = Append(rows, NewRow(pull[d]))
    <3>1. NewRow(pull[d]) \in Row
      BY <1>3 DEF Insert, HeldOK, NewRow, Row
    <3>2. Added(NewRow(pull[d]))
      BY <2>2, <3>1, RowAdded
    <3> QED
      BY <1>3, <2>2, <3>2 DEF Insert, Added, NewRow, Row
  <2> QED
    BY <1>3, <2>1, <2>2 DEF Insert, NewRow
<1>4. ASSUME NEW d \in Deliveries, Claim(d) PROVE RefusedOK'
  <2>1. pc[d] = "claim" /\ UNCHANGED <<pulls, workers, pull, answer>>
    BY <1>4 DEF Claim
  <2>2. CASE /\ pc' = [pc EXCEPT ![d] = "end"] /\ UNCHANGED <<rows, row>>
             /\ \/ (Rows({"queued"}) = {} \/ Rows({"merging"}) # {}) /\ Fine
                \/ Mishap
    BY <2>1, <2>2
  <2>3. ASSUME NEW i \in Rows({"queued"}), Rows({"merging"}) = {}, SetRow(i, "merging"),
               row' = [row EXCEPT ![d] = i], pc' = [pc EXCEPT ![d] = "put"], Fine
        PROVE  RefusedOK'
    <3>1. Updated(i, "merging")
      BY <2>3, RowUpdated
    <3> QED
      BY <2>1, <2>3, <3>1 DEF Updated, Row
  <2> QED
    BY <1>4, <2>2, <2>3 DEF Claim
<1>5. ASSUME NEW d \in Deliveries, Put(d) PROVE RefusedOK'
  <2>1. row[d] \in DOMAIN rows /\ rows[row[d]].pull \in Pulls
    BY <1>5, HeldRow DEF Put, Busy
  <2>2. CASE Merge(rows[row[d]].pull)
    BY <1>5, <2>1, <2>2, Merging DEF Put
  <2>3. CASE UNCHANGED pulls
    BY <1>5, <2>1, <2>3 DEF Put
  <2> QED
    BY <1>5, <2>2, <2>3 DEF Put
<1>6. ASSUME NEW d \in Deliveries, Settle(d) PROVE RefusedOK'
  <2>1. CASE Mishap /\ UNCHANGED rows
    BY <1>6, <2>1 DEF Settle, Outcome
  <2>2. CASE Fine /\ SetRow(row[d], Outcome(answer[d]))
    <3>1. Updated(row[d], Outcome(answer[d]))
      BY <1>6, <2>2, RowUpdated DEF Settle, Outcome
    <3> QED
      BY <1>6, <2>2, <3>1 DEF Settle, Outcome, Updated, Row
  <2> QED
    BY <1>6, <2>1, <2>2 DEF Settle
<1>7. ASSUME NEW d \in Deliveries, DispatchConflictWorker(d) PROVE RefusedOK'
  BY <1>7 DEF DispatchConflictWorker, TaskStatuses
<1>8. ASSUME NEW i \in DOMAIN rows, Age(i) PROVE RefusedOK'
  BY <1>8, RowAged DEF Age, Row
<1>9. CASE RecoverStuckMerges
  <2>1. mishaps # 0
    BY <1>9 DEF RecoverStuckMerges, MergingHeld, Holds
  <2> QED
    BY <1>9, <2>1 DEF RecoverStuckMerges
<1>10. ASSUME NEW p \in Pulls, MergedElsewhere(p) PROVE RefusedOK'
  <2>1. /\ pulls' \in [Pulls -> {"open", "conflicting", "merged"}]
        /\ \A q \in Pulls : pulls[q] = "merged" => pulls'[q] = "merged"
    BY <1>10, Merging DEF MergedElsewhere
  <2> QED
    BY <1>10, <2>1, HeldRow, RowsAreFunction DEF MergedElsewhere, Row
<1>11. ASSUME NEW p \in Pulls, Resolved(p) PROVE RefusedOK'
  BY <1>11 DEF Resolved
<1>12. CASE Mishap /\ MergeCrash
  BY <1>12 DEF MergeCrash
<1>13. CASE UNCHANGED mergeQueueVars
  BY <1>13
<1> QED
  BY <1>1, <1>2, <1>3, <1>4, <1>5, <1>6, <1>7, <1>8, <1>9, <1>10, <1>11, <1>12, <1>13
  DEF MergeNext, Queue, Process, Watch, Elsewhere

\* A merged row is followed by no conflict of its pull.
LEMMA ConflictsKept == QueueInv /\ [MergeNext]_mergeQueueVars => NoConflictAfterMerge'
<1> SUFFICES ASSUME QueueInv, [MergeNext]_mergeQueueVars PROVE NoConflictAfterMerge'
  OBVIOUS
<1> USE DEF QueueInv, QueueTypeOK, Rows, HeldOK, Busy, InOrder, RefusedOK, NoConflictAfterMerge
<1>1. ASSUME NEW d \in Deliveries, NEW p \in Pulls, Deliver(d, p) PROVE NoConflictAfterMerge'
  BY <1>1 DEF Deliver
<1>2. ASSUME NEW d \in Deliveries, Count(d) PROVE NoConflictAfterMerge'
  BY <1>2 DEF Count
<1>3. ASSUME NEW d \in Deliveries, Insert(d) PROVE NoConflictAfterMerge'
  <2>1. CASE Mishap /\ UNCHANGED rows
    BY <1>3, <2>1 DEF Insert
  <2>2. CASE Fine /\ rows' = Append(rows, NewRow(pull[d]))
    <3>1. NewRow(pull[d]) \in Row
      BY <1>3 DEF Insert, HeldOK, NewRow, Row
    <3>2. Added(NewRow(pull[d]))
      BY <2>2, <3>1, RowAdded
    <3> QED
      BY <1>3, <2>2, <3>2 DEF Insert, Added, NewRow, Row
  <2> QED
    BY <1>3, <2>1, <2>2 DEF Insert, NewRow
<1>4. ASSUME NEW d \in Deliveries, Claim(d) PROVE NoConflictAfterMerge'
  <2>1. pc[d] = "claim" /\ UNCHANGED <<pulls, workers, pull, answer>>
    BY <1>4 DEF Claim
  <2>2. CASE /\ pc' = [pc EXCEPT ![d] = "end"] /\ UNCHANGED <<rows, row>>
             /\ \/ (Rows({"queued"}) = {} \/ Rows({"merging"}) # {}) /\ Fine
                \/ Mishap
    BY <2>1, <2>2
  <2>3. ASSUME NEW i \in Rows({"queued"}), Rows({"merging"}) = {}, SetRow(i, "merging"),
               row' = [row EXCEPT ![d] = i], pc' = [pc EXCEPT ![d] = "put"], Fine
        PROVE  NoConflictAfterMerge'
    <3>1. Updated(i, "merging")
      BY <2>3, RowUpdated
    <3>2. /\ DOMAIN rows' = DOMAIN rows /\ rows'[i].status = "merging"
          /\ \A j \in DOMAIN rows : j # i => rows'[j] = rows[j]
      BY <3>1 DEF Updated
    <3> QED
      BY <2>3, <3>2
  <2> QED
    BY <1>4, <2>2, <2>3 DEF Claim
<1>5. ASSUME NEW d \in Deliveries, Put(d) PROVE NoConflictAfterMerge'
  <2>1. row[d] \in DOMAIN rows /\ rows[row[d]].pull \in Pulls
    BY <1>5, HeldRow DEF Put, Busy
  <2>2. CASE Merge(rows[row[d]].pull)
    BY <1>5, <2>1, <2>2, Merging DEF Put
  <2>3. CASE UNCHANGED pulls
    BY <1>5, <2>1, <2>3 DEF Put
  <2> QED
    BY <1>5, <2>2, <2>3 DEF Put
<1>6. ASSUME NEW d \in Deliveries, Settle(d) PROVE NoConflictAfterMerge'
  <2>1. CASE Mishap /\ UNCHANGED rows
    BY <1>6, <2>1 DEF Settle, Outcome
  <2>2. CASE Fine /\ SetRow(row[d], Outcome(answer[d]))
    <3>1. Updated(row[d], Outcome(answer[d]))
      BY <1>6, <2>2, RowUpdated DEF Settle, Outcome
    <3>2. pc[d] = "settle" /\ row[d] \in DOMAIN rows /\ rows[row[d]].status = "merging"
      BY <1>6 DEF Settle
    <3>3. /\ DOMAIN rows' = DOMAIN rows /\ mishaps' = mishaps
          /\ \A i \in DOMAIN rows : i # row[d] => rows'[i] = rows[i]
          /\ rows'[row[d]].pull = rows[row[d]].pull
          /\ rows'[row[d]].status = Outcome(answer[d])
      BY <2>2, <3>1 DEF Updated
    <3>4. \A i \in DOMAIN rows : i \in Nat
      BY RowsAreFunction
    <3>5. ASSUME mishaps = 0, NEW i \in DOMAIN rows, NEW j \in DOMAIN rows,
                 i < j, rows[i].pull = rows[j].pull, rows'[i].status = "merged"
          PROVE  rows'[j].status # "conflict"
      <4>1. CASE j = row[d]
        <5>1. i # row[d] /\ rows[i].status = "merged"
          BY <3>3, <3>4, <3>5, <4>1
        <5>2. answer[d] # "refused"
          BY <3>2, <3>5, <4>1, <5>1
        <5> QED
          BY <3>3, <4>1, <5>2 DEF Outcome
      <4>2. CASE i = row[d]
        <5>1. j # row[d] /\ rows'[j] = rows[j]
          BY <3>3, <3>4, <3>5, <4>2
        <5>2. rows[j].status = "queued"
          BY <3>2, <3>5, <4>2
        <5> QED
          BY <5>1, <5>2
      <4>3. CASE i # row[d] /\ j # row[d]
        BY <3>3, <3>5, <4>3
      <4> QED
        BY <4>1, <4>2, <4>3
    <3>6. \A i \in DOMAIN rows : rows'[i].pull = rows[i].pull
      BY <3>3
    <3> QED
      BY <3>3, <3>5, <3>6
  <2> QED
    BY <1>6, <2>1, <2>2 DEF Settle
<1>7. ASSUME NEW d \in Deliveries, DispatchConflictWorker(d) PROVE NoConflictAfterMerge'
  BY <1>7 DEF DispatchConflictWorker, TaskStatuses
<1>8. ASSUME NEW i \in DOMAIN rows, Age(i) PROVE NoConflictAfterMerge'
  BY <1>8, RowAged DEF Age, Row
<1>9. CASE RecoverStuckMerges
  <2>1. DOMAIN rows' = DOMAIN rows /\ mishaps' = mishaps
    BY <1>9, RowsRecovered DEF RecoverStuckMerges
  <2>2. ASSUME NEW i \in DOMAIN rows
        PROVE  /\ rows'[i].pull = rows[i].pull
               /\ rows'[i].status \in {rows[i].status, "queued"}
    BY <1>9, <2>2, RowsRecovered
  <2>3. ASSUME mishaps = 0, NEW i \in DOMAIN rows, NEW j \in DOMAIN rows,
               i < j, rows'[i].pull = rows'[j].pull, rows'[i].status = "merged"
        PROVE  rows'[j].status # "conflict"
    <3>1. rows[i].pull = rows[j].pull /\ rows[i].status = "merged"
      BY <2>2, <2>3
    <3>2. rows[j].status # "conflict"
      BY <2>3, <3>1
    <3> QED
      BY <2>2, <3>2
  <2> QED
    BY <2>1, <2>3
<1>10. ASSUME NEW p \in Pulls, MergedElsewhere(p) PROVE NoConflictAfterMerge'
  <2>1. /\ pulls' \in [Pulls -> {"open", "conflicting", "merged"}]
        /\ \A q \in Pulls : pulls[q] = "merged" => pulls'[q] = "merged"
    BY <1>10, Merging DEF MergedElsewhere
  <2> QED
    BY <1>10, <2>1, HeldRow, RowsAreFunction DEF MergedElsewhere, Row
<1>11. ASSUME NEW p \in Pulls, Resolved(p) PROVE NoConflictAfterMerge'
  BY <1>11 DEF Resolved
<1>12. CASE Mishap /\ MergeCrash
  BY <1>12 DEF MergeCrash
<1>13. CASE UNCHANGED mergeQueueVars
  BY <1>13
<1> QED
  BY <1>1, <1>2, <1>3, <1>4, <1>5, <1>6, <1>7, <1>8, <1>9, <1>10, <1>11, <1>12, <1>13
  DEF MergeNext, Queue, Process, Watch, Elsewhere

\* A queued row keeps its processor.
LEMMA TendedKept == QueueInv /\ [MergeNext]_mergeQueueVars => QueuedIsTended'
<1> SUFFICES ASSUME QueueInv, [MergeNext]_mergeQueueVars PROVE QueuedIsTended'
  OBVIOUS
<1> USE DEF QueueInv, QueueTypeOK, Rows, HeldOK, Busy, MergingHeld, Holds, QueuedIsTended
<1>1. ASSUME NEW d \in Deliveries, NEW p \in Pulls, Deliver(d, p) PROVE QueuedIsTended'
  BY <1>1 DEF Deliver
<1>2. ASSUME NEW d \in Deliveries, Count(d) PROVE QueuedIsTended'
  BY <1>2 DEF Count
<1>3. ASSUME NEW d \in Deliveries, Insert(d) PROVE QueuedIsTended'
  <2>1. CASE Mishap /\ UNCHANGED rows
    BY <1>3, <2>1 DEF Insert
  <2>2. CASE Fine /\ rows' = Append(rows, NewRow(pull[d]))
    <3>1. NewRow(pull[d]) \in Row
      BY <1>3 DEF Insert, HeldOK, NewRow, Row
    <3>2. Added(NewRow(pull[d]))
      BY <2>2, <3>1, RowAdded
    <3> QED
      BY <1>3, <2>2, <3>2 DEF Insert, Added, NewRow, Row
  <2> QED
    BY <1>3, <2>1, <2>2 DEF Insert, NewRow
<1>4. ASSUME NEW d \in Deliveries, Claim(d) PROVE QueuedIsTended'
  <2>1. pc[d] = "claim" /\ UNCHANGED <<pulls, workers, pull, answer>>
    BY <1>4 DEF Claim
  <2>2. CASE /\ pc' = [pc EXCEPT ![d] = "end"] /\ UNCHANGED <<rows, row>>
             /\ \/ (Rows({"queued"}) = {} \/ Rows({"merging"}) # {}) /\ Fine
                \/ Mishap
    BY <2>1, <2>2
  <2>3. ASSUME NEW i \in Rows({"queued"}), Rows({"merging"}) = {}, SetRow(i, "merging"),
               row' = [row EXCEPT ![d] = i], pc' = [pc EXCEPT ![d] = "put"], Fine
        PROVE  QueuedIsTended'
    <3>1. Updated(i, "merging")
      BY <2>3, RowUpdated
    <3> QED
      BY <2>1, <2>3, <3>1 DEF Updated, Row
  <2> QED
    BY <1>4, <2>2, <2>3 DEF Claim
<1>5. ASSUME NEW d \in Deliveries, Put(d) PROVE QueuedIsTended'
  BY <1>5 DEF Put, Merge
<1>6. ASSUME NEW d \in Deliveries, Settle(d) PROVE QueuedIsTended'
  <2>1. CASE Mishap /\ UNCHANGED rows
    BY <1>6, <2>1 DEF Settle, Outcome
  <2>2. CASE Fine /\ SetRow(row[d], Outcome(answer[d]))
    <3>1. Updated(row[d], Outcome(answer[d]))
      BY <1>6, <2>2, RowUpdated DEF Settle, Outcome
    <3> QED
      BY <1>6, <2>2, <3>1 DEF Settle, Outcome, Updated, Row
  <2> QED
    BY <1>6, <2>1, <2>2 DEF Settle
<1>7. ASSUME NEW d \in Deliveries, DispatchConflictWorker(d) PROVE QueuedIsTended'
  BY <1>7 DEF DispatchConflictWorker, TaskStatuses
<1>8. ASSUME NEW i \in DOMAIN rows, Age(i) PROVE QueuedIsTended'
  BY <1>8, RowAged DEF Age, Row
<1>9. CASE RecoverStuckMerges
  BY <1>9, RowsRecovered DEF RecoverStuckMerges, Row
<1>10. ASSUME NEW p \in Pulls, MergedElsewhere(p) PROVE QueuedIsTended'
  BY <1>10 DEF MergedElsewhere, Merge
<1>11. ASSUME NEW p \in Pulls, Resolved(p) PROVE QueuedIsTended'
  BY <1>11 DEF Resolved
<1>12. CASE Mishap /\ MergeCrash
  BY <1>12 DEF MergeCrash
<1>13. CASE UNCHANGED mergeQueueVars
  BY <1>13
<1> QED
  BY <1>1, <1>2, <1>3, <1>4, <1>5, <1>6, <1>7, <1>8, <1>9, <1>10, <1>11, <1>12, <1>13
  DEF MergeNext, Queue, Process, Watch, Elsewhere

\* Every step keeps the invariant.
LEMMA QueueInvKept == QueueInv /\ [MergeNext]_mergeQueueVars => QueueInv'
  BY TypesKept, MishapsKept, HeldKept, AnswerKept, MergingKept, MergedKept,
     OrderKept, RefusedKept, ConflictsKept, TendedKept DEF QueueInv

\* The invariant holds throughout.
LEMMA QueueInvariance == MergeSpec => []QueueInv
<1>1. MergeInit => QueueInv
  BY QueueInvInit
<1>2. QueueInv /\ [MergeNext]_mergeQueueVars => QueueInv'
  BY QueueInvKept
<1> QED
  BY <1>1, <1>2, PTL DEF MergeSpec
-----------------------------------------------------------------------------
(* The claims. *)

\* Rows, processors and GitHub keep their types (gateway/merge_queue.go).
THEOREM QueueTypeCorrect == MergeSpec => []QueueTypeOK
<1>1. QueueInv => QueueTypeOK
  BY DEF QueueInv
<1> QED
  BY <1>1, QueueInvariance, PTL

\* One processor at most merges, and its row is the one in 'merging'
\* (processMergeQueue, recoverStuckMerges).
THEOREM MergesOneAtATime == MergeSpec => []OneMergeInFlight
<1>1. QueueInv => OneMergeInFlight
  BY DEF QueueInv, HeldOK, Busy, OneMergeInFlight
<1> QED
  BY <1>1, QueueInvariance, PTL

\* A row says merged only of a pull that is (processMergeQueue).
THEOREM MergedIsTrue == MergeSpec => []MergedMeansMerged
<1>1. QueueInv => MergedMeansMerged
  BY DEF QueueInv
<1> QED
  BY <1>1, QueueInvariance, PTL

\* While nothing fails, once a row says merged no later row of the pull says
\* conflict (processMergeQueue's second case).
THEOREM NoConflictOnceMerged == MergeSpec => []NoConflictAfterMerge
<1>1. QueueInv => NoConflictAfterMerge
  BY DEF QueueInv
<1> QED
  BY <1>1, QueueInvariance, PTL

\* While nothing fails a queued row has a processor still to look for one
\* (enqueueMerge, processMergeQueue).
THEOREM QueuedTended == MergeSpec => []QueuedIsTended
<1>1. QueueInv => QueuedIsTended
  BY DEF QueueInv
<1> QED
  BY <1>1, QueueInvariance, PTL
=============================================================================
