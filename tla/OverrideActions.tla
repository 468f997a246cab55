-------------------------- MODULE OverrideActions --------------------------
(***************************************************************************)
(* The override_actions table of one (profile, symbol), as the repository  *)
(* functions of override-actions.ts see it.  Every operator is one SQL     *)
(* statement (Record is one transaction): it takes the table and returns   *)
(* the table, so that a caller's step applies it atomically.               *)
(*                                                                         *)
(* A row's id is its rank by created_at.  status folds consumed_at and     *)
(* outcome.status together: a row is consumed exactly when it has an       *)
(* outcome.  claim is processing_at: a claimer picks the stamp itself, and *)
(* a stamp is identified by the number of the claim it was minted for.     *)
(***************************************************************************)
EXTENDS Naturals

Outcomes == {"applied", "rejected", "unknown", "superseded", "expired"}

Statuses == {"absent", "pending", "deleted"} \cup Outcomes

NoClaim == 0         \* processing_at is null

NoId == 0            \* findActiveForSymbol returned null

NoRow == [status |-> "absent", claim |-> NoClaim, pickedUp |-> FALSE, createdAt |-> 0]

\* consumed_at is null
Active(row) == row.status = "pending"

\* consumed_at is null and processing_at is null
Claimable(row) == Active(row) /\ row.claim = NoClaim

\* Mutant of Consume: the guard on consumed_at is dropped.
ConsumeAgain(rows, S, outcome) ==
  [i \in DOMAIN rows |->
     IF i \in S /\ rows[i].status \notin {"absent", "deleted"}
     THEN [rows[i] EXCEPT !.status = outcome] ELSE rows[i]]

\* consume(): the only terminal write, ANDed with `consumed_at is null'.
Consume(rows, S, outcome) ==
  [i \in DOMAIN rows |->
     IF i \in S /\ Active(rows[i]) THEN [rows[i] EXCEPT !.status = outcome] ELSE rows[i]]

\* record(): settle what the new row replaces, then insert it, in one transaction.
\* seen is what the transaction's snapshot shows: at READ COMMITTED a sibling's
\* uncommitted insert is not in it.
Record(rows, id, seen) ==
  LET replaced == {i \in seen : Claimable(rows[i]) /\ ~rows[i].pickedUp}
  IN  [Consume(rows, replaced, "superseded") EXCEPT ![id].status = "pending"]

\* claimAction(): the compare-and-set on processing_at.
ClaimAction(rows, id, stamp) ==
  IF Claimable(rows[id]) THEN [rows EXCEPT ![id].claim = stamp] ELSE rows

\* settle()
Settle(rows, id, outcome) == Consume(rows, {id}, outcome)

\* releaseClaim(): fenced on the stamp the caller claimed with.
ReleaseClaim(rows, id, stamp) ==
  IF Active(rows[id]) /\ rows[id].claim = stamp
  THEN [rows EXCEPT ![id].claim = NoClaim] ELSE rows

\* reapStaleProcessing(): every claim whose stamp is in the set of stale ones.
ReapStaleProcessing(rows, stale) ==
  [i \in DOMAIN rows |->
     IF Active(rows[i]) /\ rows[i].claim \in stale
     THEN [rows[i] EXCEPT !.claim = NoClaim] ELSE rows[i]]

\* markPickedUp(): written once, never cleared.
MarkPickedUp(rows, id) ==
  IF Active(rows[id]) THEN [rows EXCEPT ![id].pickedUp = TRUE] ELSE rows

\* Mutants of ReapPicked: no breadcrumbed row is matched; all rows are `expired'.
ReapNothing(rows, S) == rows
ReapAsExpired(rows, S) == Consume(rows, S, "expired")

\* reapExpiredForAccount(), its two statements, over the stranded rows S.
ReapPicked(rows, S) == Consume(rows, {i \in S : rows[i].pickedUp}, "unknown")

ReapUnpicked(rows, S) == Consume(rows, {i \in S : ~rows[i].pickedUp}, "expired")

\* Mutant of DeletePendingForSymbol: the guard on processing_at is dropped.
DeleteActive(rows) ==
  [i \in DOMAIN rows |->
     IF Active(rows[i]) THEN [rows[i] EXCEPT !.status = "deleted"] ELSE rows[i]]

\* deletePendingForSymbol(): a hard delete of every unclaimed, unconsumed row.
DeletePendingForSymbol(rows) ==
  [i \in DOMAIN rows |->
     IF Claimable(rows[i]) THEN [rows[i] EXCEPT !.status = "deleted"] ELSE rows[i]]

\* findActiveForSymbol(): the newest unconsumed row.
FindActiveForSymbol(rows) ==
  LET active == {i \in DOMAIN rows : Active(rows[i])}
  IN  IF active = {} THEN NoId
      ELSE CHOOSE i \in active : \A j \in active : j <= i
=============================================================================
