---------------------------- MODULE GenerateTask ----------------------------
(***************************************************************************)
(* One row of generate_task and the statements of GenerateTaskRepository   *)
(* on it (src/app/server/generation/persistence/repository.py), with the   *)
(* normalisation of what the model gateway reports                         *)
(* (src/app/server/generation/domain/terminal.py).                         *)
(*                                                                         *)
(* A row is a record: its status, whether union_task_id is set, the        *)
(* callback_sent flag, whether it is soft-deleted, whether it has          *)
(* result_keys, an error_message and result_asset_ids.                     *)
(***************************************************************************)
EXTENDS Integers

CREATED == 1
QUEUED == 2
WAITING == 3
RUNNING == 4
SUCCEEDED == 5
FAILED == 6
CANCELLED == 7

Terminal == {SUCCEEDED, FAILED, CANCELLED}
NonTerminal == {CREATED, QUEUED, WAITING, RUNNING}
GatewayTaskStatus == Terminal \cup NonTerminal

\* There is no row, or no task at the gateway, yet.
NoStatus == 0

NoRow == [status |-> NoStatus, union |-> FALSE, sent |-> FALSE, deleted |-> FALSE,
          keys |-> FALSE, error |-> FALSE, assets |-> FALSE]

Rows == [status : GatewayTaskStatus \cup {NoStatus}, union : BOOLEAN, sent : BOOLEAN,
         deleted : BOOLEAN, keys : BOOLEAN, error : BOOLEAN, assets : BOOLEAN]

Exists(row) == row.status # NoStatus
IsTerminal(row) == row.status \in Terminal

\* A task occupies its node while it is neither finished nor deleted.
IsActive(row) == row.status \in NonTerminal /\ ~row.deleted

Create(row) == [NoRow EXCEPT !.status = CREATED]

\* mark_failed_if_non_terminal
MarkFailedIfNonTerminal(row) ==
    IF IsTerminal(row) THEN row ELSE [row EXCEPT !.status = FAILED, !.error = TRUE]

\* Mutant: the bind sets QUEUED whatever the row's status.
BindUnionTaskAlways(row) == [row EXCEPT !.union = TRUE, !.status = QUEUED]

\* bind_union_task_queued: a row that is no longer CREATED only gets the id.
BindUnionTaskQueued(row) ==
    [row EXCEPT !.union = TRUE, !.status = IF @ = CREATED THEN QUEUED ELSE @]

\* cancel_if_non_terminal
CancelIfNonTerminal(row) ==
    IF IsTerminal(row) THEN row ELSE [row EXCEPT !.status = CANCELLED]

\* soft_delete
SoftDelete(row) == [row EXCEPT !.deleted = TRUE]

\* mark_callback_sent
MarkCallbackSent(row) == IF row.deleted THEN row ELSE [row EXCEPT !.sent = TRUE]

\* Mutant: an update that does not compare the status read before.
MatchesAny(row, expected) == ~row.deleted

\* The filter of update_if_status: the status is still the one that was read.
MatchesStatus(row, expected) == row.status = expected /\ ~row.deleted

\* update_if_status with the fields of a GenerationTerminal, and, for a success,
\* ensure_result_assets in the same transaction.
ApplyFields(row, result, reason, sent) ==
    [row EXCEPT !.status = result,
                !.sent = sent,
                !.error = @ \/ reason,
                !.keys = @ \/ result = SUCCEEDED,
                !.assets = @ \/ result = SUCCEEDED]

\* It raises instead of giving a status.
Invalid == -1

\* Mutant: a task that was cancelled for a reason is stored as failed.
NormalizeCancelled(status, urls, reason) ==
    CASE status = SUCCEEDED -> IF urls THEN SUCCEEDED ELSE FAILED
      [] status = FAILED -> IF reason THEN FAILED ELSE Invalid
      [] OTHER -> IF urls THEN Invalid ELSE IF reason THEN FAILED ELSE status

\* normalize_gateway_terminal: the status to store for a report of the gateway
\* with this status, with or without result urls and a failure reason.
Normalize(status, urls, reason) ==
    CASE status = SUCCEEDED -> IF urls THEN SUCCEEDED ELSE FAILED
      [] status = FAILED -> IF reason THEN FAILED ELSE Invalid
      [] OTHER -> IF urls THEN Invalid ELSE status

\* The error message it stores with it is not empty.
NormalizedError(status, urls, reason) == reason \/ (status = SUCCEEDED /\ ~urls)

\* The test of apply_result on the row it was given.
Advances(current, result) ==
    current \notin Terminal /\ (result \in Terminal \/ result >= current)

=============================================================================
