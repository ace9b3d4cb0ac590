------------------------- MODULE Generation_proofs -------------------------
(***************************************************************************)
(* Proofs about Generation, for any tasks, calls and kinds: the status of  *)
(* a task only moves forward, its results match it, it is never ahead of   *)
(* the gateway, and the node shows results of tasks that succeeded.        *)
(***************************************************************************)
EXTENDS Generation, TLAPS

\* A status that the gateway's status g entitles a caller to store.
Reached(g, s) ==
    /\ s = SUCCEEDED => g = SUCCEEDED
    /\ s = FAILED => g \in {SUCCEEDED, FAILED}
    /\ s \in NonTerminal => g >= s

\* A submission that has not created its row, or has not stored the id yet.
SubOK ==
    \A t \in Tasks :
        /\ sub[t] \in {"idle", "gate", "config", "persist", "reread", "inputs", "check", "create"}
              => task[t] = NoRow
        /\ sub[t] \in {"idle", "gate", "config", "persist", "reread", "inputs", "check", "create",
                       "gateway"}
              => gw[t] = NoStatus
        /\ sub[t] \in {"gateway", "mark_failed", "bind_union"} => Exists(task[t]) /\ ~task[t].union
        /\ sub[t] \in {"gateway", "bind_union"} => task[t].status # FAILED
        /\ sub[t] = "bind_union" => gw[t] # NoStatus
        /\ ~Exists(task[t]) => task[t] = NoRow
        /\ ~task[t].union => task[t].status \in {NoStatus, CREATED, FAILED, CANCELLED}

\* What a call holds is still backed by the rows and by the gateway.
LocalOK(l, rows, g) ==
    /\ l.pc # "idle" => l.t \in Tasks /\ Exists(rows[l.t])
    /\ l.pc \in {"observe", "apply"} => l.cur \in NonTerminal /\ rows[l.t].union
    /\ l.pc = "apply" =>
          l.res \in GatewayTaskStatus /\ Advances(l.cur, l.res) /\ Reached(g[l.t], l.res)
    /\ l.row.assets <=> l.row.status = SUCCEEDED
    /\ l.pc \in {"lookup", "write"} /\ l.row.assets => rows[l.t].status = SUCCEEDED

CallOK == \A c \in Calls : LocalOK(call[c], task, gw)

\* A runner that read a node with a success writes it back to one with results.
SeenOK == \A t \in Tasks : seen[t].status = "success" => node.assets # NoTask

IInv ==
    TypeOK /\ ResultsMatchStatus /\ NeverAheadOfGateway /\ NodeShowsResults
    /\ SubOK /\ CallOK /\ SeenOK

\* The gateway's side only moves forward.
GatewayForward ==
    \A t \in Tasks : gw[t] # NoStatus =>
        /\ gw'[t] # NoStatus
        /\ gw'[t] >= gw[t]
        /\ gw[t] \in Terminal => gw'[t] = gw[t]

\* So does a row, and it gets results with its success only.
RowMoves(old, new) ==
    /\ new.status >= old.status
    /\ old.status \in Terminal => new.status = old.status
    /\ old.union => new.union
    /\ old.status # NoStatus => new.status # NoStatus
    /\ new.keys <=> new.status = SUCCEEDED
    /\ new.assets <=> new.keys

RowsForward == \A t \in Tasks : RowMoves(task[t], task'[t])

\* A row of the table, with results exactly if it succeeded.
GoodRow(row) ==
    row \in Rows /\ (row.keys <=> row.status = SUCCEEDED) /\ (row.assets <=> row.keys)

USE OnCanvasAssumption, RunnersAssumption, KindAssumption, NoTaskAssumption
USE DEF CREATED, QUEUED, WAITING, RUNNING, SUCCEEDED, FAILED, CANCELLED, NoStatus,
        Terminal, NonTerminal, GatewayTaskStatus

\* The kinds of steps, for the proofs that go through them one by one.
LEMMA NextCases ==
  ASSUME [Next]_vars
  PROVE  \/ vars' = vars
         \/ \E t \in Tasks : RunnerStep(t) \/ SubmitStep(t) \/ GatewayAdvance(t)
         \/ \E c \in Calls, t \in Tasks : Start(c, t)
         \/ \E c \in Calls : ResultStep(c) \/ ProjectStep(c) \/ EndStep(c)
BY DEF Next

\* The initial state satisfies the invariant.
LEMMA InitOK == Init => IInv
  BY DEF Init, IInv, TypeOK, ResultsMatchStatus, NeverAheadOfGateway, NodeShowsResults, SubOK,
         CallOK, LocalOK, SeenOK, FreshNode, Idle, NoRow, Rows, Nodes, MaybeTask, NodeStatus, SubSteps,
         CallSteps, Locals, Exists

\* No step takes the gateway back.
LEMMA GatewayStep ==
  ASSUME IInv, [Next]_vars
  PROVE  GatewayForward /\ gw' \in [Tasks -> GatewayTaskStatus \cup {NoStatus}]
<1> USE DEF IInv, TypeOK
<1>1. ASSUME NEW t \in Tasks, SubmitToGateway(t) \/ SubmitToGatewayFails(t)
      PROVE  GatewayForward /\ gw' \in [Tasks -> GatewayTaskStatus \cup {NoStatus}]
  <2>1. gw[t] = NoStatus
    BY <1>1 DEF SubmitToGateway, SubmitToGatewayFails, SubGoto, SubOK
  <2> QED  BY <1>1, <2>1 DEF SubmitToGateway, SubmitToGatewayFails, GatewayForward
<1>2. ASSUME NEW t \in Tasks, GatewayAdvance(t)
      PROVE  GatewayForward /\ gw' \in [Tasks -> GatewayTaskStatus \cup {NoStatus}]
  BY <1>2 DEF GatewayAdvance, GatewayForward
<1>3. ASSUME NEW c \in Calls, CancelAtGateway(c) \/ DeleteAtGateway(c)
      PROVE  GatewayForward /\ gw' \in [Tasks -> GatewayTaskStatus \cup {NoStatus}]
  <2>1. call[c].t \in Tasks
    BY <1>3 DEF CancelAtGateway, DeleteAtGateway, Goto, CallOK, LocalOK
  <2>2. gw' = gw \/ gw' = [gw EXCEPT ![call[c].t] = Stopped(@)]
    BY <1>3 DEF CancelAtGateway, DeleteAtGateway
  <2> QED  BY <2>1, <2>2 DEF Stopped, GatewayForward
<1>4. CASE UNCHANGED gw
  BY <1>4 DEF GatewayForward
<1>5. ASSUME NEW t \in Tasks, RunnerStep(t)
      PROVE  UNCHANGED gw
  BY <1>5 DEF RunnerStep, RunnerRead, RunnerGate, RunnerConfig, RunnerPersist, RunnerReread,
              RunnerInputs, RunnerFail
<1>6. ASSUME NEW t \in Tasks, SubmitStep(t)
      PROVE  UNCHANGED gw \/ SubmitToGateway(t) \/ SubmitToGatewayFails(t)
  BY <1>6, SMTT(30) DEF SubmitStep, SubmitCheck, SubmitInvalid, SubmitCreate, SubmitMarkFailed,
              SubmitBindUnion, SubmitBindNode
<1>7. ASSUME NEW c \in Calls, NEW t \in Tasks, Start(c, t)
      PROVE  UNCHANGED gw
  BY <1>7, ZenonT(60) DEF Start, Callback, Observe, Cancel, Delete
<1>8. ASSUME NEW c \in Calls, ResultStep(c) \/ ProjectStep(c)
      PROVE  UNCHANGED gw
  BY <1>8 DEF ResultStep, ObserveGateway, ObserveNothing, Apply, ApplyRollsBack, MarkSent,
              ProjectStep, ProjectRead, ProjectLookup, ProjectWrite, ProjectRejected
<1>9. ASSUME NEW c \in Calls, EndStep(c)
      PROVE  UNCHANGED gw \/ CancelAtGateway(c) \/ DeleteAtGateway(c)
  BY <1>9 DEF EndStep, CancelRow, DeleteRow
<1>10. UNCHANGED vars => UNCHANGED gw
  BY DEF vars
<1> QED  BY <1>1, <1>2, <1>3, <1>4, <1>5, <1>6, <1>7, <1>8, <1>9, <1>10 DEF Next

\* The statements of the repository give rows.
LEMMA RowTypes ==
  ASSUME NEW row \in Rows
  PROVE  /\ Create(row) \in Rows
         /\ MarkFailedIfNonTerminal(row) \in Rows
         /\ BindUnionTaskQueued(row) \in Rows
         /\ CancelIfNonTerminal(row) \in Rows
         /\ SoftDelete(row) \in Rows
         /\ MarkCallbackSent(row) \in Rows
<1>1. Create(row) \in Rows
  BY Zenon DEF Rows, Create, NoRow
<1>2. MarkFailedIfNonTerminal(row) \in Rows
  BY Zenon DEF Rows, MarkFailedIfNonTerminal
<1>3. BindUnionTaskQueued(row) \in Rows
  BY Zenon DEF Rows, BindUnionTaskQueued
<1>4. CancelIfNonTerminal(row) \in Rows
  BY Zenon DEF Rows, CancelIfNonTerminal
<1>5. SoftDelete(row) \in Rows
  BY Zenon DEF Rows, SoftDelete
<1>6. MarkCallbackSent(row) \in Rows
  BY Zenon DEF Rows, MarkCallbackSent
<1> QED  BY <1>1, <1>2, <1>3, <1>4, <1>5, <1>6

\* The statements guarded by the status in the table move a row forward.
LEMMA RowMovesOps ==
  ASSUME NEW row, GoodRow(row)
  PROVE  /\ RowMoves(row, MarkFailedIfNonTerminal(row))
         /\ RowMoves(row, BindUnionTaskQueued(row))
         /\ RowMoves(row, CancelIfNonTerminal(row))
         /\ RowMoves(row, SoftDelete(row))
         /\ RowMoves(row, MarkCallbackSent(row))
<1> USE DEF GoodRow, RowMoves, Rows
<1>1. RowMoves(row, MarkFailedIfNonTerminal(row))
  BY DEF MarkFailedIfNonTerminal, IsTerminal
<1>2. RowMoves(row, BindUnionTaskQueued(row))
  BY DEF BindUnionTaskQueued
<1>3. RowMoves(row, CancelIfNonTerminal(row))
  BY DEF CancelIfNonTerminal, IsTerminal
<1>4. RowMoves(row, SoftDelete(row))
  BY DEF SoftDelete
<1>5. RowMoves(row, MarkCallbackSent(row))
  BY DEF MarkCallbackSent
<1> QED  BY <1>1, <1>2, <1>3, <1>4, <1>5

\* So does a result applied to a row that still has the status it was decided on.
LEMMA ApplyMoves ==
  ASSUME NEW row, GoodRow(row), row.status \in NonTerminal,
         NEW res \in GatewayTaskStatus, Advances(row.status, res),
         NEW err \in BOOLEAN, NEW sent \in BOOLEAN
  PROVE  /\ ApplyFields(row, res, err, sent) \in Rows
         /\ RowMoves(row, ApplyFields(row, res, err, sent))
         /\ ApplyFields(row, res, err, sent).status = res
         /\ ApplyFields(row, res, err, sent).union = row.union
<1> DEFINE new == ApplyFields(row, res, err, sent)
           keys == row.keys \/ res = SUCCEEDED
           error == row.error \/ err
           assets == row.assets \/ res = SUCCEEDED
<1>1. row \in Rows /\ row.keys = FALSE /\ row.assets = FALSE
  BY DEF GoodRow, Rows
<1>2. keys \in BOOLEAN /\ assets \in BOOLEAN /\ error \in BOOLEAN
  OBVIOUS
<1>3. new = [row EXCEPT !.status = res, !.sent = sent, !.error = error, !.keys = keys,
                        !.assets = assets]
  BY DEF ApplyFields
<1>4. new \in Rows
  <2> HIDE DEF keys, error, assets, new
  <2> QED  BY <1>1, <1>2, <1>3, ZenonT(60) DEF Rows
<1>5. new.status = res /\ new.union = row.union
  BY <1>1 DEF Rows, ApplyFields
<1>6. new.keys = keys /\ new.assets = assets
  BY <1>1, Zenon DEF Rows, ApplyFields
<1>7. res >= row.status
  BY DEF Advances
<1>8. (new.keys <=> new.status = SUCCEEDED) /\ (new.assets <=> new.keys)
  BY <1>1, <1>5, <1>6, Zenon
<1> QED  BY <1>1, <1>4, <1>5, <1>7, <1>8 DEF RowMoves

\* The steps that write a row.
LEMMA RowWriters ==
  ASSUME [Next]_vars
  PROVE  \/ UNCHANGED task
         \/ \E t \in Tasks : SubmitCreate(t) \/ SubmitMarkFailed(t) \/ SubmitBindUnion(t)
         \/ \E c \in Calls : Apply(c) \/ MarkSent(c) \/ DeleteRow(c) \/ CancelRow(c)
<1>1. ASSUME NEW t \in Tasks, RunnerStep(t) \/ GatewayAdvance(t)
      PROVE  UNCHANGED task
  BY <1>1 DEF RunnerStep, RunnerRead, RunnerGate, RunnerConfig, RunnerPersist, RunnerReread,
              RunnerInputs, RunnerFail, GatewayAdvance
<1>2. ASSUME NEW t \in Tasks, SubmitStep(t)
      PROVE  UNCHANGED task \/ SubmitCreate(t) \/ SubmitMarkFailed(t) \/ SubmitBindUnion(t)
  BY <1>2 DEF SubmitStep, SubmitCheck, SubmitInvalid, SubmitToGateway, SubmitToGatewayFails,
              SubmitBindNode
<1>3. ASSUME NEW c \in Calls, NEW t \in Tasks, Start(c, t)
       PROVE  UNCHANGED task
  BY <1>3 DEF Start, Callback, Observe, Cancel, Delete
<1>4. ASSUME NEW c \in Calls, ResultStep(c) \/ ProjectStep(c) \/ EndStep(c)
       PROVE  UNCHANGED task \/ Apply(c) \/ MarkSent(c) \/ DeleteRow(c) \/ CancelRow(c)
  BY <1>4 DEF ResultStep, ObserveGateway, ObserveNothing, ApplyRollsBack, ProjectStep,
               ProjectRead, ProjectLookup, ProjectWrite, ProjectRejected, EndStep,
               CancelAtGateway, DeleteAtGateway
<1>5. UNCHANGED vars => UNCHANGED task
  BY DEF vars
<1> QED  BY <1>1, <1>2, <1>3, <1>4, <1>5 DEF Next

\* No step takes a row back: apply_result's compare-and-set, the filters of the
\* other statements and the order of a submission's steps.
LEMMA RowStep ==
  ASSUME IInv, [Next]_vars
  PROVE  RowsForward /\ ResultsMatchStatus' /\ task' \in [Tasks -> Rows]
<1> DEFINE Goal == RowsForward /\ ResultsMatchStatus' /\ task' \in [Tasks -> Rows]
<1>a. \A t \in Tasks : GoodRow(task[t]) /\ RowMoves(task[t], task[t])
  BY DEF IInv, TypeOK, ResultsMatchStatus, RowMoves, GoodRow, Rows
<1>b. ASSUME NEW t \in Tasks, NEW row \in Rows, task' = [task EXCEPT ![t] = row],
             RowMoves(task[t], row)
      PROVE  Goal
  <2>1. task' \in [Tasks -> Rows]
    BY <1>b DEF IInv, TypeOK
  <2>2. RowsForward
    BY <1>a, <1>b DEF RowsForward, IInv, TypeOK
  <2>3. ResultsMatchStatus'
    BY <2>2 DEF RowsForward, RowMoves, ResultsMatchStatus
  <2> QED  BY <2>1, <2>2, <2>3
<1> USE DEF IInv, TypeOK
<1>1. ASSUME NEW t \in Tasks, SubmitCreate(t)
      PROVE  Goal
  <2>1. task[t] = NoRow
    BY <1>1 DEF SubmitCreate, SubGoto, SubOK
  <2>2. task' = [task EXCEPT ![t] = Create(task[t])]
    BY <1>1 DEF SubmitCreate
  <2>3. RowMoves(task[t], Create(task[t]))
    BY <2>1 DEF Create, NoRow, RowMoves
  <2>4. Create(task[t]) \in Rows
    BY RowTypes
  <2> QED  BY <2>2, <2>3, <2>4, <1>b
<1>2. ASSUME NEW t \in Tasks, SubmitMarkFailed(t) \/ SubmitBindUnion(t)
      PROVE  Goal
  <2>1. PICK row \in {MarkFailedIfNonTerminal(task[t]), BindUnionTaskQueued(task[t])} :
            task' = [task EXCEPT ![t] = row]
    BY <1>2 DEF SubmitMarkFailed, SubmitBindUnion
  <2>2. row \in Rows
    BY RowTypes
  <2>3. RowMoves(task[t], row)
    BY <1>a, RowMovesOps
  <2> QED  BY <2>1, <2>2, <2>3, <1>b
<1>3. ASSUME NEW c \in Calls, MarkSent(c) \/ DeleteRow(c) \/ CancelRow(c)
      PROVE  Goal
  <2> DEFINE t == call[c].t
  <2>1. t \in Tasks
    BY <1>3 DEF MarkSent, DeleteRow, CancelRow, CallOK, LocalOK
  <2>2. PICK row \in {MarkCallbackSent(task[t]), SoftDelete(task[t]), CancelIfNonTerminal(task[t])} :
            task' = [task EXCEPT ![t] = row]
    BY <1>3 DEF MarkSent, DeleteRow, CancelRow
  <2>3. row \in Rows
    BY <2>1, RowTypes
  <2>4. RowMoves(task[t], row)
    BY <1>a, <2>1, RowMovesOps
  <2> QED  BY <2>1, <2>2, <2>3, <2>4, <1>b
<1>4. ASSUME NEW c \in Calls, Apply(c)
      PROVE  Goal
  <2> DEFINE t == call[c].t
             new == ApplyFields(task[t], call[c].res, call[c].err, call[c].sent)
  <2>1. t \in Tasks /\ call[c].cur \in NonTerminal /\ call[c].res \in GatewayTaskStatus
        /\ Advances(call[c].cur, call[c].res)
    BY <1>4 DEF Apply, CallOK, LocalOK
  <2>2. CASE ~MatchesStatus(task[t], call[c].cur)
    <3>1. UNCHANGED task
      BY <1>4, <2>2 DEF Apply
    <3> QED  BY <3>1, <1>a DEF RowsForward, ResultsMatchStatus
  <2>3. CASE MatchesStatus(task[t], call[c].cur)
    <3>1. task' = [task EXCEPT ![t] = new]
      BY <1>4, <2>3 DEF Apply
    <3>2. call[c].err \in BOOLEAN /\ call[c].sent \in BOOLEAN
      BY DEF Locals
    <3>3. task[t].status = call[c].cur
      BY <2>3 DEF MatchesStatus
    <3>4. new \in Rows /\ RowMoves(task[t], new)
      BY <1>a, <2>1, <3>2, <3>3, ApplyMoves
    <3> QED  BY <2>1, <3>1, <3>4, <1>b
  <2> QED  BY <2>2, <2>3
<1>5. CASE UNCHANGED task
  BY <1>5, <1>a DEF RowsForward, ResultsMatchStatus
<1> QED  BY <1>1, <1>2, <1>3, <1>4, <1>5, RowWriters

\* The table is never ahead of the gateway: what is applied was reported, and a
\* report stays true.
LEMMA AheadStep ==
  ASSUME IInv, [Next]_vars
  PROVE  NeverAheadOfGateway'
<1> DEFINE Behind(row, g) ==
      row.union =>
        /\ g # NoStatus
        /\ row.status = SUCCEEDED => g = SUCCEEDED
        /\ row.status = FAILED => g \in {SUCCEEDED, FAILED}
        /\ row.status \in {WAITING, RUNNING} => g >= row.status
<1>1. GatewayForward /\ gw' \in [Tasks -> GatewayTaskStatus \cup {NoStatus}]
  BY GatewayStep
<1>2. \A t \in Tasks : Behind(task[t], gw[t])
  BY DEF IInv, NeverAheadOfGateway
<1>3. \A t \in Tasks : \A row : Behind(row, gw[t]) => Behind(row, gw'[t])
  BY <1>1 DEF IInv, TypeOK, GatewayForward
<1>4. \A t \in Tasks : Behind(task[t], gw'[t])
  BY <1>2, <1>3
<1> SUFFICES \A t \in Tasks : Behind(task'[t], gw'[t])
  BY DEF NeverAheadOfGateway
<1>5. ASSUME NEW t \in Tasks, NEW row, task' = [task EXCEPT ![t] = row], Behind(row, gw[t])
      PROVE  \A u \in Tasks : Behind(task'[u], gw'[u])
  <2>1. Behind(row, gw'[t])
    BY <1>3, <1>5
  <2> HIDE DEF Behind
  <2> QED  BY <1>4, <1>5, <2>1 DEF IInv, TypeOK
<1>6. CASE UNCHANGED task
  BY <1>4, <1>6
<1> USE DEF IInv, TypeOK
<1>7. ASSUME NEW t \in Tasks, SubmitCreate(t) \/ SubmitMarkFailed(t) \/ SubmitBindUnion(t)
      PROVE  \A u \in Tasks : Behind(task'[u], gw'[u])
  <2>1. CASE SubmitCreate(t)
    <3>1. task' = [task EXCEPT ![t] = Create(task[t])]
      BY <2>1 DEF SubmitCreate
    <3>2. Behind(Create(task[t]), gw[t])
      BY DEF Create, NoRow
    <3> QED  BY <3>1, <3>2, <1>5
  <2>2. CASE SubmitMarkFailed(t)
    <3>1. task' = [task EXCEPT ![t] = MarkFailedIfNonTerminal(task[t])]
      BY <2>2 DEF SubmitMarkFailed
    <3>2. ~task[t].union
      BY <2>2 DEF SubmitMarkFailed, SubOK
    <3>3. Behind(MarkFailedIfNonTerminal(task[t]), gw[t])
      BY <3>2 DEF MarkFailedIfNonTerminal, Rows
    <3> QED  BY <3>1, <3>3, <1>5
  <2>3. CASE SubmitBindUnion(t)
    <3>1. task' = [task EXCEPT ![t] = BindUnionTaskQueued(task[t])]
      BY <2>3 DEF SubmitBindUnion
    <3>2. gw[t] # NoStatus /\ task[t].status \in {NoStatus, CREATED, CANCELLED}
      BY <2>3 DEF SubmitBindUnion, SubGoto, SubOK
    <3>3. BindUnionTaskQueued(task[t]).status \in {NoStatus, QUEUED, CANCELLED}
      BY <3>2 DEF BindUnionTaskQueued, Rows
    <3>4. Behind(BindUnionTaskQueued(task[t]), gw[t])
      BY <3>2, <3>3
    <3> QED  BY <3>1, <3>4, <1>5
  <2> QED  BY <1>7, <2>1, <2>2, <2>3
<1>8. ASSUME NEW c \in Calls, MarkSent(c) \/ DeleteRow(c) \/ CancelRow(c)
      PROVE  \A u \in Tasks : Behind(task'[u], gw'[u])
  <2> DEFINE t == call[c].t
  <2>1. t \in Tasks
    BY <1>8 DEF MarkSent, DeleteRow, CancelRow, CallOK, LocalOK
  <2>2. PICK row \in {MarkCallbackSent(task[t]), SoftDelete(task[t]), CancelIfNonTerminal(task[t])} :
            task' = [task EXCEPT ![t] = row]
    BY <1>8 DEF MarkSent, DeleteRow, CancelRow
  <2>3. (row.union => task[t].union) /\ row.status \in {task[t].status, CANCELLED}
    BY <2>1 DEF MarkCallbackSent, SoftDelete, CancelIfNonTerminal, Rows
  <2>4. Behind(task[t], gw[t])
    BY <2>1, <1>2
  <2>5. Behind(row, gw[t])
    <3> HIDE DEF IInv, TypeOK
    <3> QED  BY <2>3, <2>4
  <2> QED  BY <2>1, <2>2, <2>5, <1>5
<1>9. ASSUME NEW c \in Calls, Apply(c)
      PROVE  \A u \in Tasks : Behind(task'[u], gw'[u])
  <2> DEFINE t == call[c].t
             new == ApplyFields(task[t], call[c].res, call[c].err, call[c].sent)
  <2>1. t \in Tasks /\ task[t].union /\ call[c].res \in GatewayTaskStatus
        /\ Reached(gw[t], call[c].res)
    BY <1>9 DEF Apply, CallOK, LocalOK
  <2>2. CASE ~MatchesStatus(task[t], call[c].cur)
    BY <1>9, <2>2, <1>6, SMTT(30) DEF Apply
  <2>3. CASE MatchesStatus(task[t], call[c].cur)
    <3>1. task' = [task EXCEPT ![t] = new]
      BY <1>9, <2>3 DEF Apply
    <3>2. new.status = call[c].res
      BY <2>1 DEF ApplyFields, Rows
    <3>3. gw[t] # NoStatus
      BY <2>1 DEF NeverAheadOfGateway
    <3>4. Behind(new, gw[t])
      BY <2>1, <3>2, <3>3 DEF Reached
    <3> QED  BY <2>1, <3>1, <3>4, <1>5
  <2> QED  BY <2>2, <2>3
<1>10. \/ UNCHANGED task
       \/ \E t \in Tasks : SubmitCreate(t) \/ SubmitMarkFailed(t) \/ SubmitBindUnion(t)
       \/ \E c \in Calls : Apply(c) \/ MarkSent(c) \/ DeleteRow(c) \/ CancelRow(c)
  BY RowWriters
<1> QED  BY <1>6, <1>7, <1>8, <1>9, <1>10

\* The submissions: a row is created once, and bound after the gateway has it.
LEMMA SubStep ==
  ASSUME IInv, [Next]_vars
  PROVE  SubOK' /\ sub' \in [Tasks -> SubSteps]
<1> DEFINE Before == {"idle", "gate", "config", "persist", "reread", "inputs", "check", "create"}
           One(s, row, g) ==
             /\ s \in Before => row = NoRow
             /\ s \in Before \cup {"gateway"} => g = NoStatus
             /\ s \in {"gateway", "mark_failed", "bind_union"} => Exists(row) /\ ~row.union
             /\ s \in {"gateway", "bind_union"} => row.status # FAILED
             /\ s = "bind_union" => g # NoStatus
             /\ ~Exists(row) => row = NoRow
             /\ ~row.union => row.status \in {NoStatus, CREATED, FAILED, CANCELLED}
           Goal == (\A t \in Tasks : One(sub'[t], task'[t], gw'[t])) /\ sub' \in [Tasks -> SubSteps]
<1>1. \A t \in Tasks : One(sub[t], task[t], gw[t])
  BY DEF IInv, SubOK
<1> SUFFICES Goal
  BY DEF SubOK
<1> USE DEF IInv, TypeOK
<1>2. ASSUME NEW t \in Tasks, RunnerStep(t) \/ SubmitCheck(t) \/ SubmitInvalid(t)
      PROVE  Goal
  <2>1. UNCHANGED <<task, gw>>
    BY <1>2 DEF RunnerStep, RunnerRead, RunnerGate, RunnerConfig, RunnerPersist, RunnerReread,
                RunnerInputs, RunnerFail, SubmitCheck, SubmitInvalid
  <2>2. PICK s \in SubSteps : sub' = [sub EXCEPT ![t] = s] /\ (s \in Before => sub[t] \in Before)
                             /\ s \notin {"gateway", "mark_failed", "bind_union"}
    <3>1. CASE RunnerStep(t)
      BY <3>1 DEF RunnerStep, RunnerRead, RunnerGate, RunnerConfig, RunnerPersist, RunnerReread,
                  RunnerInputs, RunnerFail, SubGoto, SubSteps
    <3>2. CASE SubmitCheck(t) \/ SubmitInvalid(t)
      BY <3>2 DEF SubmitCheck, SubmitInvalid, Raise, SubSteps
    <3> QED  BY <1>2, <3>1, <3>2
  <2> QED  BY <1>1, <2>1, <2>2
<1>3. ASSUME NEW t \in Tasks, SubmitCreate(t)
      PROVE  Goal
  <2>1. /\ sub' = [sub EXCEPT ![t] = "gateway"] /\ sub[t] = "create" /\ UNCHANGED gw
        /\ task' = [task EXCEPT ![t] = Create(task[t])]
    BY <1>3 DEF SubmitCreate, SubGoto
  <2>2. One("gateway", Create(task[t]), gw[t])
    BY <1>1, <2>1 DEF Create, NoRow, Exists
  <2> HIDE DEF One
  <2> QED  BY <1>1, <2>1, <2>2 DEF SubSteps
<1>4. ASSUME NEW t \in Tasks, SubmitToGateway(t) \/ SubmitToGatewayFails(t)
      PROVE  Goal
  <2>1. PICK s \in {"bind_union", "mark_failed"}, g \in {gw[t], CREATED} :
            /\ sub' = [sub EXCEPT ![t] = s] /\ sub[t] = "gateway" /\ UNCHANGED task
            /\ gw' = [gw EXCEPT ![t] = g] /\ (s = "bind_union" => g = CREATED)
    BY <1>4 DEF SubmitToGateway, SubmitToGatewayFails, SubGoto
  <2>2. One(s, task[t], g)
    BY <1>1, <2>1
  <2> HIDE DEF One
  <2> QED  BY <1>1, <2>1, <2>2 DEF SubSteps
<1>5. ASSUME NEW t \in Tasks, SubmitMarkFailed(t) \/ SubmitBindUnion(t)
      PROVE  Goal
  <2>1. PICK s \in {"fail", "refused", "bind_node", "bound"} : sub' = [sub EXCEPT ![t] = s]
    BY <1>5 DEF SubmitMarkFailed, SubmitBindUnion, SubGoto, Raise
  <2>2. PICK row \in {MarkFailedIfNonTerminal(task[t]), BindUnionTaskQueued(task[t])} :
            task' = [task EXCEPT ![t] = row] /\ UNCHANGED gw
    BY <1>5 DEF SubmitMarkFailed, SubmitBindUnion
  <2>3. task[t].status # NoStatus
    BY <1>1, <1>5 DEF SubmitMarkFailed, SubmitBindUnion, SubGoto, Exists
  <2>4. One(s, MarkFailedIfNonTerminal(task[t]), gw[t])
    BY <1>1, <2>3 DEF MarkFailedIfNonTerminal, IsTerminal, Rows, Exists
  <2>5. BindUnionTaskQueued(task[t]).union /\ BindUnionTaskQueued(task[t]).status # NoStatus
    BY <2>3 DEF BindUnionTaskQueued, Rows
  <2>6. One(s, BindUnionTaskQueued(task[t]), gw[t])
    BY <2>5 DEF Exists
  <2> HIDE DEF One
  <2> QED  BY <1>1, <2>1, <2>2, <2>4, <2>6 DEF SubSteps
<1>6. ASSUME NEW t \in Tasks, SubmitBindNode(t)
      PROVE  Goal
  <2>1. PICK s \in {"fail", "refused", "bound"} : sub' = [sub EXCEPT ![t] = s]
    BY <1>6 DEF SubmitBindNode, Raise
  <2>2. UNCHANGED <<task, gw>>
    BY <1>6 DEF SubmitBindNode
  <2>3. One(s, task[t], gw[t])
    BY <1>1
  <2> HIDE DEF One
  <2> QED  BY <1>1, <2>1, <2>2, <2>3 DEF SubSteps
<1>7. ASSUME NEW c \in Calls, Apply(c) \/ MarkSent(c) \/ DeleteRow(c) \/ CancelRow(c)
      PROVE  Goal
  <2> DEFINE t == call[c].t
  <2>1. t \in Tasks /\ Exists(task[t]) /\ UNCHANGED <<sub, gw>>
    BY <1>7 DEF Apply, MarkSent, DeleteRow, CancelRow, CallOK, LocalOK
  <2>2. CASE Apply(c) /\ MatchesStatus(task[t], call[c].cur)
    <3> DEFINE new == ApplyFields(task[t], call[c].res, call[c].err, call[c].sent)
    <3>1. task' = [task EXCEPT ![t] = new]
      BY <2>2 DEF Apply
    <3>2. task[t].union /\ call[c].res \in GatewayTaskStatus
      BY <2>2 DEF Apply, CallOK, LocalOK
    <3>3. new.union /\ new.status = call[c].res
      BY <2>1, <3>2 DEF ApplyFields, Rows
    <3>4. One(sub[t], new, gw[t])
      BY <1>1, <2>1, <3>2, <3>3 DEF Exists, NoRow
    <3> HIDE DEF One
    <3> QED  BY <1>1, <2>1, <3>1, <3>4
  <2>3. CASE Apply(c) /\ ~MatchesStatus(task[t], call[c].cur)
    BY <1>1, <2>1, <2>3 DEF Apply
  <2>4. CASE MarkSent(c) \/ DeleteRow(c) \/ CancelRow(c)
    <3>1. PICK row \in {MarkCallbackSent(task[t]), SoftDelete(task[t]), CancelIfNonTerminal(task[t])} :
              task' = [task EXCEPT ![t] = row]
      BY <2>4 DEF MarkSent, DeleteRow, CancelRow
    <3>2. row.union <=> task[t].union
      BY <2>1 DEF MarkCallbackSent, SoftDelete, CancelIfNonTerminal, Rows
    <3>3. row.status \in {task[t].status, CANCELLED}
      BY <2>1 DEF MarkCallbackSent, SoftDelete, CancelIfNonTerminal, Rows
    <3>4. One(sub[t], row, gw[t])
      BY <1>1, <2>1, <3>2, <3>3 DEF Exists, NoRow
    <3> HIDE DEF One
    <3> QED  BY <1>1, <2>1, <3>1, <3>4
  <2> QED  BY <1>7, <2>2, <2>3, <2>4
<1>8. ASSUME UNCHANGED <<task, sub>>, \A t \in Tasks : gw[t] = NoStatus <=> gw'[t] = NoStatus
      PROVE  Goal
  BY <1>1, <1>8
<1>9. ASSUME NEW t \in Tasks, GatewayAdvance(t)
      PROVE  Goal
  BY <1>8, <1>9 DEF GatewayAdvance
<1>10. ASSUME NEW c \in Calls, CancelAtGateway(c) \/ DeleteAtGateway(c)
       PROVE  Goal
  <2>1. gw' = gw \/ gw' = [gw EXCEPT ![call[c].t] = Stopped(@)]
    BY <1>10 DEF CancelAtGateway, DeleteAtGateway
  <2>2. UNCHANGED <<task, sub>>
    BY <1>10, SMTT(30) DEF CancelAtGateway, DeleteAtGateway
  <2> QED  BY <1>8, <2>1, <2>2 DEF Stopped
<1>11. ASSUME NEW c \in Calls, NEW t \in Tasks, Start(c, t)
       PROVE  UNCHANGED <<task, sub, gw>>
  BY <1>11 DEF Start, Callback, Observe, Cancel, Delete
<1>12. ASSUME NEW c \in Calls, ResultStep(c) \/ ProjectStep(c) \/ EndStep(c)
       PROVE  \/ UNCHANGED <<task, sub, gw>>
              \/ Apply(c) \/ MarkSent(c) \/ DeleteRow(c) \/ CancelRow(c)
              \/ CancelAtGateway(c) \/ DeleteAtGateway(c)
  BY <1>12 DEF ResultStep, ObserveGateway, ObserveNothing, ApplyRollsBack, ProjectStep,
               ProjectRead, ProjectLookup, ProjectWrite, ProjectRejected, EndStep
<1>13. CASE UNCHANGED <<task, sub, gw>>
  BY <1>1, <1>13
<1>14. UNCHANGED vars => UNCHANGED <<task, sub, gw>>
  BY DEF vars
<1> HIDE DEF Goal
<1> QED
  BY <1>2, <1>3, <1>4, <1>5, <1>6, <1>7, <1>9, <1>10, <1>11, <1>12, <1>13, <1>14
     DEF Next, SubmitStep

\* A valid report gives a status that the gateway has reached.
LEMMA NormalizeReached ==
  ASSUME NEW g \in GatewayTaskStatus, NEW s \in GatewayTaskStatus,
         s = g \/ (s \in NonTerminal /\ s < g),
         NEW report \in Reports(s), Normalize(s, report.urls, report.reason) # Invalid
  PROVE  /\ Normalize(s, report.urls, report.reason) \in GatewayTaskStatus
         /\ Reached(g, Normalize(s, report.urls, report.reason))
         /\ NormalizedError(s, report.urls, report.reason) \in BOOLEAN
  BY DEF Normalize, Reached, Invalid, Reports, NormalizedError

\* What a call holds is not invalidated by the steps of the others.
LEMMA LocalStable ==
  ASSUME IInv, [Next]_vars, NEW l, LocalOK(l, task, gw)
  PROVE  LocalOK(l, task', gw')
<1>1. RowsForward /\ task' \in [Tasks -> Rows]
  BY RowStep
<1>2. GatewayForward /\ gw' \in [Tasks -> GatewayTaskStatus \cup {NoStatus}]
  BY GatewayStep
<1>3. l.t \in Tasks =>
        /\ Exists(task[l.t]) => Exists(task'[l.t])
        /\ task[l.t].union => task'[l.t].union
        /\ task[l.t].status = SUCCEEDED => task'[l.t].status = SUCCEEDED
  BY <1>1 DEF RowsForward, RowMoves, Exists
<1>4. ASSUME l.t \in Tasks, task[l.t].union, Reached(gw[l.t], l.res), l.res \in GatewayTaskStatus
      PROVE  Reached(gw'[l.t], l.res)
  <2>1. gw[l.t] # NoStatus
    BY <1>4 DEF IInv, NeverAheadOfGateway
  <2> QED  BY <1>2, <1>4, <2>1 DEF GatewayForward, Reached, IInv, TypeOK
<1>5. l.pc # "idle" => l.t \in Tasks /\ Exists(task'[l.t])
  BY <1>3 DEF LocalOK
<1>6. l.pc \in {"observe", "apply"} => l.cur \in NonTerminal /\ task'[l.t].union
  BY <1>3 DEF LocalOK
<1>7. l.pc = "apply" =>
        l.res \in GatewayTaskStatus /\ Advances(l.cur, l.res) /\ Reached(gw'[l.t], l.res)
  BY <1>4 DEF LocalOK
<1>8. l.row.assets <=> l.row.status = SUCCEEDED
  BY DEF LocalOK
<1>9. l.pc \in {"lookup", "write"} /\ l.row.assets => task'[l.t].status = SUCCEEDED
  BY <1>3 DEF LocalOK
<1> QED  BY <1>5, <1>6, <1>7, <1>8, <1>9 DEF LocalOK

\* The calls: what they decide on was read from the table or the gateway.
LEMMA CallStep ==
  ASSUME IInv, [Next]_vars
  PROVE  CallOK' /\ call' \in [Calls -> Locals]
<1> DEFINE Goal == CallOK' /\ call' \in [Calls -> Locals]
<1>1. \A c \in Calls : LocalOK(call[c], task', gw')
  BY LocalStable DEF IInv, CallOK
<1>2. RowsForward /\ task' \in [Tasks -> Rows]
  BY RowStep
<1>3. \A t \in Tasks : (Exists(task[t]) => Exists(task'[t])) /\ (task[t].union => Exists(task[t]))
  BY <1>2 DEF RowsForward, RowMoves, Exists, IInv, SubOK, NoRow
<1>4. ASSUME NEW c \in Calls, NEW l \in Locals, call' = [call EXCEPT ![c] = l],
             LocalOK(l, task', gw')
      PROVE  Goal
  BY <1>1, <1>4 DEF CallOK, IInv, TypeOK
<1>5. ASSUME call' = call
      PROVE  Goal
  BY <1>1, <1>5 DEF CallOK, IInv, TypeOK
<1>6. Idle \in Locals /\ LocalOK(Idle, task', gw')
  BY DEF Idle, Locals, LocalOK, NoRow, Rows, CallSteps, MaybeTask
<1>7. ASSUME NEW c \in Calls, Return(c)
      PROVE  Goal
  BY <1>4, <1>6, <1>7 DEF Return
<1>8. ASSUME NEW c \in Calls, NEW local, Finish(c, local), local.t \in Tasks, Exists(task[local.t])
      PROVE  Goal
  <2> DEFINE l == [Idle EXCEPT !.pc = "project", !.t = local.t, !.projects = TRUE]
  <2>1. l \in Locals
    BY <1>6, <1>8, Zenon DEF Locals, CallSteps, MaybeTask
  <2>2. l.pc = "project" /\ l.t = local.t /\ l.row = NoRow
    BY DEF Idle
  <2>3. LocalOK(l, task', gw')
    BY <1>3, <1>8, <2>2 DEF LocalOK, NoRow
  <2>4. call' = [call EXCEPT ![c] = l] \/ call' = [call EXCEPT ![c] = Idle]
    BY <1>8 DEF Finish
  <2> HIDE DEF l
  <2> QED  BY <1>4, <1>6, <2>1, <2>3, <2>4
<1> HIDE DEF Goal

<1>9. ASSUME NEW c \in Calls, NEW t \in Tasks, Callback(c, t)
      PROVE  Goal
  <2>1. PICK s \in {gw[t]} \cup {n \in NonTerminal : n < gw[t]} :
            \E report \in Reports(s) : HandleCallback(c, t, s, report)
    BY <1>9 DEF Callback
  <2>2. PICK report \in Reports(s) : HandleCallback(c, t, s, report)
    BY <2>1
  <2> DEFINE result == Normalize(s, report.urls, report.reason)
             error == NormalizedError(s, report.urls, report.reason)
             local == [Idle EXCEPT !.t = t, !.callback = TRUE, !.projects = TRUE]
             applies == [local EXCEPT !.pc = "apply", !.cur = task[t].status, !.res = result,
                                      !.sent = TRUE, !.err = error]
             marks == [local EXCEPT !.pc = "mark_sent"]
  <2>3. task[t].union /\ Exists(task[t]) /\ gw[t] \in GatewayTaskStatus
    BY <1>3, <1>9, <2>2 DEF Callback, HandleCallback, IInv, TypeOK
  <2>4. local.t = t /\ UNCHANGED <<task, gw>>
    BY <1>9 DEF Callback, Idle
  <2>5. CASE task[t].sent /\ IsTerminal(task[t])
    <3>1. Finish(c, local)
      BY <2>2, <2>5 DEF HandleCallback
    <3> HIDE DEF local
    <3> QED  BY <1>8, <2>3, <2>4, <3>1
  <2>6. CASE ~(task[t].sent /\ IsTerminal(task[t])) /\ Advances(task[t].status, result)
    <3>1. call' = [call EXCEPT ![c] = applies] /\ result # Invalid
      BY <2>2, <2>6 DEF HandleCallback
    <3>2. result \in GatewayTaskStatus /\ Reached(gw[t], result) /\ error \in BOOLEAN
      BY <2>1, <2>3, <3>1, NormalizeReached
    <3>3. task[t].status \in NonTerminal
      BY <2>3, <2>6 DEF Advances, Exists, IInv, TypeOK, Rows
    <3>4. /\ applies.pc = "apply" /\ applies.t = t /\ applies.cur = task[t].status
          /\ applies.res = result /\ applies.row = NoRow
      BY DEF Idle
    <3>5. LocalOK(applies, task', gw')
      <4> HIDE DEF applies, result
      <4> QED  BY <2>3, <2>4, <2>6, <3>2, <3>3, <3>4 DEF LocalOK, NoRow
    <3>6. applies \in Locals
      <4>1. result \in GatewayTaskStatus \cup {NoStatus}
            /\ task[t].status \in GatewayTaskStatus \cup {NoStatus} /\ t \in MaybeTask
        BY <3>2, <3>3 DEF MaybeTask
      <4> HIDE DEF result, error
      <4> QED  BY <1>6, <3>2, <4>1, ZenonT(60) DEF Locals, CallSteps
    <3> HIDE DEF applies
    <3> QED  BY <1>4, <3>1, <3>5, <3>6
  <2>7. CASE ~(task[t].sent /\ IsTerminal(task[t])) /\ ~Advances(task[t].status, result)
    <3>1. call' = [call EXCEPT ![c] = marks]
      BY <2>2, <2>7 DEF HandleCallback
    <3>2. marks.pc = "mark_sent" /\ marks.t = t /\ marks.row = NoRow
      BY DEF Idle
    <3>3. LocalOK(marks, task', gw')
      BY <2>3, <2>4, <3>2 DEF LocalOK, NoRow
    <3>4. marks \in Locals
      BY <1>6, Zenon DEF Locals, CallSteps, MaybeTask
    <3> HIDE DEF marks
    <3> QED  BY <1>4, <3>1, <3>3, <3>4
  <2> QED  BY <2>5, <2>6, <2>7
<1>10. ASSUME NEW c \in Calls, NEW t \in Tasks, Observe(c, t)
       PROVE  Goal
  <2>1. PICK projects \in BOOLEAN :
            IF IsTerminal(task[t]) \/ ~task[t].union
            THEN Finish(c, [Idle EXCEPT !.t = t, !.projects = projects])
            ELSE call' = [call EXCEPT ![c] = [[Idle EXCEPT !.t = t, !.projects = projects]
                                    EXCEPT !.pc = "observe", !.cur = task[t].status]]
    BY <1>10 DEF Observe
  <2> DEFINE local == [Idle EXCEPT !.t = t, !.projects = projects]
             l == [local EXCEPT !.pc = "observe", !.cur = task[t].status]
  <2>2. Exists(task[t]) /\ UNCHANGED <<task, gw>> /\ local.t = t
    BY <1>10 DEF Observe, Idle
  <2>3. CASE IsTerminal(task[t]) \/ ~task[t].union
    <3>1. Finish(c, local)
      BY <2>1, <2>3
    <3> HIDE DEF local
    <3> QED  BY <1>8, <2>2, <3>1
  <2>4. CASE ~(IsTerminal(task[t]) \/ ~task[t].union)
    <3>1. call' = [call EXCEPT ![c] = l]
      BY <2>1, <2>4
    <3>2. l.pc = "observe" /\ l.t = t /\ l.cur = task[t].status /\ l.row = NoRow
      BY DEF Idle
    <3>3. task[t].status \in NonTerminal
      BY <2>2, <2>4 DEF IsTerminal, Exists, IInv, TypeOK, Rows
    <3>4. LocalOK(l, task', gw')
      <4> HIDE DEF l
      <4> QED  BY <2>2, <2>4, <3>2, <3>3 DEF LocalOK, NoRow
    <3>5. l \in Locals
      BY <1>6, <3>3, ZenonT(60) DEF Locals, CallSteps, MaybeTask
    <3> HIDE DEF l
    <3> QED  BY <1>4, <3>1, <3>4, <3>5
  <2> QED  BY <2>3, <2>4
<1>11. ASSUME NEW c \in Calls, ObserveGateway(c) \/ ObserveNothing(c)
       PROVE  Goal
  <2> DEFINE t == call[c].t
  <2>1. /\ call[c] \in Locals /\ call[c].pc = "observe" /\ t \in Tasks /\ Exists(task[t])
        /\ call[c].cur \in NonTerminal /\ task[t].union /\ UNCHANGED <<task, gw>>
        /\ call[c].row.assets <=> call[c].row.status = SUCCEEDED
    BY <1>11 DEF ObserveGateway, ObserveNothing, IInv, TypeOK, CallOK, LocalOK
  <2>2. CASE Finish(c, call[c])
    BY <1>8, <2>1, <2>2
  <2>3. ASSUME NEW report \in Reports(gw[t]),
               Normalize(gw[t], report.urls, report.reason) # Invalid,
               Advances(call[c].cur, Normalize(gw[t], report.urls, report.reason)),
               call' = [call EXCEPT ![c].pc = "apply",
                          ![c].res = Normalize(gw[t], report.urls, report.reason),
                          ![c].sent = gw[t] \in Terminal,
                          ![c].err = NormalizedError(gw[t], report.urls, report.reason)]
        PROVE  Goal
    <3> DEFINE result == Normalize(gw[t], report.urls, report.reason)
               sent == gw[t] \in Terminal
               error == NormalizedError(gw[t], report.urls, report.reason)
               l == [call[c] EXCEPT !.pc = "apply", !.res = result, !.sent = sent, !.err = error]
    <3>1. gw[t] \in GatewayTaskStatus
      BY <2>1 DEF IInv, TypeOK, NeverAheadOfGateway
    <3>2. result \in GatewayTaskStatus /\ Reached(gw[t], result) /\ error \in BOOLEAN
      BY <2>3, <3>1, NormalizeReached
    <3>3. call' = [call EXCEPT ![c] = l]
      BY <2>3 DEF IInv, TypeOK
    <3>4. /\ l.pc = "apply" /\ l.t = t /\ l.cur = call[c].cur /\ l.res = result
          /\ l.row = call[c].row
      BY <2>1 DEF Locals
    <3>5. LocalOK(l, task', gw')
      <4> HIDE DEF l, result
      <4> QED  BY <2>1, <2>3, <3>2, <3>4 DEF LocalOK, result
    <3>6. l \in Locals
      <4>1. result \in GatewayTaskStatus \cup {NoStatus} /\ sent \in BOOLEAN
        BY <3>2
      <4> HIDE DEF result, error, sent
      <4> QED  BY <2>1, <3>2, <4>1, Zenon DEF Locals, CallSteps
    <3> HIDE DEF l
    <3> QED  BY <1>4, <3>3, <3>5, <3>6
  <2> QED  BY <1>11, <2>2, <2>3 DEF ObserveGateway, ObserveNothing
<1>12. ASSUME NEW c \in Calls, NEW pc \in {"write", "mark_sent", "cancel", "delete"},
              call' = [call EXCEPT ![c].pc = pc], call[c].pc # "idle",
              pc = "write" => call[c].pc = "lookup"
       PROVE  Goal
  <2> DEFINE l == [call[c] EXCEPT !.pc = pc]
  <2>1. call[c] \in Locals /\ LocalOK(call[c], task', gw')
    BY <1>1 DEF IInv, TypeOK
  <2>2. l \in Locals
    BY <1>12, <2>1, Zenon DEF Locals, CallSteps
  <2>3. l.pc = pc /\ l.t = call[c].t /\ l.row = call[c].row
    BY <2>1 DEF Locals
  <2>4. LocalOK(l, task', gw')
    <3> HIDE DEF l
    <3> QED  BY <1>12, <2>1, <2>3 DEF LocalOK
  <2>5. call' = [call EXCEPT ![c] = l]
    BY <1>12 DEF IInv, TypeOK
  <2> HIDE DEF l
  <2> QED  BY <1>4, <2>2, <2>4, <2>5
<1>13. ASSUME NEW c \in Calls, Apply(c) \/ MarkSent(c)
       PROVE  Goal
  <2>1. call[c].pc # "idle" /\ call[c].t \in Tasks /\ Exists(task[call[c].t])
    BY <1>13 DEF Apply, MarkSent, IInv, CallOK, LocalOK
  <2>2. Finish(c, call[c]) \/ call' = [call EXCEPT ![c].pc = "mark_sent"]
    BY <1>13 DEF Apply, MarkSent, Goto
  <2> QED  BY <1>8, <1>12, <2>1, <2>2
<1>14. ASSUME NEW c \in Calls, ProjectRead(c)
       PROVE  Goal
  <2> DEFINE t == call[c].t
             l == [call[c] EXCEPT !.pc = "lookup", !.row = task[t]]
  <2>1. CASE Return(c)
    BY <1>7, <2>1
  <2>2. CASE call' = [call EXCEPT ![c].pc = "lookup", ![c].row = task[t]]
    <3>1. call[c] \in Locals /\ t \in Tasks /\ Exists(task[t]) /\ task[t] \in Rows /\ UNCHANGED task
      BY <1>14 DEF ProjectRead, IInv, TypeOK, CallOK, LocalOK
    <3>2. l \in Locals
      BY <3>1, Zenon DEF Locals, CallSteps
    <3>3. l.pc = "lookup" /\ l.t = t /\ l.row = task[t]
      BY <3>1 DEF Locals
    <3>4. task[t].assets <=> task[t].status = SUCCEEDED
      BY <3>1 DEF IInv, ResultsMatchStatus
    <3>5. LocalOK(l, task', gw')
      <4> HIDE DEF l
      <4> QED  BY <3>1, <3>3, <3>4 DEF LocalOK
    <3>6. call' = [call EXCEPT ![c] = l]
      BY <2>2 DEF IInv, TypeOK
    <3> HIDE DEF l
    <3> QED  BY <1>4, <3>2, <3>5, <3>6
  <2> QED  BY <1>14, <2>1, <2>2 DEF ProjectRead
<1>15. ASSUME NEW c \in Calls, ProjectLookup(c) \/ CancelAtGateway(c) \/ DeleteAtGateway(c)
       PROVE  Goal
  <2>1. Return(c) \/ \E pc \in {"write", "cancel", "delete"} :
            /\ call' = [call EXCEPT ![c].pc = pc] /\ call[c].pc # "idle"
            /\ pc = "write" => call[c].pc = "lookup"
    BY <1>15 DEF ProjectLookup, CancelAtGateway, DeleteAtGateway, Goto
  <2> QED  BY <1>7, <1>12, <2>1
<1>16. ASSUME NEW c \in Calls, ApplyRollsBack(c) \/ ProjectWrite(c) \/ ProjectRejected(c)
                               \/ CancelRow(c) \/ DeleteRow(c)
       PROVE  Goal
  BY <1>7, <1>16 DEF ApplyRollsBack, ProjectWrite, ProjectRejected, CancelRow, DeleteRow
<1>17. ASSUME NEW c \in Calls, NEW t \in Tasks, Cancel(c, t) \/ Delete(c, t)
       PROVE  Goal
  <2>1. PICK pc \in {"gateway_cancel", "cancel", "gateway_delete", "delete"} :
            call' = [call EXCEPT ![c] = [Idle EXCEPT !.t = t, !.pc = pc]]
    BY <1>17 DEF Cancel, Delete
  <2> DEFINE l == [Idle EXCEPT !.t = t, !.pc = pc]
  <2>2. Exists(task'[t])
    BY <1>3, <1>17 DEF Cancel, Delete
  <2>3. l.pc = pc /\ l.t = t /\ l.row = NoRow
    BY DEF Idle
  <2>4. l \in Locals
    BY <1>6, Zenon DEF Locals, CallSteps, MaybeTask
  <2>5. LocalOK(l, task', gw')
    <3> HIDE DEF l
    <3> QED  BY <2>2, <2>3 DEF LocalOK, NoRow
  <2> HIDE DEF l
  <2> QED  BY <1>4, <2>1, <2>4, <2>5 DEF l
<1>18. ASSUME NEW t \in Tasks, RunnerStep(t) \/ SubmitStep(t) \/ GatewayAdvance(t)
       PROVE  call' = call
  <2>1. CASE RunnerStep(t)
    BY <2>1 DEF RunnerStep, RunnerRead, RunnerGate, RunnerConfig, RunnerPersist, RunnerReread,
                RunnerInputs, RunnerFail
  <2>2. CASE SubmitStep(t) \/ GatewayAdvance(t)
    BY <2>2 DEF SubmitStep, SubmitCheck, SubmitInvalid, SubmitCreate, SubmitToGateway,
                SubmitToGatewayFails, SubmitMarkFailed, SubmitBindUnion, SubmitBindNode,
                GatewayAdvance
  <2> QED  BY <1>18, <2>1, <2>2
<1>19. vars' = vars => call' = call
  BY DEF vars
<1>20. ASSUME NEW c \in Calls, ResultStep(c)
       PROVE  Goal
  BY <1>11, <1>13, <1>16, <1>20 DEF ResultStep
<1>21. ASSUME NEW c \in Calls, ProjectStep(c)
       PROVE  Goal
  BY <1>14, <1>15, <1>16, <1>21 DEF ProjectStep
<1>22. ASSUME NEW c \in Calls, EndStep(c)
       PROVE  Goal
  BY <1>15, <1>16, <1>22 DEF EndStep
<1>23. ASSUME NEW c \in Calls, NEW t \in Tasks, Start(c, t)
       PROVE  Goal
  BY <1>9, <1>10, <1>17, <1>23 DEF Start
<1>24. ASSUME NEW t \in Tasks, RunnerStep(t) \/ SubmitStep(t) \/ GatewayAdvance(t)
       PROVE  Goal
  BY <1>5, <1>18, <1>24
<1>25. ASSUME vars' = vars
       PROVE  Goal
  BY <1>5, <1>19, <1>25
<1> HIDE DEF Goal
<1>26. Goal
  BY <1>20, <1>21, <1>22, <1>23, <1>24, <1>25, NextCases
<1> QED  BY <1>26 DEF Goal

\* The node: results of a success are written together with the status, and
\* nothing takes results away.
LEMMA NodeStep ==
  ASSUME IInv, [Next]_vars
  PROVE  NodeShowsResults' /\ SeenOK' /\ node' \in Nodes /\ seen' \in [Tasks -> Nodes]
<1> DEFINE Shows(n) == /\ n \in Nodes
                       /\ n.assets # NoTask => task[n.assets].status = SUCCEEDED
                       /\ n.status = "success" => n.assets # NoTask
           Goal == NodeShowsResults' /\ SeenOK' /\ node' \in Nodes /\ seen' \in [Tasks -> Nodes]
<1>1. RowsForward
  BY RowStep
<1>2. \A t \in Tasks : task[t].status = SUCCEEDED => task'[t].status = SUCCEEDED
  BY <1>1 DEF RowsForward, RowMoves
<1>3. Shows(node)
  BY DEF IInv, TypeOK, NodeShowsResults
<1>4. ASSUME Shows(node'), node.assets # NoTask => node'.assets # NoTask,
             seen' = seen \/ \E t \in Tasks : seen' = [seen EXCEPT ![t] = node] /\ node' = node
      PROVE  Goal
  <2>1. NodeShowsResults' /\ node' \in Nodes
    BY <1>2, <1>4 DEF NodeShowsResults, Nodes, MaybeTask
  <2>2. SeenOK' /\ seen' \in [Tasks -> Nodes]
    BY <1>3, <1>4 DEF SeenOK, IInv, TypeOK
  <2> QED  BY <2>1, <2>2
<1>5. ASSUME NEW t \in MaybeTask, NEW status \in NodeStatus, NEW assets \in MaybeTask,
             NEW error \in MaybeTask, UpdateNodeGeneration(t, status, assets, error),
             assets # NoTask => task[assets].status = SUCCEEDED,
             status = "success" => assets # NoTask \/ node.assets # NoTask, UNCHANGED seen
      PROVE  Goal
  <2>1. Shows(node') /\ (node.assets # NoTask => node'.assets # NoTask)
    BY <1>3, <1>5 DEF UpdateNodeGeneration, Nodes
  <2> QED  BY <1>4, <1>5, <2>1
<1>6. ASSUME NEW t \in Tasks, RunnerStep(t)
      PROVE  Goal
  <2>1. CASE RunnerRead(t) \/ RunnerGate(t) \/ RunnerConfig(t) \/ RunnerReread(t)
    BY <1>3, <1>4, <2>1 DEF RunnerRead, RunnerGate, RunnerConfig, RunnerReread
  <2>2. seen[t] \in Nodes /\ (seen[t].status = "success" => node.assets # NoTask)
    BY DEF IInv, TypeOK, SeenOK
  <2>3. CASE RunnerPersist(t)
    BY <1>5, <2>2, <2>3 DEF RunnerPersist, Nodes, MaybeTask
  <2>4. CASE RunnerInputs(t)
    <3>1. CASE UNCHANGED node
      BY <1>3, <1>4, <2>4, <3>1 DEF RunnerInputs
    <3>2. CASE UpdateNodeGeneration(seen[t].task, "waiting_inputs", NoTask, t)
      BY <1>5, <2>2, <2>4, <3>2 DEF RunnerInputs, Nodes, MaybeTask, NodeStatus
    <3> QED  BY <2>4, <3>1, <3>2 DEF RunnerInputs
  <2>5. CASE RunnerFail(t)
    BY <1>5, <2>5 DEF RunnerFail, MaybeTask, NodeStatus
  <2> QED  BY <1>6, <2>1, <2>3, <2>4, <2>5 DEF RunnerStep
<1>7. ASSUME NEW t \in Tasks, SubmitBindNode(t)
      PROVE  Goal
  <2>1. Shows([node EXCEPT !.task = t]) /\ [node EXCEPT !.task = t].assets = node.assets
    BY <1>3 DEF Nodes, MaybeTask
  <2> QED  BY <1>3, <1>4, <1>7, <2>1 DEF SubmitBindNode
<1>8. ASSUME NEW c \in Calls, ProjectWrite(c)
      PROVE  Goal
  <2> DEFINE t == call[c].t
             row == call[c].row
  <2>1. t \in Tasks /\ row \in Rows
    BY <1>8 DEF ProjectWrite, IInv, TypeOK, CallOK, LocalOK, Locals
  <2>2. (row.assets => task[t].status = SUCCEEDED) /\ (row.status = SUCCEEDED => row.assets)
    BY <1>8 DEF ProjectWrite, IInv, CallOK, LocalOK
  <2>3. /\ NodeStatusFromTask(row) \in NodeStatus
        /\ NodeStatusFromTask(row) = "success" => row.status = SUCCEEDED
    BY DEF NodeStatusFromTask, NodeStatus
  <2>4. UpdateNodeGeneration(t, NodeStatusFromTask(row), IF row.assets THEN t ELSE NoTask,
                             IF row.error THEN t ELSE NoTask) /\ UNCHANGED seen
    BY <1>8 DEF ProjectWrite
  <2>5. t # NoTask /\ t \in MaybeTask /\ NoTask \in MaybeTask
    BY <2>1 DEF MaybeTask
  <2> HIDE DEF row, t
  <2> QED  BY <1>5, <2>2, <2>3, <2>4, <2>5
<1>9. ASSUME node' = node, seen' = seen
      PROVE  Goal
  BY <1>3, <1>4, <1>9
<1>10. ASSUME NEW t \in Tasks, SubmitStep(t) \/ GatewayAdvance(t)
       PROVE  SubmitBindNode(t) \/ (node' = node /\ seen' = seen)
  BY <1>10, SMTT(30) DEF SubmitStep, SubmitCheck, SubmitInvalid, SubmitCreate, SubmitToGateway,
               SubmitToGatewayFails, SubmitMarkFailed, SubmitBindUnion, GatewayAdvance
<1>11. ASSUME NEW c \in Calls, NEW t \in Tasks, Start(c, t)
       PROVE  node' = node /\ seen' = seen
  BY <1>11, ZenonT(60) DEF Start, Callback, Observe, Cancel, Delete
<1>12. ASSUME NEW c \in Calls, ResultStep(c) \/ ProjectStep(c) \/ EndStep(c)
       PROVE  ProjectWrite(c) \/ (node' = node /\ seen' = seen)
  BY <1>12 DEF ResultStep, ObserveGateway, ObserveNothing, Apply, ApplyRollsBack, MarkSent,
               ProjectStep, ProjectRead, ProjectLookup, ProjectRejected, EndStep,
               CancelAtGateway, CancelRow, DeleteAtGateway, DeleteRow
<1>13. vars' = vars => node' = node /\ seen' = seen
  BY DEF vars
<1> HIDE DEF Goal
<1>14. ASSUME NEW t \in Tasks, RunnerStep(t) \/ SubmitStep(t) \/ GatewayAdvance(t)
       PROVE  Goal
  BY <1>6, <1>7, <1>9, <1>10, <1>14
<1>15. ASSUME NEW c \in Calls, NEW t \in Tasks, Start(c, t)
       PROVE  Goal
  BY <1>9, <1>11, <1>15
<1>16. ASSUME NEW c \in Calls, ResultStep(c) \/ ProjectStep(c) \/ EndStep(c)
       PROVE  Goal
  BY <1>8, <1>9, <1>12, <1>16
<1>17. ASSUME vars' = vars
       PROVE  Goal
  BY <1>9, <1>13, <1>17
<1>18. Goal
  BY <1>14, <1>15, <1>16, <1>17, NextCases
<1> QED  BY <1>18 DEF Goal

-----------------------------------------------------------------------------

\* The invariant holds in every reachable state, for any tasks, submitted by
\* users or by the workflow runner, and any number of calls.
THEOREM Invariance == Spec => []IInv
<1>1. IInv /\ [Next]_vars => IInv'
  BY RowStep, AheadStep, SubStep, CallStep, NodeStep, GatewayStep DEF IInv, TypeOK
<1> QED  BY InitOK, <1>1, PTL DEF Spec

\* Rows, node and locals keep their types.
THEOREM TypeCorrect == Spec => []TypeOK
  BY Invariance, PTL DEF IInv

\* The status of a task only moves forward and an end is final, however
\* callbacks, status queries, cancels and deletes overlap.
THEOREM StatusesMoveForward == Spec => StatusMovesForward
<1>1. IInv /\ [Next]_vars =>
        [\A t \in Tasks :
            /\ task'[t].status >= task[t].status
            /\ task[t].status \in Terminal => task'[t].status = task[t].status]_vars
  BY RowStep DEF RowsForward, RowMoves
<1> QED  BY Invariance, <1>1, PTL DEF Spec, StatusMovesForward

\* A task has results and assets exactly if it succeeded.
THEOREM ResultsAlwaysMatchStatus == Spec => []ResultsMatchStatus
  BY Invariance, PTL DEF IInv

\* The table is never ahead of the gateway.
THEOREM TableFollowsGateway == Spec => []NeverAheadOfGateway
  BY Invariance, PTL DEF IInv

\* The node shows results of tasks that succeeded only.
THEOREM NodeShowsRealResults == Spec => []NodeShowsResults
  BY Invariance, PTL DEF IInv

-----------------------------------------------------------------------------
\* Where the gate of a node can fail.

\* No step takes the node away from a task that is still being generated.
NodeKeepsActive ==
    node.task # NoTask /\ IsActive(task[node.task]) => node'.task = node.task

\* A task that is being generated for the node is the one the node is bound to.
ActiveIsBound ==
    \A t \in OnCanvas : sub[t] = "bound" /\ IsActive(task[t]) => node.task = t

\* No statement makes a task active that was not.
LEMMA OpsReviveNobody ==
  ASSUME NEW row \in Rows
  PROVE  /\ IsActive(MarkFailedIfNonTerminal(row)) => IsActive(row)
         /\ IsActive(BindUnionTaskQueued(row)) => IsActive(row)
         /\ IsActive(CancelIfNonTerminal(row)) => IsActive(row)
         /\ IsActive(SoftDelete(row)) => IsActive(row)
         /\ IsActive(MarkCallbackSent(row)) => IsActive(row)
<1> USE DEF IsActive, Rows
<1>1. IsActive(MarkFailedIfNonTerminal(row)) => IsActive(row)
  BY DEF MarkFailedIfNonTerminal, IsTerminal
<1>2. IsActive(BindUnionTaskQueued(row)) => IsActive(row)
  BY DEF BindUnionTaskQueued
<1>3. IsActive(CancelIfNonTerminal(row)) => IsActive(row)
  BY DEF CancelIfNonTerminal, IsTerminal
<1>4. IsActive(SoftDelete(row)) => IsActive(row)
  BY DEF SoftDelete
<1>5. IsActive(MarkCallbackSent(row)) => IsActive(row)
  BY DEF MarkCallbackSent
<1> QED  BY <1>1, <1>2, <1>3, <1>4, <1>5

\* A task whose submission is over and that is no longer active stays so.
LEMMA NobodyIsRevived ==
  ASSUME IInv, [Next]_vars, NEW t \in Tasks, sub[t] # "create", IsActive(task'[t])
  PROVE  IsActive(task[t])
<1> USE DEF IInv, TypeOK
<1>1. ASSUME NEW u \in Tasks, SubmitCreate(u)
      PROVE  task'[t] = task[t]
  BY <1>1 DEF SubmitCreate, SubGoto
<1>2. ASSUME NEW u \in Tasks, SubmitMarkFailed(u) \/ SubmitBindUnion(u)
      PROVE  IsActive(task[t])
  <2>1. PICK row \in {MarkFailedIfNonTerminal(task[u]), BindUnionTaskQueued(task[u])} :
            task' = [task EXCEPT ![u] = row]
    BY <1>2 DEF SubmitMarkFailed, SubmitBindUnion
  <2>2. IsActive(row) => IsActive(task[u])
    BY OpsReviveNobody
  <2> QED  BY <2>1, <2>2
<1>3. ASSUME NEW c \in Calls, MarkSent(c) \/ DeleteRow(c) \/ CancelRow(c)
      PROVE  IsActive(task[t])
  <2> DEFINE u == call[c].t
  <2>1. u \in Tasks
    BY <1>3 DEF MarkSent, DeleteRow, CancelRow, CallOK, LocalOK
  <2>2. PICK row \in {MarkCallbackSent(task[u]), SoftDelete(task[u]), CancelIfNonTerminal(task[u])} :
            task' = [task EXCEPT ![u] = row]
    BY <1>3 DEF MarkSent, DeleteRow, CancelRow
  <2>3. IsActive(row) => IsActive(task[u])
    BY <2>1, OpsReviveNobody
  <2> QED  BY <2>1, <2>2, <2>3
<1>4. ASSUME NEW c \in Calls, Apply(c)
      PROVE  IsActive(task[t])
  <2> DEFINE u == call[c].t
             new == ApplyFields(task[u], call[c].res, call[c].err, call[c].sent)
  <2>1. u \in Tasks /\ call[c].cur \in NonTerminal
    BY <1>4 DEF Apply, CallOK, LocalOK
  <2>2. CASE ~MatchesStatus(task[u], call[c].cur)
    BY <1>4, <2>2 DEF Apply
  <2>3. CASE MatchesStatus(task[u], call[c].cur)
    <3>1. IsActive(task[u])
      BY <2>1, <2>3 DEF MatchesStatus, IsActive
    <3>2. task' = [task EXCEPT ![u] = new]
      BY <1>4, <2>3 DEF Apply
    <3> QED  BY <2>1, <3>1, <3>2
  <2> QED  BY <2>2, <2>3
<1> QED  BY <1>1, <1>2, <1>3, <1>4, RowWriters

\* The only step after which a submission counts as accepted for the node.
LEMMA BoundByBindNode ==
  ASSUME [Next]_vars, TypeOK, NEW t \in OnCanvas, sub[t] # "bound", sub'[t] = "bound"
  PROVE  SubmitBindNode(t) /\ node'.task = t /\ UNCHANGED task
<1>1. ASSUME NEW u \in Tasks, RunnerStep(u)
      PROVE  FALSE
  BY <1>1 DEF RunnerStep, RunnerRead, RunnerGate, RunnerConfig, RunnerPersist, RunnerReread,
              RunnerInputs, RunnerFail, SubGoto, TypeOK
<1>2. ASSUME NEW u \in Tasks, SubmitCheck(u) \/ SubmitInvalid(u) \/ SubmitCreate(u)
                \/ SubmitToGateway(u) \/ SubmitToGatewayFails(u) \/ SubmitMarkFailed(u)
                \/ SubmitBindUnion(u)
      PROVE  FALSE
  BY <1>2 DEF SubmitCheck, SubmitInvalid, SubmitCreate, SubmitToGateway, SubmitToGatewayFails,
              SubmitMarkFailed, SubmitBindUnion, SubGoto, Raise, TypeOK
<1>3. ASSUME NEW u \in Tasks, SubmitBindNode(u)
      PROVE  SubmitBindNode(t) /\ node'.task = t /\ UNCHANGED task
  BY <1>3 DEF SubmitBindNode, Raise, TypeOK, Nodes
<1>4. ASSUME NEW u \in Tasks, GatewayAdvance(u)
      PROVE  FALSE
  BY <1>4 DEF GatewayAdvance
<1>5. ASSUME NEW c \in Calls, NEW u \in Tasks, Start(c, u)
      PROVE  FALSE
  BY <1>5, ZenonT(60) DEF Start, Callback, Observe, Cancel, Delete
<1>6. ASSUME NEW c \in Calls, ResultStep(c) \/ ProjectStep(c) \/ EndStep(c)
      PROVE  FALSE
  BY <1>6 DEF ResultStep, ObserveGateway, ObserveNothing, Apply, ApplyRollsBack, MarkSent,
              ProjectStep, ProjectRead, ProjectLookup, ProjectWrite, ProjectRejected, EndStep,
              CancelAtGateway, CancelRow, DeleteAtGateway, DeleteRow
<1>7. vars' # vars
  BY DEF vars
<1> QED  BY <1>1, <1>2, <1>3, <1>4, <1>5, <1>6, <1>7, NextCases DEF SubmitStep

\* ActiveIsBound is preserved by every step that does not take the node away.
LEMMA ActiveIsBoundStep ==
  ASSUME IInv, ActiveIsBound, [Next]_vars, [NodeKeepsActive]_vars
  PROVE  ActiveIsBound'
<1> SUFFICES ASSUME NEW t \in OnCanvas, sub'[t] = "bound", IsActive(task'[t])
             PROVE  node'.task = t
  BY DEF ActiveIsBound
<1>1. t \in Tasks /\ t # NoTask
  OBVIOUS
<1>2. CASE sub[t] = "bound"
  <2>1. IsActive(task[t])
    BY <1>1, <1>2, NobodyIsRevived
  <2>2. node.task = t
    BY <1>2, <2>1 DEF ActiveIsBound
  <2>3. NodeKeepsActive \/ node' = node
    BY DEF vars
  <2> QED  BY <1>1, <2>1, <2>2, <2>3 DEF NodeKeepsActive
<1>3. CASE sub[t] # "bound"
  BY <1>3, BoundByBindNode DEF IInv
<1> QED  BY <1>2, <1>3

\* The steps that write back a node they read earlier, or bind it to nothing.
TakesNode ==
    \/ \E t \in Tasks : RunnerPersist(t) \/ RunnerInputs(t) \/ RunnerFail(t)
    \/ \E c \in Calls : ProjectWrite(c)

\* A node is taken away from a task that is being generated only by the workflow
\* runner, which writes back a node it read earlier or fails the node, or by a
\* projection of another task: never by a submission, whose second check has the
\* node's row locked.
THEOREM OnlyStaleWritesTakeNode == Spec => [][NodeKeepsActive \/ TakesNode]_vars
<1>1. ASSUME [Next]_vars, TypeOK
      PROVE  NodeKeepsActive \/ TakesNode
  <2>1. ASSUME NEW t \in Tasks, RunnerStep(t)
        PROVE  node' = node \/ TakesNode
    BY <2>1 DEF RunnerStep, RunnerRead, RunnerGate, RunnerConfig, RunnerReread, TakesNode
  <2>2. ASSUME NEW t \in Tasks, SubmitStep(t)
        PROVE  NodeKeepsActive
    <3>1. CASE SubmitBindNode(t)
      <4>1. CASE node.task \notin {NoTask, t} /\ IsActive(task[node.task])
        BY <3>1, <4>1 DEF SubmitBindNode, NodeKeepsActive
      <4>2. CASE ~(node.task \notin {NoTask, t} /\ IsActive(task[node.task]))
        <5>1. node' = [node EXCEPT !.task = t]
          BY <3>1, <4>2, Zenon DEF SubmitBindNode
        <5>2. node'.task = t
          BY <1>1, <5>1 DEF TypeOK, Nodes
        <5> QED  BY <4>2, <5>2, Zenon DEF NodeKeepsActive
      <4> QED  BY <4>1, <4>2
    <3>2. CASE ~SubmitBindNode(t)
      BY <2>2, <3>2 DEF SubmitStep, SubmitCheck, SubmitInvalid, SubmitCreate, SubmitToGateway,
                        SubmitToGatewayFails, SubmitMarkFailed, SubmitBindUnion, NodeKeepsActive
    <3> QED  BY <3>1, <3>2
  <2>3. ASSUME NEW t \in Tasks, GatewayAdvance(t)
        PROVE  node' = node
    BY <2>3 DEF GatewayAdvance
  <2>4. ASSUME NEW c \in Calls, NEW t \in Tasks, Start(c, t)
        PROVE  node' = node
    BY <2>4, ZenonT(60) DEF Start, Callback, Observe, Cancel, Delete
  <2>5. ASSUME NEW c \in Calls, ResultStep(c) \/ ProjectStep(c) \/ EndStep(c)
        PROVE  node' = node \/ TakesNode
    BY <2>5 DEF ResultStep, ObserveGateway, ObserveNothing, Apply, ApplyRollsBack, MarkSent,
                ProjectStep, ProjectRead, ProjectLookup, ProjectRejected, EndStep,
                CancelAtGateway, CancelRow, DeleteAtGateway, DeleteRow, TakesNode
  <2>6. vars' = vars => node' = node
    BY DEF vars
  <2>7. node' = node => NodeKeepsActive
    BY DEF NodeKeepsActive
  <2> QED  BY <1>1, <2>1, <2>2, <2>3, <2>4, <2>5, <2>6, <2>7, NextCases
<1>2. TypeOK /\ [Next]_vars => [NodeKeepsActive \/ TakesNode]_vars
  BY <1>1
<1> QED  BY TypeCorrect, <1>2, PTL DEF Spec

\* The gate does its work wherever the node is not taken away from a task that is
\* still being generated: whatever submissions, callbacks, cancels and projections
\* overlap, one task at most is generated for a node.  With OnlyStaleWritesTakeNode,
\* the error handler of advance_node, its writing back of a node read earlier and a
\* stale projection are the only ways to a second one.
THEOREM GateHoldsWhileTaskIsKept ==
  Spec /\ [][NodeKeepsActive]_vars => []OneActiveTask
<1>1. Init => ActiveIsBound
  BY DEF Init, ActiveIsBound
<1>2. IInv /\ ActiveIsBound /\ [Next]_vars /\ [NodeKeepsActive]_vars => ActiveIsBound'
  BY ActiveIsBoundStep
<1>3. ActiveIsBound => OneActiveTask
  BY DEF ActiveIsBound, OneActiveTask
<1> QED  BY Invariance, <1>1, <1>2, <1>3, PTL DEF Spec

=============================================================================
