--------------------------- MODULE Workshop_proofs ---------------------------
(***************************************************************************)
(* For any number of calls and capabilities, the operations of a workshop  *)
(* task keep its types, its grants and its one task per proposal, and      *)
(* implement the lifecycle of atomic operations.  For any number of        *)
(* dispatches, workers and administrators, a trigger makes one task, no    *)
(* slot is skipped or starts two runs while nobody disables the schedule,  *)
(* and a run that is executed has its task.                                *)
(***************************************************************************)
EXTENDS MCWorkshop, TLAPS

-----------------------------------------------------------------------------
\* The task

\* The calls that hold a row they have read.
HoldsRow == {"transition", "grant", "uses", "accept", "block", "review", "review_cas", "reread"}

\* The edges that the orchestrator asks for.
Edge(from, to) ==
    \/ from \in {"aligning", "re_aligning"} /\ to = "awaiting_go"
    \/ from = "awaiting_go" /\ to = "authorized"
    \/ from = "authorized" /\ to = "executing"
    \/ from \in {"executing", "reviewing"} /\ to = "blocked"
    \/ from = "executing" /\ to = "reviewing"
    \/ from \in {"executing", "blocked", "reviewing"} /\ to = "failed"
    \/ from \in {"executing", "blocked", "reviewing", "done"} /\ to = "re_aligning"
    \/ from \in Status \ {"done", "failed", "cancelled"} /\ to = "cancelled"

\* What the locals l of a call say about the row r: the row they hold is an older one
\* or this one, the edge is one of the graph, and the capabilities on their way to the
\* brief are granted.
LocalsOK(l, r) ==
    /\ l.pc \in HoldsRow =>
          /\ l.row.status \in Status
          /\ l.row.revision <= r.revision
          /\ l.row.revision = r.revision => l.row = r
    /\ l.pc = "transition" => Edge(l.row.status, l.target)
    /\ l.pc = "review_cas" => l.row.status = "executing"
    /\ l.pc = "grant" => l.row.status \in {"authorized", "executing", "blocked"}
    /\ l.pc \in {"brief", "save_brief"} => l.caps \subseteq r.auth
    /\ l.pc = "save_brief" => \A op \in l.seen : op[2] \in r.auth

\* The inductive invariant.
TaskInv ==
    /\ TaskTypeOK
    /\ OneTaskPerProposal
    /\ GrantsKept
    /\ row.status = "none" => row = NoRow
    /\ row.scheduled => proposal = "none"
    /\ \A c \in TaskCalls : LocalsOK(call[c], row)

\* What a step may do to the row: leave it alone, or write a later revision that keeps
\* the grants.
RowStep == \/ row' = row
           \/ row' \in Rows /\ row.revision < row'.revision /\ row.auth \subseteq row'.auth

\* Locals stay right when somebody else writes the row.
LEMMA LocalsStay ==
    ASSUME NEW l \in Locals, TaskTypeOK, LocalsOK(l, row), RowStep
    PROVE  LocalsOK(l, row')
  <1>1. CASE row' = row
    BY <1>1
  <1>2. CASE row' \in Rows /\ row.revision < row'.revision /\ row.auth \subseteq row'.auth
    <2>1. l.row.revision \in Nat /\ row.revision \in Nat /\ row'.revision \in Nat
      BY <1>2 DEF Locals, Rows, TaskTypeOK
    <2> QED BY <1>2, <2>1 DEF LocalsOK
  <1> QED BY <1>1, <1>2 DEF RowStep

\* A call goes on with locals that are right: all calls have theirs right.
LEMMA CallStep ==
    ASSUME TaskInv, NEW c \in TaskCalls, NEW l \in Locals, Goto(c, l), RowStep, LocalsOK(l, row')
    PROVE  /\ call' \in [TaskCalls -> Locals]
           /\ \A b \in TaskCalls : LocalsOK(call'[b], row')
  <1>1. call' = [call EXCEPT ![c] = l] /\ call \in [TaskCalls -> Locals]
    BY DEF Goto, TaskInv, TaskTypeOK
  <1>2. ASSUME NEW b \in TaskCalls
        PROVE  LocalsOK(call'[b], row')
    <2>1. CASE b = c
      BY <1>1, <2>1
    <2>2. CASE b # c
      <3>1. call'[b] = call[b] /\ call[b] \in Locals /\ LocalsOK(call[b], row)
        BY <1>1, <2>2 DEF TaskInv
      <3> QED BY <3>1, LocalsStay DEF TaskInv
    <2> QED BY <2>1, <2>2
  <1> QED BY <1>1, <1>2

\* The locals of a call at rest are right whatever the row.
LEMMA IdleOK ==
    /\ Idle \in Locals
    /\ NoRow \in Rows
    /\ \A r : LocalsOK(Idle, r)
  BY DEF Idle, Locals, LocalsOK, NoRow, Rows, Steps, HoldsRow

\* A step that writes nothing but the locals of its call.
LEMMA ReadKeeps ==
    ASSUME TaskInv, NEW c \in TaskCalls, NEW l \in Locals, Goto(c, l), LocalsOK(l, row),
           UNCHANGED <<proposal, row, brief, created, go, granted>>,
           uses' \subseteq Capabilities
    PROVE  TaskInv'
  <1>1. RowStep /\ LocalsOK(l, row')
    BY DEF RowStep
  <1>2. call' \in [TaskCalls -> Locals] /\ \A b \in TaskCalls : LocalsOK(call'[b], row')
    BY <1>1, CallStep
  <1> QED BY <1>2 DEF TaskInv, TaskTypeOK, OneTaskPerProposal, GrantsKept

\* A call that reads the row.
LEMMA GetKeeps ==
    ASSUME TaskInv, NEW c \in TaskCalls, NEW from, NEW l \in Locals, Get(c, from, l),
           row.status \in from => LocalsOK(l, row)
    PROVE  TaskInv'
  BY ReadKeeps DEF Get, TaskInv, TaskTypeOK

\* A call that reads the row to move it along an edge.
LEMMA TransitionKeeps ==
    ASSUME TaskInv, NEW c \in TaskCalls, NEW from, NEW target \in Status,
           from \subseteq Status, \A s \in from : Edge(s, target),
           Transition(c, from, target)
    PROVE  TaskInv'
  <1> DEFINE l == [Idle EXCEPT !.pc = "transition", !.row = row, !.target = target]
  <1>1. l \in Locals
    BY DEF TaskInv, TaskTypeOK, Idle, Locals, Steps
  <1>2. row.status \in from => LocalsOK(l, row)
    BY DEF LocalsOK, Idle, HoldsRow, TaskInv, TaskTypeOK, Rows
  <1>3. Get(c, from, l)
    BY DEF Transition
  <1> HIDE DEF l
  <1> QED BY <1>1, <1>2, <1>3, GetKeeps

\* The calls that only read, or that change nothing but their locals and the uses.
LEMMA ReadingKeeps ==
    ASSUME TaskInv, NEW c \in TaskCalls,
           \/ ConfirmTaskProposal(c)
           \/ HostProposeGo(c) \/ UserConfirmGo(c) \/ BeginExecution(c) \/ MarkBlocked(c)
           \/ MarkReAligning(c) \/ MarkReviewing(c) \/ Cancel(c) \/ Fail(c)
           \/ UserRejectDone(c) \/ FailReviewBlocked(c)
    PROVE  TaskInv'
  <1>1. CASE ConfirmTaskProposal(c)
    <2> DEFINE l == [Idle EXCEPT !.pc = "confirm"]
    <2>1. l \in Locals /\ LocalsOK(l, row)
      BY IdleOK DEF Idle, Locals, LocalsOK, Steps, HoldsRow
    <2>2. Goto(c, l) /\ UNCHANGED <<proposal, row, brief, created, go, granted>>
          /\ uses' \subseteq Capabilities
      BY <1>1 DEF ConfirmTaskProposal, TaskInv, TaskTypeOK
    <2> HIDE DEF l
    <2> QED BY <2>1, <2>2, ReadKeeps
  <1>2. CASE HostProposeGo(c)
    BY <1>2, TransitionKeeps DEF HostProposeGo, Edge, Status
  <1>3. CASE UserConfirmGo(c)
    BY <1>3, TransitionKeeps DEF UserConfirmGo, Edge, Status
  <1>4. CASE BeginExecution(c)
    BY <1>4, TransitionKeeps DEF BeginExecution, Edge, Status
  <1>5. CASE MarkBlocked(c)
    BY <1>5, TransitionKeeps DEF MarkBlocked, Edge, Status
  <1>6. CASE MarkReAligning(c)
    BY <1>6, TransitionKeeps DEF MarkReAligning, Edge, Status
  <1>7. CASE MarkReviewing(c)
    BY <1>7, TransitionKeeps DEF MarkReviewing, Edge, Status
  <1>8. CASE Cancel(c)
    BY <1>8, TransitionKeeps DEF Cancel, Edge, Status
  <1>9. CASE Fail(c)
    BY <1>9, TransitionKeeps DEF Fail, Edge, Status
  <1>10. CASE UserRejectDone(c)
    BY <1>10, TransitionKeeps DEF UserRejectDone, Edge, Status
  <1>11. CASE FailReviewBlocked(c)
    BY <1>11, TransitionKeeps DEF FailReviewBlocked, Edge, Status
  <1> QED BY <1>1, <1>2, <1>3, <1>4, <1>5, <1>6, <1>7, <1>8, <1>9, <1>10, <1>11

\* What a compare-and-set writes: a new status, or new grants, and the next revision.
\* Stated first for fields of any types, of which the provers need to know nothing.
LEMMA StatusFields ==
    ASSUME NEW S, NEW N, NEW A, NEW B,
           NEW r \in [status : S, revision : N, auth : A, scheduled : B],
           NEW s \in S, NEW n \in N
    PROVE  /\ [r EXCEPT !.status = s, !.revision = n] \in [status : S, revision : N, auth : A, scheduled : B]
           /\ [r EXCEPT !.status = s, !.revision = n].status = s
           /\ [r EXCEPT !.status = s, !.revision = n].revision = n
           /\ [r EXCEPT !.status = s, !.revision = n].auth = r.auth
           /\ [r EXCEPT !.status = s, !.revision = n].scheduled = r.scheduled
  OBVIOUS

\* The same of the row of the task, for a new status.
LEMMA StatusWritten ==
    ASSUME NEW r \in Rows, NEW s \in Status
    PROVE  /\ r.revision \in Nat
           /\ [r EXCEPT !.status = s, !.revision = r.revision + 1] \in Rows
           /\ [r EXCEPT !.status = s, !.revision = r.revision + 1].status = s
           /\ [r EXCEPT !.status = s, !.revision = r.revision + 1].revision = r.revision + 1
           /\ [r EXCEPT !.status = s, !.revision = r.revision + 1].auth = r.auth
           /\ [r EXCEPT !.status = s, !.revision = r.revision + 1].scheduled = r.scheduled
  <1>1. r.revision \in Nat /\ s \in Status \cup {"none"}
    BY DEF Rows
  <1>2. r.revision + 1 \in Nat
    BY <1>1
  <1> QED BY <1>1, <1>2, StatusFields, Zenon DEF Rows

\* The same of new grants, for fields of any types.
LEMMA GrantFields ==
    ASSUME NEW S, NEW N, NEW A, NEW B,
           NEW r \in [status : S, revision : N, auth : A, scheduled : B],
           NEW a \in A, NEW n \in N
    PROVE  /\ [r EXCEPT !.auth = a, !.revision = n] \in [status : S, revision : N, auth : A, scheduled : B]
           /\ [r EXCEPT !.auth = a, !.revision = n].auth = a
           /\ [r EXCEPT !.auth = a, !.revision = n].revision = n
           /\ [r EXCEPT !.auth = a, !.revision = n].status = r.status
           /\ [r EXCEPT !.auth = a, !.revision = n].scheduled = r.scheduled
  OBVIOUS

\* The same of the row of the task, for new grants.
LEMMA GrantWritten ==
    ASSUME NEW r \in Rows, NEW a \in SUBSET Capabilities
    PROVE  /\ r.revision \in Nat
           /\ [r EXCEPT !.auth = a, !.revision = r.revision + 1] \in Rows
           /\ [r EXCEPT !.auth = a, !.revision = r.revision + 1].auth = a
           /\ [r EXCEPT !.auth = a, !.revision = r.revision + 1].revision = r.revision + 1
           /\ [r EXCEPT !.auth = a, !.revision = r.revision + 1].status = r.status
           /\ [r EXCEPT !.auth = a, !.revision = r.revision + 1].scheduled = r.scheduled
  <1>1. r.revision \in Nat /\ a \in SUBSET Capabilities
    BY DEF Rows
  <1>2. r.revision + 1 \in Nat
    BY <1>1
  <1> QED BY <1>1, <1>2, GrantFields, Zenon DEF Rows

\* A compare-and-set that wins writes the next revision of the row its call has read.
LEMMA SetStatusStep ==
    ASSUME TaskInv, NEW target \in Status, SetStatus(target)
    PROVE  /\ row' \in Rows /\ RowStep
           /\ row'.status = target /\ row'.revision = row.revision + 1
           /\ row'.auth = row.auth /\ row'.scheduled = row.scheduled
           /\ go' \in BOOLEAN
  <1>1. row \in Rows /\ go \in BOOLEAN
    BY DEF TaskInv, TaskTypeOK
  <1>2. row' = [row EXCEPT !.status = target, !.revision = row.revision + 1]
    BY DEF SetStatus
  <1>3. row' \in Rows /\ row'.status = target /\ row'.revision = row.revision + 1
        /\ row'.auth = row.auth /\ row'.scheduled = row.scheduled /\ row.revision \in Nat
    BY <1>1, <1>2, StatusWritten, Zenon
  <1>4. go' \in BOOLEAN
    BY <1>1 DEF SetStatus
  <1> QED BY <1>3, <1>4 DEF RowStep

\* A step of a call that sets a new status, if its compare-and-set wins.
LEMMA CasKeeps ==
    ASSUME TaskInv, NEW c \in TaskCalls, NEW l \in Locals, Goto(c, l), LocalsOK(l, row'),
           NEW target \in Status, NEW from \in Status,
           (SetStatus(target) /\ row.status = from) \/ UNCHANGED <<row, go>>,
           UNCHANGED <<proposal, uses, brief, created, granted>>
    PROVE  TaskInv'
  <1>1. CASE SetStatus(target) /\ row.status = from
    <2>1. /\ row' \in Rows /\ RowStep
          /\ row'.status = target /\ row'.revision = row.revision + 1
          /\ row'.auth = row.auth /\ row'.scheduled = row.scheduled
          /\ go' \in BOOLEAN
      BY <1>1, SetStatusStep
    <2>2. call' \in [TaskCalls -> Locals] /\ \A b \in TaskCalls : LocalsOK(call'[b], row')
      BY <2>1, CallStep
    <2>3. row.status # "none" /\ row'.status # "none"
      BY <1>1, <2>1 DEF Status
    <2> QED BY <2>1, <2>2, <2>3 DEF TaskInv, TaskTypeOK, OneTaskPerProposal, GrantsKept
  <1>2. CASE UNCHANGED <<row, go>>
    BY <1>2, ReadKeeps DEF TaskInv, TaskTypeOK
  <1> QED BY <1>1, <1>2

\* The second half of a confirmation creates the task if the proposal is still pending.
LEMMA ClaimProposalKeeps ==
    ASSUME TaskInv, NEW c \in TaskCalls, ClaimProposal(c)
    PROVE  TaskInv'
  <1>1. CASE proposal = "pending"
    <2>1. row = NoRow /\ created = 0
      BY <1>1 DEF TaskInv, OneTaskPerProposal
    <2>2. /\ row' = [NoRow EXCEPT !.status = "aligning", !.revision = 1]
          /\ proposal' = "confirmed" /\ created' = 1
          /\ UNCHANGED <<uses, brief, go, granted>> /\ Goto(c, Idle)
      BY <1>1, <2>1 DEF ClaimProposal
    <2>3. /\ row' \in Rows /\ row'.revision = 1 /\ row'.auth = {} /\ row'.scheduled = FALSE
          /\ row'.status = "aligning" /\ row.revision = 0 /\ row.auth = {}
      BY <2>1, <2>2 DEF NoRow, Rows, Status
    <2>4. RowStep
      BY <2>3 DEF RowStep
    <2>5. call' \in [TaskCalls -> Locals] /\ \A b \in TaskCalls : LocalsOK(call'[b], row')
      BY <2>2, <2>4, CallStep, IdleOK
    <2> QED BY <2>2, <2>3, <2>5 DEF TaskInv, TaskTypeOK, OneTaskPerProposal, GrantsKept
  <1>2. CASE proposal # "pending"
    BY <1>2, ReadKeeps, IdleOK DEF ClaimProposal, TaskInv, TaskTypeOK
  <1> QED BY <1>1, <1>2

\* The second half of a transition: the edge is one of the graph if the row matches.
LEMMA UpdateTaskStatusCasKeeps ==
    ASSUME TaskInv, NEW c \in TaskCalls, UpdateTaskStatusCas(c)
    PROVE  TaskInv'
  <1>1. call[c] \in Locals /\ LocalsOK(call[c], row) /\ call[c].pc = "transition"
    BY DEF TaskInv, TaskTypeOK, UpdateTaskStatusCas
  <1>2. call[c].row.status \in Status /\ call[c].target \in Status
    BY <1>1 DEF LocalsOK, HoldsRow, Edge, Status
  <1>3. /\ Goto(c, Idle) /\ UNCHANGED <<proposal, uses, brief, created, granted>>
        /\ (SetStatus(call[c].target) /\ row.status = call[c].row.status) \/ UNCHANGED <<row, go>>
    BY DEF UpdateTaskStatusCas, Matches
  <1> QED BY <1>2, <1>3, CasKeeps, IdleOK

\* A grant adds to the set that was read, which is the current one if the row matches.
LEMMA GrantKeeps ==
    ASSUME TaskInv, NEW c \in TaskCalls, GrantExternalAuth(c) \/ UpdateTaskExternalAuthCas(c)
    PROVE  TaskInv'
  <1>1. CASE GrantExternalAuth(c)
    <2>1. PICK caps \in SUBSET Capabilities :
            Get(c, {"authorized", "executing", "blocked"},
                [Idle EXCEPT !.pc = "grant", !.row = row, !.caps = caps])
      BY <1>1 DEF GrantExternalAuth
    <2> DEFINE l == [Idle EXCEPT !.pc = "grant", !.row = row, !.caps = caps]
    <2>2. l \in Locals
      BY DEF TaskInv, TaskTypeOK, Idle, Locals, Steps
    <2>3. row.status \in {"authorized", "executing", "blocked"} => LocalsOK(l, row)
      BY DEF LocalsOK, Idle, HoldsRow, TaskInv, TaskTypeOK, Rows, Status
    <2>4. Get(c, {"authorized", "executing", "blocked"}, l)
      BY <2>1
    <2> HIDE DEF l
    <2> QED BY <2>2, <2>3, <2>4, GetKeeps
  <1>2. CASE UpdateTaskExternalAuthCas(c)
    <2>1. call[c] \in Locals /\ LocalsOK(call[c], row) /\ call[c].pc = "grant" /\ row \in Rows
      BY <1>2 DEF TaskInv, TaskTypeOK, UpdateTaskExternalAuthCas
    <2>2. Goto(c, Idle) /\ UNCHANGED <<proposal, uses, brief, created, go>>
      BY <1>2 DEF UpdateTaskExternalAuthCas
    <2>3. CASE Matches(call[c].row)
      <3>1. call[c].row = row /\ row.status \in Status /\ call[c].caps \subseteq Capabilities
        BY <2>1, <2>3 DEF LocalsOK, HoldsRow, Matches, Locals
      <3>2. /\ row' = [row EXCEPT !.auth = row.auth \cup call[c].caps, !.revision = row.revision + 1]
            /\ granted' = granted \cup call[c].caps
        BY <1>2, <2>3, <3>1 DEF UpdateTaskExternalAuthCas
      <3>3. /\ row' \in Rows /\ row'.revision = row.revision + 1 /\ row.revision \in Nat
            /\ row'.auth = row.auth \cup call[c].caps
            /\ row'.scheduled = row.scheduled /\ row'.status = row.status
        <4> DEFINE a == row.auth \cup call[c].caps
        <4>1. a \in SUBSET Capabilities
          BY <2>1, <3>1 DEF Rows
        <4>2. row' = [row EXCEPT !.auth = a, !.revision = row.revision + 1]
          BY <3>2
        <4> HIDE DEF a
        <4>3. row \in Rows /\ row.status \in Status
          BY <2>1, <3>1
        <4>4. /\ row' \in Rows /\ row'.revision = row.revision + 1 /\ row.revision \in Nat
              /\ row'.auth = a /\ row'.scheduled = row.scheduled /\ row'.status = row.status
          BY <4>1, <4>2, <4>3, GrantWritten, Zenon
        <4> QED BY <4>4 DEF a
      <3>4. RowStep
        BY <3>3 DEF RowStep
      <3>5. call' \in [TaskCalls -> Locals] /\ \A b \in TaskCalls : LocalsOK(call'[b], row')
        BY <2>2, <3>4, CallStep, IdleOK
      <3>6. row.status # "none"
        BY <3>1 DEF Status
      <3> QED BY <2>2, <3>1, <3>2, <3>3, <3>5, <3>6
              DEF TaskInv, TaskTypeOK, OneTaskPerProposal, GrantsKept
    <2>4. CASE ~Matches(call[c].row)
      BY <1>2, <2>4, ReadKeeps, IdleOK DEF UpdateTaskExternalAuthCas, TaskInv, TaskTypeOK
    <2> QED BY <2>3, <2>4
  <1> QED BY <1>1, <1>2

\* Recording the use of a capability leaves the task alone.
LEMMA RecordKeeps ==
    ASSUME TaskInv, NEW c \in TaskCalls, RecordCapabilityUse(c) \/ InsertCapabilityUse(c)
    PROVE  TaskInv'
  <1>1. CASE RecordCapabilityUse(c)
    <2>1. PICK cap \in Capabilities :
            Get(c, {"executing", "blocked"}, [Idle EXCEPT !.pc = "record", !.caps = {cap}])
      BY <1>1 DEF RecordCapabilityUse
    <2> DEFINE l == [Idle EXCEPT !.pc = "record", !.caps = {cap}]
    <2>2. l \in Locals /\ LocalsOK(l, row)
      BY IdleOK DEF Idle, Locals, Steps, LocalsOK, HoldsRow
    <2>3. Get(c, {"executing", "blocked"}, l)
      BY <2>1
    <2> HIDE DEF l
    <2> QED BY <2>2, <2>3, GetKeeps
  <1>2. CASE InsertCapabilityUse(c)
    <2>1. uses' \subseteq Capabilities
      BY <1>2 DEF InsertCapabilityUse, TaskInv, TaskTypeOK, Locals
    <2> QED BY <1>2, <2>1, ReadKeeps, IdleOK DEF InsertCapabilityUse
  <1> QED BY <1>1, <1>2

\* The locals of a call that has gone on, with or without another row.
LEMMA LocalsFields ==
    ASSUME NEW l \in Locals, NEW p \in Steps, NEW r \in Rows,
           NEW seen \in SUBSET (TaskCalls \X Capabilities)
    PROVE  /\ [l EXCEPT !.pc = p] \in Locals
           /\ [l EXCEPT !.pc = p].pc = p
           /\ [l EXCEPT !.pc = p].row = l.row
           /\ [l EXCEPT !.pc = p].caps = l.caps
           /\ [l EXCEPT !.pc = p, !.row = r] \in Locals
           /\ [l EXCEPT !.pc = p, !.row = r].pc = p
           /\ [l EXCEPT !.pc = p, !.row = r].row = r
           /\ [l EXCEPT !.pc = p, !.seen = seen] \in Locals
           /\ [l EXCEPT !.pc = p, !.seen = seen].pc = p
           /\ [l EXCEPT !.pc = p, !.seen = seen].caps = l.caps
           /\ [l EXCEPT !.pc = p, !.seen = seen].seen = seen
  BY DEF Locals

\* The row that a call has just read is right for the steps of a review.
LEMMA ReadOK ==
    ASSUME TaskInv, NEW l, l.pc \in {"uses", "review", "accept", "block"} \/
                           (l.pc = "review_cas" /\ row.status = "executing"),
           l.row = row, row.status \in Status
    PROVE  LocalsOK(l, row)
  BY DEF LocalsOK, HoldsRow, TaskInv, TaskTypeOK, Rows

\* A review begins with a read of the row.
LEMMA ReviewReads ==
    ASSUME TaskInv, NEW c \in TaskCalls, WeakAccept(c) \/ CompleteScheduledRun(c)
    PROVE  TaskInv'
  <1>1. CASE WeakAccept(c)
    <2> DEFINE l == [Idle EXCEPT !.pc = "uses", !.row = row]
    <2>1. l \in Locals /\ l.pc = "uses" /\ l.row = row
      BY IdleOK DEF TaskInv, TaskTypeOK, Idle, Locals, Steps
    <2>2. Get(c, {"reviewing"}, l)
      BY <1>1 DEF WeakAccept
    <2> HIDE DEF l
    <2>3. row.status \in {"reviewing"} => LocalsOK(l, row)
      BY <2>1, ReadOK DEF Status
    <2> QED BY <2>1, <2>2, <2>3, GetKeeps
  <1>2. CASE CompleteScheduledRun(c)
    <2> DEFINE p == IF row.status = "executing" THEN "review" ELSE "uses"
               l == [Idle EXCEPT !.pc = p, !.row = row, !.target = "blocked"]
    <2>1. l \in Locals /\ l.pc \in {"uses", "review"} /\ l.row = row
      BY IdleOK DEF TaskInv, TaskTypeOK, Idle, Locals, Steps, Status
    <2>2. Get(c, Status, l)
      BY <1>2 DEF CompleteScheduledRun
    <2> HIDE DEF l
    <2>3. row.status \in Status => LocalsOK(l, row)
      BY <2>1, ReadOK
    <2> QED BY <2>1, <2>2, <2>3, GetKeeps
  <1> QED BY <1>1, <1>2

\* A review goes on, with the row it has or with one it reads again.
LEMMA ReviewGoesOn ==
    ASSUME TaskInv, NEW c \in TaskCalls,
           ReviewScheduledRun(c) \/ RequireTask(c) \/ ListCapabilityUses(c)
    PROVE  TaskInv'
  <1> DEFINE to(p) == [call[c] EXCEPT !.pc = p]
             fresh(p) == [call[c] EXCEPT !.pc = p, !.row = row]
  <1>1. /\ call[c] \in Locals /\ LocalsOK(call[c], row) /\ row \in Rows
        /\ call[c].pc \in {"review", "reread", "uses"}
    BY DEF TaskInv, TaskTypeOK, ReviewScheduledRun, RequireTask, ListCapabilityUses
  <1>2. /\ call[c].row.status \in Status /\ call[c].row.revision <= row.revision
        /\ call[c].row.revision = row.revision => call[c].row = row
    BY <1>1 DEF LocalsOK, HoldsRow
  <1>3. UNCHANGED <<proposal, row, uses, brief, created, go, granted>>
    BY DEF ReviewScheduledRun, RequireTask, ListCapabilityUses
  <1>4. uses' \subseteq Capabilities
    BY <1>3 DEF TaskInv, TaskTypeOK
  <1>5. ASSUME NEW p \in {"accept", "block"}
        PROVE  to(p) \in Locals /\ LocalsOK(to(p), row)
    <2>1. p \in Steps /\ {} \in SUBSET (TaskCalls \X Capabilities)
      BY DEF Steps
    <2>2. to(p) \in Locals /\ to(p).pc = p /\ to(p).row = call[c].row
      BY <1>1, <2>1, LocalsFields, ZenonT(60)
    <2> QED BY <1>2, <2>2 DEF LocalsOK, HoldsRow
  <1>6. ASSUME NEW p \in {"uses", "review_cas"}, row.status \in Status,
               p = "review_cas" => row.status = "executing"
        PROVE  fresh(p) \in Locals /\ LocalsOK(fresh(p), row)
    <2>1. p \in Steps /\ {} \in SUBSET (TaskCalls \X Capabilities)
      BY DEF Steps
    <2>2. fresh(p) \in Locals /\ fresh(p).pc = p /\ fresh(p).row = row
      BY <1>1, <2>1 DEF Locals
    <2> HIDE DEF fresh
    <2> QED BY <1>6, <2>2, ReadOK
  <1>7. row.status \in Status
    <2>1. row.status # "none"
      <3>1. row.status = "none" => row = NoRow
        BY DEF TaskInv
      <3>2. call[c].row.revision \in Nat /\ row.revision \in Nat
        BY <1>1 DEF Locals, Rows
      <3> QED BY <1>2, <3>1, <3>2 DEF NoRow, Status
    <2> QED BY <1>1, <2>1 DEF Rows
  <1>8. ASSUME NEW l \in Locals, LocalsOK(l, row), Goto(c, l)
        PROVE  TaskInv'
    BY <1>3, <1>4, <1>8, ReadKeeps
  <1>9. CASE ReviewScheduledRun(c)
    <2>1. CASE row.status = "executing"
      <3> DEFINE l == fresh("review_cas")
      <3>1. l \in Locals /\ LocalsOK(l, row)
        BY <1>6, <1>7, <2>1
      <3>2. Goto(c, l)
        BY <1>9, <2>1 DEF ReviewScheduledRun
      <3> HIDE DEF l
      <3> QED BY <1>8, <3>1, <3>2
    <2>2. CASE row.status # "executing"
      BY <1>8, <1>9, <2>2, IdleOK DEF ReviewScheduledRun
    <2> QED BY <2>1, <2>2
  <1>10. CASE RequireTask(c)
    <2> DEFINE l == fresh("uses")
    <2>1. l \in Locals /\ LocalsOK(l, row)
      BY <1>6, <1>7
    <2>2. Goto(c, l)
      BY <1>10 DEF RequireTask
    <2> HIDE DEF l
    <2> QED BY <1>8, <2>1, <2>2
  <1>11. CASE ListCapabilityUses(c)
    <2>1. Goto(c, to("accept")) \/ Goto(c, to("block")) \/ Goto(c, Idle)
      BY <1>11 DEF ListCapabilityUses
    <2> HIDE DEF to, fresh
    <2> QED BY <1>5, <1>8, <2>1, IdleOK
  <1> QED BY <1>9, <1>10, <1>11

\* A review ends: the task is done or blocked, if it is still the one that was reviewed.
LEMMA ReviewEnds ==
    ASSUME TaskInv, NEW c \in TaskCalls, CompleteWeakAccept(c) \/ CompleteScheduledBlocked(c)
    PROVE  TaskInv'
  <1>1. /\ Goto(c, Idle) /\ UNCHANGED <<proposal, uses, brief, created, granted>>
        /\ \/ SetStatus("done") /\ row.status = "reviewing"
           \/ SetStatus("blocked") /\ row.status = "reviewing"
           \/ UNCHANGED <<row, go>>
    BY DEF CompleteWeakAccept, CompleteScheduledBlocked, CanComplete
  <1>2. {"done", "blocked", "reviewing"} \subseteq Status
    BY DEF Status
  <1> QED BY <1>1, <1>2, CasKeeps, IdleOK

\* The review of a scheduled run puts the executing task under review.
LEMMA ReviewScheduledRunCasKeeps ==
    ASSUME TaskInv, NEW c \in TaskCalls, ReviewScheduledRunCas(c)
    PROVE  TaskInv'
  <1> DEFINE l == [call[c] EXCEPT !.pc = "reread"]
  <1>1. call[c] \in Locals /\ LocalsOK(call[c], row) /\ call[c].pc = "review_cas" /\ row \in Rows
    BY DEF TaskInv, TaskTypeOK, ReviewScheduledRunCas
  <1>2. UNCHANGED <<proposal, uses, brief, created, granted>>
    BY DEF ReviewScheduledRunCas
  <1>3. {"executing", "reviewing"} \subseteq Status
    BY DEF Status
  <1>4. CASE Matches(call[c].row)
    <2>1. SetStatus("reviewing") /\ Goto(c, l)
      BY <1>4 DEF ReviewScheduledRunCas
    <2>2. row.status = "executing"
      BY <1>1, <1>4 DEF LocalsOK, Matches
    <2>3. /\ l \in Locals /\ l.pc = "reread" /\ l.row = call[c].row
      BY <1>1 DEF Locals, Steps
    <2> HIDE DEF l
    <2>4. row'.revision = row.revision + 1
      BY <1>3, <2>1, SetStatusStep
    <2>5. LocalsOK(l, row')
      <3>1. row.revision \in Nat /\ l.row.revision \in Nat
        BY <1>1, <2>3 DEF Rows, Locals
      <3>2. l.row.status \in Status /\ l.row.revision <= row.revision
        BY <1>1, <2>3 DEF LocalsOK, HoldsRow
      <3> QED BY <2>3, <2>4, <3>1, <3>2 DEF LocalsOK, HoldsRow
    <2> QED BY <1>2, <1>3, <2>1, <2>2, <2>3, <2>5, CasKeeps
  <1>5. CASE ~Matches(call[c].row)
    BY <1>2, <1>5, ReadKeeps, IdleOK DEF ReviewScheduledRunCas, TaskInv, TaskTypeOK
  <1> QED BY <1>4, <1>5

\* The brief: what is read from it and written back is authorised.
LEMMA BriefKeeps ==
    ASSUME TaskInv, NEW c \in TaskCalls,
           AuthorizeOperation(c) \/ BeginShopAuth(c) \/ GetProjectBrief(c) \/ UpdateProjectBrief(c)
    PROVE  TaskInv'
  <1>1. CASE AuthorizeOperation(c)
    <2>1. PICK cap \in row.auth :
            Get(c, {"authorized", "executing", "blocked"},
                [Idle EXCEPT !.pc = "brief", !.caps = {cap}])
      BY <1>1 DEF AuthorizeOperation
    <2> DEFINE l == [Idle EXCEPT !.pc = "brief", !.caps = {cap}]
    <2>2. cap \in Capabilities
      BY DEF TaskInv, TaskTypeOK, Rows
    <2>3. l \in Locals /\ LocalsOK(l, row)
      BY <2>2, IdleOK DEF Idle, Locals, Steps, LocalsOK, HoldsRow
    <2>4. Get(c, {"authorized", "executing", "blocked"}, l)
      BY <2>1
    <2> HIDE DEF l
    <2> QED BY <2>3, <2>4, GetKeeps
  <1>2. CASE BeginShopAuth(c)
    <2> DEFINE l == [Idle EXCEPT !.pc = "brief"]
    <2>1. l \in Locals /\ LocalsOK(l, row)
      BY IdleOK DEF Idle, Locals, LocalsOK, Steps, HoldsRow
    <2>2. Goto(c, l) /\ UNCHANGED <<proposal, row, brief, created, go, granted>>
          /\ uses' \subseteq Capabilities
      BY <1>2 DEF BeginShopAuth, TaskInv, TaskTypeOK
    <2> HIDE DEF l
    <2> QED BY <2>1, <2>2, ReadKeeps
  <1>3. CASE GetProjectBrief(c)
    <2> DEFINE l == [call[c] EXCEPT !.pc = "save_brief", !.seen = brief]
    <2>1. call[c] \in Locals /\ LocalsOK(call[c], row) /\ call[c].pc = "brief"
          /\ brief \in SUBSET (TaskCalls \X Capabilities) /\ \A op \in brief : op[2] \in row.auth
      BY <1>3 DEF TaskInv, TaskTypeOK, GetProjectBrief, GrantsKept
    <2>2. /\ l \in Locals /\ l.pc = "save_brief" /\ l.caps = call[c].caps /\ l.seen = brief
      BY <2>1 DEF Locals, Steps
    <2>3. Goto(c, l) /\ UNCHANGED <<proposal, row, brief, created, go, granted>>
          /\ uses' \subseteq Capabilities
      BY <1>3 DEF GetProjectBrief, TaskInv, TaskTypeOK
    <2> HIDE DEF l
    <2>4. LocalsOK(l, row)
      BY <2>1, <2>2 DEF LocalsOK, HoldsRow
    <2> QED BY <2>2, <2>3, <2>4, ReadKeeps
  <1>4. CASE UpdateProjectBrief(c)
    <2>1. call[c] \in Locals /\ LocalsOK(call[c], row) /\ call[c].pc = "save_brief"
      BY <1>4 DEF TaskInv, TaskTypeOK, UpdateProjectBrief
    <2>2. /\ call[c].caps \subseteq row.auth
          /\ \A op \in call[c].seen : op[2] \in row.auth
      BY <2>1 DEF LocalsOK
    <2>3. /\ brief' = call[c].seen \cup ({c} \X call[c].caps)
          /\ Goto(c, Idle) /\ UNCHANGED <<proposal, row, uses, created, go, granted>>
      BY <1>4 DEF UpdateProjectBrief
    <2>4. brief' \subseteq TaskCalls \X Capabilities
      BY <2>1, <2>3 DEF Locals
    <2>5. \A op \in brief' : op[2] \in row.auth
      BY <2>2, <2>3
    <2>6. RowStep /\ LocalsOK(Idle, row')
      BY <2>3, IdleOK DEF RowStep
    <2>7. call' \in [TaskCalls -> Locals] /\ \A b \in TaskCalls : LocalsOK(call'[b], row')
      BY <2>3, <2>6, CallStep, IdleOK
    <2> QED BY <2>3, <2>4, <2>5, <2>7 DEF TaskInv, TaskTypeOK, OneTaskPerProposal, GrantsKept
  <1> QED BY <1>1, <1>2, <1>3, <1>4

\* The proposal is made or declined, or a schedule starts the task.
LEMMA ProposalKeeps ==
    ASSUME TaskInv, CreateTaskProposal \/ DeclineTaskProposal
                    \/ \E caps \in SUBSET Capabilities : StartScheduledTask(caps)
    PROVE  TaskInv'
  <1>1. CASE CreateTaskProposal \/ DeclineTaskProposal
    BY <1>1 DEF CreateTaskProposal, DeclineTaskProposal, TaskInv, TaskTypeOK,
                OneTaskPerProposal, GrantsKept, NoRow
  <1>2. ASSUME NEW caps \in SUBSET Capabilities, StartScheduledTask(caps)
        PROVE  TaskInv'
    <2>1. /\ proposal = "none" /\ row = NoRow /\ proposal' = "none"
          /\ row' = [status |-> "executing", revision |-> 1, auth |-> caps, scheduled |-> TRUE]
          /\ granted' = caps /\ go' = TRUE
          /\ UNCHANGED <<uses, brief, call, created>>
      BY <1>2 DEF StartScheduledTask
    <2>2. /\ row' \in Rows /\ row'.status = "executing" /\ row'.revision = 1 /\ row'.auth = caps
          /\ row'.scheduled /\ row.revision = 0 /\ row.auth = {}
      BY <2>1 DEF Rows, Status, NoRow
    <2>3. RowStep
      BY <2>2 DEF RowStep
    <2>4. \A b \in TaskCalls : LocalsOK(call'[b], row')
      <3>1. \A b \in TaskCalls : call[b] \in Locals /\ LocalsOK(call[b], row)
        BY DEF TaskInv, TaskTypeOK
      <3> QED BY <2>1, <2>3, <3>1, LocalsStay DEF TaskInv
    <2> QED BY <2>1, <2>2, <2>4 DEF TaskInv, TaskTypeOK, OneTaskPerProposal, GrantsKept
  <1> QED BY <1>1, <1>2

\* The inductive invariant of the task: TaskInv holds at first, and every operation
\* keeps it.
LEMMA TaskInvariance == TaskSpec => []TaskInv
  <1>1. TaskInit => TaskInv
    <2> SUFFICES ASSUME TaskInit
                 PROVE  TaskInv
      OBVIOUS
    <2>1. /\ row = NoRow /\ row \in Rows /\ row.status = "none" /\ row.auth = {}
          /\ ~row.scheduled
      BY IdleOK DEF TaskInit, NoRow
    <2>2. call \in [TaskCalls -> Locals] /\ \A c \in TaskCalls : LocalsOK(call[c], row)
      BY IdleOK DEF TaskInit
    <2> QED BY <2>1, <2>2 DEF TaskInit, TaskInv, TaskTypeOK, OneTaskPerProposal, GrantsKept
  <1>2. TaskInv /\ [TaskNext]_taskVars => TaskInv'
    <2> SUFFICES ASSUME TaskInv, [TaskNext]_taskVars
                 PROVE  TaskInv'
      OBVIOUS
    <2>1. CASE UNCHANGED taskVars
      BY <2>1 DEF taskVars, TaskInv, TaskTypeOK, OneTaskPerProposal, GrantsKept
    <2>2. ASSUME NEW c \in TaskCalls, TaskCall(c)
          PROVE  TaskInv'
      BY <2>2, ReadingKeeps, ClaimProposalKeeps, UpdateTaskStatusCasKeeps, GrantKeeps,
         RecordKeeps, ReviewReads, ReviewGoesOn, ReviewScheduledRunCasKeeps, ReviewEnds,
         BriefKeeps DEF TaskCall
    <2> QED BY <2>1, <2>2, ProposalKeeps DEF TaskNext
  <1> QED BY <1>1, <1>2, PTL DEF TaskSpec

\* The tables, the locals of the calls and the history keep their types.
THEOREM TaskTypeCorrect == TaskSpec => []TaskTypeOK
  BY TaskInvariance, PTL DEF TaskInv

\* However many calls confirm or decline a proposal, it makes one task at most, and
\* makes it exactly when it ends confirmed.
THEOREM ProposalsMakeOneTask == TaskSpec => []OneTaskPerProposal
  BY TaskInvariance, PTL DEF TaskInv

\* No acknowledged grant is lost and the brief holds authorised operations only.
THEOREM GrantsAreKept == TaskSpec => []GrantsKept
  BY TaskInvariance, PTL DEF TaskInv
-----------------------------------------------------------------------------
\* The task implements its lifecycle

\* What the lifecycle shows of a task.
shown == <<row.status, row.auth, go>>

\* A new status along an edge of the graph is a step of the lifecycle.
LEMMA EdgeIsAStep ==
    ASSUME TaskInv, NEW target \in Status, SetStatus(target), Edge(row.status, target)
    PROVE  Lifecycle!Next
  <1>1. row'.status = target /\ row'.auth = row.auth
    BY SetStatusStep
  <1>2. /\ target = "authorized" => go' = TRUE
        /\ target = "re_aligning" => go' = FALSE
        /\ target \notin {"authorized", "re_aligning"} => go' = go
    BY DEF SetStatus
  <1> QED BY <1>1, <1>2 DEF Edge, Status, Lifecycle!Next, Lifecycle!Move, Lifecycle!Confirm,
                           Lifecycle!ReAlign, Lifecycle!Running, Lifecycle!Open

\* The calls that compare and set the status move the task along an edge, even when what
\* they have read and checked is long past.
LEMMA CasIsAStep ==
    ASSUME TaskInv, NEW c \in TaskCalls,
           \/ UpdateTaskStatusCas(c) \/ ReviewScheduledRunCas(c)
           \/ CompleteWeakAccept(c) \/ CompleteScheduledBlocked(c)
    PROVE  Lifecycle!Next \/ UNCHANGED shown
  <1>1. call[c] \in Locals /\ LocalsOK(call[c], row)
    BY DEF TaskInv, TaskTypeOK
  <1>2. CASE UNCHANGED <<row, go>>
    BY <1>2 DEF shown
  <1>3. CASE UpdateTaskStatusCas(c) /\ ~UNCHANGED <<row, go>>
    <2>1. Edge(row.status, call[c].target) /\ SetStatus(call[c].target)
      BY <1>1, <1>3 DEF UpdateTaskStatusCas, Matches, LocalsOK
    <2>2. call[c].target \in Status
      BY <2>1 DEF Edge, Status
    <2> QED BY <2>1, <2>2, EdgeIsAStep
  <1>4. CASE ReviewScheduledRunCas(c) /\ ~UNCHANGED <<row, go>>
    <2>1. row.status = "executing" /\ SetStatus("reviewing")
      BY <1>1, <1>4 DEF ReviewScheduledRunCas, Matches, LocalsOK
    <2> QED BY <2>1, EdgeIsAStep DEF Edge, Status
  <1>5. CASE CompleteWeakAccept(c) /\ ~UNCHANGED <<row, go>>
    <2>1. row.status = "reviewing" /\ SetStatus("done")
      BY <1>5 DEF CompleteWeakAccept, CanComplete
    <2>2. row'.status = "done" /\ row'.auth = row.auth /\ go' = go
      BY <2>1, SetStatusStep DEF SetStatus, Status
    <2> QED BY <2>1, <2>2 DEF Lifecycle!Next, Lifecycle!Move
  <1>6. CASE CompleteScheduledBlocked(c) /\ ~UNCHANGED <<row, go>>
    <2>1. row.status = "reviewing" /\ SetStatus("blocked")
      BY <1>6 DEF CompleteScheduledBlocked, CanComplete
    <2> QED BY <2>1, EdgeIsAStep DEF Edge, Status
  <1> QED BY <1>2, <1>3, <1>4, <1>5, <1>6

\* A grant that wins its compare-and-set adds to the ones the task has.
LEMMA GrantIsAStep ==
    ASSUME TaskInv, NEW c \in TaskCalls, UpdateTaskExternalAuthCas(c)
    PROVE  Lifecycle!Next \/ UNCHANGED shown
  <1>1. call[c] \in Locals /\ LocalsOK(call[c], row) /\ call[c].pc = "grant" /\ row \in Rows
    BY DEF TaskInv, TaskTypeOK, UpdateTaskExternalAuthCas
  <1>2. CASE Matches(call[c].row)
    <2>1. /\ call[c].row = row /\ call[c].caps \subseteq Capabilities
          /\ row.status \in {"authorized", "executing", "blocked"}
      BY <1>1, <1>2 DEF LocalsOK, HoldsRow, Matches, Locals
    <2>2. /\ row' = [row EXCEPT !.auth = row.auth \cup call[c].caps, !.revision = row.revision + 1]
          /\ go' = go
      BY <1>2, <2>1 DEF UpdateTaskExternalAuthCas
    <2>3. row.auth \cup call[c].caps \in SUBSET Capabilities
      BY <1>1, <2>1 DEF Rows
    <2>4. row'.auth = row.auth \cup call[c].caps /\ row'.status = row.status
      BY <1>1, <2>2, <2>3, GrantWritten, Zenon
    <2> QED BY <2>1, <2>2, <2>3, <2>4 DEF Lifecycle!Next, Lifecycle!Grant
  <1>3. CASE ~Matches(call[c].row)
    BY <1>3 DEF UpdateTaskExternalAuthCas, shown
  <1> QED BY <1>2, <1>3

\* A task begins aligning when its proposal is confirmed, or executing for a schedule.
LEMMA BirthIsAStep ==
    ASSUME TaskInv, \/ \E c \in TaskCalls : ClaimProposal(c)
                    \/ \E caps \in SUBSET Capabilities : StartScheduledTask(caps)
    PROVE  Lifecycle!Next \/ UNCHANGED shown
  <1>1. ASSUME NEW c \in TaskCalls, ClaimProposal(c)
        PROVE  Lifecycle!Next \/ UNCHANGED shown
    <2>1. CASE proposal = "pending"
      <3>1. row.status = "none" /\ row = NoRow
        BY <2>1 DEF TaskInv, OneTaskPerProposal
      <3>2. row'.status = "aligning" /\ row'.auth = row.auth /\ go' = go
        BY <1>1, <2>1, <3>1 DEF ClaimProposal, NoRow
      <3> QED BY <3>1, <3>2 DEF Lifecycle!Next, Lifecycle!Create
    <2>2. CASE proposal # "pending"
      BY <1>1, <2>2 DEF ClaimProposal, shown
    <2> QED BY <2>1, <2>2
  <1>2. ASSUME NEW caps \in SUBSET Capabilities, StartScheduledTask(caps)
        PROVE  Lifecycle!Next
    <2>1. row.status = "none" /\ row'.status = "executing" /\ row'.auth = caps /\ go' = TRUE
      BY <1>2 DEF StartScheduledTask, NoRow
    <2> QED BY <2>1 DEF Lifecycle!Next, Lifecycle!Create
  <1> QED BY <1>1, <1>2

\* Every other step of a call leaves alone what the lifecycle shows.
LEMMA OtherStepsAreHidden ==
    ASSUME NEW c \in TaskCalls, TaskCall(c)
    PROVE  \/ ClaimProposal(c) \/ UpdateTaskStatusCas(c) \/ UpdateTaskExternalAuthCas(c)
           \/ ReviewScheduledRunCas(c) \/ CompleteWeakAccept(c) \/ CompleteScheduledBlocked(c)
           \/ UNCHANGED shown
  <1>1. ASSUME NEW from, NEW l, Get(c, from, l)
        PROVE  UNCHANGED shown
    BY <1>1 DEF Get, shown
  <1>2. ASSUME NEW from, NEW target, Transition(c, from, target)
        PROVE  UNCHANGED shown
    BY <1>1, <1>2 DEF Transition
  <1>3. CASE \/ HostProposeGo(c) \/ UserConfirmGo(c) \/ BeginExecution(c) \/ MarkBlocked(c)
             \/ MarkReAligning(c) \/ MarkReviewing(c) \/ Cancel(c) \/ Fail(c)
             \/ UserRejectDone(c) \/ FailReviewBlocked(c)
    BY <1>2, <1>3 DEF HostProposeGo, UserConfirmGo, BeginExecution, MarkBlocked,
       MarkReAligning, MarkReviewing, Cancel, Fail, UserRejectDone, FailReviewBlocked
  <1>4. CASE \/ GrantExternalAuth(c) \/ RecordCapabilityUse(c) \/ WeakAccept(c)
             \/ CompleteScheduledRun(c) \/ AuthorizeOperation(c)
    BY <1>1, <1>4 DEF GrantExternalAuth, RecordCapabilityUse, WeakAccept,
       CompleteScheduledRun, AuthorizeOperation
  <1>5. CASE \/ ConfirmTaskProposal(c) \/ InsertCapabilityUse(c) \/ ReviewScheduledRun(c)
             \/ RequireTask(c) \/ ListCapabilityUses(c) \/ BeginShopAuth(c)
             \/ GetProjectBrief(c) \/ UpdateProjectBrief(c)
    BY <1>5 DEF ConfirmTaskProposal, InsertCapabilityUse, ReviewScheduledRun, RequireTask,
       ListCapabilityUses, BeginShopAuth, GetProjectBrief, UpdateProjectBrief, shown
  <1> QED BY <1>3, <1>4, <1>5 DEF TaskCall

\* The orchestrator implements the lifecycle: whatever calls overlap, every write of the
\* row is one atomic operation of TaskLifecycle, and all other steps are invisible there.
THEOREM TaskRefinesLifecycle == TaskSpec => ImplementsLifecycle
  <1>1. TaskInit => Lifecycle!Init
    BY DEF TaskInit, NoRow, Lifecycle!Init
  <1>2. TaskInv /\ [TaskNext]_taskVars => [Lifecycle!Next]_shown
    <2> SUFFICES ASSUME TaskInv, [TaskNext]_taskVars
                 PROVE  Lifecycle!Next \/ UNCHANGED shown
      OBVIOUS
    <2>1. CASE UNCHANGED taskVars \/ CreateTaskProposal \/ DeclineTaskProposal
      BY <2>1 DEF taskVars, CreateTaskProposal, DeclineTaskProposal, shown
    <2>2. ASSUME NEW caps \in SUBSET Capabilities, StartScheduledTask(caps)
          PROVE  Lifecycle!Next \/ UNCHANGED shown
      BY <2>2, BirthIsAStep
    <2>3. ASSUME NEW c \in TaskCalls, TaskCall(c)
          PROVE  Lifecycle!Next \/ UNCHANGED shown
      BY <2>3, OtherStepsAreHidden, BirthIsAStep, CasIsAStep, GrantIsAStep
    <2> QED BY <2>1, <2>2, <2>3 DEF TaskNext
  <1> QED BY <1>1, <1>2, TaskInvariance, PTL DEF TaskSpec, ImplementsLifecycle, Lifecycle!Spec, shown

\* What the owner confirmed is what is executed: a task that is authorized, under way or
\* done has been confirmed since it was last aligned.
OnlyConfirmedRuns ==
    row.status \in {"authorized", "executing", "blocked", "reviewing", "done"} => go = TRUE

\* No overlap of calls executes a task that its owner has not confirmed.  It follows from
\* the lifecycle alone: the refinement carries it over.
THEOREM ConfirmedBeforeExecution == TaskSpec => []OnlyConfirmedRuns
  <1>1. Lifecycle!Init => OnlyConfirmedRuns
    BY DEF Lifecycle!Init, OnlyConfirmedRuns
  <1>2. OnlyConfirmedRuns /\ [Lifecycle!Next]_shown => OnlyConfirmedRuns'
    BY DEF OnlyConfirmedRuns, shown, Lifecycle!Next, Lifecycle!Create, Lifecycle!Move,
           Lifecycle!Confirm, Lifecycle!ReAlign, Lifecycle!Grant, Lifecycle!Running, Lifecycle!Open
  <1> QED BY <1>1, <1>2, TaskRefinesLifecycle, PTL DEF ImplementsLifecycle, Lifecycle!Spec, shown

\* A task that has failed or was cancelled is left alone: no late compare-and-set revives
\* it, and no late grant reaches it.
THEOREM EndedTasksRest ==
    TaskSpec => [][row.status \in {"failed", "cancelled"} => UNCHANGED shown]_taskVars
  <1>1. [Lifecycle!Next]_shown /\ row.status \in {"failed", "cancelled"} => UNCHANGED shown
    BY DEF shown, Lifecycle!Next, Lifecycle!Create, Lifecycle!Move,
           Lifecycle!Confirm, Lifecycle!ReAlign, Lifecycle!Grant, Lifecycle!Running, Lifecycle!Open
  <1> QED BY <1>1, TaskRefinesLifecycle, PTL DEF ImplementsLifecycle, Lifecycle!Spec, shown
-----------------------------------------------------------------------------
\* The schedule and its runs

\* The steps of a dispatch: what it claims is a slot, and it enqueues only a run whose
\* task it has created.
DispatchesOK ==
    \A d \in Dispatchers : /\ disp[d].pc = "claim" => disp[d].key \in Slots
                           /\ disp[d].pc = "enqueue" => d \in shell

\* The schedule and the triggers: until the workflow goes, the triggers that have started
\* a task are the recorded ones; a schedule that nobody disabled is enabled and has a next
\* slot; a slot fires only while there is a schedule.
TriggersOK ==
    /\ \A k \in Triggers : fires[k] <= 1
    /\ workflow # "deleted" => \A k \in Triggers : fires[k] = (IF k \in fired THEN 1 ELSE 0)
    /\ workflow = "deleted" => schedule = NoSchedule
    /\ schedule.enabled => schedule.exists
    /\ (schedule.exists /\ ~stopped) => schedule.enabled /\ schedule.next # NoSlot
    /\ (~schedule.exists /\ workflow # "deleted") => \A s \in Slots : s \notin fired

\* A ticker has claimed its slot and may start a run, or has started one.
Claimed(d) == /\ disp[d].key \in Slots
              /\ disp[d].pc \in {"load", "create"} \/ run[d].status # "none"

\* The claims: while nobody disables the schedule, a slot is claimed by one ticker, and
\* the schedule has moved on behind it.
ClaimsOK ==
    /\ \A d \in Dispatchers : /\ disp[d].pc = "idle" => disp[d].key = NoSlot
                              /\ disp[d].pc \in {"idle", "claim"} => run[d].status = "none"
    /\ (~schedule.exists /\ workflow # "deleted") => \A d \in Dispatchers : ~Claimed(d)
    /\ (schedule.exists /\ ~stopped) =>
          \A d \in Dispatchers : Claimed(d) => disp[d].key < schedule.next
    /\ ~stopped =>
          \A d, e \in Dispatchers :
              Claimed(d) /\ Claimed(e) /\ disp[d].key = disp[e].key => d = e

\* The inductive invariant.
RunInv ==
    /\ RunTypeOK /\ ExecutedRunHasTask /\ DispatchesOK
    /\ TriggersOK /\ SlotsMakeTasks /\ ClaimsOK

\* A schedule whose fields are written keeps its type, whatever the types of the fields.
LEMMA ScheduleFields ==
    ASSUME NEW B, NEW N, NEW r \in [exists : B, enabled : B, next : N], NEW b \in B, NEW n \in N
    PROVE  /\ [r EXCEPT !.next = n] \in [exists : B, enabled : B, next : N]
           /\ [r EXCEPT !.next = n].exists = r.exists
           /\ [r EXCEPT !.next = n].enabled = r.enabled
           /\ [r EXCEPT !.next = n].next = n
           /\ [r EXCEPT !.enabled = b, !.next = n] \in [exists : B, enabled : B, next : N]
           /\ [r EXCEPT !.enabled = b, !.next = n].exists = r.exists
           /\ [r EXCEPT !.enabled = b, !.next = n].enabled = b
           /\ [r EXCEPT !.enabled = b, !.next = n].next = n
  OBVIOUS

\* The same of the row of the schedule.
LEMMA ScheduleWritten ==
    ASSUME NEW r \in Schedules, NEW b \in BOOLEAN, NEW n \in 0 .. MaxSlot + 1
    PROVE  /\ [r EXCEPT !.next = n] \in Schedules
           /\ [r EXCEPT !.next = n].exists = r.exists
           /\ [r EXCEPT !.next = n].enabled = r.enabled
           /\ [r EXCEPT !.next = n].next = n
           /\ [r EXCEPT !.enabled = b, !.next = n] \in Schedules
           /\ [r EXCEPT !.enabled = b, !.next = n].exists = r.exists
           /\ [r EXCEPT !.enabled = b, !.next = n].enabled = b
           /\ [r EXCEPT !.enabled = b, !.next = n].next = n
  BY ScheduleFields, Zenon DEF Schedules

\* A schedule s that was written so exists if r does, and has the slot it was given.
LEMMA ScheduleMoves ==
    ASSUME NEW r \in Schedules, NEW b \in BOOLEAN, NEW n \in 0 .. MaxSlot + 1, NEW s
    PROVE  /\ s = [r EXCEPT !.next = n] => s.exists = r.exists /\ s.next = n
           /\ s = [r EXCEPT !.enabled = b, !.next = n] => s.exists = r.exists /\ s.next = n
  <1>1. /\ [r EXCEPT !.next = n].exists = r.exists
        /\ [r EXCEPT !.next = n].next = n
        /\ [r EXCEPT !.enabled = b, !.next = n].exists = r.exists
        /\ [r EXCEPT !.enabled = b, !.next = n].next = n
    BY ScheduleFields, ZenonT(60) DEF Schedules
  <1>2. s = [r EXCEPT !.next = n] => s.exists = r.exists /\ s.next = n
    BY <1>1, Zenon
  <1>3. s = [r EXCEPT !.enabled = b, !.next = n] => s.exists = r.exists /\ s.next = n
    BY <1>1, Zenon
  <1> QED BY <1>2, <1>3

\* The same of one that only gets a new slot.
LEMMA ScheduleAdvances ==
    ASSUME NEW r \in Schedules, NEW n \in 0 .. MaxSlot + 1, NEW s, s = [r EXCEPT !.next = n]
    PROVE  s.exists = r.exists /\ s.next = n
  <1>1. [r EXCEPT !.next = n].exists = r.exists /\ [r EXCEPT !.next = n].next = n
    BY ScheduleFields, ZenonT(60) DEF Schedules
  <1> QED BY <1>1, Zenon

\* The definition of the workflow and the clock.
LEMMA DefinitionTypes ==
    ASSUME RunTypeOK, Advance \/ UserConfirmSaveWorkflow \/ CreateSchedule \/ DropRevoked
    PROVE  RunTypeOK'
  <1>1. CASE Advance
    BY <1>1, SlotsAssumption DEF Advance, RunTypeOK, dbVars
  <1>2. CASE UserConfirmSaveWorkflow
    BY <1>2 DEF UserConfirmSaveWorkflow, RunTypeOK
  <1>3. CASE CreateSchedule
    <2>1. schedule' \in Schedules
      BY <1>3, SlotsAssumption DEF CreateSchedule, RunTypeOK, Schedules, ComputeNextRunAt
    <2> QED BY <1>3, <2>1 DEF CreateSchedule, RunTypeOK
  <1>4. CASE DropRevoked
    BY <1>4 DEF DropRevoked, RunTypeOK, dbVars
  <1> QED BY <1>1, <1>2, <1>3, <1>4

\* The calls of administrators.
LEMMA AdminTypes ==
    ASSUME RunTypeOK, NEW a \in Admins, Administer(a)
    PROVE  RunTypeOK'
  <1>1. ASSUME NEW pc \in {"idle", "enable", "cancel", "delete", "done"}, AdminGoto(a, pc)
        PROVE  admin' \in [Admins -> Administrations]
    BY <1>1 DEF AdminGoto, RunTypeOK, Administrations
  <1>2. CASE EnableSchedule(a) \/ StartWorkflowExecution(a)
    <2>1. admin' \in [Admins -> Administrations]
      BY <1>2, SlotsAssumption, SMTT(30) DEF EnableSchedule, StartWorkflowExecution, RunTypeOK,
         Administrations, ComputeNextRunAt
    <2> QED BY <1>2, <2>1 DEF EnableSchedule, StartWorkflowExecution, AdminOnly, dbVars, RunTypeOK
  <1>3. CASE WriteEnabled(a)
    <2>1. schedule' \in Schedules
      <3>1. schedule \in Schedules /\ admin[a].next \in 0 .. MaxSlot + 1 /\ TRUE \in BOOLEAN
        BY DEF RunTypeOK, Administrations
      <3>2. CASE schedule' = [schedule EXCEPT !.enabled = TRUE, !.next = admin[a].next]
        BY <3>1, <3>2, ScheduleWritten, Zenon
      <3>3. CASE schedule' = schedule
        BY <3>1, <3>3
      <3> QED BY <1>3, <3>2, <3>3 DEF WriteEnabled
    <2> QED BY <1>1, <1>3, <2>1 DEF WriteEnabled, RunTypeOK
  <1>4. CASE DisableSchedule(a) \/ StopWorkflowExecution(a)
    <2>1. schedule' \in Schedules
      <3>1. schedule \in Schedules /\ NoSlot \in 0 .. MaxSlot + 1 /\ FALSE \in BOOLEAN
        BY SlotsAssumption DEF RunTypeOK, NoSlot
      <3>2. schedule' = [schedule EXCEPT !.enabled = FALSE, !.next = NoSlot]
        BY <1>4 DEF DisableSchedule, StopWorkflowExecution
      <3> QED BY <3>1, <3>2, ScheduleWritten, Zenon
    <2> QED BY <1>1, <1>4, <2>1 DEF DisableSchedule, StopWorkflowExecution, RunTypeOK
  <1>5. CASE ListActiveWorkflowRuns(a)
    <2> DEFINE left == {<<d, run[d].revision>> : d \in {d \in Dispatchers : run[d].status \in Active}}
    <2>1. left \subseteq Dispatchers \X Nat
      BY DEF RunTypeOK, RunRows
    <2>2. admin' = [admin EXCEPT ![a].pc = "cancel", ![a].left = left]
      BY <1>5 DEF ListActiveWorkflowRuns
    <2> HIDE DEF left
    <2>3. admin' \in [Admins -> Administrations]
      BY <2>1, <2>2, ZenonT(60) DEF RunTypeOK, Administrations
    <2> QED BY <1>5, <2>3 DEF ListActiveWorkflowRuns, AdminOnly, dbVars, RunTypeOK
  <1>6. CASE CancelWorkflowRunCas(a)
    <2>1. admin' \in [Admins -> Administrations]
      BY <1>1, <1>6 DEF CancelWorkflowRunCas, RunTypeOK, Administrations
    <2>2. run' \in [Dispatchers -> RunRows] /\ revoked' \subseteq Dispatchers
      BY <1>6, SMTT(30) DEF CancelWorkflowRunCas, RunTypeOK, Administrations, RunRows, Terminal
    <2> QED BY <1>6, <2>1, <2>2 DEF CancelWorkflowRunCas, RunTypeOK
  <1>7. CASE ClearTaskScheduleRefs(a)
    BY <1>1, <1>7 DEF ClearTaskScheduleRefs, RunTypeOK
  <1>8. CASE DeleteWorkflow(a)
    <2>1. schedule' \in Schedules
      <3>1. NoSchedule \in Schedules
        BY SlotsAssumption DEF Schedules, NoSchedule, NoSlot
      <3> QED BY <1>8, <3>1 DEF DeleteWorkflow, RunTypeOK
    <2>2. run' \in [Dispatchers -> RunRows]
      BY <1>8 DEF DeleteWorkflow, RunTypeOK, RunRows, NoRun
    <2> QED BY <1>1, <1>8, <2>1, <2>2 DEF DeleteWorkflow, RunTypeOK
  <1> QED BY <1>2, <1>3, <1>4, <1>5, <1>6, <1>7, <1>8 DEF Administer
\* The steps of a dispatch.
LEMMA DispatchTypes ==
    ASSUME RunTypeOK, DispatchesOK, NEW d \in Dispatchers, Dispatch(d) \/ DispatchFails(d)
    PROVE  RunTypeOK'
  <1>1. ASSUME NEW pc \in {"idle", "claim", "load", "create", "shell", "enqueue", "done"},
               DispGoto(d, pc)
        PROVE  disp' \in [Dispatchers -> Dispatches]
    BY <1>1 DEF DispGoto, RunTypeOK, Dispatches
  <1>2. ASSUME NEW k \in Triggers, InsertScheduleTrigger(k)
        PROVE  fired' \subseteq Triggers /\ fires' \in [Triggers -> Nat] /\ refs' \in BOOLEAN
    BY <1>2 DEF InsertScheduleTrigger, RunTypeOK
  <1>3. CASE ManualRun(d)
    BY <1>1, <1>3 DEF ManualRun, DispOnly, dbVars, RunTypeOK
  <1>4. CASE TriggerSchedule(d)
    <2>1. PICK k \in Keys :
            /\ UNCHANGED <<fired, fires, refs>> \/ InsertScheduleTrigger(k)
            /\ disp' = [disp EXCEPT ![d] = [pc |-> "load", key |-> k]]
      BY <1>4 DEF TriggerSchedule
    <2>2. k \in Triggers
      BY DEF Triggers
    <2>3. disp' \in [Dispatchers -> Dispatches]
      BY <2>1, <2>2 DEF RunTypeOK, Dispatches
    <2>4. fired' \subseteq Triggers /\ fires' \in [Triggers -> Nat] /\ refs' \in BOOLEAN
      BY <1>2, <2>1, <2>2 DEF RunTypeOK
    <2> QED BY <1>4, <2>3, <2>4 DEF TriggerSchedule, RunTypeOK
  <1>5. CASE ListDueSchedules(d)
    <2>1. schedule.next \in Slots
      BY <1>5, SlotsAssumption DEF ListDueSchedules, RunTypeOK, Schedules, Slots, NoSlot
    <2>2. disp' \in [Dispatchers -> Dispatches]
      BY <1>5, <2>1 DEF ListDueSchedules, RunTypeOK, Dispatches, Triggers
    <2> QED BY <1>5, <2>2 DEF ListDueSchedules, DispOnly, dbVars, RunTypeOK
  <1>6. CASE ClaimDueScheduleRun(d)
    <2> DEFINE slot == disp[d].key
    <2>1. slot \in Slots /\ slot \in Triggers
      BY <1>6 DEF ClaimDueScheduleRun, DispatchesOK, Triggers
    <2>2. CASE schedule.enabled /\ schedule.next = slot
      <3>1. schedule' = [schedule EXCEPT !.next = slot + 1] /\ DispGoto(d, "load")
            /\ (UNCHANGED <<fired, fires, refs>> \/ InsertScheduleTrigger(slot))
        BY <1>6, <2>2 DEF ClaimDueScheduleRun, ComputeNextRunAt
      <3>2. slot + 1 \in 0 .. MaxSlot + 1 /\ schedule \in Schedules /\ TRUE \in BOOLEAN
        BY <2>1, SlotsAssumption DEF Slots, RunTypeOK
      <3> HIDE DEF slot
      <3>3. schedule' \in Schedules
        BY <3>1, <3>2, ScheduleWritten, Zenon
      <3>4. fired' \subseteq Triggers /\ fires' \in [Triggers -> Nat] /\ refs' \in BOOLEAN
        BY <1>2, <2>1, <3>1 DEF RunTypeOK
      <3>5. disp' \in [Dispatchers -> Dispatches]
        BY <1>1, <3>1
      <3> QED BY <1>6, <3>3, <3>4, <3>5 DEF ClaimDueScheduleRun, RunTypeOK
    <2>3. CASE ~(schedule.enabled /\ schedule.next = slot)
      <3>1. disp' = [disp EXCEPT ![d] = [pc |-> "done", key |-> NoSlot]]
            /\ UNCHANGED <<schedule, fired, fires, refs>>
        BY <1>6, <2>3 DEF ClaimDueScheduleRun
      <3>2. disp' \in [Dispatchers -> Dispatches]
        BY <3>1 DEF RunTypeOK, Dispatches
      <3> QED BY <1>6, <3>1, <3>2 DEF ClaimDueScheduleRun, RunTypeOK
    <2> QED BY <2>2, <2>3
  <1>7. CASE RequireSaved(d)
    BY <1>1, <1>7 DEF RequireSaved, DispOnly, dbVars, RunTypeOK
  <1>8. CASE CreateWorkflowRun(d)
    <2>1. run' \in [Dispatchers -> RunRows]
      BY <1>8 DEF CreateWorkflowRun, RunTypeOK, RunRows, Active
    <2> QED BY <1>1, <1>8, <2>1 DEF CreateWorkflowRun, RunTypeOK
  <1>9. CASE CreateExecutingTask(d)
    BY <1>1, <1>9 DEF CreateExecutingTask, RunTypeOK
  <1>10. CASE EnqueueWorkflowRun(d)
    BY <1>1, <1>10 DEF EnqueueWorkflowRun, dbVars, RunTypeOK
  <1>11. CASE DispatchFails(d)
    BY <1>1, <1>11 DEF DispatchFails, dbVars, RunTypeOK
  <1> QED BY <1>3, <1>4, <1>5, <1>6, <1>7, <1>8, <1>9, <1>10, <1>11 DEF Dispatch

\* The steps of a worker.
LEMMA WorkTypes ==
    ASSUME RunTypeOK, ExecutedRunHasTask, NEW w \in Workers, Work(w)
    PROVE  RunTypeOK'
  <1>1. Free \in Executions
    BY DEF Free, Executions
  <1>2. Ack(w) => worker' \in [Workers -> Executions]
    BY <1>1 DEF Ack, RunTypeOK
  <1>3. ASSUME NEW pc \in {"idle", "get", "workflow", "start", "reread", "graph", "finish"},
               WorkerGoto(w, pc)
        PROVE  worker' \in [Workers -> Executions]
    BY <1>3 DEF WorkerGoto, RunTypeOK, Executions
  <1>4. worker[w].pc # "idle" => worker[w].d \in Dispatchers
    BY DEF ExecutedRunHasTask, RunTypeOK
  <1>5. ASSUME NEW status \in Active \cup Terminal \cup {"none"}, UpdateRun(w, status),
               worker[w].d \in Dispatchers
        PROVE  run' \in [Dispatchers -> RunRows]
    BY <1>5 DEF UpdateRun, RunTypeOK, RunRows, Executions
  <1>6. CASE Deliver(w)
    <2>1. PICK d \in queue :
            /\ queue' = queue \ {d}
            /\ worker' = [worker EXCEPT ![w] = [Free EXCEPT !.pc = "get", !.d = d]]
      BY <1>6 DEF Deliver
    <2>2. d \in Dispatchers /\ queue' \subseteq Dispatchers
      BY <2>1 DEF RunTypeOK
    <2>3. [Free EXCEPT !.pc = "get", !.d = d] \in Executions
      BY <1>1, <2>2 DEF Executions
    <2>4. worker' \in [Workers -> Executions]
      BY <2>1, <2>3 DEF RunTypeOK
    <2> QED BY <1>6, <2>2, <2>4 DEF Deliver, WorkerOnly, dbVars, RunTypeOK
  <1>7. CASE GetWorkflowRun(w)
    <2>1. worker' \in [Workers -> Executions]
      BY <1>2, <1>4, <1>7 DEF GetWorkflowRun, RunTypeOK, Executions, RunRows
    <2> QED BY <1>7, <2>1 DEF GetWorkflowRun, WorkerOnly, dbVars, RunTypeOK
  <1>8. CASE GetWorkflow(w)
    BY <1>2, <1>3, <1>8 DEF GetWorkflow, WorkerOnly, dbVars, RunTypeOK
  <1>9. CASE StartRun(w)
    <2>1. worker' \in [Workers -> Executions]
      BY <1>2, <1>3, <1>9 DEF StartRun
    <2>2. run' \in [Dispatchers -> RunRows]
      BY <1>4, <1>5, <1>9 DEF StartRun, RunTypeOK, Active
    <2> QED BY <1>9, <2>1, <2>2 DEF StartRun, RunTypeOK
  <1>10. CASE RereadRun(w)
    <2>1. worker' \in [Workers -> Executions]
      <3>1. run[worker[w].d].revision \in Nat
        BY <1>4, <1>10 DEF RereadRun, RunTypeOK, RunRows
      <3> QED BY <1>2, <1>10, <3>1 DEF RereadRun, RunTypeOK, Executions
    <2> QED BY <1>10, <2>1 DEF RereadRun, WorkerOnly, dbVars, RunTypeOK
  <1>11. CASE ExecuteWorkflowGraph(w)
    <2>1. worker' \in [Workers -> Executions]
      <3>1. PICK result \in Terminal :
              worker' = [worker EXCEPT ![w].pc = "finish", ![w].result = result]
        BY <1>11 DEF ExecuteWorkflowGraph, GraphResults, Terminal
      <3> QED BY <3>1, ZenonT(60) DEF RunTypeOK, Executions
    <2>2. files' \in [Dispatchers -> SUBSET Files]
      BY <1>4, <1>11 DEF ExecuteWorkflowGraph, RunTypeOK
    <2> QED BY <1>11, <2>1, <2>2 DEF ExecuteWorkflowGraph, RunTypeOK
  <1>12. CASE FinishRun(w)
    <2>1. worker[w].result \in Active \cup Terminal \cup {"none"}
      BY DEF RunTypeOK, Executions
    <2>2. run' \in [Dispatchers -> RunRows]
      BY <1>4, <1>5, <1>12, <2>1 DEF FinishRun, RunTypeOK
    <2> QED BY <1>2, <1>12, <2>2 DEF FinishRun, RunTypeOK
  <1>13. CASE ExecutionFails(w)
    BY <1>2, <1>4, <1>13 DEF ExecutionFails, dbVars, RunTypeOK
  <1>16. CASE PoolChildDies(w)
    BY <1>2, <1>4, <1>16, SlotsAssumption DEF PoolChildDies, dbVars, RunTypeOK
  <1>14. CASE WorkerDies(w)
    BY <1>2, <1>4, <1>14, SlotsAssumption DEF WorkerDies, WorkerOnly, dbVars, RunTypeOK
  <1>15. CASE Redeliver(w)
    BY <1>4, <1>15, SlotsAssumption DEF Redeliver, WorkerOnly, dbVars, RunTypeOK
  <1> QED BY <1>6, <1>7, <1>8, <1>9, <1>10, <1>11, <1>12, <1>13, <1>14, <1>15, <1>16 DEF Work, Execute
\* A run is enqueued with its task: the steps of a dispatch.
LEMMA DispatchHasTask ==
    ASSUME RunInv, NEW d \in Dispatchers, Dispatch(d) \/ DispatchFails(d)
    PROVE  DispatchesOK' /\ ExecutedRunHasTask'
  <1>1. disp \in [Dispatchers -> Dispatches]
    BY DEF RunInv, RunTypeOK
  <1>2. shell \subseteq shell' /\ UNCHANGED worker
    BY DEF Dispatch, DispatchFails, ManualRun, TriggerSchedule, ListDueSchedules,
           ClaimDueScheduleRun, RequireSaved, CreateWorkflowRun, CreateExecutingTask,
           EnqueueWorkflowRun, DispOnly, dbVars
  <1>3. \A e \in Dispatchers \ {d} : disp'[e] = disp[e]
    BY <1>1 DEF Dispatch, DispatchFails, ManualRun, TriggerSchedule, ListDueSchedules,
           ClaimDueScheduleRun, RequireSaved, CreateWorkflowRun, CreateExecutingTask,
           EnqueueWorkflowRun, DispGoto
  <1>4. disp'[d].pc = "claim" => disp'[d].key \in Slots
    <2>1. ListDueSchedules(d) => disp'[d].key \in Slots
      BY <1>1, SlotsAssumption DEF ListDueSchedules, RunInv, RunTypeOK, Schedules, Slots, NoSlot
    <2> QED BY <1>1, <2>1 DEF Dispatch, DispatchFails, ManualRun, TriggerSchedule,
           ClaimDueScheduleRun, RequireSaved, CreateWorkflowRun, CreateExecutingTask,
           EnqueueWorkflowRun, DispGoto, Dispatches
  <1>5. disp'[d].pc = "enqueue" => d \in shell'
    BY <1>1 DEF Dispatch, DispatchFails, ManualRun, TriggerSchedule, ListDueSchedules,
           ClaimDueScheduleRun, RequireSaved, CreateWorkflowRun, CreateExecutingTask,
           EnqueueWorkflowRun, DispGoto, Dispatches
  <1>6. DispatchesOK'
    BY <1>2, <1>3, <1>4, <1>5 DEF DispatchesOK, RunInv
  <1>7. queue' = queue \/ (queue' = queue \cup {d} /\ d \in shell)
    BY DEF RunInv, DispatchesOK, Dispatch, DispatchFails, ManualRun, TriggerSchedule,
           ListDueSchedules, ClaimDueScheduleRun, RequireSaved, CreateWorkflowRun,
           CreateExecutingTask, EnqueueWorkflowRun, DispOnly
  <1> QED BY <1>2, <1>6, <1>7 DEF RunInv, ExecutedRunHasTask

\* A run is executed with its task: the steps of a worker, which only hands runs back and
\* forth between the queue and itself.
LEMMA WorkHasTask ==
    ASSUME RunInv, NEW w \in Workers, Work(w)
    PROVE  DispatchesOK' /\ ExecutedRunHasTask'
  <1>1. UNCHANGED <<disp, shell>>
    BY DEF Work, Execute, Deliver, GetWorkflowRun, GetWorkflow, StartRun, RereadRun,
           ExecuteWorkflowGraph, FinishRun, ExecutionFails, PoolChildDies, WorkerDies, Redeliver,
           WorkerOnly, dbVars
  <1>2. worker \in [Workers -> Executions]
    BY DEF RunInv, RunTypeOK
  <1>3. \A v \in Workers \ {w} : worker'[v] = worker[v]
    BY <1>2, ZenonT(60) DEF Work, Execute, Deliver, GetWorkflowRun, GetWorkflow, StartRun, RereadRun,
           ExecuteWorkflowGraph, FinishRun, ExecutionFails, PoolChildDies, WorkerDies, Redeliver, Ack, WorkerGoto
  <1>4. queue' \subseteq queue \/ (worker[w].pc # "idle" /\ queue' = queue \cup {worker[w].d})
    BY DEF Work, Execute, Deliver, GetWorkflowRun, GetWorkflow, StartRun, RereadRun,
           ExecuteWorkflowGraph, FinishRun, ExecutionFails, PoolChildDies, WorkerDies, Redeliver
  <1>5. \/ worker'[w].pc = "idle"
        \/ worker'[w].d \in queue
        \/ worker[w].pc # "idle" /\ worker'[w].d = worker[w].d
    <2>1. Deliver(w) => worker'[w].d \in queue
      BY <1>2 DEF Deliver, Free
    <2>2. Ack(w) => worker'[w].pc = "idle"
      BY <1>2 DEF Ack, Free
    <2>3. \A pc : WorkerGoto(w, pc) => worker'[w].d = worker[w].d
      BY <1>2 DEF WorkerGoto, Executions
    <2>4. GetWorkflowRun(w) \/ RereadRun(w) => Ack(w) \/ worker'[w].d = worker[w].d
      BY <1>2 DEF GetWorkflowRun, RereadRun, Executions
    <2>5. ExecuteWorkflowGraph(w) => worker'[w].d = worker[w].d
      BY <1>2 DEF ExecuteWorkflowGraph, Executions
    <2>6. Redeliver(w) => worker'[w].d = worker[w].d
      BY DEF Redeliver
    <2>7. Deliver(w) \/ worker[w].pc # "idle"
      BY DEF Work, Execute, GetWorkflowRun, GetWorkflow, StartRun, RereadRun,
             ExecuteWorkflowGraph, FinishRun, ExecutionFails, PoolChildDies, WorkerDies, Redeliver
    <2> QED BY <2>1, <2>2, <2>3, <2>4, <2>5, <2>6, <2>7
            DEF Work, Execute, GetWorkflow, StartRun, FinishRun, ExecutionFails, PoolChildDies, WorkerDies
  <1> QED BY <1>1, <1>3, <1>4, <1>5 DEF RunInv, ExecutedRunHasTask, DispatchesOK

\* The other steps leave the dispatches, the tasks and the workers alone.
LEMMA OthersHaveTask ==
    ASSUME RunInv,
           \/ Advance \/ UserConfirmSaveWorkflow \/ CreateSchedule \/ DropRevoked
           \/ \E a \in Admins : Administer(a)
    PROVE  DispatchesOK' /\ ExecutedRunHasTask'
  <1>1. UNCHANGED <<disp, shell, worker>> /\ queue' \subseteq queue
    BY DEF Advance, UserConfirmSaveWorkflow, CreateSchedule, DropRevoked, Administer,
           EnableSchedule, StartWorkflowExecution, WriteEnabled, DisableSchedule,
           StopWorkflowExecution, ListActiveWorkflowRuns, CancelWorkflowRunCas,
           ClearTaskScheduleRefs, DeleteWorkflow, AdminOnly, dbVars
  <1> QED BY <1>1, SMTT(30) DEF RunInv, ExecutedRunHasTask, DispatchesOK

\* A trigger starts its task and is recorded, once.
LEMMA InsertKeepsTriggers ==
    ASSUME RunInv, NEW k \in Triggers, k \notin fired, workflow # "deleted",
           InsertScheduleTrigger(k)
    PROVE  /\ \A j \in Triggers : fires'[j] = (IF j \in fired' THEN 1 ELSE 0)
           /\ \A j \in Triggers \ {k} : fires'[j] = fires[j]
           /\ fires'[k] = 1 /\ fired' = fired \cup {k}
  BY DEF RunInv, RunTypeOK, TriggersOK, InsertScheduleTrigger

\* A user triggers the schedule by a key, which is no slot.
LEMMA TriggerKeepsTriggers ==
    ASSUME RunInv, NEW d \in Dispatchers, TriggerSchedule(d)
    PROVE  TriggersOK' /\ SlotsMakeTasks'
  <1>1. PICK k \in Keys :
          \/ k \in fired /\ UNCHANGED <<fired, fires, refs>>
          \/ k \notin fired /\ schedule.enabled /\ workflow = "saved" /\ InsertScheduleTrigger(k)
    BY DEF TriggerSchedule
  <1>2. UNCHANGED <<workflow, schedule, stopped>>
    BY DEF TriggerSchedule
  <1>3. CASE UNCHANGED <<fired, fires, refs>>
    BY <1>2, <1>3 DEF RunInv, TriggersOK, SlotsMakeTasks
  <1>4. CASE k \notin fired /\ schedule.enabled /\ workflow = "saved" /\ InsertScheduleTrigger(k)
    <2>1. k \in Triggers /\ k \notin Slots
      BY SlotsAssumption DEF Triggers, Slots
    <2>2. /\ \A j \in Triggers : fires'[j] = (IF j \in fired' THEN 1 ELSE 0)
          /\ fires'[k] = 1 /\ fired' = fired \cup {k}
          /\ \A s \in Slots : fires'[s] = fires[s]
      BY <1>4, <2>1, InsertKeepsTriggers DEF Triggers
    <2>3. schedule.exists
      BY <1>4 DEF RunInv, TriggersOK
    <2>4. \A j \in Triggers : fires'[j] <= 1
      BY <2>2
    <2>5. TriggersOK'
      BY <1>2, <1>4, <2>2, <2>3, <2>4 DEF RunInv, TriggersOK
    <2> QED BY <1>2, <2>2, <2>4, <2>5 DEF RunInv, SlotsMakeTasks
  <1> QED BY <1>1, <1>3, <1>4

\* A ticker claims the slot that is due: the schedule moves on by one slot, whose task
\* has been started now or before.
LEMMA ClaimKeepsTriggers ==
    ASSUME RunInv, NEW d \in Dispatchers, ClaimDueScheduleRun(d)
    PROVE  TriggersOK' /\ SlotsMakeTasks'
  <1> DEFINE slot == disp[d].key
  <1>1. slot \in Slots /\ slot \in Triggers
    BY DEF RunInv, ClaimDueScheduleRun, DispatchesOK, Triggers
  <1>2. UNCHANGED <<workflow, stopped>>
    BY DEF ClaimDueScheduleRun
  <1>3. CASE UNCHANGED <<schedule, fired, fires>>
    BY <1>2, <1>3 DEF RunInv, TriggersOK, SlotsMakeTasks
  <1>4. CASE schedule.enabled /\ schedule.next = slot
    <2>1. /\ schedule' = [schedule EXCEPT !.next = slot + 1]
          /\ \/ slot \in fired /\ UNCHANGED <<fired, fires>>
             \/ slot \notin fired /\ InsertScheduleTrigger(slot)
      BY <1>4 DEF ClaimDueScheduleRun, ComputeNextRunAt
    <2>2. slot + 1 \in 0 .. MaxSlot + 1 /\ schedule \in Schedules /\ TRUE \in BOOLEAN
      BY <1>1, SlotsAssumption DEF Slots, RunInv, RunTypeOK
    <2> HIDE DEF slot
    <2>3. schedule'.exists = schedule.exists /\ schedule'.enabled = schedule.enabled
          /\ schedule'.next = slot + 1
      BY <2>1, <2>2, ScheduleWritten, Zenon
    <2>4. schedule.exists /\ workflow # "deleted"
      BY <1>4 DEF RunInv, TriggersOK, NoSchedule
    <2>5. /\ \A j \in Triggers : fires'[j] = (IF j \in fired' THEN 1 ELSE 0)
          /\ \A j \in Triggers \ {slot} : fires'[j] = fires[j]
          /\ fires'[slot] = 1
      <3>1. CASE slot \in fired /\ UNCHANGED <<fired, fires>>
        BY <1>1, <2>4, <3>1 DEF RunInv, TriggersOK
      <3>2. CASE slot \notin fired /\ InsertScheduleTrigger(slot)
        BY <1>1, <2>4, <3>2, InsertKeepsTriggers
      <3> QED BY <2>1, <3>1, <3>2
    <2>6. \A j \in Triggers : fires'[j] <= 1
      BY <2>5
    <2>7. TriggersOK'
      <3>1. schedule'.next # NoSlot
        BY <1>1, <2>3 DEF Slots, NoSlot
      <3> QED BY <1>2, <1>4, <2>3, <2>4, <2>5, <2>6, <3>1 DEF TriggersOK
    <2>8. ASSUME ~stopped', NEW s \in Slots, s < schedule'.next,
                 NEW r \in Slots, r <= s, fires'[r] = 1
          PROVE  fires'[s] = 1
      <3>1. CASE s = slot
        BY <2>5, <3>1
      <3>2. CASE s # slot
        <4>1. s < slot /\ r # slot
          BY <1>1, <2>3, <2>8, <3>2 DEF Slots
        <4>2. fires[r] = 1 /\ fires'[s] = fires[s]
          BY <2>5, <2>8, <3>2, <4>1 DEF Triggers
        <4> QED BY <1>2, <1>4, <2>4, <2>8, <4>1, <4>2 DEF RunInv, SlotsMakeTasks
      <3> QED BY <3>1, <3>2
    <2> QED BY <2>6, <2>7, <2>8 DEF SlotsMakeTasks
  <1> QED BY <1>3, <1>4 DEF ClaimDueScheduleRun

\* The schedule is made, enabled, disabled and deleted.
LEMMA AdminKeepsTriggers ==
    ASSUME RunInv,
           \/ UserConfirmSaveWorkflow \/ CreateSchedule
           \/ \E a \in Admins : WriteEnabled(a) \/ DisableSchedule(a) \/ DeleteWorkflow(a)
    PROVE  TriggersOK' /\ SlotsMakeTasks'
  <1>1. CASE UserConfirmSaveWorkflow
    BY <1>1 DEF UserConfirmSaveWorkflow, RunInv, TriggersOK, SlotsMakeTasks
  <1>2. CASE CreateSchedule
    <2>1. /\ schedule'.exists /\ schedule'.enabled /\ schedule'.next = clock + 1
          /\ workflow = "saved" /\ ~schedule.exists
          /\ UNCHANGED <<workflow, fired, fires, stopped>>
      BY <1>2 DEF CreateSchedule, ComputeNextRunAt
    <2>2. \A s \in Slots : fires[s] = 0
      BY <2>1 DEF RunInv, TriggersOK, Triggers
    <2>3. schedule'.next # NoSlot
      BY <2>1 DEF RunInv, RunTypeOK, NoSlot
    <2> QED BY <2>1, <2>2, <2>3 DEF RunInv, TriggersOK, SlotsMakeTasks
  <1>3. ASSUME NEW a \in Admins, WriteEnabled(a)
        PROVE  TriggersOK' /\ SlotsMakeTasks'
    <2>1. UNCHANGED <<workflow, fired, fires, stopped>>
      BY <1>3 DEF WriteEnabled
    <2>2. CASE schedule' = schedule
      BY <2>1, <2>2 DEF RunInv, TriggersOK, SlotsMakeTasks
    <2>3. CASE schedule' # schedule
      <3>1. schedule.exists /\ ~(schedule.enabled /\ schedule.next # NoSlot)
        BY <1>3, <2>3 DEF WriteEnabled
      <3>2. schedule' = [schedule EXCEPT !.enabled = TRUE, !.next = admin[a].next]
        BY <1>3, <2>3 DEF WriteEnabled
      <3>3. schedule \in Schedules /\ admin[a].next \in 0 .. MaxSlot + 1 /\ TRUE \in BOOLEAN
        BY DEF RunInv, RunTypeOK, Administrations
      <3>4. schedule'.exists = schedule.exists
        BY <3>2, <3>3, ScheduleWritten, ZenonT(60)
      <3>5. stopped /\ workflow # "deleted"
        BY <3>1 DEF RunInv, TriggersOK, NoSchedule
      <3> QED BY <2>1, <3>1, <3>4, <3>5 DEF RunInv, TriggersOK, SlotsMakeTasks
    <2> QED BY <2>2, <2>3
  <1>4. ASSUME NEW a \in Admins, DisableSchedule(a)
        PROVE  TriggersOK' /\ SlotsMakeTasks'
    <2>1. /\ UNCHANGED <<workflow, fired, fires>> /\ stopped' = TRUE /\ schedule.exists
          /\ schedule' = [schedule EXCEPT !.enabled = FALSE, !.next = NoSlot]
      BY <1>4 DEF DisableSchedule
    <2>2. schedule \in Schedules /\ NoSlot \in 0 .. MaxSlot + 1 /\ FALSE \in BOOLEAN
      BY SlotsAssumption DEF RunInv, RunTypeOK, NoSlot
    <2>3. schedule'.exists = schedule.exists
      BY <2>1, <2>2, ScheduleWritten, Zenon
    <2>4. workflow # "deleted"
      BY <2>1 DEF RunInv, TriggersOK, NoSchedule
    <2> QED BY <2>1, <2>3, <2>4 DEF RunInv, TriggersOK, SlotsMakeTasks
  <1>5. ASSUME NEW a \in Admins, DeleteWorkflow(a)
        PROVE  TriggersOK' /\ SlotsMakeTasks'
    <2>1. CASE UNCHANGED <<workflow, schedule, fired>>
      BY <1>5, <2>1 DEF DeleteWorkflow, RunInv, TriggersOK, SlotsMakeTasks
    <2>2. CASE workflow' = "deleted" /\ schedule' = NoSchedule
      BY <1>5, <2>2 DEF DeleteWorkflow, RunInv, TriggersOK, SlotsMakeTasks, NoSchedule
    <2> QED BY <1>5, <2>1, <2>2 DEF DeleteWorkflow
  <1> QED BY <1>1, <1>2, <1>3, <1>4, <1>5

\* The other steps touch neither the schedule nor its triggers.
LEMMA OthersKeepTriggers ==
    ASSUME RunInv, UNCHANGED <<workflow, schedule, fired, fires, stopped>>
    PROVE  TriggersOK' /\ SlotsMakeTasks'
  BY DEF RunInv, TriggersOK, SlotsMakeTasks

\* Every step keeps the schedule and its triggers right.
LEMMA TriggersKept ==
    ASSUME RunInv, RunNext
    PROVE  TriggersOK' /\ SlotsMakeTasks'
  <1>1. CASE Advance \/ UserConfirmSaveWorkflow \/ CreateSchedule \/ DropRevoked
    BY <1>1, AdminKeepsTriggers, OthersKeepTriggers DEF Advance, DropRevoked, dbVars
  <1>2. ASSUME NEW a \in Admins, Administer(a)
        PROVE  TriggersOK' /\ SlotsMakeTasks'
    <2>1. CASE WriteEnabled(a) \/ DisableSchedule(a) \/ StopWorkflowExecution(a) \/ DeleteWorkflow(a)
      BY <2>1, AdminKeepsTriggers DEF StopWorkflowExecution
    <2>2. CASE \/ EnableSchedule(a) \/ StartWorkflowExecution(a) \/ ListActiveWorkflowRuns(a)
               \/ CancelWorkflowRunCas(a) \/ ClearTaskScheduleRefs(a)
      BY <2>2, OthersKeepTriggers DEF EnableSchedule, StartWorkflowExecution,
         ListActiveWorkflowRuns, CancelWorkflowRunCas, ClearTaskScheduleRefs, AdminOnly, dbVars
    <2> QED BY <1>2, <2>1, <2>2 DEF Administer
  <1>3. ASSUME NEW d \in Dispatchers, Dispatch(d) \/ DispatchFails(d)
        PROVE  TriggersOK' /\ SlotsMakeTasks'
    <2>1. CASE TriggerSchedule(d) \/ ClaimDueScheduleRun(d)
      BY <2>1, TriggerKeepsTriggers, ClaimKeepsTriggers
    <2>2. CASE \/ ManualRun(d) \/ ListDueSchedules(d) \/ RequireSaved(d) \/ CreateWorkflowRun(d)
               \/ CreateExecutingTask(d) \/ EnqueueWorkflowRun(d) \/ DispatchFails(d)
      BY <2>2, OthersKeepTriggers DEF ManualRun, ListDueSchedules, RequireSaved,
         CreateWorkflowRun, CreateExecutingTask, EnqueueWorkflowRun, DispatchFails, DispOnly, dbVars
    <2> QED BY <1>3, <2>1, <2>2 DEF Dispatch
  <1>4. ASSUME NEW w \in Workers, Work(w)
        PROVE  TriggersOK' /\ SlotsMakeTasks'
    <2>1. UNCHANGED <<workflow, schedule, fired, fires, stopped>>
      BY <1>4 DEF Work, Execute, Deliver, GetWorkflowRun, GetWorkflow, StartRun, RereadRun,
         ExecuteWorkflowGraph, FinishRun, ExecutionFails, PoolChildDies, WorkerDies, Redeliver, WorkerOnly, dbVars
    <2> QED BY <2>1, OthersKeepTriggers, SMTT(30)
  <1> QED BY <1>1, <1>2, <1>3, <1>4 DEF RunNext, Prepare

\* A step that claims nothing, and that leaves a schedule nobody disabled alone.
LEMMA ClaimsStay ==
    ASSUME RunInv, stopped => stopped',
           \A d \in Dispatchers : /\ disp'[d].pc = "idle" => disp'[d].key = NoSlot
                                  /\ disp'[d].pc \in {"idle", "claim"} => run'[d].status = "none",
           \A d \in Dispatchers : Claimed(d)' => Claimed(d) /\ disp'[d].key = disp[d].key,
           (~schedule'.exists /\ workflow' # "deleted") => ~schedule.exists /\ workflow # "deleted",
           (schedule'.exists /\ ~stopped') => schedule.exists /\ schedule'.next = schedule.next
    PROVE  ClaimsOK'
  <1>1. ClaimsOK
    BY DEF RunInv
  <1>2. (~schedule'.exists /\ workflow' # "deleted") => \A d \in Dispatchers : ~Claimed(d)'
    BY <1>1 DEF ClaimsOK
  <1>3. (schedule'.exists /\ ~stopped') =>
            \A d \in Dispatchers : Claimed(d)' => disp'[d].key < schedule'.next
    BY <1>1 DEF ClaimsOK
  <1>4. ~stopped' =>
            \A d, e \in Dispatchers :
                (Claimed(d)' /\ Claimed(e)' /\ disp'[d].key = disp'[e].key) => d = e
    BY <1>1 DEF ClaimsOK
  <1> QED BY <1>2, <1>3, <1>4 DEF ClaimsOK

\* A step that starts no run and leaves the dispatches alone.
LEMMA ClaimsStayOfRuns ==
    ASSUME RunInv, stopped => stopped', UNCHANGED disp,
           \A d \in Dispatchers : run'[d].status # "none" => run[d].status # "none",
           (~schedule'.exists /\ workflow' # "deleted") => ~schedule.exists /\ workflow # "deleted",
           (schedule'.exists /\ ~stopped') => schedule.exists /\ schedule'.next = schedule.next
    PROVE  ClaimsOK'
  <1>1. \A d \in Dispatchers : /\ disp'[d].pc = "idle" => disp'[d].key = NoSlot
                               /\ disp'[d].pc \in {"idle", "claim"} => run'[d].status = "none"
    BY DEF RunInv, ClaimsOK
  <1>2. \A d \in Dispatchers : Claimed(d)' => Claimed(d) /\ disp'[d].key = disp[d].key
    BY DEF Claimed
  <1> QED BY <1>1, <1>2, ClaimsStay

\* The definition, the schedule, its deletion and the clock.
LEMMA OthersKeepClaims ==
    ASSUME RunInv,
           \/ Advance \/ UserConfirmSaveWorkflow \/ CreateSchedule \/ DropRevoked
           \/ \E a \in Admins : Administer(a)
    PROVE  ClaimsOK'
  <1>1. CASE Advance \/ UserConfirmSaveWorkflow \/ DropRevoked
    BY <1>1, ClaimsStayOfRuns DEF Advance, UserConfirmSaveWorkflow, DropRevoked, dbVars
  <1>2. CASE CreateSchedule
    <2>1. ~schedule.exists /\ workflow = "saved" /\ schedule'.exists
          /\ UNCHANGED <<workflow, run, disp, stopped>>
      BY <1>2 DEF CreateSchedule
    <2>2. \A d \in Dispatchers : ~Claimed(d) /\ ~Claimed(d)'
      BY <2>1 DEF RunInv, ClaimsOK, Claimed
    <2> QED BY <2>1, <2>2 DEF RunInv, ClaimsOK
  <1>3. ASSUME NEW a \in Admins, Administer(a)
        PROVE  ClaimsOK'
    <2>1. CASE \/ EnableSchedule(a) \/ StartWorkflowExecution(a) \/ ListActiveWorkflowRuns(a)
               \/ ClearTaskScheduleRefs(a)
      BY <2>1, ClaimsStayOfRuns DEF EnableSchedule, StartWorkflowExecution,
         ListActiveWorkflowRuns, ClearTaskScheduleRefs, AdminOnly, dbVars
    <2>2. CASE WriteEnabled(a)
      <3>1. UNCHANGED <<workflow, run, disp, stopped>>
        BY <2>2 DEF WriteEnabled
      <3>2. CASE schedule' = schedule
        BY <3>1, <3>2, ClaimsStayOfRuns
      <3>3. CASE schedule' # schedule
        <4>1. schedule.exists /\ ~(schedule.enabled /\ schedule.next # NoSlot)
              /\ schedule' = [schedule EXCEPT !.enabled = TRUE, !.next = admin[a].next]
          BY <2>2, <3>3 DEF WriteEnabled
        <4>2. schedule \in Schedules /\ admin[a].next \in 0 .. MaxSlot + 1 /\ TRUE \in BOOLEAN
          BY DEF RunInv, RunTypeOK, Administrations
        <4>3. schedule'.exists = schedule.exists
          BY <4>1, <4>2, ScheduleMoves
        <4>4. stopped
          BY <4>1 DEF RunInv, TriggersOK
        <4> QED BY <3>1, <4>1, <4>3, <4>4, ClaimsStayOfRuns
      <3> QED BY <3>2, <3>3
    <2>3. CASE DisableSchedule(a) \/ StopWorkflowExecution(a)
      <3>1. /\ stopped' /\ schedule.exists /\ UNCHANGED <<workflow, run, disp>>
            /\ schedule' = [schedule EXCEPT !.enabled = FALSE, !.next = NoSlot]
        BY <2>3 DEF DisableSchedule, StopWorkflowExecution
      <3>2. schedule \in Schedules /\ NoSlot \in 0 .. MaxSlot + 1 /\ FALSE \in BOOLEAN
        BY SlotsAssumption DEF RunInv, RunTypeOK, NoSlot
      <3>3. schedule'.exists = schedule.exists
        BY <3>1, <3>2, ScheduleMoves
      <3> QED BY <3>1, <3>3, ClaimsStayOfRuns
    <2>4. CASE CancelWorkflowRunCas(a)
      <3>1. UNCHANGED <<workflow, schedule, disp, stopped>>
        BY <2>4 DEF CancelWorkflowRunCas
      <3>2. \A d \in Dispatchers : run'[d].status # "none" => run[d].status # "none"
        BY <2>4 DEF CancelWorkflowRunCas, RunInv, RunTypeOK, RunRows, Active
      <3> QED BY <3>1, <3>2, ClaimsStayOfRuns
    <2>5. CASE DeleteWorkflow(a)
      <3>1. UNCHANGED <<disp, stopped>>
        BY <2>5 DEF DeleteWorkflow
      <3>2. CASE UNCHANGED <<workflow, schedule, run>>
        BY <3>1, <3>2, ClaimsStayOfRuns
      <3>3. CASE workflow' = "deleted" /\ schedule' = NoSchedule
                 /\ run' = [d \in Dispatchers |-> NoRun]
        BY <3>1, <3>3, ClaimsStayOfRuns DEF NoSchedule, NoRun
      <3> QED BY <2>5, <3>2, <3>3 DEF DeleteWorkflow
    <2> QED BY <1>3, <2>1, <2>2, <2>3, <2>4, <2>5 DEF Administer
  <1> QED BY <1>1, <1>2, <1>3

\* A worker only writes runs that exist.
LEMMA WorkKeepsClaims ==
    ASSUME RunInv, NEW w \in Workers, Work(w)
    PROVE  ClaimsOK'
  <1>1. UNCHANGED <<workflow, schedule, disp, stopped>>
    BY DEF Work, Execute, Deliver, GetWorkflowRun, GetWorkflow, StartRun, RereadRun,
       ExecuteWorkflowGraph, FinishRun, ExecutionFails, PoolChildDies, WorkerDies, Redeliver,
       WorkerOnly, dbVars
  <1>2. ASSUME NEW status, UpdateRun(w, status), RunMatches(w)
        PROVE  \A d \in Dispatchers : run'[d].status # "none" => run[d].status # "none"
    BY <1>2 DEF UpdateRun, RunMatches, RunInv, RunTypeOK
  <1>3. \A d \in Dispatchers : run'[d].status # "none" => run[d].status # "none"
    <2>1. CASE StartRun(w) \/ FinishRun(w)
      BY <1>2, <2>1 DEF StartRun, FinishRun
    <2>2. CASE ~(StartRun(w) \/ FinishRun(w))
      <3>1. UNCHANGED run
        BY <2>2 DEF Work, Execute, Deliver, GetWorkflowRun, GetWorkflow, RereadRun,
           ExecuteWorkflowGraph, ExecutionFails, PoolChildDies, WorkerDies, Redeliver,
           WorkerOnly, dbVars
      <3> QED BY <3>1
    <2> QED BY <2>1, <2>2
  <1> QED BY <1>1, <1>3, ClaimsStayOfRuns

\* What a step of a dispatch leaves of the claims: the others keep theirs.
LEMMA DispatchKeepsClaims ==
    ASSUME RunInv, NEW d \in Dispatchers, Dispatch(d) \/ DispatchFails(d)
    PROVE  ClaimsOK'
  <1>1. disp \in [Dispatchers -> Dispatches] /\ run \in [Dispatchers -> RunRows]
    BY DEF RunInv, RunTypeOK
  <1>2. UNCHANGED <<workflow, stopped>>
    BY DEF Dispatch, DispatchFails, ManualRun, TriggerSchedule, ListDueSchedules,
           ClaimDueScheduleRun, RequireSaved, CreateWorkflowRun, CreateExecutingTask,
           EnqueueWorkflowRun, DispOnly, dbVars
  <1>3. \A e \in Dispatchers \ {d} : disp'[e] = disp[e] /\ run'[e] = run[e]
    BY <1>1 DEF Dispatch, DispatchFails, ManualRun, TriggerSchedule, ListDueSchedules,
           ClaimDueScheduleRun, RequireSaved, CreateWorkflowRun, CreateExecutingTask,
           EnqueueWorkflowRun, DispGoto, DispOnly, dbVars
  <1>4. ASSUME UNCHANGED schedule,
               disp'[d].pc = "idle" => disp'[d].key = NoSlot,
               disp'[d].pc \in {"idle", "claim"} => run'[d].status = "none",
               Claimed(d)' => Claimed(d) /\ disp'[d].key = disp[d].key
        PROVE  ClaimsOK'
    <2>1. \A e \in Dispatchers : /\ disp'[e].pc = "idle" => disp'[e].key = NoSlot
                                 /\ disp'[e].pc \in {"idle", "claim"} => run'[e].status = "none"
      BY <1>3, <1>4 DEF RunInv, ClaimsOK
    <2>2. \A e \in Dispatchers : Claimed(e)' => Claimed(e) /\ disp'[e].key = disp[e].key
      BY <1>3, <1>4 DEF Claimed
    <2> QED BY <1>2, <1>4, <2>1, <2>2, ClaimsStay
  <1>5. CASE ManualRun(d)
    <2>1. disp'[d].pc = "create" /\ disp'[d].key = disp[d].key /\ disp[d].key = NoSlot
          /\ UNCHANGED <<schedule, run>>
      BY <1>1, <1>5 DEF ManualRun, DispGoto, DispOnly, dbVars, RunInv, ClaimsOK, Dispatches
    <2> QED BY <1>4, <2>1 DEF Claimed, Slots, NoSlot
  <1>6. CASE TriggerSchedule(d)
    <2>1. PICK k \in Keys : disp' = [disp EXCEPT ![d] = [pc |-> "load", key |-> k]]
      BY <1>6 DEF TriggerSchedule
    <2>2. disp'[d].pc = "load" /\ disp'[d].key \notin Slots /\ UNCHANGED <<schedule, run>>
      BY <1>1, <1>6, <2>1, SlotsAssumption DEF TriggerSchedule, Slots
    <2> QED BY <1>4, <2>2 DEF Claimed
  <1>7. CASE ListDueSchedules(d)
    <2>1. disp[d].pc = "idle" /\ disp'[d].pc = "claim" /\ UNCHANGED <<schedule, run>>
      BY <1>1, <1>7 DEF ListDueSchedules, DispOnly, dbVars
    <2>2. run'[d].status = "none"
      BY <2>1 DEF RunInv, ClaimsOK
    <2> QED BY <1>4, <2>1, <2>2 DEF Claimed
  <1>8. CASE ClaimDueScheduleRun(d)
    <2>1. disp[d].pc = "claim" /\ UNCHANGED run /\ run[d].status = "none"
      BY <1>8 DEF ClaimDueScheduleRun, RunInv, ClaimsOK
    <2>2. CASE ~(schedule.enabled /\ schedule.next = disp[d].key)
      <3>1. disp'[d].pc = "done" /\ UNCHANGED schedule
        BY <1>1, <1>8, <2>2 DEF ClaimDueScheduleRun
      <3> QED BY <1>4, <2>1, <3>1 DEF Claimed
    <2>3. CASE schedule.enabled /\ schedule.next = disp[d].key
      <3> DEFINE slot == disp[d].key
      <3>1. /\ schedule' = [schedule EXCEPT !.next = slot + 1]
            /\ disp' = [disp EXCEPT ![d].pc = "load"] /\ slot \in Slots
        BY <1>8, <2>3 DEF ClaimDueScheduleRun, ComputeNextRunAt, DispGoto, RunInv, DispatchesOK
      <3>2. slot + 1 \in 0 .. MaxSlot + 1 /\ schedule \in Schedules /\ TRUE \in BOOLEAN
        BY <3>1, SlotsAssumption DEF Slots, RunInv, RunTypeOK
      <3>3. disp'[d].pc = "load" /\ disp'[d].key = slot
        BY <1>1, <3>1 DEF Dispatches
      <3>4. schedule.exists /\ workflow # "deleted"
        BY <2>3 DEF RunInv, TriggersOK, NoSchedule
      <3>5. schedule.next = slot
        BY <2>3
      <3> HIDE DEF slot
      <3>6. schedule'.exists /\ schedule'.next = slot + 1
        BY <3>1, <3>2, <3>4, ScheduleAdvances
      <3>7. \A e \in Dispatchers \ {d} : /\ Claimed(e)' => Claimed(e)
                                         /\ disp'[e].key = disp[e].key
        BY <1>3 DEF Claimed
      <3>8. ~stopped => \A e \in Dispatchers \ {d} : Claimed(e)' => disp'[e].key < slot
        BY <3>4, <3>5, <3>7 DEF RunInv, ClaimsOK
      <3>9. slot \in Nat /\ \A e \in Dispatchers : Claimed(e)' => disp'[e].key \in Nat
        BY <3>1 DEF Claimed, Slots
      <3>10. ~stopped' => \A e \in Dispatchers : Claimed(e)' => disp'[e].key < schedule'.next
        BY <1>2, <3>3, <3>6, <3>8, <3>9
      <3>11. ~stopped' => \A e, f \in Dispatchers :
                (Claimed(e)' /\ Claimed(f)' /\ disp'[e].key = disp'[f].key) => e = f
        BY <1>2, <3>3, <3>7, <3>8, <3>9 DEF RunInv, ClaimsOK
      <3>12. \A e \in Dispatchers :
                /\ disp'[e].pc = "idle" => disp'[e].key = NoSlot
                /\ disp'[e].pc \in {"idle", "claim"} => run'[e].status = "none"
        BY <1>3, <3>3 DEF RunInv, ClaimsOK
      <3> QED BY <3>6, <3>10, <3>11, <3>12 DEF ClaimsOK
    <2> QED BY <2>2, <2>3
  <1>9. CASE RequireSaved(d)
    BY <1>1, <1>4, <1>9 DEF RequireSaved, DispGoto, DispOnly, dbVars, Claimed, Dispatches
  <1>10. CASE CreateWorkflowRun(d)
    <2>1. /\ disp[d].pc = "create" /\ disp'[d].pc \in {"shell", "done"}
          /\ disp'[d].key = disp[d].key /\ UNCHANGED schedule
      BY <1>1, <1>10 DEF CreateWorkflowRun, DispGoto, Dispatches
    <2> QED BY <1>4, <2>1 DEF Claimed
  <1>11. CASE CreateExecutingTask(d) \/ EnqueueWorkflowRun(d) \/ DispatchFails(d)
    <2>1. /\ disp'[d].pc \in {"enqueue", "done"} /\ disp'[d].key = disp[d].key
          /\ UNCHANGED <<schedule, run>>
      BY <1>1, <1>11 DEF CreateExecutingTask, EnqueueWorkflowRun, DispatchFails, DispGoto,
         dbVars, Dispatches
    <2> QED BY <1>4, <2>1 DEF Claimed
  <1> QED BY <1>5, <1>6, <1>7, <1>8, <1>9, <1>10, <1>11 DEF Dispatch

\* The inductive invariant of the schedule and its runs.
LEMMA RunInvariance == RunSpec => []RunInv
  <1>1. RunInit => RunInv
    <2> SUFFICES ASSUME RunInit
                 PROVE  RunInv
      OBVIOUS
    <2>1. schedule \in Schedules /\ ~schedule.exists /\ ~schedule.enabled
      BY SlotsAssumption DEF RunInit, NoSchedule, Schedules, NoSlot
    <2>2. /\ run \in [Dispatchers -> RunRows] /\ files \in [Dispatchers -> SUBSET Files]
          /\ fires \in [Triggers -> Nat]
      BY DEF RunInit, NoRun, RunRows
    <2>3. disp \in [Dispatchers -> Dispatches] /\ worker \in [Workers -> Executions]
      BY DEF RunInit, Dispatches, Executions, Free
    <2>4. admin \in [Admins -> Administrations]
      BY SlotsAssumption DEF RunInit, Administrations, NoSlot
    <2>5. RunTypeOK
      <3>1. clock \in 0 .. MaxSlot /\ faults \in 0 .. MaxFaults
        BY SlotsAssumption DEF RunInit
      <3>2. workflow \in {"draft", "saved", "deleted"} /\ fired \subseteq Triggers
            /\ shell \subseteq Dispatchers /\ queue \subseteq Dispatchers
            /\ revoked \subseteq Dispatchers /\ lost \subseteq Dispatchers
            /\ refs \in BOOLEAN /\ stopped \in BOOLEAN
        BY DEF RunInit
      <3> QED BY <2>1, <2>2, <2>3, <2>4, <3>1, <3>2, Zenon DEF RunTypeOK
    <2>6. ExecutedRunHasTask /\ DispatchesOK
      BY DEF RunInit, ExecutedRunHasTask, DispatchesOK, Free
    <2>7. TriggersOK /\ SlotsMakeTasks
      BY <2>1 DEF RunInit, TriggersOK, SlotsMakeTasks
    <2>8. ClaimsOK
      BY DEF RunInit, ClaimsOK, Claimed, NoRun, Slots, NoSlot
    <2> QED BY <2>5, <2>6, <2>7, <2>8 DEF RunInv
  <1>2. RunInv /\ [RunNext]_runVars => RunInv'
    <2> SUFFICES ASSUME RunInv, [RunNext]_runVars
                 PROVE  RunInv'
      OBVIOUS
    <2>1. CASE UNCHANGED runVars
      BY <2>1 DEF runVars, dbVars, RunInv, RunTypeOK, ExecutedRunHasTask, DispatchesOK,
         TriggersOK, SlotsMakeTasks, ClaimsOK, Claimed
    <2>2. CASE RunNext
      <3>1. RunTypeOK'
        BY <2>2, DefinitionTypes, AdminTypes, DispatchTypes, WorkTypes DEF RunNext, Prepare, RunInv
      <3>2. DispatchesOK' /\ ExecutedRunHasTask'
        BY <2>2, DispatchHasTask, WorkHasTask, OthersHaveTask DEF RunNext, Prepare
      <3>3. ClaimsOK'
        BY <2>2, OthersKeepClaims, WorkKeepsClaims, DispatchKeepsClaims DEF RunNext, Prepare
      <3> QED BY <2>2, <3>1, <3>2, <3>3, TriggersKept DEF RunInv
    <2> QED BY <2>1, <2>2
  <1> QED BY <1>1, <1>2, PTL DEF RunSpec

\* The rows, the messages and the locals of all processes keep their types.
THEOREM RunTypeCorrect == RunSpec => []RunTypeOK
  BY RunInvariance, PTL DEF RunInv

\* A task and the runs of a workflow side by side: all of the workshop keeps its types.
THEOREM WorkshopTypeCorrect == TaskSpec /\ RunSpec => []WorkshopTypeOK
  BY TaskTypeCorrect, RunTypeCorrect, PTL DEF WorkshopTypeOK

\* However many tickers, triggers and administrators, each trigger makes one task with its
\* row, and while nobody disables the schedule no slot between two that fired is skipped
\* and none starts two runs.
THEOREM EachSlotFiresOnce == RunSpec => []SlotsFireOnce
  <1>1. RunInv => SlotsFireOnce
    BY DEF RunInv, ClaimsOK, Claimed, SlotsFireOnce, SlotsStartOneRun
  <1> QED BY <1>1, RunInvariance, PTL

\* Every run that a worker holds or can be handed has its executing task, whatever
\* dispatches fail, workers die or messages are delivered again.
THEOREM ExecutedRunsHaveTasks == RunSpec => []ExecutedRunHasTask
  BY RunInvariance, PTL DEF RunInv
=============================================================================
