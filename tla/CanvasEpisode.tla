--------------------------- MODULE CanvasEpisode ---------------------------
(***************************************************************************)
(* One episode of the canvas: the fence in Redis (an exclusive mutex and a *)
(* set of registered generations), the generations that run inside it, the *)
(* deletion of the episode and of its sessions under the mutex, and the    *)
(* writers that only look at the mutex once.                               *)
(*                                                                         *)
(* Every command to Redis and every database transaction is a step.  The   *)
(* episode has a text node, which a text generation claims and writes its  *)
(* result into, and a media node, to which a submission binds its task and *)
(* a projection writes the task's status.  The workflow runner, which a    *)
(* gateway's callback starts, submits outside the fence, and projections   *)
(* write outside it; a runner that a text generation starts is one of the  *)
(* fenced submissions.  The cancellation of a session's turn is the        *)
(* subject of ReplayTurn, the life of a task that of Generation: here each *)
(* is a step.                                                              *)
(***************************************************************************)
EXTENDS Naturals, FiniteSets

CONSTANTS
    Texts,        \* calls of execute_text_node_generation
    Medias,       \* fenced submissions of a media generation
    Runners,      \* calls of CanvasWorkflowRunner.advance_node for the media node
    Deletions,    \* calls of delete_episode
    Closers,      \* calls of delete_session
    Openers,      \* calls of create_session and ensure_default_session
    Edits,        \* patches of the node
    Sessions,     \* ids of session rows
    FirstSession, \* the default session the episode starts with
    None

ASSUME SessionsAssumption == FirstSession \in Sessions

ASSUME NoneAssumption ==
    /\ None \notin Texts \cup Medias \cup Runners \cup Deletions \cup Closers \cup Edits \cup Sessions
    /\ Texts \cap Medias = {} /\ Texts \cap Edits = {}
    /\ Runners \cap (Texts \cup Medias) = {}
    /\ Deletions \cap Closers = {}

VARIABLES
    mutex,     \* Redis: owner of canvas episode mutex, or None
    inflight,  \* Redis: the registered generations
    ttl,       \* Redis: the set of registered generations has a time to live
    episode,   \* the episode row: active or deleted
    node,      \* the row of the text node
    media,     \* the row of the media node: the task bound to it, and whether it runs
    task,      \* the generate task of a submission
    proj,      \* the status of its task that a projection is about to write
    seen,      \* the row of the media node as a runner read it
    outside,   \* history: since a deletion has tested the rows, the media node was
               \* written outside the fence
    session,   \* the session rows
    gen,       \* locals of the generations and of the runners
    excl,      \* locals of the calls that take the mutex
    open,      \* program counters of the openers
    edit       \* locals of the patches

mediaVars == <<media, task, proj, seen, outside>>
vars == <<mutex, inflight, ttl, episode, node, mediaVars, session, gen, excl, open, edit>>

Generations == Texts \cup Medias
Submissions == Medias \cup Runners
Calls == Texts \cup Submissions
Exclusives == Deletions \cup Closers
Writers == Texts \cup Edits

Nodes == [rev : Nat, status : {"idle", "running", "success", "failed"}, gone : BOOLEAN,
          content : Writers \cup {None}]

TaskStatus == {"none", "running", "ended"}
MediaRows == [task : Submissions \cup {None}, status : {"running", "other"}]

Rows == {"none", "active", "default", "closed"}
Alive == {"active", "default"}

GenSteps == {"idle", "add", "expire", "recheck", "unadd", "kind", "claim", "model_check",
             "model", "gateway", "out_check", "out", "submit", "bind", "leave", "done", "dead",
             "gate", "config", "persist_check", "persist", "reread", "inputs", "wait_check",
             "wait", "fail_check", "fail"}

\* The steps between enter_generation and leave_generation.
Body == {"kind", "claim", "model_check", "model", "gateway", "out_check", "out",
         "submit", "bind"}

ExclSteps == {"idle", "wait", "busy", "cancel", "close", "delete", "count", "ensure", "release", "done", "dead"}

\* The steps of delete_episode after wait_generations_idle has returned.
Deleting == {"busy", "cancel", "close", "delete"}

TypeOK ==
    /\ mutex \in Exclusives \cup {None}
    /\ inflight \subseteq Generations
    /\ ttl \in BOOLEAN
    /\ episode \in {"active", "deleted"}
    /\ node \in Nodes
    /\ media \in MediaRows
    /\ task \in [Submissions -> TaskStatus]
    /\ proj \in [Submissions -> TaskStatus]
    /\ seen \in [Runners -> MediaRows]
    /\ outside \in BOOLEAN
    /\ session \in [Sessions -> Rows]
    /\ gen \in [Calls -> [pc : GenSteps, rev : Nat, seen : Writers \cup {None}, ok : BOOLEAN]]
    /\ excl \in [Exclusives -> [pc : ExclSteps, row : Sessions, was : BOOLEAN]]
    /\ open \in [Openers -> {"idle", "insert", "done"}]
    /\ edit \in [Edits -> [pc : {"idle", "check", "write", "done"}, rev : Nat,
                           seen : Writers \cup {None}]]

Init ==
    /\ mutex = None
    /\ inflight = {}
    /\ ttl = FALSE
    /\ episode = "active"
    /\ node = [rev |-> 1, status |-> "idle", gone |-> FALSE, content |-> None]
    /\ media = [task |-> None, status |-> "other"]
    /\ task = [m \in Submissions |-> "none"]
    /\ proj = [m \in Submissions |-> "none"]
    /\ seen = [r \in Runners |-> media]
    /\ outside = FALSE
    /\ session = [s \in Sessions |-> IF s = FirstSession THEN "default" ELSE "none"]
    /\ gen = [g \in Calls |-> [pc |-> "idle", rev |-> 0, seen |-> None, ok |-> FALSE]]
    /\ excl = [x \in Exclusives |-> [pc |-> "idle", row |-> FirstSession, was |-> FALSE]]
    /\ open = [o \in Openers |-> "idle"]
    /\ edit = [e \in Edits |-> [pc |-> "idle", rev |-> 0, seen |-> None]]

\* assert_writable: what a caller reads of the mutex.
Writable == mutex = None

GenGoto(g, from, to) == gen[g].pc = from /\ gen' = [gen EXCEPT ![g].pc = to]
ExclGoto(x, from, to) == excl[x].pc = from /\ excl' = [excl EXCEPT ![x].pc = to]

-----------------------------------------------------------------------------
(* The fence: registration of a generation *)

\* enter_generation, first assert_writable.
EnterCheck(g) ==
    /\ GenGoto(g, "idle", IF Writable THEN "add" ELSE "done")
    /\ UNCHANGED <<mutex, inflight, ttl, episode, node, mediaVars, session, excl, open, edit>>

EnterAdd(g) ==
    /\ GenGoto(g, "add", "expire")
    /\ inflight' = inflight \cup {g}
    /\ UNCHANGED <<mutex, ttl, episode, node, mediaVars, session, excl, open, edit>>

EnterExpire(g) ==
    /\ GenGoto(g, "expire", "recheck")
    /\ ttl' = (inflight # {})
    /\ UNCHANGED <<mutex, inflight, episode, node, mediaVars, session, excl, open, edit>>

\* Mutant: the mutex is not read again after SADD.
EnterRecheckSkipped(g) ==
    /\ GenGoto(g, "recheck", "kind")
    /\ UNCHANGED <<mutex, inflight, ttl, episode, node, mediaVars, session, excl, open, edit>>

EnterRecheck(g) ==
    /\ GenGoto(g, "recheck", IF Writable THEN "kind" ELSE "unadd")
    /\ UNCHANGED <<mutex, inflight, ttl, episode, node, mediaVars, session, excl, open, edit>>

\* SREM: Redis drops a set, and its time to live, with the last member.
Remove(g) ==
    /\ inflight' = inflight \ {g}
    /\ ttl' = (ttl /\ inflight' # {})

EnterFails(g) ==
    /\ GenGoto(g, "unadd", "done")
    /\ Remove(g)
    /\ UNCHANGED <<mutex, episode, node, mediaVars, session, excl, open, edit>>

LeaveGeneration(g) ==
    /\ GenGoto(g, "leave", "done")
    /\ Remove(g)
    /\ UNCHANGED <<mutex, episode, node, mediaVars, session, excl, open, edit>>

Register(g) ==
    \/ EnterCheck(g) \/ EnterAdd(g) \/ EnterExpire(g) \/ EnterRecheck(g)
    \/ EnterFails(g) \/ LeaveGeneration(g)

-----------------------------------------------------------------------------
(* Inside the fence: a text generation *)

\* The row a transaction finds: the episode is not deleted and neither is the node.
NodeFound == episode = "active" /\ ~node.gone

\* require_node_kind and the two assert_writable before the claim's transaction.
ClaimCheck(t) ==
    /\ GenGoto(t, "kind", IF NodeFound /\ Writable THEN "claim" ELSE "leave")
    /\ UNCHANGED <<mutex, inflight, ttl, episode, node, mediaVars, session, excl, open, edit>>

\* claim_node_for_generation: only a bound task that has not ended refuses the
\* claim, and a text node has none; a node that is running is claimed again.
ClaimNode(t) ==
    /\ gen[t].pc = "claim"
    /\ IF NodeFound
       THEN /\ node' = [node EXCEPT !.status = "running", !.rev = @ + 1]
            /\ gen' = [gen EXCEPT ![t].pc = "model_check", ![t].rev = node.rev + 1,
                                  ![t].seen = node.content]
       ELSE /\ gen' = [gen EXCEPT ![t].pc = "leave"]
            /\ UNCHANGED node
    /\ UNCHANGED <<mutex, inflight, ttl, episode, mediaVars, session, excl, open, edit>>

\* assert_writable in the port, before each write of the node.
WriteCheck(t) ==
    /\ \/ GenGoto(t, "model_check", IF Writable THEN "model" ELSE "leave")
       \/ GenGoto(t, "out_check", IF Writable THEN "out" ELSE "leave")
    /\ UNCHANGED <<mutex, inflight, ttl, episode, node, mediaVars, session, excl, open, edit>>

\* Mutant: the revision is not compared.
SameRevisionAny(rev) == NodeFound

\* CanvasRevisionConflictError unless the row has the revision the caller saw.
SameRevision(rev) == NodeFound /\ node.rev = rev

\* update_node_text_output with the model and status running.
WriteModel(t) ==
    /\ gen[t].pc = "model"
    /\ IF SameRevision(gen[t].rev)
       THEN /\ node' = [node EXCEPT !.status = "running", !.rev = @ + 1]
            /\ gen' = [gen EXCEPT ![t].pc = "gateway", ![t].rev = @ + 1]
       ELSE /\ gen' = [gen EXCEPT ![t].pc = "leave"]
            /\ UNCHANGED node
    /\ UNCHANGED <<mutex, inflight, ttl, episode, mediaVars, session, excl, open, edit>>

Gateway(t) ==
    /\ gen[t].pc = "gateway"
    /\ \E ok \in BOOLEAN : gen' = [gen EXCEPT ![t].pc = "out_check", ![t].ok = ok]
    /\ UNCHANGED <<mutex, inflight, ttl, episode, node, mediaVars, session, excl, open, edit>>

\* update_node_text_output with the result or the failure.
WriteOutput(t) ==
    /\ GenGoto(t, "out", "leave")
    /\ IF SameRevision(gen[t].rev)
       THEN node' = [node EXCEPT !.status = IF gen[t].ok THEN "success" ELSE "failed",
                                 !.content = IF gen[t].ok THEN t ELSE @,
                                 !.rev = @ + 1]
       ELSE UNCHANGED node
    /\ UNCHANGED <<mutex, inflight, ttl, episode, mediaVars, session, excl, open, edit>>

TextStep(t) ==
    \/ ClaimCheck(t) \/ ClaimNode(t) \/ WriteCheck(t) \/ WriteModel(t) \/ Gateway(t)
    \/ WriteOutput(t)

-----------------------------------------------------------------------------
(* A media submission: inside the fence, or by a runner outside it *)

\* The media node is bound to a task that has not ended.
Active == media.task # None /\ task[media.task] = "running"

\* An exception ends a submission; the runner catches it.
Raised(m) == IF m \in Runners THEN "fail_check" ELSE "leave"

\* submit: assert_writable, the episode and the gate of the node, before the task is created.
SubmitCheck(m) ==
    /\ GenGoto(m, "kind", IF Writable /\ episode = "active" /\ ~Active THEN "submit" ELSE Raised(m))
    /\ UNCHANGED <<mutex, inflight, ttl, episode, node, mediaVars, session, excl, open, edit>>

\* The task's row is created and sent to the gateway, which accepts or refuses it.
SubmitTask(m) ==
    /\ \/ GenGoto(m, "submit", "bind") /\ task' = [task EXCEPT ![m] = "running"]
       \/ GenGoto(m, "submit", Raised(m)) /\ task' = [task EXCEPT ![m] = "ended"]
    /\ UNCHANGED <<mutex, inflight, ttl, episode, node, media, proj, seen, outside, session, excl, open, edit>>

\* bind_generate_task_to_node asks again for the episode and for the task that is
\* bound, but not for the mutex.
BindTask(m) ==
    LET binds == episode = "active" /\ ~Active
    IN /\ GenGoto(m, "bind", IF ~binds THEN Raised(m) ELSE IF m \in Runners THEN "done" ELSE "leave")
       /\ media' = IF binds THEN [media EXCEPT !.task = m] ELSE media
       /\ outside' = (outside \/ (binds /\ m \in Runners))
       /\ UNCHANGED <<mutex, inflight, ttl, episode, node, task, proj, seen, session, excl, open, edit>>

\* The gateway ends the task, long after the submission has left the fence.
TaskEnds(m) ==
    /\ task[m] = "running"
    /\ task' = [task EXCEPT ![m] = "ended"]
    /\ UNCHANGED <<mutex, inflight, ttl, episode, node, media, proj, seen, outside, session, gen, excl, open, edit>>

SubmitStep(m) == SubmitCheck(m) \/ SubmitTask(m) \/ BindTask(m)

-----------------------------------------------------------------------------
(* Outside the fence: projections and the rest of the runner *)

\* update_node_generation: in a transaction, if the episode is there; it compares no
\* revision, and the service, unlike the port, does not ask for the mutex.
UpdateMedia(row) ==
    /\ media' = IF episode = "active" THEN row ELSE media
    /\ outside' = (outside \/ episode = "active")

\* project_from_task finds the node by the task that is bound to it ...
ProjectRead(m) ==
    /\ episode = "active" /\ media.task = m /\ proj[m] = "none"
    /\ proj' = [proj EXCEPT ![m] = task[m]]
    /\ UNCHANGED <<mutex, inflight, ttl, episode, node, media, task, seen, outside, session, gen, excl, open, edit>>

\* ... and writes the task and the status that it has read, perhaps much later.
ProjectWrite(m) ==
    /\ proj[m] # "none"
    /\ proj' = [proj EXCEPT ![m] = "none"]
    /\ UpdateMedia([task |-> m, status |-> IF proj[m] = "running" THEN "running" ELSE "other"])
    /\ UNCHANGED <<mutex, inflight, ttl, episode, node, task, seen, session, gen, excl, open, edit>>

\* advance_node reads the node, and again when it has written its configuration.
RunnerRead(r) ==
    /\ \/ GenGoto(r, "idle", IF episode = "active" THEN "gate" ELSE "done")
       \/ GenGoto(r, "reread", IF episode = "active" THEN "inputs" ELSE "done")
    /\ seen' = [seen EXCEPT ![r] = media]
    /\ UNCHANGED <<mutex, inflight, ttl, episode, node, media, task, proj, outside, session, excl, open, edit>>

\* A node that a task occupies, or that has a result, is left alone.
RunnerGate(r) ==
    /\ \/ GenGoto(r, "gate", "done")
       \/ ~Active /\ GenGoto(r, "gate", "config")
    /\ UNCHANGED <<mutex, inflight, ttl, episode, node, mediaVars, session, excl, open, edit>>

\* A new configuration is written to the node as it is read again now.
RunnerConfig(r) ==
    /\ \/ GenGoto(r, "config", "inputs") /\ UNCHANGED seen
       \/ GenGoto(r, "config", "persist_check") /\ seen' = [seen EXCEPT ![r] = media]
    /\ UNCHANGED <<mutex, inflight, ttl, episode, node, media, task, proj, outside, session, excl, open, edit>>

\* If inputs are missing the node waits for them, else the task is submitted.
RunnerInputs(r) ==
    /\ \E to \in {"wait_check", "kind"} : GenGoto(r, "inputs", to)
    /\ UNCHANGED <<mutex, inflight, ttl, episode, node, mediaVars, session, excl, open, edit>>

\* assert_writable in the port, before each write of the runner; refused, it raises.
RunnerCheck(r) ==
    /\ \/ GenGoto(r, "persist_check", IF Writable THEN "persist" ELSE "done")
       \/ GenGoto(r, "wait_check", IF Writable THEN "wait" ELSE "done")
       \/ GenGoto(r, "fail_check", IF Writable THEN "fail" ELSE "done")
    /\ UNCHANGED <<mutex, inflight, ttl, episode, node, mediaVars, session, excl, open, edit>>

\* The runner writes the task that it has read, or none if the submission failed.
RunnerWrite(r) ==
    /\ \/ /\ GenGoto(r, "persist", IF episode = "active" THEN "reread" ELSE "done")
          /\ UpdateMedia(seen[r])
       \/ GenGoto(r, "wait", "done") /\ UpdateMedia([task |-> seen[r].task, status |-> "other"])
       \/ GenGoto(r, "fail", "done") /\ UpdateMedia([task |-> None, status |-> "other"])
    /\ UNCHANGED <<mutex, inflight, ttl, episode, node, task, proj, seen, session, excl, open, edit>>

RunnerStep(r) ==
    \/ RunnerRead(r) \/ RunnerGate(r) \/ RunnerConfig(r) \/ RunnerInputs(r)
    \/ RunnerCheck(r) \/ RunnerWrite(r)

-----------------------------------------------------------------------------
(* The mutex *)

\* Mutant: delete_session does not take the mutex.
AcquireToDelete(x) ==
    /\ ExclGoto(x, "idle", IF x \in Closers THEN "count"
                           ELSE IF mutex = None THEN "wait" ELSE "done")
    /\ mutex' = IF x \in Deletions /\ mutex = None THEN x ELSE mutex
    /\ UNCHANGED <<inflight, ttl, episode, node, mediaVars, session, gen, open, edit>>

\* acquire_exclusive: SET NX EX.
Acquire(x) ==
    /\ ExclGoto(x, "idle", IF mutex # None THEN "done"
                           ELSE IF x \in Deletions THEN "wait" ELSE "count")
    /\ mutex' = IF mutex = None THEN x ELSE mutex
    /\ UNCHANGED <<inflight, ttl, episode, node, mediaVars, session, gen, open, edit>>

\* release_exclusive, in the finally of _episode_mutex: compares the owner.
Release(x) ==
    /\ ExclGoto(x, "release", "done")
    /\ mutex' = IF mutex = x THEN None ELSE mutex
    /\ UNCHANGED <<inflight, ttl, episode, node, mediaVars, session, gen, open, edit>>

-----------------------------------------------------------------------------
(* delete_episode *)

\* Mutant: the wait has no deadline.
WaitIdleForever(d) ==
    /\ inflight = {}
    /\ ExclGoto(d, "wait", "busy")
    /\ UNCHANGED <<mutex, inflight, ttl, episode, node, mediaVars, session, gen, open, edit>>

\* wait_generations_idle: SMEMBERS until the set is empty or the time is up.
WaitIdle(d) ==
    /\ ExclGoto(d, "wait", IF inflight = {} THEN "busy" ELSE "release")
    /\ UNCHANGED <<mutex, inflight, ttl, episode, node, mediaVars, session, gen, open, edit>>

\* raise_if_canvas_busy, over the rows of all nodes, the deleted ones too.
Busy == node.status = "running" \/ media.status = "running" \/ Active

\* Mutant: running nodes are counted, tasks are not.
RaiseIfBusyNodes(d) ==
    /\ ExclGoto(d, "busy", IF episode = "active" /\ "running" \in {node.status, media.status}
                           THEN "release" ELSE "cancel")
    /\ outside' = FALSE
    /\ UNCHANGED <<mutex, inflight, ttl, episode, node, media, task, proj, seen, session, gen, open, edit>>

RaiseIfBusy(d) ==
    /\ ExclGoto(d, "busy", IF episode = "active" /\ Busy THEN "release" ELSE "cancel")
    /\ outside' = FALSE
    /\ UNCHANGED <<mutex, inflight, ttl, episode, node, media, task, proj, seen, session, gen, open, edit>>

\* _cancel_session_turn: the turn stops, or the wait for it raises.
CancelTurns(x) ==
    /\ \E to \in {"close", "release"} : ExclGoto(x, "cancel", to)
    /\ UNCHANGED <<mutex, inflight, ttl, episode, node, mediaVars, session, gen, open, edit>>

SoftCloseAll(d) ==
    /\ ExclGoto(d, "close", "delete")
    /\ session' = [s \in Sessions |-> IF session[s] \in Alive THEN "closed" ELSE session[s]]
    /\ UNCHANGED <<mutex, inflight, ttl, episode, node, mediaVars, gen, open, edit>>

\* EpisodeService.delete: refused if the episode is gone or the project's last.
DeleteEpisode(d) ==
    /\ ExclGoto(d, "delete", "release")
    /\ \/ /\ episode = "active"
          /\ episode' = "deleted"
          /\ session' = [s \in Sessions |-> "none"]
       \/ UNCHANGED <<episode, session>>
    /\ UNCHANGED <<mutex, inflight, ttl, node, mediaVars, gen, open, edit>>

DeletionStep(d) == WaitIdle(d) \/ RaiseIfBusy(d) \/ CancelTurns(d) \/ SoftCloseAll(d) \/ DeleteEpisode(d)

-----------------------------------------------------------------------------
(* delete_session, and the calls that create sessions *)

\* The row is the caller's and alive, and is not the only one alive.
CountSessions(c, s) ==
    /\ excl[c].pc = "count"
    /\ excl' = [excl EXCEPT ![c] =
          IF session[s] \in Alive /\ \E r \in Sessions \ {s} : session[r] \in Alive
          THEN [pc |-> "cancel", row |-> s, was |-> session[s] = "default"]
          ELSE [@ EXCEPT !.pc = "release"]]
    /\ UNCHANGED <<mutex, inflight, ttl, episode, node, mediaVars, session, gen, open, edit>>

SoftCloseSession(c) ==
    /\ ExclGoto(c, "close", IF excl[c].was THEN "ensure" ELSE "release")
    /\ session' = [session EXCEPT ![excl[c].row] = "closed"]
    /\ UNCHANGED <<mutex, inflight, ttl, episode, node, mediaVars, gen, open, edit>>

\* A new row, under an id no row has.
Free == {s \in Sessions : session[s] = "none"}

Insert(kind) ==
    /\ Free # {}
    /\ session' = [session EXCEPT ![CHOOSE s \in Free : TRUE] = kind]

\* ensure_default_session: the unique index makes a second default a re-read.
EnsureDefault ==
    IF \E s \in Sessions : session[s] = "default"
    THEN UNCHANGED session
    ELSE Insert("default")

EnsureAfterClose(c) ==
    /\ ExclGoto(c, "ensure", "release")
    /\ EnsureDefault
    /\ UNCHANGED <<mutex, inflight, ttl, episode, node, mediaVars, gen, open, edit>>

CloserStep(c) ==
    \/ \E s \in Sessions : CountSessions(c, s)
    \/ CancelTurns(c) \/ SoftCloseSession(c) \/ EnsureAfterClose(c)

\* create_session and ensure_default_session look at the mutex, then insert; no
\* transaction asks again whether the episode is still there.
OpenCheck(o) ==
    /\ open[o] = "idle"
    /\ open' = [open EXCEPT ![o] = IF Writable /\ episode = "active" THEN "insert" ELSE "done"]
    /\ UNCHANGED <<mutex, inflight, ttl, episode, node, mediaVars, session, gen, excl, edit>>

OpenSession(o) ==
    /\ open[o] = "insert"
    /\ open' = [open EXCEPT ![o] = "done"]
    /\ EnsureDefault \/ Insert("active")
    /\ UNCHANGED <<mutex, inflight, ttl, episode, node, mediaVars, gen, excl, edit>>

-----------------------------------------------------------------------------
(* patch_canvas *)

\* The client has read the node.
EditRead(e) ==
    /\ edit[e].pc = "idle"
    /\ NodeFound
    /\ edit' = [edit EXCEPT ![e] = [pc |-> "check", rev |-> node.rev, seen |-> node.content]]
    /\ UNCHANGED <<mutex, inflight, ttl, episode, node, mediaVars, session, gen, excl, open>>

EditCheck(e) ==
    /\ edit[e].pc = "check"
    /\ edit' = [edit EXCEPT ![e].pc = IF Writable THEN "write" ELSE "done"]
    /\ UNCHANGED <<mutex, inflight, ttl, episode, node, mediaVars, session, gen, excl, open>>

\* apply_patch: UpdateNodeOp merges the client's fields, among which the content
\* is and the status is not; DeleteNodeOp marks the row.
ApplyPatch(e) ==
    /\ edit[e].pc = "write"
    /\ edit' = [edit EXCEPT ![e].pc = "done"]
    /\ IF SameRevision(edit[e].rev)
       THEN \/ node' = [node EXCEPT !.content = e, !.rev = @ + 1]
            \/ node' = [node EXCEPT !.gone = TRUE, !.rev = @ + 1]
       ELSE UNCHANGED node
    /\ UNCHANGED <<mutex, inflight, ttl, episode, mediaVars, session, gen, excl, open>>

-----------------------------------------------------------------------------
(* Faults *)

\* A call of the model, of the service or of the database raises, or the call is
\* cancelled; the fence is left, and the node keeps the status it has.
Interrupted(g) ==
    /\ gen[g].pc \in Body
    /\ gen' = [gen EXCEPT ![g].pc = Raised(g)]
    /\ UNCHANGED <<mutex, inflight, ttl, episode, node, mediaVars, session, excl, open, edit>>

\* A process dies inside a call; its keys stay in Redis.
GenerationDies(g) ==
    /\ gen[g].pc \notin {"idle", "done", "dead"}
    /\ gen' = [gen EXCEPT ![g].pc = "dead"]
    /\ UNCHANGED <<mutex, inflight, ttl, episode, node, mediaVars, session, excl, open, edit>>

ExclusiveDies(x) ==
    /\ excl[x].pc \notin {"idle", "done", "dead"}
    /\ excl' = [excl EXCEPT ![x].pc = "dead"]
    /\ UNCHANGED <<mutex, inflight, ttl, episode, node, mediaVars, session, gen, open, edit>>

\* The time to live is half an hour, far above the waits and the gateway's
\* timeout: a key expires only after its holder has died.
MutexExpires ==
    /\ mutex # None /\ excl[mutex].pc = "dead"
    /\ mutex' = None
    /\ UNCHANGED <<inflight, ttl, episode, node, mediaVars, session, gen, excl, open, edit>>

InflightExpires ==
    /\ ttl
    /\ \A g \in inflight : gen[g].pc = "dead"
    /\ inflight' = {} /\ ttl' = FALSE
    /\ UNCHANGED <<mutex, episode, node, mediaVars, session, gen, excl, open, edit>>

-----------------------------------------------------------------------------
GenStep(g) ==
    \/ Register(g)
    \/ g \in Texts /\ TextStep(g)
    \/ g \in Medias /\ SubmitStep(g)

ExclStep(x) ==
    \/ Acquire(x) \/ Release(x)
    \/ x \in Deletions /\ DeletionStep(x)
    \/ x \in Closers /\ CloserStep(x)

Next ==
    \/ \E g \in Generations : GenStep(g) \/ GenerationDies(g)
    \/ \E r \in Runners : RunnerStep(r) \/ SubmitStep(r)
    \/ \E g \in Calls : Interrupted(g)
    \/ \E x \in Exclusives : ExclStep(x) \/ ExclusiveDies(x)
    \/ \E m \in Submissions : TaskEnds(m) \/ ProjectRead(m) \/ ProjectWrite(m)
    \/ \E o \in Openers : OpenCheck(o) \/ OpenSession(o)
    \/ \E e \in Edits : EditRead(e) \/ EditCheck(e) \/ ApplyPatch(e)
    \/ MutexExpires \/ InflightExpires

Spec == Init /\ [][Next]_vars

\* A call whose process lives goes on, and a key with a time to live expires.
Fairness ==
    /\ \A x \in Exclusives : WF_vars(ExclStep(x))
    /\ WF_vars(MutexExpires)

LiveSpec == Spec /\ Fairness

-----------------------------------------------------------------------------
(* Properties *)

\* Once wait_generations_idle has let a deletion pass, no generation is inside
\* the fence until the deletion has released the mutex or died.
DeletionExcludesGenerations ==
    \A d \in Deletions, g \in Generations : excl[d].pc \in Deleting => gen[g].pc \notin Body

\* What raise_if_canvas_busy found still holds when the data is deleted, several
\* awaits later and without a second test (require_idle=False): no node is
\* running and no bound task is in progress, whatever generations run, unless the
\* media node has been written outside the fence since.
DeletesOnlyIdle == [][episode' # episode /\ ~outside => ~Busy]_vars

\* What raise_if_canvas_busy says of the deletion, without that exception: an
\* episode is not deleted while a task is in flight on one of its nodes.
NeverDeletesInFlight == [][episode' # episode => ~Active]_vars

\* However calls of delete_session overlap, with each other and with calls that
\* create sessions, only a deletion of the episode closes the last session.
LastSessionKept ==
    [][ (\E s \in Sessions : session[s] \in Alive) /\ (\A s \in Sessions : session'[s] \notin Alive)
        => \E d \in Deletions : excl[d].pc \in {"close", "delete"} ]_vars

Seen(w) == IF w \in Texts THEN gen[w].seen ELSE edit[w].seen

\* A result or an edit replaces only the content its writer knew of: the one a
\* generation claimed the node with, minutes before it writes, or a client read.
NoLostUpdate == [][node'.content # node.content => Seen(node'.content) = node.content]_vars

\* The fence opens again after every deletion, whoever it waits for and wherever
\* a process dies.
FenceOpens == mutex # None ~> mutex = None

\* What raise_if_canvas_busy says of itself: a deletion is forbidden while a node
\* or a task is in flight (or a process died that would have said how it ended).
RefusedOnlyIfInFlight ==
    [][ \A d \in Deletions :
          excl[d].pc = "busy" /\ excl'[d].pc = "release"
          => Active \/ \E t \in Texts : gen[t].pc \in Body \cup {"dead"} ]_vars

=============================================================================
