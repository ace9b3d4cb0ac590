------------------------ MODULE CanvasEpisode_proofs ------------------------
(***************************************************************************)
(* The fence of an episode, for any number of generations, deletions,      *)
(* sessions and patches: a deletion that has passed its wait runs alone,   *)
(* what it and delete_session have checked still holds when they write --  *)
(* but for what a runner or a projection writes outside the fence -- and   *)
(* no write of the text node loses a content its writer did not know.      *)
(***************************************************************************)
EXTENDS CanvasEpisode, TLAPS

USE DEF mediaVars

\* The locals of the calls, as TypeOK has them.
GenLocals == [pc : GenSteps, rev : Nat, seen : Writers \cup {None}, ok : BOOLEAN]
ExclLocals == [pc : ExclSteps, row : Sessions, was : BOOLEAN]
EditLocals == [pc : {"idle", "check", "write", "done"}, rev : Nat, seen : Writers \cup {None}]

\* The steps of a call that holds the mutex, and of a registered generation.
Holding == ExclSteps \ {"idle", "done", "dead"}
Registered == Body \cup {"expire", "recheck", "unadd", "leave"}

\* A call past acquire_exclusive holds the mutex until it releases it or dies, and a
\* generation past SADD is in the set until it leaves or dies.
FenceOK ==
    /\ \A x \in Exclusives : excl[x].pc \in Holding => mutex = x
    /\ \A g \in Generations : gen[g].pc \in Registered => g \in inflight

\* What raise_if_canvas_busy found lasts until the deletion is over, or the media node
\* is written outside the fence.
StaysIdle ==
    \A d \in Deletions :
        excl[d].pc \in {"cancel", "close", "delete"} /\ episode = "active" /\ ~outside => ~Busy

\* What CountSessions found lasts: there is another session alive.
AnotherAlive ==
    \A c \in Closers :
        excl[c].pc \in {"cancel", "close"} =>
            \E r \in Sessions \ {excl[c].row} : session[r] \in Alive

\* The steps at which a generation or a patch has seen the node.
Knows == {"model_check", "model", "gateway", "out_check", "out"}

\* A revision is never older than one somebody has read, and has the content that was
\* read with it.
RevisionsOK ==
    /\ \A t \in Texts : gen[t].pc \in Knows =>
          gen[t].rev <= node.rev /\ (gen[t].rev = node.rev => gen[t].seen = node.content)
    /\ \A e \in Edits : edit[e].pc \in {"check", "write"} =>
          edit[e].rev <= node.rev /\ (edit[e].rev = node.rev => edit[e].seen = node.content)

\* The steps of a runner before it submits, and of a submission before its task is sent.
Before == {"idle", "gate", "config", "persist_check", "persist", "reread", "inputs", "kind", "submit"}

\* A runner's task is not bound to the node, nor about to be by whoever has read the
\* node, before the runner has sent it: sending it makes no idle node busy.
UnsentUnbound ==
    \A r \in Runners : gen[r].pc \in Before =>
        media.task # r /\ proj[r] = "none" /\ \A q \in Runners : seen[q].task # r

\* The inductive invariant.
Inv ==
    /\ TypeOK /\ FenceOK /\ DeletionExcludesGenerations /\ StaysIdle /\ AnotherAlive
    /\ RevisionsOK /\ UnsentUnbound

-----------------------------------------------------------------------------
\* A call is a generation or a runner, and not both.
LEMMA CallSets ==
    /\ Calls = Generations \cup Runners /\ Generations \cap Runners = {}
    /\ Texts \subseteq Generations /\ Medias \subseteq Generations
  BY NoneAssumption DEF Calls, Generations, Submissions

-----------------------------------------------------------------------------
\* Writes of records

\* A generation goes on, and nothing else of the generations changes.
GenMoved(g, p) ==
    /\ gen' \in [Calls -> GenLocals]
    /\ gen'[g].pc = p
    /\ \A h \in Calls \ {g} : gen'[h] = gen[h]

\* A generation that only goes on.
LEMMA GenPc ==
    ASSUME TypeOK, NEW g \in Calls, NEW p \in GenSteps, gen' = [gen EXCEPT ![g].pc = p]
    PROVE  GenMoved(g, p) /\ gen'[g].rev = gen[g].rev /\ gen'[g].seen = gen[g].seen
  <1>1. gen \in [Calls -> GenLocals] /\ gen[g] \in GenLocals
    BY DEF TypeOK, GenLocals
  <1>2. /\ gen' \in [Calls -> GenLocals] /\ gen'[g].pc = p
        /\ gen'[g].rev = gen[g].rev /\ gen'[g].seen = gen[g].seen
    BY <1>1 DEF GenLocals
  <1>3. \A h \in Calls \ {g} : gen'[h] = gen[h]
    BY <1>1
  <1> QED BY <1>2, <1>3 DEF GenMoved

\* The row of the node after a write, for fields of any types: of Booleans among numbers
\* the provers need to know nothing.
LEMMA NodeFields ==
    ASSUME NEW N, NEW S, NEW B, NEW C, NEW r \in [rev : N, status : S, gone : B, content : C],
           NEW n \in N, NEW s \in S, NEW b \in B, NEW c \in C
    PROVE  /\ [r EXCEPT !.status = s, !.rev = n] \in [rev : N, status : S, gone : B, content : C]
           /\ [r EXCEPT !.status = s, !.rev = n].rev = n
           /\ [r EXCEPT !.status = s, !.rev = n].status = s
           /\ [r EXCEPT !.status = s, !.rev = n].content = r.content
           /\ [r EXCEPT !.status = s, !.content = c, !.rev = n] \in [rev : N, status : S, gone : B, content : C]
           /\ [r EXCEPT !.status = s, !.content = c, !.rev = n].rev = n
           /\ [r EXCEPT !.status = s, !.content = c, !.rev = n].status = s
           /\ [r EXCEPT !.status = s, !.content = c, !.rev = n].content = c
           /\ [r EXCEPT !.content = c, !.rev = n] \in [rev : N, status : S, gone : B, content : C]
           /\ [r EXCEPT !.content = c, !.rev = n].rev = n
           /\ [r EXCEPT !.content = c, !.rev = n].status = r.status
           /\ [r EXCEPT !.content = c, !.rev = n].content = c
           /\ [r EXCEPT !.gone = b, !.rev = n] \in [rev : N, status : S, gone : B, content : C]
           /\ [r EXCEPT !.gone = b, !.rev = n].rev = n
           /\ [r EXCEPT !.gone = b, !.rev = n].status = r.status
           /\ [r EXCEPT !.gone = b, !.rev = n].content = r.content
  OBVIOUS

\* A call that takes the mutex goes on.
LEMMA ExclPc ==
    ASSUME TypeOK, NEW x \in Exclusives, NEW p \in ExclSteps, excl' = [excl EXCEPT ![x].pc = p]
    PROVE  /\ excl' \in [Exclusives -> ExclLocals]
           /\ excl'[x].pc = p /\ excl'[x].row = excl[x].row
           /\ \A y \in Exclusives \ {x} : excl'[y] = excl[y]
  <1>1. excl \in [Exclusives -> ExclLocals]
    BY DEF TypeOK, ExclLocals
  <1>2. excl' \in [Exclusives -> ExclLocals] /\ excl'[x].pc = p /\ excl'[x].row = excl[x].row
    BY <1>1 DEF ExclLocals
  <1>3. \A y \in Exclusives \ {x} : excl'[y] = excl[y]
    BY <1>1
  <1> QED BY <1>2, <1>3

\* A write of the text node is its next revision.
LEMMA NodeWritten ==
    ASSUME TypeOK, NEW s \in {"idle", "running", "success", "failed"}, NEW c \in Writers \cup {None},
           \/ node' = [node EXCEPT !.status = s, !.rev = node.rev + 1]
           \/ node' = [node EXCEPT !.status = s, !.content = c, !.rev = node.rev + 1]
           \/ node' = [node EXCEPT !.content = c, !.rev = node.rev + 1]
           \/ node' = [node EXCEPT !.gone = TRUE, !.rev = node.rev + 1]
    PROVE  node' \in Nodes /\ node'.rev = node.rev + 1 /\ node.rev \in Nat
  <1>1. node \in Nodes /\ TRUE \in BOOLEAN
    BY DEF TypeOK
  <1>2. node.rev \in Nat
    BY <1>1 DEF Nodes
  <1>3. node.rev + 1 \in Nat
    BY <1>2
  <1>4. CASE node' = [node EXCEPT !.status = s, !.rev = node.rev + 1]
    BY <1>1, <1>2, <1>3, <1>4, NodeFields, Zenon DEF Nodes
  <1>5. CASE node' = [node EXCEPT !.status = s, !.content = c, !.rev = node.rev + 1]
    BY <1>1, <1>2, <1>3, <1>5, NodeFields, Zenon DEF Nodes
  <1>6. CASE node' = [node EXCEPT !.content = c, !.rev = node.rev + 1]
    BY <1>1, <1>2, <1>3, <1>6, NodeFields, Zenon DEF Nodes
  <1>7. CASE node' = [node EXCEPT !.gone = TRUE, !.rev = node.rev + 1]
    BY <1>1, <1>2, <1>3, <1>7, NodeFields, Zenon DEF Nodes
  <1> QED BY <1>4, <1>5, <1>6, <1>7
-----------------------------------------------------------------------------
\* Generations

\* What a step of a generation does, whatever step it is: it is registered while it
\* works, enters only when the mutex is free, writes nodes and tasks only inside the
\* fence, and knows the node it has claimed.
GenEffect(g) ==
    /\ TypeOK'
    /\ \A h \in Calls \ {g} : gen'[h] = gen[h]
    /\ UNCHANGED <<mutex, episode, proj, seen, outside, session, excl, open, edit>>
    /\ media'.task \in {media.task, g}
    /\ inflight \ {g} \subseteq inflight'
    /\ gen'[g].pc \in Registered => g \in inflight'
    /\ gen'[g].pc \in Body => gen[g].pc \in Body \/ mutex = None
    /\ gen[g].pc \notin Body => UNCHANGED <<node, media, task>>
    /\ node' = node \/ node'.rev = node.rev + 1
    /\ g \in Texts /\ gen'[g].pc \in Knows =>
          gen'[g].rev <= node'.rev /\ (gen'[g].rev = node'.rev => gen'[g].seen = node'.content)

\* A generation that goes from one step to the next and writes no text node.
LEMMA GotoEffect ==
    ASSUME Inv, NEW g \in Generations, NEW from, NEW to \in GenSteps, GenGoto(g, from, to),
           UNCHANGED <<mutex, episode, node, proj, seen, outside, session, excl, open, edit>>,
           inflight' \subseteq Generations, ttl' \in BOOLEAN,
           media' \in MediaRows, media'.task \in {media.task, g}, task' \in [Submissions -> TaskStatus],
           inflight \ {g} \subseteq inflight',
           to \in Registered => g \in inflight',
           to \in Body => from \in Body \/ mutex = None,
           from \notin Body => UNCHANGED <<media, task>>,
           to \in Knows => from \in Knows
    PROVE  GenEffect(g)
  <1>1. TypeOK /\ gen[g].pc = from /\ gen' = [gen EXCEPT ![g].pc = to] /\ g \in Calls
    BY CallSets DEF Inv, GenGoto
  <1>2. GenMoved(g, to) /\ gen'[g].rev = gen[g].rev /\ gen'[g].seen = gen[g].seen
    BY <1>1, GenPc
  <1>3. TypeOK'
    BY <1>1, <1>2 DEF TypeOK, GenMoved, GenLocals
  <1>4. g \in Texts /\ gen'[g].pc \in Knows =>
          gen'[g].rev <= node'.rev /\ (gen'[g].rev = node'.rev => gen'[g].seen = node'.content)
    BY <1>1, <1>2 DEF GenMoved, Inv, RevisionsOK
  <1> QED BY <1>1, <1>2, <1>3, <1>4 DEF GenEffect, GenMoved

\* The steps of a generation and where it is registered.
LEMMA StepSets ==
    /\ Body \subseteq Registered /\ Knows \subseteq Body /\ Registered \subseteq GenSteps
    /\ {"add", "done", "dead"} \subseteq GenSteps
    /\ {"add", "done", "dead"} \cap Registered = {}
    /\ {"expire", "recheck", "unadd", "leave"} \cap Body = {}
    /\ {"expire", "recheck", "unadd", "leave"} \subseteq Registered
    /\ {"kind", "claim", "submit", "bind"} \subseteq Body
    /\ {"kind", "claim", "submit", "bind"} \cap Knows = {}
  BY DEF Body, Knows, Registered, GenSteps

\* Registration, an exception inside the fence, and the death of a process.
LEMMA RegisterEffect ==
    ASSUME Inv, NEW g \in Generations, Register(g) \/ Interrupted(g) \/ GenerationDies(g)
    PROVE  GenEffect(g)
  <1>1. /\ gen[g].pc \in Registered => g \in inflight
        /\ inflight \subseteq Generations /\ ttl \in BOOLEAN
        /\ media \in MediaRows /\ task \in [Submissions -> TaskStatus]
    BY DEF Inv, FenceOK, TypeOK
  <1>2. CASE EnterCheck(g)
    <2>1. PICK to \in {"add", "done"} : GenGoto(g, "idle", to)
      BY <1>2 DEF EnterCheck
    <2> QED BY <1>1, <1>2, <2>1, GotoEffect, StepSets DEF EnterCheck
  <1>3. CASE EnterAdd(g)
    BY <1>1, <1>3, GotoEffect, StepSets DEF EnterAdd
  <1>4. CASE EnterExpire(g)
    <2>1. g \in inflight
      BY <1>1, <1>4, StepSets DEF EnterExpire, GenGoto
    <2> QED BY <1>1, <1>4, <2>1, GotoEffect, StepSets DEF EnterExpire
  <1>5. CASE EnterRecheck(g)
    <2>1. g \in inflight
      BY <1>1, <1>5, StepSets DEF EnterRecheck, GenGoto
    <2>2. PICK to \in {"kind", "unadd"} :
            GenGoto(g, "recheck", to) /\ (to = "kind" => mutex = None)
      BY <1>5 DEF EnterRecheck, Writable
    <2> QED BY <1>1, <1>5, <2>1, <2>2, GotoEffect, StepSets DEF EnterRecheck
  <1>6. CASE EnterFails(g)
    <2>1. inflight' \subseteq Generations /\ ttl' \in BOOLEAN /\ inflight \ {g} \subseteq inflight'
      BY <1>1, <1>6 DEF EnterFails, Remove
    <2> QED BY <1>1, <1>6, <2>1, GotoEffect, StepSets DEF EnterFails
  <1>7. CASE LeaveGeneration(g)
    <2>1. inflight' \subseteq Generations /\ ttl' \in BOOLEAN /\ inflight \ {g} \subseteq inflight'
      BY <1>1, <1>7 DEF LeaveGeneration, Remove
    <2> QED BY <1>1, <1>7, <2>1, GotoEffect, StepSets DEF LeaveGeneration
  <1>8. CASE GenerationDies(g)
    <2>1. GenGoto(g, gen[g].pc, "dead")
      BY <1>8 DEF GenerationDies, GenGoto
    <2> QED BY <1>1, <1>8, <2>1, GotoEffect, StepSets DEF GenerationDies
  <1>9. CASE Interrupted(g)
    <2>1. GenGoto(g, gen[g].pc, "leave") /\ gen[g].pc \in Body
      BY <1>9, NoneAssumption DEF Interrupted, Raised, GenGoto, Generations
    <2> QED BY <1>1, <1>9, <2>1, GotoEffect, StepSets DEF Interrupted
  <1> QED BY <1>2, <1>3, <1>4, <1>5, <1>6, <1>7, <1>8, <1>9 DEF Register

\* A fenced media submission.
LEMMA MediaEffect ==
    ASSUME Inv, NEW m \in Medias, SubmitStep(m)
    PROVE  GenEffect(m)
  <1>1. /\ m \in Generations /\ m \in Submissions /\ m \notin Runners
        /\ gen[m].pc \in Registered => m \in inflight
        /\ inflight \subseteq Generations /\ ttl \in BOOLEAN /\ outside \in BOOLEAN
        /\ media \in MediaRows /\ task \in [Submissions -> TaskStatus]
    BY NoneAssumption DEF Inv, FenceOK, TypeOK, Generations, Submissions
  <1>2. m \in inflight /\ UNCHANGED <<inflight, ttl>>
    BY <1>1, StepSets DEF SubmitStep, SubmitCheck, SubmitTask, BindTask, GenGoto
  <1>3. CASE SubmitCheck(m)
    <2>1. PICK to \in {"submit", "leave"} : GenGoto(m, "kind", to)
      BY <1>1, <1>3 DEF SubmitCheck, Raised
    <2> QED BY <1>1, <1>2, <1>3, <2>1, GotoEffect, StepSets DEF SubmitCheck
  <1>4. CASE SubmitTask(m)
    <2>1. PICK to \in {"bind", "leave"} : GenGoto(m, "submit", to)
      BY <1>1, <1>4 DEF SubmitTask, Raised
    <2>2. task' \in [Submissions -> TaskStatus]
      BY <1>1, <1>4 DEF SubmitTask, TaskStatus
    <2> QED BY <1>1, <1>2, <1>4, <2>1, <2>2, GotoEffect, StepSets DEF SubmitTask
  <1>5. CASE BindTask(m)
    <2>1. GenGoto(m, "bind", "leave") /\ outside' = outside
      BY <1>1, <1>5 DEF BindTask, Raised
    <2>2. media' \in MediaRows /\ media'.task \in {media.task, m}
      BY <1>1, <1>5 DEF BindTask, MediaRows
    <2> QED BY <1>1, <1>2, <1>5, <2>1, <2>2, GotoEffect, StepSets DEF BindTask
  <1> QED BY <1>3, <1>4, <1>5 DEF SubmitStep

\* A text generation: it writes the node as a later revision of the one it knows.
LEMMA TextEffect ==
    ASSUME Inv, NEW t \in Texts, TextStep(t)
    PROVE  GenEffect(t)
  <1>1. /\ t \in Generations /\ t \in Calls /\ TypeOK
        /\ gen[t].pc \in Registered => t \in inflight
        /\ inflight \subseteq Generations /\ ttl \in BOOLEAN
        /\ media \in MediaRows /\ task \in [Submissions -> TaskStatus]
    BY CallSets DEF Inv, FenceOK, TypeOK
  <1>2. /\ t \in inflight /\ gen[t].pc \in Body
        /\ UNCHANGED <<mutex, inflight, ttl, episode, mediaVars, session, excl, open, edit>>
    BY <1>1, StepSets DEF TextStep, ClaimCheck, ClaimNode, WriteCheck, WriteModel, Gateway,
       WriteOutput, GenGoto, Body
  <1>3. /\ node \in Nodes /\ node.rev \in Nat /\ node.content \in Writers \cup {None}
        /\ gen \in [Calls -> GenLocals] /\ gen[t].rev \in Nat
        /\ gen[t].seen \in Writers \cup {None}
    BY <1>1 DEF TypeOK, Nodes, GenLocals
  <1>4. CASE ClaimCheck(t)
    <2>1. PICK to \in {"claim", "leave"} : GenGoto(t, "kind", to)
      BY <1>4 DEF ClaimCheck
    <2> QED BY <1>1, <1>2, <1>4, <2>1, GotoEffect, StepSets DEF ClaimCheck
  <1>5. CASE WriteCheck(t)
    <2>1. PICK from \in Knows, to \in Knows \cup {"leave"} : GenGoto(t, from, to)
      BY <1>5 DEF WriteCheck, Knows
    <2> QED BY <1>1, <1>2, <1>5, <2>1, GotoEffect, StepSets DEF WriteCheck
  <1>6. ASSUME UNCHANGED node, gen' = [gen EXCEPT ![t].pc = "leave"]
        PROVE  GenEffect(t)
    <2>1. GenGoto(t, gen[t].pc, "leave")
      BY <1>6 DEF GenGoto
    <2> QED BY <1>1, <1>2, <1>6, <2>1, GotoEffect, StepSets
  <1>7. ASSUME NEW p \in Knows, GenMoved(t, p), node' \in Nodes, node' = node \/ node'.rev = node.rev + 1,
               gen'[t].rev <= node'.rev, gen'[t].rev = node'.rev => gen'[t].seen = node'.content
        PROVE  GenEffect(t)
    <2>1. TypeOK'
      BY <1>1, <1>2, <1>7 DEF TypeOK, GenMoved, GenLocals
    <2> QED BY <1>2, <1>7, <2>1, StepSets DEF GenEffect, GenMoved
  <1>8. CASE ClaimNode(t) /\ NodeFound
    <2>1. /\ node' = [node EXCEPT !.status = "running", !.rev = node.rev + 1]
          /\ gen' = [gen EXCEPT ![t].pc = "model_check", ![t].rev = node.rev + 1,
                                ![t].seen = node.content]
      BY <1>8 DEF ClaimNode
    <2>2. node' \in Nodes /\ node'.rev = node.rev + 1
      BY <1>1, <1>3, <2>1, NodeWritten
    <2>3. node'.content = node.content
      BY <1>3, <2>1 DEF Nodes
    <2>4. /\ "model_check" \in GenSteps /\ node.rev + 1 \in Nat /\ TRUE \in BOOLEAN
      BY <1>3 DEF GenSteps
    <2>5. /\ gen' \in [Calls -> GenLocals] /\ gen'[t].pc = "model_check"
          /\ gen'[t].rev = node.rev + 1 /\ gen'[t].seen = node.content
      BY <1>1, <1>3, <2>1, <2>4, ZenonT(60) DEF GenLocals
    <2>6. \A h \in Calls \ {t} : gen'[h] = gen[h]
      BY <1>3, <2>1
    <2>7. GenMoved(t, "model_check") /\ "model_check" \in Knows
      BY <2>5, <2>6 DEF GenMoved, Knows
    <2> QED BY <1>3, <1>7, <2>2, <2>3, <2>5, <2>7
  <1>9. CASE WriteModel(t) /\ SameRevision(gen[t].rev)
    <2>1. /\ node' = [node EXCEPT !.status = "running", !.rev = node.rev + 1]
          /\ gen' = [gen EXCEPT ![t].pc = "gateway", ![t].rev = gen[t].rev + 1]
          /\ gen[t].pc = "model" /\ node.rev = gen[t].rev
      BY <1>1, <1>9 DEF WriteModel, SameRevision, TypeOK
    <2>2. node' \in Nodes /\ node'.rev = node.rev + 1
      BY <1>1, <1>3, <2>1, NodeWritten
    <2>3. node'.content = node.content
      BY <1>3, <2>1 DEF Nodes
    <2>4. /\ "gateway" \in GenSteps /\ gen[t].rev + 1 \in Nat /\ TRUE \in BOOLEAN
      BY <1>3 DEF GenSteps
    <2>5. /\ gen' \in [Calls -> GenLocals] /\ gen'[t].pc = "gateway"
          /\ gen'[t].rev = gen[t].rev + 1 /\ gen'[t].seen = gen[t].seen
      BY <1>1, <1>3, <2>1, <2>4 DEF GenLocals
    <2>6. \A h \in Calls \ {t} : gen'[h] = gen[h]
      BY <1>3, <2>1
    <2>7. GenMoved(t, "gateway") /\ "gateway" \in Knows /\ "model" \in Knows
      BY <2>5, <2>6 DEF GenMoved, Knows
    <2>8. gen[t].seen = node.content
      BY <2>1, <2>7 DEF Inv, RevisionsOK
    <2> QED BY <1>3, <1>7, <2>1, <2>2, <2>3, <2>5, <2>7, <2>8
  <1>10. CASE Gateway(t)
    <2>1. PICK ok \in BOOLEAN : gen' = [gen EXCEPT ![t].pc = "out_check", ![t].ok = ok]
      BY <1>10 DEF Gateway
    <2>2. gen[t].pc = "gateway" /\ UNCHANGED node
      BY <1>10 DEF Gateway
    <2>3. "out_check" \in GenSteps
      BY DEF GenSteps
    <2>4. /\ gen' \in [Calls -> GenLocals] /\ gen'[t].pc = "out_check"
          /\ gen'[t].rev = gen[t].rev /\ gen'[t].seen = gen[t].seen
      BY <1>1, <1>3, <2>1, <2>3, ZenonT(60) DEF GenLocals
    <2>5. \A h \in Calls \ {t} : gen'[h] = gen[h]
      BY <1>3, <2>1
    <2>6. GenMoved(t, "out_check") /\ "gateway" \in Knows /\ "out_check" \in Knows
      BY <2>4, <2>5 DEF GenMoved, Knows
    <2>7. gen[t].rev <= node.rev /\ (gen[t].rev = node.rev => gen[t].seen = node.content)
      BY <2>2, <2>6 DEF Inv, RevisionsOK
    <2> QED BY <1>1, <1>3, <1>7, <2>2, <2>4, <2>6, <2>7
  <1>11. CASE WriteOutput(t)
    <2>1. GenGoto(t, "out", "leave") /\ "leave" \in GenSteps
      BY <1>11 DEF WriteOutput, GenSteps
    <2>2. GenMoved(t, "leave")
      BY <1>1, <2>1, GenPc DEF GenGoto
    <2>3. node' \in Nodes /\ (node' = node \/ node'.rev = node.rev + 1)
      <3> DEFINE s == IF gen[t].ok THEN "success" ELSE "failed"
                 c == IF gen[t].ok THEN t ELSE node.content
      <3>1. \/ UNCHANGED node
            \/ node' = [node EXCEPT !.status = s, !.content = c, !.rev = node.rev + 1]
        BY <1>11 DEF WriteOutput
      <3>2. s \in {"idle", "running", "success", "failed"} /\ c \in Writers \cup {None}
        BY <1>3 DEF Writers
      <3> HIDE DEF s, c
      <3> QED BY <1>1, <1>3, <3>1, <3>2, NodeWritten
    <2>4. TypeOK'
      BY <1>1, <1>2, <2>2, <2>3 DEF TypeOK, GenMoved, GenLocals
    <2> QED BY <1>2, <2>2, <2>3, <2>4, StepSets DEF GenEffect, GenMoved
  <1>12. CASE (ClaimNode(t) /\ ~NodeFound) \/ (WriteModel(t) /\ ~SameRevision(gen[t].rev))
    BY <1>6, <1>12 DEF ClaimNode, WriteModel
  <1> QED BY <1>4, <1>5, <1>8, <1>9, <1>10, <1>11, <1>12 DEF TextStep

\* A generation keeps the invariant.
LEMMA GenKeeps ==
    ASSUME Inv, NEW g \in Generations, GenEffect(g)
    PROVE  Inv'
  <1>1. FenceOK'
    BY CallSets DEF Inv, FenceOK, GenEffect
  <1>2. DeletionExcludesGenerations'
    <2> SUFFICES ASSUME NEW d \in Deletions, NEW h \in Generations,
                        excl[d].pc \in Deleting, gen'[h].pc \in Body
                 PROVE  FALSE
      BY DEF DeletionExcludesGenerations, GenEffect
    <2>1. h = g /\ mutex = None
      BY CallSets DEF Inv, DeletionExcludesGenerations, GenEffect
    <2>2. mutex = d /\ d # None
      BY NoneAssumption DEF Inv, FenceOK, Exclusives, Deleting, Holding, ExclSteps
    <2> QED BY <2>1, <2>2
  <1>3. StaysIdle'
    <2> SUFFICES ASSUME NEW d \in Deletions, excl[d].pc \in {"cancel", "close", "delete"},
                        episode = "active", ~outside
                 PROVE  ~Busy'
      BY DEF StaysIdle, GenEffect
    <2>1. gen[g].pc \notin Body /\ ~Busy
      BY DEF Inv, DeletionExcludesGenerations, Deleting, StaysIdle
    <2> QED BY <2>1 DEF GenEffect, Busy, Active
  <1>4. AnotherAlive'
    BY DEF Inv, AnotherAlive, GenEffect
  <1>5. RevisionsOK'
    <2>1. node.rev \in Nat /\ node'.rev \in Nat
      BY DEF Inv, GenEffect, TypeOK, Nodes
    <2>2. /\ \A t \in Texts : gen[t].rev \in Nat
          /\ \A e \in Edits : edit[e].rev \in Nat
      BY CallSets DEF Inv, TypeOK
    <2>3. ASSUME NEW t \in Texts, gen'[t].pc \in Knows
          PROVE  gen'[t].rev <= node'.rev /\ (gen'[t].rev = node'.rev => gen'[t].seen = node'.content)
      <3>1. CASE t = g
        BY <2>3, <3>1 DEF GenEffect
      <3>2. CASE t # g
        <4>1. gen'[t] = gen[t]
          BY <3>2, CallSets DEF GenEffect
        <4> QED BY <2>1, <2>2, <2>3, <4>1 DEF Inv, RevisionsOK, GenEffect
      <3> QED BY <3>1, <3>2
    <2>4. ASSUME NEW e \in Edits, edit'[e].pc \in {"check", "write"}
          PROVE  edit'[e].rev <= node'.rev /\ (edit'[e].rev = node'.rev => edit'[e].seen = node'.content)
      BY <2>1, <2>2, <2>4 DEF Inv, RevisionsOK, GenEffect
    <2> QED BY <2>3, <2>4 DEF RevisionsOK
  <1>6. UnsentUnbound'
    <2>1. \A r \in Runners : r # g /\ gen'[r] = gen[r]
      BY CallSets DEF GenEffect
    <2> QED BY <2>1 DEF Inv, UnsentUnbound, GenEffect
  <1> QED BY <1>1, <1>2, <1>3, <1>4, <1>5, <1>6 DEF Inv, GenEffect

-----------------------------------------------------------------------------
\* Outside the fence

\* What a step of a runner or of a projection does: it is never registered, nothing of
\* the fence changes, and a node that was idle is so unless its write is noted.
OutsideEffect ==
    /\ TypeOK'
    /\ \A g \in Generations : gen'[g] = gen[g]
    /\ UNCHANGED <<mutex, inflight, ttl, episode, node, session, excl, open, edit>>
    /\ outside => outside'
    /\ ~outside' => (Busy' => Busy)
    /\ UnsentUnbound'

\* The row that a runner or a projection writes, if the episode is still there.
LEMMA UpdateEffect ==
    ASSUME TypeOK, NEW row \in MediaRows, UpdateMedia(row)
    PROVE  /\ media' \in MediaRows /\ media' \in {media, row} /\ outside' \in BOOLEAN
           /\ outside => outside'
           /\ ~outside' => media' = media
  BY DEF TypeOK, UpdateMedia

\* A runner goes on and sends no task; it writes the row of the media node, if at all,
\* as one that somebody has read.
LEMMA RunnerGoto ==
    ASSUME Inv, NEW r \in Runners, NEW from, NEW to \in GenSteps, GenGoto(r, from, to),
           to \in Before => from \in Before,
           UNCHANGED <<mutex, inflight, ttl, episode, node, task, proj, session, excl, open, edit>>,
           media' \in MediaRows, seen' \in [Runners -> MediaRows], outside' \in BOOLEAN,
           outside => outside', ~outside' => media' = media,
           \/ media'.task \in {media.task, None} \/ (\E q \in Runners : media'.task = seen[q].task)
           \/ media'.task = r /\ to \notin Before,
           \A q \in Runners : seen'[q] = seen[q] \/ seen'[q] = media
    PROVE  OutsideEffect
  <1>1. r \in Calls /\ TypeOK /\ gen[r].pc = from /\ gen' = [gen EXCEPT ![r].pc = to]
    BY CallSets DEF Inv, GenGoto
  <1>2. GenMoved(r, to)
    BY <1>1, GenPc
  <1>3. TypeOK'
    BY <1>1, <1>2 DEF TypeOK, GenMoved, GenLocals
  <1>4. UnsentUnbound'
    <2> SUFFICES ASSUME NEW q \in Runners, gen'[q].pc \in Before
                 PROVE  media'.task # q /\ proj'[q] = "none" /\ \A p \in Runners : seen'[p].task # q
      BY DEF UnsentUnbound
    <2>1. q \in Calls /\ q # None /\ gen[q].pc \in Before
      BY <1>1, <1>2, CallSets, NoneAssumption DEF GenMoved
    <2>2. media.task # q /\ proj[q] = "none" /\ \A p \in Runners : seen[p].task # q
      BY <2>1 DEF Inv, UnsentUnbound
    <2>3. q = r => to \in Before
      BY <1>2 DEF GenMoved
    <2> QED BY <2>1, <2>2, <2>3
  <1>5. ~outside' => (Busy' => Busy)
    BY DEF Busy, Active
  <1>6. \A g \in Generations : g # r /\ g \in Calls
    BY CallSets
  <1> QED BY <1>2, <1>3, <1>4, <1>5, <1>6 DEF OutsideEffect, GenMoved

\* The steps of a runner, those before it submits among them.
LEMMA RunnerSets ==
    /\ Before \subseteq GenSteps
    /\ {"idle", "gate", "config", "persist_check", "persist", "reread", "inputs", "kind", "submit"}
          \subseteq Before
    /\ {"wait_check", "wait", "fail_check", "fail", "bind", "done"} \subseteq GenSteps
    /\ {"wait_check", "wait", "fail_check", "fail", "bind", "done"} \cap Before = {}
  BY DEF Before, GenSteps

\* The runner's own steps.
LEMMA RunnerEffect ==
    ASSUME Inv, NEW r \in Runners, RunnerStep(r)
    PROVE  OutsideEffect
  <1>1. /\ TypeOK /\ media \in MediaRows /\ seen \in [Runners -> MediaRows] /\ outside \in BOOLEAN
        /\ seen[r] \in MediaRows
    BY DEF Inv, TypeOK
  <1>2. [seen EXCEPT ![r] = media] \in [Runners -> MediaRows]
        /\ \A q \in Runners : [seen EXCEPT ![r] = media][q] = seen[q] \/ [seen EXCEPT ![r] = media][q] = media
    BY <1>1
  <1>3. CASE RunnerRead(r)
    <2>1. PICK from \in Before, to \in {"gate", "inputs", "done"} : GenGoto(r, from, to)
      BY <1>3, RunnerSets DEF RunnerRead
    <2> QED BY <1>1, <1>2, <1>3, <2>1, RunnerGoto, RunnerSets DEF RunnerRead
  <1>4. CASE RunnerGate(r)
    <2>1. PICK to \in {"config", "done"} : GenGoto(r, "gate", to)
      BY <1>4 DEF RunnerGate
    <2> QED BY <1>1, <1>4, <2>1, RunnerGoto, RunnerSets DEF RunnerGate
  <1>5. CASE RunnerConfig(r)
    <2>1. PICK to \in {"inputs", "persist_check"} : GenGoto(r, "config", to)
      BY <1>5 DEF RunnerConfig
    <2> QED BY <1>1, <1>2, <1>5, <2>1, RunnerGoto, RunnerSets DEF RunnerConfig
  <1>6. CASE RunnerInputs(r)
    <2>1. PICK to \in {"wait_check", "kind"} : GenGoto(r, "inputs", to)
      BY <1>6 DEF RunnerInputs
    <2> QED BY <1>1, <1>6, <2>1, RunnerGoto, RunnerSets DEF RunnerInputs
  <1>7. CASE RunnerCheck(r)
    <2>1. PICK from \in GenSteps, to \in {"persist", "wait", "fail", "done"} :
            GenGoto(r, from, to) /\ (to = "persist" => from = "persist_check")
      BY <1>7, RunnerSets DEF RunnerCheck
    <2> QED BY <1>1, <1>7, <2>1, RunnerGoto, RunnerSets DEF RunnerCheck
  <1>8. CASE RunnerWrite(r)
    <2>1. PICK from \in GenSteps, to \in {"reread", "done"}, row \in MediaRows :
            /\ GenGoto(r, from, to) /\ (to = "reread" => from = "persist")
            /\ row.task \in {seen[r].task, None} /\ UpdateMedia(row)
      <3>1. /\ [task |-> seen[r].task, status |-> "other"] \in MediaRows
            /\ [task |-> None, status |-> "other"] \in MediaRows
        BY <1>1 DEF MediaRows
      <3> QED BY <1>1, <1>8, <3>1, RunnerSets DEF RunnerWrite
    <2>2. /\ media' \in MediaRows /\ outside' \in BOOLEAN /\ (outside => outside')
          /\ ~outside' => media' = media
          /\ media'.task \in {media.task, seen[r].task, None}
      BY <1>1, <2>1, UpdateEffect
    <2> QED BY <1>1, <1>8, <2>1, <2>2, RunnerGoto, RunnerSets DEF RunnerWrite
  <1> QED BY <1>3, <1>4, <1>5, <1>6, <1>7, <1>8 DEF RunnerStep

\* A runner's submission: it asks for the mutex once, and what it binds several steps
\* later is noted as written outside the fence.
LEMMA RunnerSubmits ==
    ASSUME Inv, NEW r \in Runners, SubmitStep(r) \/ Interrupted(r)
    PROVE  OutsideEffect
  <1>1. /\ TypeOK /\ media \in MediaRows /\ seen \in [Runners -> MediaRows] /\ outside \in BOOLEAN
        /\ task \in [Submissions -> TaskStatus] /\ r \in Submissions /\ r \in Calls
        /\ Raised(r) = "fail_check"
    BY DEF Inv, TypeOK, Submissions, Calls, Raised
  <1>2. CASE SubmitCheck(r)
    <2>1. PICK to \in {"submit", "fail_check"} : GenGoto(r, "kind", to)
      BY <1>1, <1>2 DEF SubmitCheck
    <2> QED BY <1>1, <1>2, <2>1, RunnerGoto, RunnerSets DEF SubmitCheck
  <1>3. CASE SubmitTask(r)
    <2>1. PICK to \in {"bind", "fail_check"} : GenGoto(r, "submit", to)
      BY <1>1, <1>3 DEF SubmitTask
    <2>2. GenMoved(r, to)
      BY <1>1, <2>1, GenPc, RunnerSets DEF GenGoto
    <2>3. task' \in [Submissions -> TaskStatus] /\ \A m \in Submissions \ {r} : task'[m] = task[m]
      BY <1>1, <1>3 DEF SubmitTask, TaskStatus
    <2>4. TypeOK'
      BY <1>1, <1>3, <2>2, <2>3 DEF SubmitTask, TypeOK, GenMoved, GenLocals
    <2>5. media.task # r
      BY <2>1, RunnerSets DEF Inv, UnsentUnbound, GenGoto
    <2>6. Busy' => Busy
      BY <1>1, <1>3, <2>3, <2>5 DEF SubmitTask, Busy, Active, MediaRows
    <2>7. UnsentUnbound'
      <3>1. \A q \in Runners : gen'[q].pc \in Before => q # r /\ gen[q].pc \in Before
        BY <2>1, <2>2, RunnerSets DEF GenMoved, Calls, Submissions
      <3> QED BY <1>3, <3>1 DEF SubmitTask, Inv, UnsentUnbound
    <2>8. \A g \in Generations : g # r /\ g \in Calls
      BY CallSets
    <2> QED BY <1>3, <2>2, <2>4, <2>6, <2>7, <2>8 DEF SubmitTask, OutsideEffect, GenMoved
  <1>4. CASE BindTask(r)
    <2>1. PICK to \in {"done", "fail_check"} : GenGoto(r, "bind", to)
      BY <1>1, <1>4 DEF BindTask
    <2>2. /\ media' \in MediaRows /\ media'.task \in {media.task, r}
          /\ outside' \in BOOLEAN /\ (outside => outside') /\ (~outside' => media' = media)
      BY <1>1, <1>4 DEF BindTask, MediaRows
    <2> QED BY <1>1, <1>4, <2>1, <2>2, RunnerGoto, RunnerSets DEF BindTask
  <1>5. CASE Interrupted(r)
    <2>1. GenGoto(r, gen[r].pc, "fail_check")
      BY <1>1, <1>5 DEF Interrupted, GenGoto
    <2> QED BY <1>1, <1>5, <2>1, RunnerGoto, RunnerSets DEF Interrupted
  <1> QED BY <1>2, <1>3, <1>4, <1>5 DEF SubmitStep

\* A projection reads or writes.
LEMMA ProjectEffect ==
    ASSUME Inv, NEW m \in Submissions, ProjectRead(m) \/ ProjectWrite(m)
    PROVE  OutsideEffect
  <1>1. /\ TypeOK /\ media \in MediaRows /\ outside \in BOOLEAN
        /\ task \in [Submissions -> TaskStatus] /\ proj \in [Submissions -> TaskStatus]
    BY DEF Inv, TypeOK
  <1>2. CASE ProjectRead(m)
    <2>1. /\ proj' \in [Submissions -> TaskStatus]
          /\ \A q \in Submissions \ {m} : proj'[q] = proj[q]
      BY <1>1, <1>2 DEF ProjectRead
    <2>2. TypeOK'
      BY <1>1, <1>2, <2>1 DEF ProjectRead, TypeOK
    <2>3. UnsentUnbound'
      BY <1>2, <2>1 DEF ProjectRead, Inv, UnsentUnbound, Submissions
    <2> QED BY <1>2, <2>2, <2>3 DEF ProjectRead, OutsideEffect, Busy, Active
  <1>3. CASE ProjectWrite(m)
    <2> DEFINE row == [task |-> m, status |-> IF proj[m] = "running" THEN "running" ELSE "other"]
    <2>1. row \in MediaRows /\ row.task = m /\ UpdateMedia(row)
      BY <1>3 DEF ProjectWrite, MediaRows
    <2> HIDE DEF row
    <2>2. /\ media' \in MediaRows /\ media'.task \in {media.task, m} /\ outside' \in BOOLEAN
          /\ (outside => outside') /\ (~outside' => media' = media)
      BY <1>1, <2>1, UpdateEffect
    <2>3. /\ proj' \in [Submissions -> TaskStatus] /\ proj[m] # "none"
          /\ \A q \in Submissions : proj[q] = "none" => proj'[q] = "none"
      BY <1>1, <1>3 DEF ProjectWrite, TaskStatus
    <2>4. TypeOK'
      BY <1>1, <1>3, <2>2, <2>3 DEF ProjectWrite, TypeOK
    <2>5. UnsentUnbound'
      BY <1>3, <2>2, <2>3 DEF ProjectWrite, Inv, UnsentUnbound, Submissions
    <2> QED BY <1>3, <2>2, <2>4, <2>5 DEF ProjectWrite, OutsideEffect, Busy, Active
  <1> QED BY <1>2, <1>3

\* A step outside the fence keeps the invariant.
LEMMA OutsideKeeps ==
    ASSUME Inv, OutsideEffect
    PROVE  Inv'
  <1>1. FenceOK' /\ DeletionExcludesGenerations' /\ AnotherAlive'
    BY DEF Inv, FenceOK, DeletionExcludesGenerations, AnotherAlive, OutsideEffect
  <1>2. StaysIdle'
    BY DEF Inv, StaysIdle, OutsideEffect
  <1>3. RevisionsOK'
    BY DEF Inv, RevisionsOK, OutsideEffect, Generations
  <1> QED BY <1>1, <1>2, <1>3 DEF Inv, OutsideEffect
\* The calls that take the mutex

\* What a step of such a call does, whatever step it is: it takes the mutex when it is
\* free and gives its own back, writes sessions and the episode only while it holds it,
\* and begins to delete when no generation is registered.
ExclEffect(x) ==
    /\ TypeOK'
    /\ \A y \in Exclusives \ {x} : excl'[y] = excl[y]
    /\ UNCHANGED <<inflight, node, media, task, proj, seen, gen, edit>>
    /\ outside' = outside \/ excl[x].pc = "busy"
    /\ \/ mutex' = mutex /\ (excl'[x].pc \in Holding => excl[x].pc \in Holding)
       \/ mutex = None /\ mutex' = x
       \/ mutex = x /\ excl'[x].pc \notin Holding
    /\ excl[x].pc \notin Holding => UNCHANGED session
    /\ episode' = "active" => episode = "active"
    /\ x \in Deletions /\ excl'[x].pc \in Deleting => excl[x].pc \in Deleting \/ inflight = {}
    /\ x \in Deletions /\ excl'[x].pc \in {"cancel", "close", "delete"} /\ episode' = "active" =>
          excl[x].pc \in {"cancel", "close", "delete"} \/ ~Busy
    /\ x \in Closers /\ excl'[x].pc \in {"cancel", "close"} =>
          \E r \in Sessions \ {excl'[x].row} : session'[r] \in Alive

\* The steps that only go on: no row changes.
LEMMA ExclGotoEffect ==
    ASSUME Inv, NEW x \in Exclusives, NEW from, NEW to \in ExclSteps, ExclGoto(x, from, to),
           UNCHANGED <<inflight, ttl, episode, node, media, task, proj, seen, session, gen, open, edit>>,
           outside' \in BOOLEAN, outside' = outside \/ from = "busy",
           mutex' \in Exclusives \cup {None},
           \/ mutex' = mutex /\ (to \in Holding => from \in Holding)
           \/ mutex = None /\ mutex' = x
           \/ mutex = x /\ to \notin Holding,
           x \in Deletions /\ to \in Deleting => from \in Deleting \/ inflight = {},
           x \in Deletions /\ to \in {"cancel", "close", "delete"} /\ episode = "active" =>
              from \in {"cancel", "close", "delete"} \/ ~Busy,
           x \in Closers /\ to \in {"cancel", "close"} => from \in {"cancel", "close"}
    PROVE  ExclEffect(x)
  <1>1. TypeOK /\ excl[x].pc = from /\ excl' = [excl EXCEPT ![x].pc = to]
    BY DEF Inv, ExclGoto
  <1>2. /\ excl' \in [Exclusives -> ExclLocals]
        /\ excl'[x].pc = to /\ excl'[x].row = excl[x].row
        /\ \A y \in Exclusives \ {x} : excl'[y] = excl[y]
    BY <1>1, ExclPc
  <1>3. TypeOK'
    BY <1>1, <1>2 DEF TypeOK, ExclLocals
  <1>4. x \in Closers /\ excl'[x].pc \in {"cancel", "close"} =>
          \E r \in Sessions \ {excl'[x].row} : session'[r] \in Alive
    BY <1>1, <1>2 DEF Inv, AnotherAlive
  <1> QED BY <1>1, <1>2, <1>3, <1>4 DEF ExclEffect

\* The steps of a call and which of them hold the mutex.
LEMMA ExclSets ==
    /\ Holding \subseteq ExclSteps /\ Deleting \subseteq Holding
    /\ {"wait", "busy", "cancel", "close", "delete", "count", "ensure", "release"} \subseteq Holding
    /\ {"idle", "done", "dead"} \subseteq ExclSteps
    /\ {"idle", "done", "dead"} \cap Holding = {}
    /\ {"wait", "count", "ensure", "release"} \cap Deleting = {}
    /\ {"busy", "cancel", "close", "delete"} \subseteq Deleting
  BY DEF Holding, Deleting, ExclSteps

\* The mutex is taken, given back, or left behind by a process that dies.
LEMMA MutexEffect ==
    ASSUME Inv, NEW x \in Exclusives, Acquire(x) \/ Release(x) \/ ExclusiveDies(x)
    PROVE  ExclEffect(x)
  <1>1. /\ mutex \in Exclusives \cup {None} /\ (excl[x].pc \in Holding => mutex = x)
        /\ outside \in BOOLEAN
    BY DEF Inv, TypeOK, FenceOK
  <1>2. CASE Acquire(x)
    <2>1. PICK to \in {"done", "wait", "count"} :
            /\ ExclGoto(x, "idle", to)
            /\ mutex # None => to = "done" /\ mutex' = mutex
            /\ mutex = None => mutex' = x
      BY <1>2 DEF Acquire
    <2>2. mutex' \in Exclusives \cup {None}
      BY <1>1, <2>1
    <2> QED BY <1>1, <1>2, <2>1, <2>2, ExclGotoEffect, ExclSets DEF Acquire
  <1>3. CASE Release(x)
    <2>1. ExclGoto(x, "release", "done") /\ mutex' = None /\ mutex = x
      BY <1>1, <1>3, ExclSets DEF Release, ExclGoto
    <2> QED BY <1>1, <1>3, <2>1, ExclGotoEffect, ExclSets DEF Release
  <1>4. CASE ExclusiveDies(x)
    <2>1. ExclGoto(x, excl[x].pc, "dead")
      BY <1>4 DEF ExclusiveDies, ExclGoto
    <2> QED BY <1>1, <1>4, <2>1, ExclGotoEffect, ExclSets DEF ExclusiveDies
  <1> QED BY <1>2, <1>3, <1>4

\* delete_episode.
LEMMA DeletionEffect ==
    ASSUME Inv, NEW d \in Deletions, DeletionStep(d)
    PROVE  ExclEffect(d)
  <1>1. /\ d \in Exclusives /\ d \notin Closers /\ TypeOK
        /\ mutex \in Exclusives \cup {None} /\ (excl[d].pc \in Holding => mutex = d)
        /\ outside \in BOOLEAN
    BY NoneAssumption DEF Inv, TypeOK, FenceOK, Exclusives
  <1>2. CASE WaitIdle(d)
    <2>1. PICK to \in {"busy", "release"} :
            ExclGoto(d, "wait", to) /\ (to = "busy" => inflight = {})
      BY <1>2 DEF WaitIdle
    <2> QED BY <1>1, <1>2, <2>1, ExclGotoEffect, ExclSets DEF WaitIdle
  <1>3. CASE RaiseIfBusy(d)
    <2>1. PICK to \in {"release", "cancel"} :
            ExclGoto(d, "busy", to) /\ (to = "cancel" /\ episode = "active" => ~Busy)
      BY <1>3 DEF RaiseIfBusy
    <2> QED BY <1>1, <1>3, <2>1, ExclGotoEffect, ExclSets DEF RaiseIfBusy
  <1>4. CASE CancelTurns(d)
    <2>1. PICK to \in {"close", "release"} : ExclGoto(d, "cancel", to)
      BY <1>4 DEF CancelTurns
    <2> QED BY <1>1, <1>4, <2>1, ExclGotoEffect, ExclSets DEF CancelTurns
  <1>5. CASE SoftCloseAll(d) \/ DeleteEpisode(d)
    <2>1. PICK from \in {"close", "delete"}, to \in {"delete", "release"} : ExclGoto(d, from, to)
      BY <1>5 DEF SoftCloseAll, DeleteEpisode
    <2>2. /\ excl' \in [Exclusives -> ExclLocals] /\ excl[d].pc = from
          /\ excl'[d].pc = to
          /\ \A y \in Exclusives \ {d} : excl'[y] = excl[y]
      BY <1>1, <2>1, ExclPc, ExclSets DEF ExclGoto
    <2>3. session' \in [Sessions -> Rows] /\ episode' \in {"active", "deleted"}
          /\ (episode' = "active" => episode = "active")
      BY <1>1, <1>5 DEF SoftCloseAll, DeleteEpisode, TypeOK, Rows
    <2>4. UNCHANGED <<mutex, inflight, ttl, node, mediaVars, gen, open, edit>>
      BY <1>5 DEF SoftCloseAll, DeleteEpisode
    <2>5. TypeOK'
      BY <1>1, <2>2, <2>3, <2>4 DEF TypeOK, ExclLocals
    <2> QED BY <1>1, <2>2, <2>3, <2>4, <2>5, ExclSets DEF ExclEffect
  <1> QED BY <1>2, <1>3, <1>4, <1>5 DEF DeletionStep

\* A new session takes an id that no row has: the sessions that are alive stay so.
LEMMA InsertAdds ==
    ASSUME TypeOK, NEW kind \in Alive, Insert(kind)
    PROVE  /\ session' \in [Sessions -> Rows]
           /\ \A s \in Sessions : session[s] \in Alive => session'[s] \in Alive
  <1>1. (CHOOSE s \in Free : TRUE) \in Free
    BY DEF Insert
  <1>2. PICK s \in Free : session' = [session EXCEPT ![s] = kind]
    BY <1>1 DEF Insert
  <1> QED BY <1>2 DEF TypeOK, Free, Alive, Rows

\* The same of ensure_default_session.
LEMMA EnsureAdds ==
    ASSUME TypeOK, EnsureDefault
    PROVE  /\ session' \in [Sessions -> Rows]
           /\ \A s \in Sessions : session[s] \in Alive => session'[s] \in Alive
  <1>1. CASE UNCHANGED session
    BY <1>1 DEF TypeOK
  <1>2. CASE Insert("default")
    BY <1>2, InsertAdds DEF Alive
  <1> QED BY <1>1, <1>2 DEF EnsureDefault

\* delete_session: what it has counted still holds when it closes the row.
LEMMA CloserEffect ==
    ASSUME Inv, NEW c \in Closers, CloserStep(c)
    PROVE  ExclEffect(c)
  <1>1. /\ c \in Exclusives /\ c \notin Deletions /\ TypeOK
        /\ mutex \in Exclusives \cup {None} /\ (excl[c].pc \in Holding => mutex = c)
        /\ outside \in BOOLEAN
        /\ excl \in [Exclusives -> ExclLocals] /\ session \in [Sessions -> Rows]
    BY NoneAssumption DEF Inv, TypeOK, FenceOK, Exclusives, ExclLocals
  <1>2. ASSUME NEW s \in Sessions, CountSessions(c, s)
        PROVE  ExclEffect(c)
    <2>1. /\ excl[c].pc = "count"
          /\ UNCHANGED <<mutex, inflight, ttl, episode, node, mediaVars, session, gen, open, edit>>
      BY <1>2 DEF CountSessions
    <2>2. CASE session[s] \in Alive /\ \E r \in Sessions \ {s} : session[r] \in Alive
      <3>1. excl' = [excl EXCEPT ![c] = [pc |-> "cancel", row |-> s, was |-> session[s] = "default"]]
        BY <1>2, <2>2 DEF CountSessions
      <3>2. [pc |-> "cancel", row |-> s, was |-> session[s] = "default"] \in ExclLocals
        BY DEF ExclLocals, ExclSteps
      <3>3. /\ excl' \in [Exclusives -> ExclLocals]
            /\ \A y \in Exclusives \ {c} : excl'[y] = excl[y]
        BY <1>1, <3>1, <3>2
      <3>4. excl'[c].pc = "cancel" /\ excl'[c].row = s
        BY <1>1, <3>1
      <3>5. TypeOK'
        BY <1>1, <2>1, <3>3 DEF TypeOK, ExclLocals
      <3> QED BY <1>1, <2>1, <2>2, <3>3, <3>4, <3>5, ExclSets DEF ExclEffect
    <2>3. CASE ~(session[s] \in Alive /\ \E r \in Sessions \ {s} : session[r] \in Alive)
      <3>1. ExclGoto(c, "count", "release")
        BY <1>1, <1>2, <2>3 DEF CountSessions, ExclGoto
      <3> QED BY <1>1, <2>1, <3>1, ExclGotoEffect, ExclSets
    <2> QED BY <2>2, <2>3
  <1>3. CASE CancelTurns(c)
    <2>1. PICK to \in {"close", "release"} : ExclGoto(c, "cancel", to)
      BY <1>3 DEF CancelTurns
    <2> QED BY <1>1, <1>3, <2>1, ExclGotoEffect, ExclSets DEF CancelTurns
  <1>4. CASE SoftCloseSession(c) \/ EnsureAfterClose(c)
    <2>1. PICK from \in {"close", "ensure"}, to \in {"ensure", "release"} : ExclGoto(c, from, to)
      BY <1>4 DEF SoftCloseSession, EnsureAfterClose
    <2>2. /\ excl' \in [Exclusives -> ExclLocals] /\ excl[c].pc = from
          /\ excl'[c].pc = to
          /\ \A y \in Exclusives \ {c} : excl'[y] = excl[y]
      BY <1>1, <2>1, ExclPc, ExclSets DEF ExclGoto
    <2>3. session' \in [Sessions -> Rows]
      BY <1>1, <1>4, EnsureAdds DEF SoftCloseSession, EnsureAfterClose, Rows
    <2>4. UNCHANGED <<mutex, inflight, ttl, episode, node, mediaVars, gen, open, edit>>
      BY <1>4 DEF SoftCloseSession, EnsureAfterClose
    <2>5. TypeOK'
      BY <1>1, <2>2, <2>3, <2>4 DEF TypeOK, ExclLocals
    <2> QED BY <1>1, <2>2, <2>4, <2>5, ExclSets DEF ExclEffect
  <1> QED BY <1>2, <1>3, <1>4 DEF CloserStep

\* A call that takes the mutex keeps the invariant.
LEMMA ExclKeeps ==
    ASSUME Inv, NEW x \in Exclusives, ExclEffect(x)
    PROVE  Inv'
  <1>1. \A y \in Exclusives : excl[y].pc \in Holding => mutex = y /\ y # None
    BY NoneAssumption DEF Inv, FenceOK, Exclusives
  <1>2. FenceOK'
    BY <1>1 DEF Inv, FenceOK, ExclEffect
  <1>3. DeletionExcludesGenerations'
    <2> SUFFICES ASSUME NEW d \in Deletions, NEW g \in Generations, excl'[d].pc \in Deleting
                 PROVE  gen[g].pc \notin Body
      BY DEF DeletionExcludesGenerations, ExclEffect
    <2>1. CASE excl[d].pc \in Deleting
      BY <2>1 DEF Inv, DeletionExcludesGenerations
    <2>2. CASE inflight = {}
      BY <2>2, StepSets DEF Inv, FenceOK
    <2> QED BY <2>1, <2>2 DEF ExclEffect, Exclusives
  <1>4. StaysIdle'
    <2> SUFFICES ASSUME NEW d \in Deletions, excl'[d].pc \in {"cancel", "close", "delete"},
                        episode' = "active", ~outside'
                 PROVE  ~Busy
      BY DEF StaysIdle, ExclEffect, Busy, Active
    <2>1. CASE d = x
      BY <2>1 DEF Inv, StaysIdle, ExclEffect
    <2>2. CASE d # x
      <3>1. excl'[d] = excl[d] /\ excl[d].pc \in Holding
        BY <2>2, ExclSets DEF ExclEffect, Exclusives
      <3>2. excl[x].pc \notin Holding
        BY <1>1, <2>2, <3>1 DEF Exclusives
      <3> QED BY <3>1, <3>2, ExclSets DEF Inv, StaysIdle, ExclEffect
    <2> QED BY <2>1, <2>2
  <1>5. AnotherAlive'
    <2> SUFFICES ASSUME NEW c \in Closers, excl'[c].pc \in {"cancel", "close"}
                 PROVE  \E r \in Sessions \ {excl'[c].row} : session'[r] \in Alive
      BY DEF AnotherAlive
    <2>1. CASE c = x
      BY <2>1 DEF ExclEffect
    <2>2. CASE c # x
      <3>1. excl'[c] = excl[c] /\ excl[c].pc \in Holding
        BY <2>2, ExclSets DEF ExclEffect, Exclusives
      <3>2. excl[x].pc \notin Holding
        BY <1>1, <2>2, <3>1 DEF Exclusives
      <3> QED BY <3>1, <3>2 DEF ExclEffect, Inv, AnotherAlive
    <2> QED BY <2>1, <2>2
  <1>6. RevisionsOK'
    BY DEF Inv, RevisionsOK, ExclEffect
  <1>7. UnsentUnbound'
    BY DEF Inv, UnsentUnbound, ExclEffect
  <1> QED BY <1>2, <1>3, <1>4, <1>5, <1>6, <1>7 DEF Inv, ExclEffect
-----------------------------------------------------------------------------
\* The other calls, the gateway and the clock

\* A session is opened, with or without the mutex.
LEMMA OpenKeeps ==
    ASSUME Inv, NEW o \in Openers, OpenCheck(o) \/ OpenSession(o)
    PROVE  Inv'
  <1>1. TypeOK /\ session \in [Sessions -> Rows] /\ open \in [Openers -> {"idle", "insert", "done"}]
    BY DEF Inv, TypeOK
  <1>2. UNCHANGED <<mutex, inflight, ttl, episode, node, mediaVars, gen, excl, edit>>
    BY DEF OpenCheck, OpenSession
  <1>3. open' \in [Openers -> {"idle", "insert", "done"}]
    BY <1>1 DEF OpenCheck, OpenSession
  <1>4. /\ session' \in [Sessions -> Rows]
        /\ \A s \in Sessions : session[s] \in Alive => session'[s] \in Alive
    <2>1. CASE OpenCheck(o)
      BY <1>1, <2>1 DEF OpenCheck
    <2>2. CASE OpenSession(o)
      BY <1>1, <2>2, EnsureAdds, InsertAdds DEF OpenSession, Alive
    <2> QED BY <2>1, <2>2
  <1>5. TypeOK'
    BY <1>1, <1>2, <1>3, <1>4 DEF TypeOK
  <1>6. AnotherAlive'
    BY <1>2, <1>4 DEF Inv, AnotherAlive
  <1> QED BY <1>2, <1>5, <1>6 DEF Inv, FenceOK, DeletionExcludesGenerations, StaysIdle, Busy,
             Active, RevisionsOK, UnsentUnbound

\* A patch reads the node, and writes it if its revision is the one read.
LEMMA EditKeeps ==
    ASSUME Inv, NEW e \in Edits, EditRead(e) \/ EditCheck(e) \/ ApplyPatch(e)
    PROVE  Inv' /\ (node' = node \/ (node'.rev = node.rev + 1 /\ node'.status = node.status))
  <1>1. /\ TypeOK /\ edit \in [Edits -> EditLocals] /\ node \in Nodes /\ node.rev \in Nat
        /\ node.content \in Writers \cup {None}
    BY DEF Inv, TypeOK, EditLocals, Nodes
  <1>2. UNCHANGED <<mutex, inflight, ttl, episode, mediaVars, session, gen, excl, open>>
    BY DEF EditRead, EditCheck, ApplyPatch
  <1>3. /\ edit' \in [Edits -> EditLocals]
        /\ \A b \in Edits \ {e} : edit'[b] = edit[b]
        /\ edit'[e].pc \in {"check", "write"} =>
              /\ UNCHANGED node
              /\ \/ edit[e].pc \in {"check", "write"} /\ edit'[e].rev = edit[e].rev
                    /\ edit'[e].seen = edit[e].seen
                 \/ edit'[e].rev = node.rev /\ edit'[e].seen = node.content
    <2>1. CASE EditRead(e)
      BY <1>1, <2>1 DEF EditRead, EditLocals
    <2>2. CASE EditCheck(e)
      BY <1>1, <2>2 DEF EditCheck, EditLocals
    <2>3. CASE ApplyPatch(e)
      BY <1>1, <2>3 DEF ApplyPatch, EditLocals
    <2> QED BY <2>1, <2>2, <2>3
  <1>4. /\ node' \in Nodes
        /\ node' = node \/ (node'.rev = node.rev + 1 /\ node'.status = node.status)
    <2>1. CASE UNCHANGED node
      BY <1>1, <2>1
    <2>2. CASE ApplyPatch(e) /\ ~UNCHANGED node
      <3>1. e \in Writers \cup {None} /\ node.status \in {"idle", "running", "success", "failed"}
        BY <1>1 DEF Writers, Nodes
      <3>2. \/ node' = [node EXCEPT !.content = e, !.rev = node.rev + 1]
            \/ node' = [node EXCEPT !.gone = TRUE, !.rev = node.rev + 1]
        BY <2>2 DEF ApplyPatch
      <3>3. node' \in Nodes /\ node'.rev = node.rev + 1
        BY <1>1, <3>1, <3>2, NodeWritten
      <3>4. node'.status = node.status
        BY <1>1, <3>2 DEF Nodes
      <3> QED BY <3>3, <3>4
    <2> QED BY <2>1, <2>2 DEF EditRead, EditCheck
  <1>5. TypeOK'
    BY <1>1, <1>2, <1>3, <1>4 DEF TypeOK, EditLocals
  <1>6. StaysIdle'
    BY <1>2, <1>4 DEF Inv, StaysIdle, Busy, Active
  <1>7. RevisionsOK'
    <2>1. /\ node'.rev \in Nat
          /\ \A t \in Texts : gen[t].rev \in Nat
          /\ \A b \in Edits : edit[b].rev \in Nat
      BY <1>1, <1>4, CallSets DEF TypeOK, Nodes
    <2>2. ASSUME NEW t \in Texts, gen'[t].pc \in Knows
          PROVE  gen'[t].rev <= node'.rev /\ (gen'[t].rev = node'.rev => gen'[t].seen = node'.content)
      BY <1>1, <1>2, <1>4, <2>1, <2>2 DEF Inv, RevisionsOK
    <2>3. ASSUME NEW b \in Edits, edit'[b].pc \in {"check", "write"}
          PROVE  edit'[b].rev <= node'.rev /\ (edit'[b].rev = node'.rev => edit'[b].seen = node'.content)
      <3>1. CASE b = e
        BY <1>1, <1>3, <2>3, <3>1 DEF Inv, RevisionsOK
      <3>2. CASE b # e
        <4>1. edit'[b] = edit[b]
          BY <1>3, <3>2
        <4> QED BY <1>1, <1>4, <2>1, <2>3, <4>1 DEF Inv, RevisionsOK
      <3> QED BY <3>1, <3>2
    <2> QED BY <2>2, <2>3 DEF RevisionsOK
  <1> QED BY <1>2, <1>4, <1>5, <1>6, <1>7 DEF Inv, FenceOK, DeletionExcludesGenerations, AnotherAlive,
             UnsentUnbound

\* A task ends, or a key of a dead process expires.
LEMMA EnvironmentKeeps ==
    ASSUME Inv, (\E m \in Submissions : TaskEnds(m)) \/ MutexExpires \/ InflightExpires
    PROVE  Inv'
  <1>1. ASSUME NEW m \in Submissions, TaskEnds(m)
        PROVE  Inv'
    <2>1. /\ UNCHANGED <<mutex, inflight, ttl, episode, node, media, proj, seen, outside, session,
                        gen, excl, open, edit>>
          /\ task' = [task EXCEPT ![m] = "ended"]
      BY <1>1 DEF TaskEnds
    <2>2. TypeOK' /\ (Busy' => Busy)
      BY <2>1 DEF Inv, TypeOK, TaskStatus, Busy, Active
    <2> QED BY <2>1, <2>2 DEF Inv, FenceOK, DeletionExcludesGenerations, StaysIdle,
               AnotherAlive, RevisionsOK, UnsentUnbound
  <1>2. CASE MutexExpires
    <2>1. /\ UNCHANGED <<inflight, ttl, episode, node, mediaVars, session, gen, excl, open, edit>>
          /\ mutex' = None /\ excl[mutex].pc = "dead"
      BY <1>2 DEF MutexExpires
    <2>2. \A x \in Exclusives : excl[x].pc \notin Holding
      BY <2>1, ExclSets DEF Inv, FenceOK
    <2>3. TypeOK'
      BY <2>1 DEF Inv, TypeOK
    <2> QED BY <2>1, <2>2, <2>3 DEF Inv, FenceOK, DeletionExcludesGenerations, StaysIdle, Busy,
               Active, AnotherAlive, RevisionsOK, UnsentUnbound
  <1>3. CASE InflightExpires
    <2>1. /\ UNCHANGED <<mutex, episode, node, mediaVars, session, gen, excl, open, edit>>
          /\ inflight' = {} /\ ttl' = FALSE /\ \A g \in inflight : gen[g].pc = "dead"
      BY <1>3 DEF InflightExpires
    <2>2. \A g \in Generations : gen[g].pc \notin Registered
      BY <2>1, StepSets DEF Inv, FenceOK
    <2>3. TypeOK'
      BY <2>1 DEF Inv, TypeOK
    <2> QED BY <2>1, <2>2, <2>3 DEF Inv, FenceOK, DeletionExcludesGenerations, StaysIdle, Busy,
               Active, AnotherAlive, RevisionsOK, UnsentUnbound
  <1> QED BY <1>1, <1>2, <1>3

-----------------------------------------------------------------------------
\* Theorems

\* Every step of a generation, of a call that takes the mutex, or outside the fence has
\* its effect.
LEMMA StepEffects ==
    ASSUME Inv
    PROVE  /\ \A g \in Generations : GenStep(g) \/ Interrupted(g) \/ GenerationDies(g) => GenEffect(g)
           /\ \A r \in Runners : RunnerStep(r) \/ SubmitStep(r) \/ Interrupted(r) => OutsideEffect
           /\ \A m \in Submissions : ProjectRead(m) \/ ProjectWrite(m) => OutsideEffect
           /\ \A x \in Exclusives : ExclStep(x) \/ ExclusiveDies(x) => ExclEffect(x)
  BY RegisterEffect, TextEffect, MediaEffect, MutexEffect, DeletionEffect, CloserEffect,
     RunnerEffect, RunnerSubmits, ProjectEffect
     DEF GenStep, ExclStep


\* Only a call that takes the mutex deletes the episode, and only such a call or one that
\* opens a session writes sessions.
LEMMA NotExclusive ==
    ASSUME Inv, Next, \A x \in Exclusives : ~ExclStep(x) /\ ~ExclusiveDies(x)
    PROVE  UNCHANGED <<episode, excl>> /\ (session' = session \/ \E o \in Openers : OpenSession(o))
  <1>1. ASSUME NEW g \in Generations, GenStep(g) \/ Interrupted(g) \/ GenerationDies(g)
        PROVE  UNCHANGED <<episode, excl, session>>
    BY <1>1, StepEffects DEF GenEffect
  <1>2. ASSUME NEW r \in Runners, RunnerStep(r) \/ SubmitStep(r) \/ Interrupted(r)
        PROVE  UNCHANGED <<episode, excl, session>>
    BY <1>2, StepEffects DEF OutsideEffect
  <1>3. ASSUME NEW m \in Submissions, TaskEnds(m) \/ ProjectRead(m) \/ ProjectWrite(m)
        PROVE  UNCHANGED <<episode, excl, session>>
    BY <1>3, StepEffects DEF OutsideEffect, TaskEnds
  <1>4. ASSUME NEW o \in Openers, OpenCheck(o) \/ OpenSession(o)
        PROVE  UNCHANGED <<episode, excl>> /\ (session' = session \/ OpenSession(o))
    BY <1>4 DEF OpenCheck, OpenSession
  <1>5. ASSUME NEW e \in Edits, EditRead(e) \/ EditCheck(e) \/ ApplyPatch(e)
        PROVE  UNCHANGED <<episode, excl, session>>
    BY <1>5 DEF EditRead, EditCheck, ApplyPatch
  <1>6. CASE MutexExpires \/ InflightExpires
    BY <1>6 DEF MutexExpires, InflightExpires
  <1> QED BY <1>1, <1>2, <1>3, <1>4, <1>5, <1>6, CallSets DEF Next

\* The inductive invariant.
LEMMA Invariance == Spec => []Inv
  <1>1. Init => Inv
    <2> SUFFICES ASSUME Init
                 PROVE  Inv
      OBVIOUS
    <2>1. node \in Nodes
      BY DEF Init, Nodes
    <2>2. gen \in [Calls -> GenLocals]
      BY DEF Init, GenLocals, GenSteps
    <2>3. excl \in [Exclusives -> ExclLocals]
      BY SessionsAssumption DEF Init, ExclLocals, ExclSteps
    <2>4. edit \in [Edits -> EditLocals]
      BY DEF Init, EditLocals
    <2>5. session \in [Sessions -> Rows]
      BY DEF Init, Rows
    <2>8. media \in MediaRows /\ media.task = None /\ seen = [r \in Runners |-> media]
      BY DEF Init, MediaRows
    <2>6. TypeOK
      BY <2>1, <2>2, <2>3, <2>4, <2>5, <2>8 DEF Init, TypeOK, GenLocals, ExclLocals, EditLocals,
         TaskStatus
    <2>9. UnsentUnbound
      BY <2>8, NoneAssumption, ZenonT(60) DEF Init, UnsentUnbound, Submissions
    <2>7. /\ \A g \in Generations : gen[g].pc = "idle"
          /\ \A x \in Exclusives : excl[x].pc = "idle"
          /\ \A e \in Edits : edit[e].pc = "idle"
      BY CallSets DEF Init
    <2> QED BY <2>6, <2>7, <2>9 DEF Inv, FenceOK, Holding, Registered, Body, DeletionExcludesGenerations,
               Deleting, StaysIdle, AnotherAlive, RevisionsOK, Knows, Exclusives, Generations
  <1>2. Inv /\ [Next]_vars => Inv'
    <2> SUFFICES ASSUME Inv, [Next]_vars
                 PROVE  Inv'
      OBVIOUS
    <2>1. CASE UNCHANGED vars
      BY <2>1 DEF vars, Inv, TypeOK, FenceOK, DeletionExcludesGenerations, StaysIdle, Busy,
         Active, AnotherAlive, RevisionsOK, UnsentUnbound
    <2>2. CASE Next
      BY <2>2, StepEffects, CallSets, GenKeeps, OutsideKeeps, ExclKeeps, OpenKeeps, EditKeeps,
         EnvironmentKeeps DEF Next
    <2> QED BY <2>1, <2>2
  <1> QED BY <1>1, <1>2, PTL DEF Spec

\* The keys, the rows and the locals of all calls keep their types.
THEOREM TypeCorrect == Spec => []TypeOK
  BY Invariance, PTL DEF Inv

\* While a deletion that has passed its wait goes on, no generation is inside the fence,
\* whatever processes die and whatever keys expire.
THEOREM DeletionsRunAlone == Spec => []DeletionExcludesGenerations
  BY Invariance, PTL DEF Inv

\* The episode is deleted only while no node is running and no bound task in progress,
\* although the test was made several steps before, however generations, edits and calls
\* of sessions run meanwhile -- unless a runner or a projection has written the media node
\* in between (see NeverDeletesInFlight).
THEOREM DeletionsFindItIdle == Spec => DeletesOnlyIdle
  <1>1. Inv /\ [Next]_vars => [episode' # episode /\ ~outside => ~Busy]_vars
    <2> SUFFICES ASSUME Inv, Next, episode' # episode, ~outside
                 PROVE  ~Busy
      BY DEF vars
    <2>2. PICK d \in Deletions : DeleteEpisode(d) /\ episode = "active"
      <3>1. PICK x \in Exclusives : ExclStep(x) \/ ExclusiveDies(x)
        BY NotExclusive
      <3>2. x \in Deletions /\ DeletionStep(x)
        BY <3>1 DEF ExclStep, ExclusiveDies, Acquire, Release, CloserStep, CountSessions,
           CancelTurns, SoftCloseSession, EnsureAfterClose
      <3>3. DeleteEpisode(x) /\ episode = "active"
        BY <3>2 DEF DeletionStep, WaitIdle, RaiseIfBusy, CancelTurns, SoftCloseAll, DeleteEpisode
      <3> QED BY <3>2, <3>3
    <2> QED BY <2>2 DEF Inv, StaysIdle, DeleteEpisode, ExclGoto
  <1> QED BY <1>1, Invariance, PTL DEF Spec, DeletesOnlyIdle

\* However the calls that close and open sessions overlap, only a deletion of the episode
\* closes the last session.
THEOREM LastSessionIsKept == Spec => LastSessionKept
  <1> DEFINE Kept == (\E s \in Sessions : session[s] \in Alive)
                        /\ (\A s \in Sessions : session'[s] \notin Alive)
                     => \E d \in Deletions : excl[d].pc \in {"close", "delete"}
  <1>1. Inv /\ [Next]_vars => [Kept]_vars
    <2> SUFFICES ASSUME Inv, Next, NEW s \in Sessions, session[s] \in Alive,
                        \A r \in Sessions : session'[r] \notin Alive
                 PROVE  \E d \in Deletions : excl[d].pc \in {"close", "delete"}
      BY DEF vars
    <2>1. TypeOK /\ session' # session
      BY DEF Inv
    <2>2. \A o \in Openers : ~OpenSession(o)
      BY <2>1, EnsureAdds, InsertAdds DEF OpenSession, Alive
    <2>3. PICK x \in Exclusives : ExclStep(x)
      BY <2>1, <2>2, NotExclusive DEF ExclusiveDies
    <2>4. ASSUME x \in Closers, CloserStep(x)
          PROVE  FALSE
      <3>1. CASE SoftCloseSession(x)
        <4>1. PICK r \in Sessions \ {excl[x].row} : session[r] \in Alive
          BY <2>4, <3>1 DEF Inv, AnotherAlive, SoftCloseSession, ExclGoto
        <4>2. session'[r] = session[r]
          BY <2>1, <3>1, <4>1 DEF SoftCloseSession, TypeOK
        <4> QED BY <4>1, <4>2
      <3>2. CASE EnsureAfterClose(x)
        BY <2>1, <3>2, EnsureAdds DEF EnsureAfterClose
      <3> QED BY <2>1, <2>4, <3>1, <3>2 DEF CloserStep, CountSessions, CancelTurns
    <2>5. x \in Deletions /\ (SoftCloseAll(x) \/ DeleteEpisode(x))
      BY <2>1, <2>3, <2>4 DEF ExclStep, Acquire, Release, DeletionStep, WaitIdle, RaiseIfBusy, CancelTurns
    <2> QED BY <2>5 DEF SoftCloseAll, DeleteEpisode, ExclGoto
  <1> QED BY <1>1, Invariance, PTL DEF Spec, LastSessionKept

\* A result or an edit replaces only the content that its writer knew of: the revision
\* that it compares stands for the content it has seen.
THEOREM NoUpdateIsLost == Spec => NoLostUpdate
  <1> DEFINE Known == node'.content # node.content => Seen(node'.content) = node.content
  <1>1. Inv /\ [Next]_vars => [Known]_vars
    <2> SUFFICES ASSUME Inv, Next, node'.content # node.content
                 PROVE  Seen(node'.content) = node.content
      BY DEF vars
    <2>1. node \in Nodes
      BY DEF Inv, TypeOK
    <2>2. ASSUME NEW t \in Texts, TextStep(t)
          PROVE  Seen(node'.content) = node.content
      <3>1. WriteOutput(t) /\ SameRevision(gen[t].rev)
        BY <2>1, <2>2 DEF TextStep, ClaimCheck, ClaimNode, WriteCheck, WriteModel, Gateway,
           WriteOutput, Nodes
      <3>2. node'.content = t
        BY <2>1, <3>1 DEF WriteOutput, Nodes
      <3>3. gen[t].seen = node.content
        BY <3>1 DEF WriteOutput, GenGoto, SameRevision, Inv, RevisionsOK, Knows
      <3> QED BY <3>2, <3>3 DEF Seen
    <2>3. ASSUME NEW e \in Edits, EditRead(e) \/ EditCheck(e) \/ ApplyPatch(e)
          PROVE  Seen(node'.content) = node.content
      <3>1. ApplyPatch(e) /\ SameRevision(edit[e].rev)
        BY <2>3 DEF EditRead, EditCheck, ApplyPatch
      <3>2. node'.content = e
        BY <2>1, <3>1 DEF ApplyPatch, Nodes
      <3>3. edit[e].seen = node.content
        BY <3>1 DEF ApplyPatch, SameRevision, Inv, RevisionsOK
      <3>4. e \notin Texts
        BY NoneAssumption
      <3> QED BY <3>2, <3>3, <3>4 DEF Seen
    <2>4. \A x \in Exclusives : ExclStep(x) \/ ExclusiveDies(x) => UNCHANGED node
      BY StepEffects DEF ExclEffect
    <2>5. \A g \in Calls : Register(g) \/ Interrupted(g) \/ GenerationDies(g) => UNCHANGED node
      BY DEF Register, EnterCheck, EnterAdd, EnterExpire, EnterRecheck, EnterFails,
         LeaveGeneration, Interrupted, GenerationDies
    <2>6. /\ \A m \in Submissions : SubmitStep(m) => UNCHANGED node
          /\ \A r \in Runners : RunnerStep(r) => UNCHANGED node
      BY DEF SubmitStep, SubmitCheck, SubmitTask, BindTask, RunnerStep, RunnerRead, RunnerGate,
         RunnerConfig, RunnerInputs, RunnerCheck, RunnerWrite
    <2>7. \A m \in Submissions : TaskEnds(m) \/ ProjectRead(m) \/ ProjectWrite(m) => UNCHANGED node
      BY DEF TaskEnds, ProjectRead, ProjectWrite
    <2> QED BY <2>2, <2>3, <2>4, <2>5, <2>6, <2>7, CallSets DEF Next, GenStep, Submissions,
               OpenCheck, OpenSession, MutexExpires, InflightExpires
  <1> QED BY <1>1, Invariance, PTL DEF Spec, NoLostUpdate

-----------------------------------------------------------------------------
\* When a deletion is refused

\* A text generation ends without a result of any kind and leaves its node running.
GivesUpClaim ==
    \E t \in Texts : gen[t].pc \in Knows /\ gen'[t].pc = "leave" /\ node'.status = "running"

\* A running node has a text generation that has claimed it, or one that died.
RunningIsWorkedOn ==
    node.status = "running" => \E t \in Texts : gen[t].pc \in Knows \cup {"dead"}

\* A text generation that does not give up keeps its claim or ends it.
LEMMA TextKeepsClaim ==
    ASSUME Inv, NEW t \in Texts, TextStep(t), ~GivesUpClaim, node'.status = "running"
    PROVE  gen'[t].pc \in Knows \/ (gen[t].pc \notin Knows /\ node' = node)
  <1>1. t \in Calls /\ gen \in [Calls -> GenLocals] /\ gen[t] \in GenLocals
        /\ node \in Nodes
    BY CallSets DEF Inv, TypeOK, GenLocals
  <1>2. CASE ClaimCheck(t) \/ WriteCheck(t)
    <2>1. PICK to \in {"claim", "leave", "model", "out"} : gen' = [gen EXCEPT ![t].pc = to]
      BY <1>2 DEF ClaimCheck, WriteCheck, GenGoto
    <2>2. gen'[t].pc = to
      BY <1>1, <2>1 DEF GenLocals
    <2>3. gen[t].pc \in {"kind", "model_check", "out_check"} /\ node' = node
      BY <1>2 DEF ClaimCheck, WriteCheck, GenGoto
    <2>4. CASE gen[t].pc = "kind"
      BY <2>3, <2>4 DEF Knows
    <2>5. CASE gen[t].pc # "kind"
      <3>1. to \in {"model", "out", "leave"}
        BY <1>1, <1>2, <2>2, <2>5 DEF ClaimCheck, WriteCheck, GenGoto, GenLocals
      <3>2. gen[t].pc \in Knows
        BY <2>3, <2>5 DEF Knows
      <3> QED  BY <2>2, <3>1, <3>2 DEF GivesUpClaim, Knows
    <2> QED  BY <2>4, <2>5
  <1>3. CASE ClaimNode(t)
    <2>1. CASE NodeFound
      <3>1. gen' = [gen EXCEPT ![t].pc = "model_check", ![t].rev = node.rev + 1, ![t].seen = node.content]
        BY <1>3, <2>1 DEF ClaimNode
      <3>2. gen'[t].pc = "model_check"
        BY <1>1, <3>1 DEF GenLocals
      <3> QED  BY <3>2 DEF Knows
    <2>2. CASE ~NodeFound
      BY <1>3, <2>2 DEF ClaimNode, Knows
    <2> QED  BY <2>1, <2>2
  <1>4. CASE WriteModel(t)
    <2>1. gen[t].pc \in Knows
      BY <1>4 DEF WriteModel, Knows
    <2>2. gen'[t].pc \in {"gateway", "leave"}
      <3>1. CASE SameRevision(gen[t].rev)
        BY <1>1, <1>4, <3>1 DEF WriteModel, GenLocals
      <3>2. CASE ~SameRevision(gen[t].rev)
        BY <1>1, <1>4, <3>2 DEF WriteModel, GenLocals
      <3> QED  BY <3>1, <3>2
    <2> QED  BY <2>1, <2>2 DEF GivesUpClaim, Knows
  <1>5. CASE Gateway(t)
    <2>1. PICK ok \in BOOLEAN : gen' = [gen EXCEPT ![t].pc = "out_check", ![t].ok = ok]
      BY <1>5 DEF Gateway
    <2>2. gen'[t].pc = "out_check"
      BY <1>1, <2>1 DEF GenLocals
    <2> QED  BY <2>2 DEF Knows
  <1>6. CASE WriteOutput(t)
    <2>1. gen[t].pc \in Knows /\ gen'[t].pc = "leave"
      BY <1>1, <1>6 DEF WriteOutput, GenGoto, GenLocals, Knows
    <2> QED  BY <2>1 DEF GivesUpClaim
  <1> QED  BY <1>2, <1>3, <1>4, <1>5, <1>6 DEF TextStep

\* The claim of a running node lasts, unless it is given up.
LEMMA ClaimStep ==
    ASSUME Inv, RunningIsWorkedOn, [Next]_vars, [~GivesUpClaim]_vars
    PROVE  RunningIsWorkedOn'
  <1> SUFFICES ASSUME node'.status = "running"
               PROVE  \E t \in Texts : gen'[t].pc \in Knows \cup {"dead"}
    BY DEF RunningIsWorkedOn
  <1>1. /\ \A g \in Generations : GenStep(g) \/ Interrupted(g) \/ GenerationDies(g) => GenEffect(g)
        /\ gen \in [Calls -> GenLocals] /\ node \in Nodes
        /\ Texts \subseteq Generations /\ Generations \subseteq Calls
    BY StepEffects, CallSets DEF Inv, TypeOK, GenLocals
  <1>2. CASE UNCHANGED <<node, gen>>
    BY <1>2 DEF RunningIsWorkedOn
  <1>3. ASSUME NEW g \in Generations, GenerationDies(g)
        PROVE  \E t \in Texts : gen'[t].pc \in Knows \cup {"dead"}
    <2>1. gen'[g].pc = "dead" /\ node' = node
      BY <1>1, <1>3 DEF GenerationDies, GenLocals
    <2>2. \A h \in Calls \ {g} : gen'[h] = gen[h]
      BY <1>1, <1>3 DEF GenEffect
    <2> QED  BY <1>1, <2>1, <2>2 DEF RunningIsWorkedOn
  <1>4. ASSUME NEW g \in Generations, Register(g) \/ (g \in Medias /\ SubmitStep(g))
        PROVE  \E t \in Texts : gen'[t].pc \in Knows \cup {"dead"}
    <2>1. node' = node
      BY <1>4 DEF Register, EnterCheck, EnterAdd, EnterExpire, EnterRecheck, EnterFails,
         LeaveGeneration, SubmitStep, SubmitCheck, SubmitTask, BindTask
    <2>2. g \in Texts => gen[g].pc \notin Knows \cup {"dead"}
      BY <1>4, NoneAssumption DEF Register, EnterCheck, EnterAdd, EnterExpire, EnterRecheck,
         EnterFails, LeaveGeneration, GenGoto, Knows
    <2>3. \A h \in Calls \ {g} : gen'[h] = gen[h]
      BY <1>1, <1>4 DEF GenEffect, GenStep
    <2> QED  BY <1>1, <2>1, <2>2, <2>3 DEF RunningIsWorkedOn
  <1>5. ASSUME NEW t \in Texts, TextStep(t)
        PROVE  \E u \in Texts : gen'[u].pc \in Knows \cup {"dead"}
    <2>1. t \in Generations /\ GenEffect(t)
      BY <1>1, <1>5, TextEffect
    <2>2. gen[t].pc # "dead"
      BY <1>5 DEF TextStep, ClaimCheck, ClaimNode, WriteCheck, WriteModel, Gateway, WriteOutput,
         GenGoto
    <2>3. ~GivesUpClaim \/ UNCHANGED <<node, gen>>
      BY DEF vars
    <2>4. ASSUME gen[t].pc \notin Knows, node' = node
          PROVE  \E u \in Texts : gen'[u].pc \in Knows \cup {"dead"}
      BY <1>1, <2>1, <2>2, <2>4 DEF RunningIsWorkedOn, GenEffect
    <2> QED  BY <1>2, <1>5, <2>3, <2>4, TextKeepsClaim
  <1>6. ASSUME NEW x \in Exclusives, ExclStep(x) \/ ExclusiveDies(x)
        PROVE  UNCHANGED <<node, gen>>
    BY <1>6 DEF ExclStep, ExclusiveDies, Acquire, Release, DeletionStep, WaitIdle, RaiseIfBusy,
       CancelTurns, SoftCloseAll, DeleteEpisode, CloserStep, CountSessions, SoftCloseSession,
       EnsureAfterClose
  <1>7. ASSUME NEW e \in Edits, EditRead(e) \/ EditCheck(e) \/ ApplyPatch(e)
        PROVE  node'.status = node.status /\ gen' = gen
    BY <1>1, <1>7 DEF EditRead, EditCheck, ApplyPatch, Nodes
  <1>8. ASSUME (\E m \in Submissions : TaskEnds(m)) \/ MutexExpires \/ InflightExpires
               \/ (\E o \in Openers : OpenCheck(o) \/ OpenSession(o))
        PROVE  UNCHANGED <<node, gen>>
    BY <1>8 DEF TaskEnds, MutexExpires, InflightExpires, OpenCheck, OpenSession
  <1>9. vars' = vars => UNCHANGED <<node, gen>>
    BY DEF vars
  <1>10. ASSUME (\E r \in Runners : RunnerStep(r) \/ SubmitStep(r) \/ Interrupted(r))
                \/ (\E m \in Submissions : ProjectRead(m) \/ ProjectWrite(m))
         PROVE  \E t \in Texts : gen'[t].pc \in Knows \cup {"dead"}
    <2>1. node' = node /\ \A t \in Texts : gen'[t] = gen[t]
      BY <1>1, <1>10, StepEffects DEF OutsideEffect
    <2> QED BY <2>1 DEF RunningIsWorkedOn
  <1>11. ASSUME NEW g \in Generations, Interrupted(g)
         PROVE  \E t \in Texts : gen'[t].pc \in Knows \cup {"dead"}
    <2>1. node' = node /\ gen'[g].pc = "leave" /\ gen[g].pc # "dead"
      BY <1>1, <1>11, CallSets DEF Interrupted, Raised, GenLocals, Body
    <2>2. \A h \in Calls \ {g} : gen'[h] = gen[h]
      BY <1>1, <1>11 DEF GenEffect
    <2>3. ~GivesUpClaim \/ UNCHANGED <<node, gen>>
      BY DEF vars
    <2> QED BY <1>1, <1>2, <2>1, <2>2, <2>3 DEF RunningIsWorkedOn, GivesUpClaim
  <1> QED  BY <1>2, <1>3, <1>4, <1>5, <1>6, <1>7, <1>8, <1>9, <1>10, <1>11, CallSets
           DEF Next, GenStep, RunningIsWorkedOn

\* A deletion is refused as busy only while a text generation works on its node or died at
\* it, a task is bound that has not ended, or the row of the media node says it is running.
RefusedOnlyIfShown ==
    [][ \A d \in Deletions :
          excl[d].pc = "busy" /\ excl'[d].pc = "release"
          => \/ Active \/ \E t \in Texts : gen[t].pc \in Body \cup {"dead"}
             \/ media.status = "running" ]_vars

\* As long as every text generation that has claimed its node says how it ended, what
\* raise_if_canvas_busy says is true but for a media node whose row is behind its task:
\* a text generation that leaves a claim behind -- its write is refused for the fence or
\* for another write, or it is cancelled -- and a projection that is late, lost or
\* overtaken are the only ways to an episode that cannot be deleted although nothing is
\* in flight.
THEOREM RefusalsAreRight ==
    Spec /\ [][~GivesUpClaim]_vars => RefusedOnlyIfShown
  <1>1. Init => RunningIsWorkedOn
    BY DEF Init, RunningIsWorkedOn
  <1>2. Inv /\ RunningIsWorkedOn /\ [Next]_vars /\ [~GivesUpClaim]_vars => RunningIsWorkedOn'
    BY ClaimStep
  <1>3. Inv /\ RunningIsWorkedOn /\ [Next]_vars =>
          [ \A d \in Deletions :
              excl[d].pc = "busy" /\ excl'[d].pc = "release"
              => \/ Active \/ \E t \in Texts : gen[t].pc \in Body \cup {"dead"}
                 \/ media.status = "running" ]_vars
    <2> SUFFICES ASSUME Inv, RunningIsWorkedOn, Next, NEW d \in Deletions,
                        excl[d].pc = "busy", excl'[d].pc = "release"
                 PROVE  \/ Active \/ \E t \in Texts : gen[t].pc \in Body \cup {"dead"}
                        \/ media.status = "running"
      BY DEF vars
    <2>1. Busy
      <3>1. d \in Exclusives /\ excl \in [Exclusives -> ExclLocals] /\ d \notin Closers
        BY NoneAssumption DEF Inv, TypeOK, ExclLocals, Exclusives
      <3>2. PICK x \in Exclusives : ExclStep(x) \/ ExclusiveDies(x)
        BY NotExclusive
      <3>3. x = d
        BY <3>1, <3>2, StepEffects DEF ExclEffect
      <3>4. DeletionStep(d)
        BY <3>1, <3>2, <3>3 DEF ExclStep, ExclusiveDies, Acquire, Release, ExclGoto, ExclLocals
      <3>5. RaiseIfBusy(d)
        BY <3>4 DEF DeletionStep, WaitIdle, CancelTurns, SoftCloseAll, DeleteEpisode, ExclGoto
      <3>6. ~Busy => excl' = [excl EXCEPT ![d].pc = "cancel"]
        BY <3>5 DEF RaiseIfBusy, ExclGoto
      <3> QED  BY <3>1, <3>6 DEF ExclLocals
    <2> QED  BY <2>1, StepSets DEF Busy, RunningIsWorkedOn
  <1> QED  BY Invariance, <1>1, <1>2, <1>3, PTL DEF Spec, RefusedOnlyIfShown
=============================================================================
