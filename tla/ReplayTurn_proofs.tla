-------------------------- MODULE ReplayTurn_proofs --------------------------
(* Machine-checked proofs about ReplayTurn, for every value of its constants. *)
EXTENDS ReplayTurn, TLAPS

-----------------------------------------------------------------------------
(* One request in the store *)

HasPending(m) == \E i \in 1 .. Len(m.log) : m.log[i] = "pending"

\* The log ends with a terminal frame.
LogEnded(m) == m.log # <<>> /\ LastFrame(m) \in TerminalTypes

\* What holds of a request's keys at any time: LogClosedOnce and
\* StatusMatchesLog for this request, and why they are kept: only a closed
\* request has a terminal frame.
WellFormed(m) ==
    /\ m \in Metas
    /\ m.status = "absent" => m.log = <<>>
    /\ \A i \in 1 .. Len(m.log) - 1 : m.log[i] \notin TerminalTypes
    /\ LogEnded(m) => m.status = CloseStatus(LastFrame(m))
    /\ m.status \in {"completed", "cancelled"} => LogEnded(m)
    /\ m.status = "interrupted" => ~LogEnded(m) /\ HasPending(m)

\* What no step but a discard does to a request's keys.
Grows(m, n) ==
    /\ m.status # "absent" => n.status # "absent"
    /\ IsClosed(m) => IsClosed(n) /\ n.log = m.log
    /\ Len(m.log) <= Len(n.log)
    /\ HasPending(m) => HasPending(n)

\* An open request has no terminal frame anywhere in its log.
LEMMA OpenHasNoTerminal ==
    ASSUME NEW m, WellFormed(m), ~IsClosed(m)
    PROVE  \A i \in 1 .. Len(m.log) : m.log[i] \notin TerminalTypes
<1>1. ~LogEnded(m)
  BY DEF WellFormed, CloseStatus, IsClosed, ClosedStatus, TerminalTypes, LogEnded
<1>2. m.log \in Seq(FrameTypes) /\ Len(m.log) \in Nat
  BY DEF WellFormed, Metas
<1>3. ASSUME NEW i \in 1 .. Len(m.log) PROVE m.log[i] \notin TerminalTypes
  <2>1. CASE i < Len(m.log)
    BY <2>1, <1>2 DEF WellFormed
  <2>2. CASE i = Len(m.log)
    BY <2>2, <1>1, <1>2 DEF LogEnded, LastFrame
  <2> QED
    BY <2>1, <2>2, <1>2
<1> QED
  BY <1>3

\* A deleted request is well formed.
LEMMA AbsentOK == WellFormed(Absent)
BY DEF WellFormed, Absent, Metas, Statuses, LogEnded, CloseStatus, LastFrame, HasPending

\* A request whose log stays as it is stays well formed under an open status,
\* or if it is closed and keeps its status, or when it is closed for a reason
\* its log shows.
LEMMA SameLog ==
    ASSUME NEW m, NEW n, WellFormed(m), n \in Metas, n.log = m.log,
           n.status # m.status =>
             /\ ~IsClosed(m)
             /\ n.status # "absent"
             /\ \/ n.status \in OpenStatus \cup {"failed"}
                \/ n.status = "interrupted" /\ HasPending(m)
    PROVE  WellFormed(n) /\ Grows(m, n)
<1>1. m.log \in Seq(FrameTypes) /\ Len(m.log) \in Nat
  BY DEF WellFormed, Metas
<1>2. ~IsClosed(m) => ~LogEnded(m)
  BY DEF WellFormed, CloseStatus, IsClosed, ClosedStatus, TerminalTypes, LogEnded
<1>3. LogEnded(n) = LogEnded(m) /\ HasPending(n) = HasPending(m) /\ LastFrame(n) = LastFrame(m)
  BY DEF LogEnded, HasPending, LastFrame
<1>4. WellFormed(n)
  BY <1>2, <1>3 DEF WellFormed, OpenStatus
<1>5. Grows(m, n)
  BY <1>1, <1>3 DEF Grows, IsClosed
<1> QED
  BY <1>4, <1>5

\* An open request stays well formed when a frame is added with the status the
\* frame stands for.
LEMMA LongerLog ==
    ASSUME NEW m, NEW n, NEW f \in FrameTypes, WellFormed(m), IsOpen(m),
           n \in Metas, n.log = Append(m.log, f),
           n.status = IF CloseStatus(f) = "none" THEN m.status ELSE CloseStatus(f)
    PROVE  WellFormed(n) /\ Grows(m, n)
<1>0. ~IsClosed(m)
  BY DEF IsOpen, IsClosed, OpenStatus, ClosedStatus
<1>1. m.log \in Seq(FrameTypes) /\ Len(m.log) \in Nat
  BY DEF WellFormed, Metas
<1>2. /\ Len(n.log) = Len(m.log) + 1
      /\ \A i \in 1 .. Len(m.log) : n.log[i] = m.log[i]
      /\ n.log[Len(n.log)] = f
      /\ n.log # <<>>
  BY <1>1
<1>3. \A i \in 1 .. Len(n.log) - 1 : n.log[i] \notin TerminalTypes
  BY <1>0, <1>1, <1>2, OpenHasNoTerminal
<1>4. LastFrame(n) = f /\ (LogEnded(n) <=> f \in TerminalTypes)
  BY <1>2 DEF LogEnded, LastFrame
<1>5. f \in TerminalTypes <=> CloseStatus(f) # "none"
  BY DEF CloseStatus, TerminalTypes, FrameTypes
<1>6. m.status \in {"starting", "running"}
  BY DEF IsOpen, OpenStatus
<1>7. CloseStatus(f) \in {"none", "failed", "cancelled", "completed"}
  BY DEF CloseStatus
<1>8. WellFormed(n)
  BY <1>3, <1>4, <1>5, <1>6, <1>7 DEF WellFormed
<1>9. HasPending(m) => HasPending(n)
  BY <1>1, <1>2 DEF HasPending
<1>10. Grows(m, n)
  BY <1>0, <1>1, <1>2, <1>6, <1>7, <1>9 DEF Grows
<1> QED
  BY <1>8, <1>10

\* _CLAIM_SCRIPT keeps a request well formed.
LEMMA ClaimOK ==
    ASSUME NEW m, WellFormed(m)
    PROVE  WellFormed(Claim(m)) /\ Grows(m, Claim(m))
<1>1. CASE m.status = "absent"
  <2>1. Claim(m) \in Metas /\ Claim(m).log = m.log /\ Claim(m).status = "starting"
    BY <1>1 DEF Claim, Absent, Metas, Statuses, OpenStatus, WellFormed
  <2>2. ~IsClosed(m) /\ Claim(m).status \in OpenStatus
    BY <1>1, <2>1 DEF IsClosed, ClosedStatus, OpenStatus
  <2> QED
    BY <2>1, <2>2, SameLog
<1>2. CASE m.status # "absent"
  <2>1. Claim(m) = m
    BY <1>2 DEF Claim
  <2> QED
    BY <2>1, SameLog DEF WellFormed
<1> QED
  BY <1>1, <1>2

\* _SET_RUNNING_SCRIPT keeps a request well formed.
LEMMA SetRunningOK ==
    ASSUME NEW m, WellFormed(m), CanSetRunning(m)
    PROVE  WellFormed(SetRunning(m)) /\ Grows(m, SetRunning(m))
<1>1. SetRunning(m) \in Metas /\ SetRunning(m).log = m.log /\ SetRunning(m).status = "running"
  BY DEF SetRunning, Metas, Statuses, OpenStatus, WellFormed
<1>2. ~IsClosed(m) /\ SetRunning(m).status \in OpenStatus
  BY <1>1 DEF IsClosed, ClosedStatus, OpenStatus, CanSetRunning
<1> QED
  BY <1>1, <1>2, SameLog

\* _APPEND_SCRIPT, when it answers OK, keeps a request well formed.
LEMMA AppendFrameOK ==
    ASSUME NEW m, NEW f \in FrameTypes, NEW force \in BOOLEAN, WellFormed(m),
           AppendResult(m, 1, force) = "OK"
    PROVE  /\ IsOpen(m)
           /\ WellFormed(AppendFrame(m, f, 1, CloseStatus(f)))
           /\ Grows(m, AppendFrame(m, f, 1, CloseStatus(f)))
<1> DEFINE n == AppendFrame(m, f, 1, CloseStatus(f))
<1>1. IsOpen(m)
  BY DEF AppendResult, WellFormed, Metas, Statuses, IsOpen, IsClosed
<1>2. Append(m.log, f) \in Seq(FrameTypes) /\ m.bytes + 1 \in Nat /\ m.lease \in BOOLEAN
  BY DEF WellFormed, Metas
<1>3. CloseStatus(f) \in {"none", "failed", "cancelled", "completed"}
  BY DEF CloseStatus
<1>4. (m.lease /\ CloseStatus(f) = "none") \in BOOLEAN
  BY <1>2
<1>5. /\ n \in Metas
      /\ n.log = Append(m.log, f)
      /\ n.status = IF CloseStatus(f) = "none" THEN m.status ELSE CloseStatus(f)
  BY <1>2, <1>3, <1>4 DEF AppendFrame, Metas, Statuses, ClosedStatus, WellFormed
<1> HIDE DEF n
<1>6. WellFormed(n) /\ Grows(m, n)
  BY <1>1, <1>5, LongerLog
<1> QED
  BY <1>1, <1>6 DEF n

\* _FINISH_SCRIPT keeps a request well formed, if the status is justified.
LEMMA FinishOK ==
    ASSUME NEW m, NEW s \in ClosedStatus, WellFormed(m),
           s # "failed" => IsClosed(m) \/ (s = "interrupted" /\ HasPending(m))
    PROVE  WellFormed(Finish(m, s)) /\ Grows(m, Finish(m, s))
<1>1. Finish(m, s) \in Metas /\ Finish(m, s).log = m.log
  BY DEF Finish, Metas, Statuses, WellFormed
<1>2. Finish(m, s).status = IF IsOpen(m) THEN s ELSE m.status
  BY DEF Finish
<1>3. IsOpen(m) => ~IsClosed(m)
  BY DEF IsClosed, ClosedStatus, OpenStatus, IsOpen
<1>4. CASE IsOpen(m)
  <2>1. /\ ~IsClosed(m)
        /\ Finish(m, s).status # "absent"
        /\ \/ Finish(m, s).status = "failed"
           \/ Finish(m, s).status = "interrupted" /\ HasPending(m)
    BY <1>2, <1>3, <1>4
  <2> QED
    BY <1>1, <2>1, SameLog
<1>5. CASE ~IsOpen(m)
  BY <1>1, <1>2, <1>5, SameLog
<1> QED
  BY <1>4, <1>5

\* _MARK_LOST_SCRIPT keeps a request well formed.
LEMMA MarkLostOK ==
    ASSUME NEW m, WellFormed(m), CanMarkLost(m)
    PROVE  WellFormed(MarkLost(m, "error", 1)) /\ Grows(m, MarkLost(m, "error", 1))
<1> DEFINE n == MarkLost(m, "error", 1)
<1>1. CloseStatus("error") = "failed" /\ "error" \in FrameTypes
  BY DEF CloseStatus, FrameTypes
<1>2. Append(m.log, "error") \in Seq(FrameTypes) /\ m.bytes + 1 \in Nat
  BY <1>1 DEF WellFormed, Metas
<1>3. n \in Metas /\ n.log = Append(m.log, "error") /\ n.status = "failed"
  BY <1>2 DEF MarkLost, Metas, Statuses, ClosedStatus
<1> HIDE DEF n
<1>4. WellFormed(n) /\ Grows(m, n)
  BY <1>1, <1>3, LongerLog DEF CanMarkLost
<1> QED
  BY <1>4 DEF n

\* The end of a lease keeps a request well formed.
LEMMA ExpireLeaseOK ==
    ASSUME NEW m, WellFormed(m)
    PROVE  WellFormed(ExpireLease(m)) /\ Grows(m, ExpireLease(m))
<1>1. /\ ExpireLease(m) \in Metas /\ ExpireLease(m).log = m.log
      /\ ExpireLease(m).status = m.status
  BY DEF ExpireLease, Metas, WellFormed
<1> QED
  BY <1>1, SameLog

-----------------------------------------------------------------------------
(* The inductive invariant *)

StoreOK ==
    /\ store \in [Requests -> Metas]
    /\ \A r \in Requests : WellFormed(store[r])

\* What an execution remembers is backed by the request's keys: a terminal
\* frame it has seen written closed the request, a pending interrupt it has
\* seen is in the log, and the status it will finish with is justified.
Backed(r) ==
    /\ store[r].status = "absent" => epc[r] = "none"
    /\ epc[r] \notin {"running", "failing", "finish", "clear", "release"} =>
         term[r] = "none" /\ ~pending[r] /\ final[r] = "failed"
    /\ term[r] # "none" => term[r] # "interrupted" /\ IsClosed(store[r])
    /\ pending[r] => HasPending(store[r])
    /\ final[r] # "failed" =>
         IsClosed(store[r]) \/ (final[r] = "interrupted" /\ pending[r])

ExecOK == \A r \in Requests : Backed(r)

\* A call that created a claim is the only one that may run or discard it, and
\* nobody has run it.
CreatorsOK ==
    /\ \A c \in Calls : cpc[c] \in Creating =>
         epc[creq[c]] = "none" /\ store[creq[c]].status # "absent"
    /\ \A c, d \in Calls :
         c # d /\ cpc[c] \in Creating /\ cpc[d] \in Creating => creq[c] # creq[d]

\* No client is ahead of the log.
CursorsOK ==
    \A c \in Calls :
        /\ cpc[c] = "idle" => cursor[c] = 0
        /\ creq[c] # None => cursor[c] <= Len(store[creq[c]].log)

IInv ==
    /\ TypeOK
    /\ StoreOK
    /\ ExecOK
    /\ CreatorsOK
    /\ CursorsOK
    /\ EndedSawEverything
    /\ NoLeakedLock

\* Nothing is stored and nothing runs at the start.
LEMMA InitOK == Init => IInv
<1> SUFFICES ASSUME Init PROVE IInv
  OBVIOUS
<1>1. StoreOK
  BY AbsentOK DEF Init, StoreOK, WellFormed
<1>2. TypeOK
  BY <1>1 DEF Init, TypeOK, StoreOK, WellFormed, CallSteps, Creating, Following,
              ExecSteps, ClosedStatus, KillerSteps
<1>3. ExecOK /\ CreatorsOK /\ CursorsOK
  BY DEF Init, ExecOK, Backed, CreatorsOK, CursorsOK, Creating
<1>4. EndedSawEverything /\ NoLeakedLock
  BY DEF Init, EndedSawEverything, NoLeakedLock
<1> QED
  BY <1>1, <1>2, <1>3, <1>4 DEF IInv

-----------------------------------------------------------------------------
(* The store *)

\* Some call deletes the keys of its own claim.
Discarded(r) == \E c \in Calls : DiscardDelete(c) /\ creq[c] = r

\* A step that changes one request's keys in a way that lets them grow.
LEMMA OneRequest ==
    ASSUME TypeOK, StoreOK, NEW q \in Requests, NEW n,
           store' = [store EXCEPT ![q] = n],
           WellFormed(n) /\ Grows(store[q], n)
    PROVE  StoreOK' /\ \A r \in Requests : Grows(store[r], store'[r])
<1>1. \A r \in Requests : WellFormed(store[r])
  BY DEF StoreOK
<1>2. \A r \in Requests : Grows(store[r], store[r])
  BY <1>1, SameLog DEF WellFormed
<1>3. \A r \in Requests : store'[r] = IF r = q THEN n ELSE store[r]
  BY DEF TypeOK
<1>4. \A r \in Requests : WellFormed(store'[r]) /\ Grows(store[r], store'[r])
  BY <1>1, <1>2, <1>3
<1>5. store' \in [Requests -> Metas]
  BY DEF StoreOK, WellFormed
<1> QED
  BY <1>4, <1>5 DEF StoreOK

\* A step that leaves the store alone.
LEMMA SameStore ==
    ASSUME StoreOK, UNCHANGED store
    PROVE  StoreOK' /\ \A r \in Requests : Grows(store[r], store'[r])
<1>1. \A r \in Requests : WellFormed(store[r])
  BY DEF StoreOK
<1>2. \A r \in Requests : Grows(store[r], store[r])
  BY <1>1, SameLog DEF WellFormed
<1> QED
  BY <1>1, <1>2 DEF StoreOK

\* The actions of ReplayTurn that do not write to the store.
Quiet ==
    \/ \E c \in Calls :
         \/ ReadMeta(c) \/ RejectInput(c) \/ Acquire(c) \/ DiscardRead(c) \/ Disconnect(c)
         \/ \E r \in Requests : \E n \in 0 .. Len(store[r].log) : Reconnect(c, r, n)
         \/ ReadAfter(c) \/ AfterRead(c) \/ AfterEmpty(c) \/ HasLease(c)
    \/ \E r \in Requests :
         \/ ExecFails(r) \/ StreamEnds(r) \/ ClearCancel(r) \/ Release(r)
         \/ RefreshFails(r) \/ WatchCancel(r) \/ Crash(r) \/ Age(r)
    \/ \E k \in Cancellers : CancelTurn(k) \/ KillerStep(k)
    \/ LockExpires

\* The actions that write to the store.
Writes ==
    \/ \E c \in Calls : (\E r \in Requests : StartTurn(c, r)) \/ MarkExecutionLost(c)
    \/ \E r \in Requests :
         \/ BeginRunning(r) \/ AppendFailure(r) \/ ExecFinish(r) \/ LeaseExpires(r)
         \/ \E f \in FrameTypes : Publish(r, f)

\* Every step is one of those.
LEMMA NextCases == Next <=> Quiet \/ Writes \/ \E c \in Calls : DiscardDelete(c)
BY DEF Next, CallNext, ExecNext, CallStep, CleanupStep, Quiet, Writes

\* The quiet actions leave the store alone.
LEMMA QuietKeepsStore == Quiet => UNCHANGED store
BY DEF Quiet, ReadMeta, RejectInput, Acquire, DiscardRead, Disconnect, Reconnect,
   ReadAfter, AfterRead, AfterEmpty, HasLease, ExecFails, StreamEnds, ClearCancel,
   Release, RefreshFails, WatchCancel, Crash, Age, CancelTurn, KillerStep,
   SignalCancel, CancelAndWait, WaitReleased, WaitTimesOut, ForceGet, ForceDelete,
   LockExpires

\* Every step keeps the requests well formed and, a discard apart, lets them
\* only grow.
LEMMA StoreStep ==
    ASSUME IInv, [Next]_vars
    PROVE  StoreOK' /\ \A r \in Requests : Grows(store[r], store'[r]) \/ Discarded(r)
<1> USE DEF IInv
<1>1. CASE UNCHANGED vars
  BY <1>1, SameStore DEF vars
<1>2. CASE Quiet
  <2>1. UNCHANGED store
    BY <1>2, QuietKeepsStore
  <2> QED
    BY <2>1, SameStore
<1>3. ASSUME NEW c \in Calls, NEW r \in Requests, StartTurn(c, r)
      PROVE  StoreOK' /\ \A q \in Requests : Grows(store[q], store'[q])
  <2>1. WellFormed(Claim(store[r])) /\ Grows(store[r], Claim(store[r]))
    BY ClaimOK DEF StoreOK
  <2> QED
    BY <1>3, <2>1, OneRequest DEF StartTurn
<1>4. ASSUME NEW c \in Calls, MarkExecutionLost(c)
      PROVE  StoreOK' /\ \A q \in Requests : Grows(store[q], store'[q])
  <2>1. creq[c] \in Requests
    BY <1>4 DEF TypeOK, MarkExecutionLost, Following
  <2>2. CASE CanMarkLost(store[creq[c]])
    <3>1. /\ WellFormed(MarkLost(store[creq[c]], "error", 1))
          /\ Grows(store[creq[c]], MarkLost(store[creq[c]], "error", 1))
      BY <2>1, <2>2, MarkLostOK DEF StoreOK
    <3> QED
      BY <1>4, <2>1, <2>2, <3>1, OneRequest DEF MarkExecutionLost
  <2>3. CASE ~CanMarkLost(store[creq[c]])
    BY <1>4, <2>3, SameStore DEF MarkExecutionLost
  <2> QED
    BY <2>2, <2>3
<1>5. ASSUME NEW r \in Requests, BeginRunning(r)
      PROVE  StoreOK' /\ \A q \in Requests : Grows(store[q], store'[q])
  <2>1. CASE CanSetRunning(store[r])
    <3>1. WellFormed(SetRunning(store[r])) /\ Grows(store[r], SetRunning(store[r]))
      BY <2>1, SetRunningOK DEF StoreOK
    <3> QED
      BY <1>5, <2>1, <3>1, OneRequest DEF BeginRunning
  <2>2. CASE ~CanSetRunning(store[r])
    BY <1>5, <2>2, SameStore DEF BeginRunning
  <2> QED
    BY <2>1, <2>2
<1>6. ASSUME NEW r \in Requests, AppendFailure(r)
      PROVE  StoreOK' /\ \A q \in Requests : Grows(store[q], store'[q])
  <2>1. CASE UNCHANGED store
    BY <2>1, SameStore
  <2>2. CASE /\ AppendResult(store[r], 1, TRUE) = "OK"
             /\ store' = [store EXCEPT ![r] = AppendFrame(store[r], "error", 1, "failed")]
    <3>1. CloseStatus("error") = "failed" /\ "error" \in FrameTypes
      BY DEF CloseStatus, FrameTypes
    <3>2. /\ WellFormed(AppendFrame(store[r], "error", 1, "failed"))
          /\ Grows(store[r], AppendFrame(store[r], "error", 1, "failed"))
      BY <2>2, <3>1, AppendFrameOK DEF StoreOK
    <3> QED
      BY <2>2, <3>2, OneRequest
  <2> QED
    BY <1>6, <2>1, <2>2 DEF AppendFailure
<1>7. ASSUME NEW r \in Requests, ExecFinish(r)
      PROVE  StoreOK' /\ \A q \in Requests : Grows(store[q], store'[q])
  <2>1. WellFormed(store[r]) /\ final[r] \in ClosedStatus
    BY DEF TypeOK, StoreOK
  <2>2. final[r] # "failed" =>
            IsClosed(store[r]) \/ (final[r] = "interrupted" /\ HasPending(store[r]))
    BY DEF ExecOK, Backed
  <2>3. WellFormed(Finish(store[r], final[r])) /\ Grows(store[r], Finish(store[r], final[r]))
    BY <2>1, <2>2, FinishOK
  <2> QED
    BY <1>7, <2>3, OneRequest DEF ExecFinish
<1>8. ASSUME NEW r \in Requests, LeaseExpires(r)
      PROVE  StoreOK' /\ \A q \in Requests : Grows(store[q], store'[q])
  <2>1. WellFormed(ExpireLease(store[r])) /\ Grows(store[r], ExpireLease(store[r]))
    BY ExpireLeaseOK DEF StoreOK
  <2> QED
    BY <1>8, <2>1, OneRequest DEF LeaseExpires
<1>9. ASSUME NEW r \in Requests, NEW f \in FrameTypes, Publish(r, f)
      PROVE  StoreOK' /\ \A q \in Requests : Grows(store[q], store'[q])
  <2>1. CASE UNCHANGED store
    BY <2>1, SameStore
  <2>2. CASE /\ AppendResult(store[r], 1, FALSE) = "OK"
             /\ store' = [store EXCEPT ![r] = AppendFrame(store[r], f, 1, CloseStatus(f))]
    <3>1. /\ WellFormed(AppendFrame(store[r], f, 1, CloseStatus(f)))
          /\ Grows(store[r], AppendFrame(store[r], f, 1, CloseStatus(f)))
      BY <2>2, AppendFrameOK DEF StoreOK
    <3> QED
      BY <2>2, <3>1, OneRequest
  <2> QED
    BY <1>9, <2>1, <2>2 DEF Publish
<1>10. ASSUME NEW c \in Calls, DiscardDelete(c)
       PROVE  StoreOK' /\ \A q \in Requests : Grows(store[q], store'[q]) \/ Discarded(q)
  <2>1. creq[c] \in Requests
    BY <1>10 DEF TypeOK, DiscardDelete, Creating
  <2>2. \A q \in Requests : store'[q] = IF q = creq[c] THEN Absent ELSE store[q]
    BY <1>10, <2>1 DEF TypeOK, DiscardDelete
  <2>3. \A q \in Requests : WellFormed(store[q]) /\ Grows(store[q], store[q])
    BY SameLog DEF StoreOK, WellFormed
  <2>4. StoreOK'
    <3>1. store' \in [Requests -> Metas]
      BY <1>10, AbsentOK DEF StoreOK, DiscardDelete, WellFormed
    <3> QED
      BY <2>2, <2>3, <3>1, AbsentOK DEF StoreOK
  <2>5. \A q \in Requests : q # creq[c] => Grows(store[q], store'[q])
    BY <2>2, <2>3
  <2>6. Discarded(creq[c])
    BY <1>10 DEF Discarded
  <2> QED
    BY <2>4, <2>5, <2>6
<1> QED
  BY <1>1, <1>2, <1>3, <1>4, <1>5, <1>6, <1>7, <1>8, <1>9, <1>10, NextCases DEF Writes

-----------------------------------------------------------------------------
(* Types *)

\* The types of a call's locals.
CallTypes ==
    /\ cpc \in [Calls -> CallSteps]
    /\ creq \in [Calls -> Requests \cup {None}]
    /\ \A c \in Calls : cpc[c] \in Creating \cup Following \cup {"read_meta"}
                            => creq[c] \in Requests
    /\ cursor \in [Calls -> Nat]
    /\ crun \in [Calls -> BOOLEAN]

\* A call that stands at a step with a request may go on to any step.
LEMMA GotoTypes ==
    ASSUME TypeOK, NEW c \in Calls, NEW step \in CallSteps, CallGoto(c, step),
           creq[c] \in Requests
    PROVE  CallTypes'
BY DEF TypeOK, CallTypes, CallGoto

\* A call may stop anywhere.
LEMMA StopsTypes ==
    ASSUME TypeOK, NEW c \in Calls, NEW step \in {"refused", "gone"}, CallStops(c, step)
    PROVE  CallTypes'
BY DEF TypeOK, CallTypes, CallStops, CallSteps, Creating, Following

\* Every step keeps the types, the store's being what StoreStep says.
LEMMA TypeStep ==
    ASSUME IInv, [Next]_vars, StoreOK'
    PROVE  TypeOK'
<1> USE DEF IInv
<1>0. store' \in [Requests -> Metas]
  BY DEF StoreOK
<1>1. CASE UNCHANGED vars
  BY <1>1 DEF TypeOK, vars, calls, execs, killers
<1>2. CASE \E c \in Calls : CallNext(c)
  <2> PICK c \in Calls : CallNext(c)
    BY <1>2
  <2> USE <1>0 DEF calls, execs, killers
  <2>0. cpc[c] \in Creating \cup Following \cup {"read_meta"} => creq[c] \in Requests
    BY DEF TypeOK
  <2>1. ASSUME NEW r \in Requests, StartTurn(c, r) PROVE TypeOK'
    BY <2>1 DEF StartTurn, TypeOK, CallSteps, Creating, Following
  <2>2. CASE ReadMeta(c)
    <3>1. CallTypes'
      BY <2>0, <2>2, GotoTypes, StopsTypes DEF ReadMeta, CallSteps
    <3> QED
      BY <2>2, <3>1 DEF ReadMeta, CallTypes, TypeOK
  <2>3. CASE RejectInput(c)
    <3>1. CallTypes'
      BY <2>0, <2>3, GotoTypes DEF RejectInput, CallSteps, Creating
    <3> QED
      BY <2>3, <3>1 DEF RejectInput, CallTypes, TypeOK
  <2>4. CASE Acquire(c)
    <3>1. CallTypes' /\ creq[c] \in Requests
      BY <2>0, <2>4, GotoTypes DEF Acquire, CallSteps, Creating
    <3>2. lock' \in Turns \cup {None} /\ epc' \in [Requests -> ExecSteps]
      BY <2>4, <3>1, TurnAssumption DEF Acquire, TypeOK, ExecSteps
    <3> QED
      BY <2>4, <3>1, <3>2 DEF Acquire, CallTypes, TypeOK
  <2>5. CASE DiscardRead(c)
    <3>1. CallTypes'
      BY <2>0, <2>5, GotoTypes, StopsTypes DEF DiscardRead, CallSteps, Creating
    <3> QED
      BY <2>5, <3>1 DEF DiscardRead, CallTypes, TypeOK
  <2>6. CASE DiscardDelete(c)
    BY <2>6 DEF DiscardDelete, TypeOK, CallSteps, Creating, Following
  <2>7. CASE Disconnect(c)
    <3>1. CallTypes'
      BY <2>7, StopsTypes DEF Disconnect
    <3> QED
      BY <2>7, <3>1 DEF Disconnect, CallTypes, TypeOK
  <2>8. ASSUME NEW r \in Requests, NEW n \in 0 .. Len(store[r].log), Reconnect(c, r, n)
        PROVE  TypeOK'
    BY <2>8 DEF Reconnect, TypeOK, CallSteps, Creating, Following
  <2>9. CASE ReadAfter(c)
    <3>1. creq[c] \in Requests
      BY <2>0, <2>9 DEF ReadAfter, Following
    <3>2. CASE CallGoto(c, "after_empty")
      <4>1. CallTypes'
        BY <3>1, <3>2, GotoTypes DEF CallSteps
      <4> QED
        BY <2>9, <4>1 DEF ReadAfter, CallTypes, TypeOK
    <3>3. ASSUME NEW n \in (cursor[c] + 1) .. Len(store[creq[c]].log),
                 cpc' = [cpc EXCEPT ![c] = "after_read"],
                 cursor' = [cursor EXCEPT ![c] = n], UNCHANGED <<creq, crun>>
          PROVE  TypeOK'
      <4>1. n \in Nat
        BY DEF TypeOK
      <4>2. CallTypes'
        BY <3>1, <3>3, <4>1 DEF TypeOK, CallTypes, CallSteps
      <4> QED
        BY <2>9, <4>2 DEF ReadAfter, CallTypes, TypeOK
    <3> QED
      BY <2>9, <3>2, <3>3 DEF ReadAfter
  <2>10. CASE AfterRead(c)
    <3>1. CallTypes'
      BY <2>0, <2>10, GotoTypes, StopsTypes DEF AfterRead, CallSteps, Following
    <3> QED
      BY <2>10, <3>1 DEF AfterRead, CallTypes, TypeOK
  <2>11. CASE AfterEmpty(c)
    <3>1. creq[c] \in Requests
      BY <2>0, <2>11 DEF AfterEmpty, Following
    <3>2. CASE /\ cpc' = [cpc EXCEPT ![c] = "has_lease"]
               /\ crun' = [crun EXCEPT ![c] = (store[creq[c]].status = "running")]
               /\ UNCHANGED <<creq, cursor>>
      BY <3>1, <3>2, <2>11 DEF AfterEmpty, TypeOK, CallSteps
    <3>3. CASE CallStops(c, "refused") \/ CallGoto(c, "ended") \/ CallGoto(c, "read")
      <4>1. CallTypes'
        BY <3>1, <3>3, GotoTypes, StopsTypes DEF CallSteps
      <4> QED
        BY <2>11, <4>1 DEF AfterEmpty, CallTypes, TypeOK
    <3> QED
      BY <2>11, <3>2, <3>3 DEF AfterEmpty
  <2>12. CASE HasLease(c)
    <3>1. CallTypes'
      BY <2>0, <2>12, GotoTypes DEF HasLease, CallSteps, Following
    <3> QED
      BY <2>12, <3>1 DEF HasLease, CallTypes, TypeOK
  <2>13. CASE MarkExecutionLost(c)
    <3>1. CallTypes' /\ creq[c] \in Requests
      BY <2>0, <2>13, GotoTypes DEF MarkExecutionLost, CallSteps, Following
    <3>2. lock' \in Turns \cup {None} /\ evicted' \subseteq Requests
      BY <2>13, <3>1 DEF MarkExecutionLost, TakeLock, TypeOK
    <3> QED
      BY <2>13, <3>1, <3>2 DEF MarkExecutionLost, CallTypes, TypeOK
  <2> QED
    BY <2>1, <2>2, <2>3, <2>4, <2>5, <2>6, <2>7, <2>8, <2>9, <2>10, <2>11, <2>12, <2>13
       DEF CallNext, CallStep
<1>3. CASE \E r \in Requests : ExecNext(r)
  <2> PICK r \in Requests : ExecNext(r)
    BY <1>3
  <2> USE <1>0, TurnAssumption DEF TypeOK, ExecSteps, ClosedStatus, calls, execs, killers, ExecGoto, ExecStops
  <2>1. CASE BeginRunning(r)
    BY <2>1 DEF BeginRunning
  <2>2. CASE AppendFailure(r)
    BY <2>2 DEF AppendFailure
  <2>3. CASE ExecFinish(r) \/ LeaseExpires(r)
    BY <2>3 DEF ExecFinish, LeaseExpires
  <2>4. CASE ClearCancel(r) \/ Age(r)
    BY <2>4 DEF ClearCancel, Age
  <2>5. CASE Release(r)
    BY <2>5 DEF Release
  <2>6. ASSUME NEW f \in FrameTypes, Publish(r, f) PROVE TypeOK'
    <3>1. CloseStatus(f) \in ClosedStatus \cup {"none"}
      BY DEF CloseStatus
    <3>2. /\ (pending[r] \/ f = "pending") \in BOOLEAN
          /\ \A a : (cancel[r] \/ a \in {"CLOSED", "LIMIT"}) \in BOOLEAN
      OBVIOUS
    <3> QED
      BY <2>6, <3>1, <3>2, ZenonT(60) DEF Publish
  <2>7. CASE ExecFails(r)
    BY <2>7 DEF ExecFails
  <2>8. CASE StreamEnds(r)
    BY <2>8 DEF StreamEnds
  <2>9. CASE RefreshFails(r) \/ WatchCancel(r)
    BY <2>9 DEF RefreshFails, WatchCancel, SetCancelEvent
  <2>10. CASE Crash(r)
    BY <2>10 DEF Crash
  <2> QED
    BY <2>1, <2>2, <2>3, <2>4, <2>5, <2>6, <2>7, <2>8, <2>9, <2>10
       DEF ExecNext, CleanupStep
<1>4. CASE \E k \in Cancellers : CancelTurn(k) \/ KillerStep(k)
  <2> PICK k \in Cancellers : CancelTurn(k) \/ KillerStep(k)
    BY <1>4
  <2> USE <1>0 DEF TypeOK, KillerSteps, calls, execs, killers, KillerGoto, KillerStops
  <2>1. CASE CancelTurn(k) \/ SignalCancel(k)
    BY <2>1 DEF CancelTurn, SignalCancel
  <2>2. CASE CancelAndWait(k)
    <3>1. cancel' \in [Requests -> BOOLEAN] /\ UNCHANGED <<epc, term, pending, lost, final>>
      BY <2>2 DEF CancelAndWait, SetCancelEvent
    <3>2. /\ kpc' \in [Cancellers -> KillerSteps]
          /\ kturn' \in [Cancellers -> Turns \cup {None}]
          /\ \A j \in Cancellers : kpc'[j] # "idle" => kturn'[j] \in Turns
      BY <2>2 DEF CancelAndWait
    <3> QED
      BY <2>2, <3>1, <3>2 DEF CancelAndWait
  <2>3. CASE WaitReleased(k) \/ WaitTimesOut(k) \/ ForceGet(k)
    BY <2>3 DEF WaitReleased, WaitTimesOut, ForceGet
  <2>4. CASE ForceDelete(k)
    BY <2>4 DEF ForceDelete, TakeLock
  <2> QED
    BY <2>1, <2>2, <2>3, <2>4 DEF KillerStep
<1>5. CASE LockExpires
  BY <1>0, <1>5 DEF LockExpires, TypeOK, calls, execs, killers
<1> QED
  BY <1>1, <1>2, <1>3, <1>4, <1>5 DEF Next

-----------------------------------------------------------------------------
(* The lock *)

\* The lock and the control of executions are left alone.
Frame == UNCHANGED <<lock, epc, evicted>>

\* An execution moves on without touching the lock.
Moves(r) ==
    /\ UNCHANGED <<lock, evicted>>
    /\ Live(r)
    /\ \E s \in {"running", "failing", "finish", "clear", "release"} :
         epc' = [epc EXCEPT ![r] = s]

\* What a step may do to the lock.
LockCases ==
    \/ Frame
    \/ \E c \in Calls : Acquire(c) \/ (MarkExecutionLost(c) /\ TakeLock)
    \/ \E r \in Requests : Moves(r) \/ Release(r) \/ Crash(r)
    \/ \E k \in Cancellers : ForceDelete(k) /\ TakeLock
    \/ LockExpires

\* Every step is one of these cases.
LEMMA LockChanges == ASSUME TypeOK, [Next]_vars PROVE LockCases
<1>1. ASSUME NEW c \in Calls, CallNext(c) PROVE LockCases
  BY <1>1 DEF LockCases, Frame, CallNext, CallStep, StartTurn, ReadMeta, RejectInput,
     DiscardRead, DiscardDelete, Disconnect, Reconnect, ReadAfter, AfterRead, AfterEmpty,
     HasLease, MarkExecutionLost, execs
<1>2. ASSUME NEW r \in Requests, ExecNext(r) PROVE LockCases
  <2>1. CASE BeginRunning(r) \/ AppendFailure(r) \/ ExecFinish(r) \/ ClearCancel(r)
    <3>1. Moves(r)
      BY <2>1 DEF Moves, Live, BeginRunning, AppendFailure, ExecFinish, ClearCancel, ExecGoto
    <3> QED
      BY <3>1 DEF LockCases
  <2>2. ASSUME NEW f \in FrameTypes, Publish(r, f) PROVE LockCases
    <3>1. UNCHANGED <<lock, evicted>> /\ Live(r)
      BY <2>2 DEF Publish, Live
    <3>2. \/ epc' = epc
          \/ epc' = [epc EXCEPT ![r] = "finish"]
          \/ epc' = [epc EXCEPT ![r] = "failing"]
      BY <2>2 DEF Publish
    <3> QED
      BY <3>1, <3>2 DEF LockCases, Frame, Moves
  <2>3. CASE ExecFails(r) \/ StreamEnds(r)
    <3>1. Moves(r)
      BY <2>3 DEF Moves, Live, ExecFails, StreamEnds, ExecGoto
    <3> QED
      BY <3>1 DEF LockCases
  <2>4. CASE RefreshFails(r) \/ WatchCancel(r) \/ LeaseExpires(r) \/ Age(r)
    BY <2>4 DEF LockCases, Frame, RefreshFails, WatchCancel, SetCancelEvent, LeaseExpires,
       Age, execs
  <2> QED
    BY <1>2, <2>1, <2>2, <2>3, <2>4 DEF LockCases, ExecNext, CleanupStep
<1>3. ASSUME NEW k \in Cancellers, CancelTurn(k) \/ KillerStep(k) PROVE LockCases
  BY <1>3 DEF LockCases, Frame, CancelTurn, KillerStep, SignalCancel, CancelAndWait,
     SetCancelEvent, WaitReleased, WaitTimesOut, ForceGet, ForceDelete, execs
<1>4. CASE UNCHANGED vars
  BY <1>4 DEF LockCases, Frame, vars, execs
<1> QED
  BY <1>1, <1>2, <1>3, <1>4 DEF Next, LockCases

\* Every step keeps the lock with an execution that will release it.
LEMMA LeakStep ==
    ASSUME TypeOK, NoLeakedLock, [Next]_vars
    PROVE  NoLeakedLock'
<1> USE TurnAssumption, NoneAssumption DEF NoLeakedLock, TypeOK
<1>1. CASE Frame
  BY <1>1 DEF Frame
<1>2. ASSUME NEW c \in Calls, Acquire(c) PROVE NoLeakedLock'
  BY <1>2 DEF Acquire, Creating
<1>3. ASSUME NEW r \in Requests, Moves(r) PROVE NoLeakedLock'
  BY <1>3 DEF Moves
<1>4. ASSUME NEW r \in Requests, Release(r) PROVE NoLeakedLock'
  BY <1>4 DEF Release, ExecStops
<1>5. ASSUME NEW r \in Requests, Crash(r) PROVE NoLeakedLock'
  BY <1>5 DEF Crash, ExecStops
<1>6. CASE TakeLock \/ LockExpires
  BY <1>6 DEF TakeLock, LockExpires
<1> QED
  BY <1>1, <1>2, <1>3, <1>4, <1>5, <1>6, LockChanges DEF LockCases

\* If no turn is resumed, every step keeps the exclusion by the session lock.
LEMMA ExclusionStep ==
    ASSUME OwnTurns, TypeOK, LiveTurnHoldsLock, [Next]_vars
    PROVE  LiveTurnHoldsLock'
<1> USE TurnAssumption, NoneAssumption DEF LiveTurnHoldsLock, TypeOK, Live
<1>1. CASE Frame
  BY <1>1 DEF Frame
<1>2. ASSUME NEW c \in Calls, Acquire(c) PROVE LiveTurnHoldsLock'
  BY <1>2 DEF Acquire, Creating
<1>3. ASSUME NEW r \in Requests, Moves(r) PROVE LiveTurnHoldsLock'
  BY <1>3 DEF Moves
<1>4. ASSUME NEW r \in Requests, Release(r) PROVE LiveTurnHoldsLock'
  BY <1>4 DEF Release, ExecStops, OwnTurns
<1>5. ASSUME NEW r \in Requests, Crash(r) PROVE LiveTurnHoldsLock'
  BY <1>5 DEF Crash, ExecStops
<1>6. ASSUME TakeLock, UNCHANGED epc PROVE LiveTurnHoldsLock'
  BY <1>6 DEF TakeLock
<1>7. CASE LockExpires
  BY <1>7 DEF LockExpires, execs
<1>8. \A c \in Calls : MarkExecutionLost(c) => UNCHANGED epc
  BY DEF MarkExecutionLost, execs
<1>9. \A k \in Cancellers : ForceDelete(k) => UNCHANGED epc
  BY DEF ForceDelete, execs
<1> QED
  BY <1>1, <1>2, <1>3, <1>4, <1>5, <1>6, <1>7, <1>8, <1>9, LockChanges DEF LockCases

-----------------------------------------------------------------------------
(* The executions *)

\* Locals of an execution that do not change stay backed when the request only
\* grows, or when it is discarded before anyone has run it.
LEMMA SameExec ==
    ASSUME NEW r \in Requests, Backed(r),
           epc'[r] = epc[r], term'[r] = term[r], pending'[r] = pending[r], final'[r] = final[r],
           Grows(store[r], store'[r]) \/ epc[r] = "none"
    PROVE  Backed(r)'
BY DEF Backed, Grows

\* What a published frame leaves in the publisher is in the log as well.
LEMMA PublishBacked ==
    ASSUME TypeOK, StoreOK, NEW r \in Requests, NEW f \in FrameTypes, Publish(r, f),
           Backed(r), Grows(store[r], store'[r])
    PROVE  Backed(r)'
<1> USE DEF TypeOK
<1>1. CASE AppendResult(store[r], 1, FALSE) # "OK"
  BY <1>1 DEF Publish, Backed, Grows
<1>2. CASE AppendResult(store[r], 1, FALSE) = "OK"
  <2>1. /\ store'[r] = AppendFrame(store[r], f, 1, CloseStatus(f))
        /\ term'[r] = CloseStatus(f)
        /\ pending'[r] = (pending[r] \/ f = "pending")
        /\ epc'[r] = "running" /\ final'[r] = final[r] /\ epc[r] = "running"
    BY <1>2 DEF Publish
  <2>2. CloseStatus(f) \in {"none", "failed", "cancelled", "completed"}
    BY DEF CloseStatus
  <2>3. /\ store'[r].log = Append(store[r].log, f)
        /\ CloseStatus(f) # "none" => store'[r].status = CloseStatus(f)
    BY <2>1 DEF AppendFrame
  <2>4. store[r].log \in Seq(FrameTypes)
    BY DEF Metas
  <2>5. /\ Len(store'[r].log) = Len(store[r].log) + 1 /\ Len(store[r].log) \in Nat
        /\ store'[r].log[Len(store'[r].log)] = f
    BY <2>3, <2>4
  <2>6. f = "pending" => HasPending(store'[r])
    BY <2>5 DEF HasPending
  <2>7. store[r].status # "absent" /\ store'[r].status # "absent"
    BY <2>1 DEF Backed, Grows
  <2>8. term'[r] # "none" => term'[r] # "interrupted" /\ IsClosed(store'[r])
    BY <2>1, <2>2, <2>3 DEF IsClosed, ClosedStatus
  <2>9. pending'[r] => HasPending(store'[r])
    BY <2>1, <2>6 DEF Backed, Grows
  <2>10. final'[r] # "failed" =>
            IsClosed(store'[r]) \/ (final'[r] = "interrupted" /\ pending'[r])
    BY <2>1 DEF Backed, Grows
  <2> QED
    BY <2>1, <2>7, <2>8, <2>9, <2>10 DEF Backed
<1> QED
  BY <1>1, <1>2

\* Every step keeps what executions remember backed by the store.
LEMMA ExecStep ==
    ASSUME IInv, [Next]_vars,
           \A r \in Requests : Grows(store[r], store'[r]) \/ Discarded(r)
    PROVE  ExecOK'
<1> USE DEF IInv
<1>0. \A r \in Requests : Backed(r)
  BY DEF ExecOK
<1>1. ASSUME NEW c \in Calls, DiscardDelete(c) PROVE epc[creq[c]] = "none"
  BY <1>1 DEF DiscardDelete, CreatorsOK, Creating
<1>2. \A r \in Requests : Grows(store[r], store'[r]) \/ epc[r] = "none"
  BY <1>1 DEF Discarded
<1>3. CASE UNCHANGED <<epc, term, pending, final>>
  BY <1>0, <1>2, <1>3, SameExec DEF ExecOK
<1>4. CASE \E c \in Calls : CallNext(c)
  <2> PICK c \in Calls : CallNext(c)
    BY <1>4
  <2>1. CASE Acquire(c) /\ lock = None
    <3>1. PICK r \in Requests : r = creq[c]
      BY <2>1 DEF Acquire, TypeOK, Creating
    <3>2. epc[r] = "none" /\ store[r].status # "absent"
      BY <2>1, <3>1 DEF Acquire, CreatorsOK, Creating
    <3>3. /\ epc' = [epc EXCEPT ![r] = "spawned"]
          /\ UNCHANGED <<store, term, pending, final>>
      BY <2>1, <3>1 DEF Acquire
    <3>4. Backed(r)'
      BY <1>0, <3>2, <3>3 DEF Backed, TypeOK
    <3>5. ASSUME NEW q \in Requests, q # r PROVE Backed(q)'
      BY <1>0, <1>2, <3>3, <3>5, SameExec DEF TypeOK
    <3> QED
      BY <3>4, <3>5 DEF ExecOK
  <2>2. CASE ~(Acquire(c) /\ lock = None)
    <3>1. UNCHANGED <<epc, term, pending, final>>
      BY <2>2 DEF CallNext, CallStep, StartTurn, ReadMeta, RejectInput, Acquire, DiscardRead,
         DiscardDelete, Disconnect, Reconnect, ReadAfter, AfterRead, AfterEmpty, HasLease,
         MarkExecutionLost, execs
    <3> QED
      BY <3>1, <1>3
  <2> QED
    BY <2>1, <2>2
<1>5. ASSUME NEW r \in Requests, ExecNext(r) PROVE ExecOK'
  <2>0. CASE epc[r] = "none"
    <3>1. UNCHANGED <<epc, term, pending, final>>
      BY <1>5, <2>0 DEF ExecNext, CleanupStep, BeginRunning, AppendFailure, ExecFinish,
         ClearCancel, Release, Publish, ExecFails, StreamEnds, RefreshFails, WatchCancel,
         Crash, Live, LeaseExpires, Age, execs
    <3> QED
      BY <3>1, <1>3
  <2>1. CASE epc[r] # "none"
    <3>1. /\ store[r].status # "absent"
          /\ \A q \in Requests : q # r => Grows(store[q], store'[q]) \/ epc[q] = "none"
      BY <1>0, <1>2, <2>1 DEF Backed
    <3>2. Grows(store[r], store'[r])
      BY <1>2, <2>1
    <3>3. /\ \A q \in Requests : q # r =>
               /\ epc'[q] = epc[q] /\ term'[q] = term[q]
               /\ pending'[q] = pending[q] /\ final'[q] = final[q]
      BY <1>5, ZenonT(60) DEF ExecNext, CleanupStep, BeginRunning, AppendFailure, ExecFinish,
         ClearCancel, Release, Publish, ExecFails, StreamEnds, RefreshFails, WatchCancel,
         Crash, LeaseExpires, Age, execs, ExecGoto, ExecStops, SetCancelEvent, TypeOK
    <3>4. Backed(r)'
      <4> USE <1>0, <3>1, <3>2 DEF TypeOK
      <4>1. CASE BeginRunning(r)
        BY <4>1 DEF BeginRunning, ExecGoto, Backed, Grows
      <4>2. CASE AppendFailure(r)
        BY <4>2 DEF AppendFailure, Backed, Grows
      <4>3. CASE ExecFinish(r) \/ ClearCancel(r) \/ ExecFails(r)
        BY <4>3 DEF ExecFinish, ClearCancel, ExecFails, ExecGoto, Backed, Grows
      <4>4. CASE Release(r) \/ Crash(r)
        BY <4>4 DEF Release, Crash, ExecStops, Backed, Grows
      <4>5. ASSUME NEW f \in FrameTypes, Publish(r, f) PROVE Backed(r)'
        BY <4>5, PublishBacked
      <4>6. CASE StreamEnds(r)
        BY <4>6 DEF StreamEnds, Backed, Grows
      <4>7. CASE RefreshFails(r) \/ WatchCancel(r) \/ LeaseExpires(r) \/ Age(r)
        BY <4>7 DEF RefreshFails, WatchCancel, SetCancelEvent, LeaseExpires, Age, execs,
           Backed, Grows
      <4> QED
        BY <1>5, <4>1, <4>2, <4>3, <4>4, <4>5, <4>6, <4>7 DEF ExecNext, CleanupStep
    <3>5. ASSUME NEW q \in Requests, q # r PROVE Backed(q)'
      BY <1>0, <3>1, <3>3, <3>5, SameExec
    <3> QED
      BY <3>4, <3>5 DEF ExecOK
  <2> QED
    BY <2>0, <2>1
<1>6. CASE \E k \in Cancellers : CancelTurn(k) \/ KillerStep(k)
  <2>1. UNCHANGED <<epc, term, pending, final>>
    BY <1>6 DEF CancelTurn, KillerStep, SignalCancel, CancelAndWait, SetCancelEvent,
       WaitReleased, WaitTimesOut, ForceGet, ForceDelete, execs
  <2> QED
    BY <2>1, <1>3
<1>7. CASE LockExpires \/ UNCHANGED vars
  BY <1>7, <1>3 DEF LockExpires, vars, execs
<1> QED
  BY <1>4, <1>5, <1>6, <1>7 DEF Next

-----------------------------------------------------------------------------
(* The calls *)

\* What the invariant says about calls.
CallOK == CreatorsOK /\ CursorsOK /\ EndedSawEverything

\* Calls that stay where they are keep what they have, if the requests only
\* grow and nobody runs a claim that its creator still holds.
LEMMA SameCalls ==
    ASSUME TypeOK, StoreOK', CallOK, UNCHANGED <<cpc, creq, cursor>>,
           \A r \in Requests : Grows(store[r], store'[r]),
           \A r \in Requests : epc[r] = "none" => epc'[r] = "none"
    PROVE  CallOK'
<1>1. CreatorsOK'
  BY DEF CallOK, CreatorsOK, Grows, TypeOK
<1>2. CursorsOK'
  <2> SUFFICES ASSUME NEW c \in Calls, creq[c] # None
               PROVE  cursor[c] <= Len(store'[creq[c]].log)
    BY DEF CallOK, CursorsOK
  <2>1. PICK r \in Requests : r = creq[c]
    BY DEF TypeOK
  <2>2. cursor[c] \in Nat /\ Len(store[r].log) \in Nat /\ Len(store'[r].log) \in Nat
    BY DEF TypeOK, StoreOK, Metas
  <2>3. cursor[c] <= Len(store[r].log) /\ Len(store[r].log) <= Len(store'[r].log)
    BY <2>1 DEF CallOK, CursorsOK, Grows
  <2> QED
    BY <2>1, <2>2, <2>3, SMTT(30)
<1>3. EndedSawEverything'
  <2> SUFFICES ASSUME NEW c \in Calls, cpc[c] = "ended", creq[c] # None
               PROVE  IsClosed(store'[creq[c]]) /\ cursor[c] = Len(store'[creq[c]].log)
    BY DEF EndedSawEverything, IsClosed
  <2>1. PICK r \in Requests : r = creq[c]
    BY DEF TypeOK
  <2>2. IsClosed(store[r]) /\ cursor[c] = Len(store[r].log)
    BY <2>1 DEF CallOK, EndedSawEverything
  <2> QED
    BY <2>1, <2>2 DEF Grows
<1> QED
  BY <1>1, <1>2, <1>3 DEF CallOK

\* One call moves: what it comes to hold must be as the invariant says, and
\* the other calls must keep what they have.
LEMMA OneCall ==
    ASSUME TypeOK, StoreOK', CallOK,
           NEW c \in Calls, NEW step, NEW q, NEW n \in Nat,
           cpc' = [cpc EXCEPT ![c] = step],
           creq' = [creq EXCEPT ![c] = q],
           cursor' = [cursor EXCEPT ![c] = n],
           \A r \in Requests : Grows(store[r], store'[r]),
           \A d \in Calls \ {c} : cpc[d] \in Creating => epc'[creq[d]] = "none",
           step # "idle",
           step \in Creating =>
             /\ q \in Requests /\ epc'[q] = "none" /\ store'[q].status # "absent"
             /\ \A d \in Calls \ {c} : cpc[d] \in Creating => creq[d] # q,
           q # None => q \in Requests /\ n <= Len(store'[q].log),
           step = "ended" /\ q # None =>
             IsClosed(store'[q]) /\ n = Len(store'[q].log)
    PROVE  CallOK'
<1>0. \A d \in Calls : /\ cpc'[d] = IF d = c THEN step ELSE cpc[d]
                       /\ creq'[d] = IF d = c THEN q ELSE creq[d]
                       /\ cursor'[d] = IF d = c THEN n ELSE cursor[d]
  BY DEF TypeOK
<1>1. CreatorsOK'
  <2>1. \A d \in Calls \ {c} : cpc[d] \in Creating =>
            creq[d] \in Requests /\ store'[creq[d]].status # "absent"
    BY DEF CallOK, CreatorsOK, Grows, TypeOK
  <2> QED
    BY <1>0, <2>1 DEF CallOK, CreatorsOK
<1>2. CursorsOK'
  <2> SUFFICES ASSUME NEW d \in Calls
               PROVE  /\ cpc'[d] = "idle" => cursor'[d] = 0
                      /\ creq'[d] # None => cursor'[d] <= Len(store'[creq'[d]].log)
    BY DEF CursorsOK
  <2>1. CASE d = c
    BY <1>0, <2>1
  <2>2. CASE d # c
    <3>1. cpc'[d] = cpc[d] /\ creq'[d] = creq[d] /\ cursor'[d] = cursor[d]
      BY <1>0, <2>2
    <3>2. cpc[d] = "idle" => cursor[d] = 0
      BY DEF CallOK, CursorsOK
    <3>3. ASSUME creq[d] # None PROVE cursor[d] <= Len(store'[creq[d]].log)
      <4>1. PICK r \in Requests : r = creq[d]
        BY <3>3 DEF TypeOK
      <4>2. cursor[d] \in Nat /\ Len(store[r].log) \in Nat /\ Len(store'[r].log) \in Nat
        BY SMTT(30) DEF TypeOK, StoreOK, Metas
      <4>3. cursor[d] <= Len(store[r].log) /\ Len(store[r].log) <= Len(store'[r].log)
        BY <3>3, <4>1 DEF CallOK, CursorsOK, Grows
      <4> QED
        BY <4>1, <4>2, <4>3, SMTT(30)
    <3> QED
      BY <3>1, <3>2, <3>3
  <2> QED
    BY <2>1, <2>2
<1>3. EndedSawEverything'
  <2> SUFFICES ASSUME NEW d \in Calls, cpc'[d] = "ended", creq'[d] # None
               PROVE  IsClosed(store'[creq'[d]]) /\ cursor'[d] = Len(store'[creq'[d]].log)
    BY DEF EndedSawEverything, IsClosed
  <2>1. CASE d = c
    BY <1>0, <2>1
  <2>2. CASE d # c
    <3>1. PICK r \in Requests : r = creq[d]
      BY <1>0, <2>2 DEF TypeOK
    <3>2. IsClosed(store[r]) /\ cursor[d] = Len(store[r].log)
      BY <1>0, <2>2, <3>1 DEF CallOK, EndedSawEverything
    <3>3. IsClosed(store'[r]) /\ store'[r].log = store[r].log
      BY <3>2 DEF Grows
    <3> QED
      BY <1>0, <2>2, <3>1, <3>2, <3>3
  <2> QED
    BY <2>1, <2>2
<1> QED
  BY <1>1, <1>2, <1>3 DEF CallOK

\* A call goes on with its request and its cursor.
LEMMA GotoOK ==
    ASSUME TypeOK, StoreOK', CallOK, NEW c \in Calls, NEW step, CallGoto(c, step),
           creq[c] \in Requests,
           \A r \in Requests : Grows(store[r], store'[r]),
           \A d \in Calls \ {c} : cpc[d] \in Creating => epc'[creq[d]] = "none",
           step # "idle",
           step \in Creating => cpc[c] \in Creating /\ UNCHANGED epc,
           step = "ended" => AtEnd(c) /\ UNCHANGED store
    PROVE  CallOK'
<1>0. PICK r \in Requests : r = creq[c]
  OBVIOUS
<1>1. /\ cursor[c] \in Nat /\ Len(store[r].log) \in Nat /\ Len(store'[r].log) \in Nat
      /\ store[r].log \in Seq(FrameTypes)
  BY SMTT(30) DEF TypeOK, StoreOK, Metas
<1>2. cursor[c] <= Len(store[r].log) /\ Len(store[r].log) <= Len(store'[r].log)
  BY <1>0, NoneAssumption DEF CallOK, CursorsOK, Grows
<1>3. cursor[c] <= Len(store'[r].log)
  BY <1>1, <1>2
<1>4. step \in Creating =>
        /\ epc'[r] = "none" /\ store'[r].status # "absent"
        /\ \A d \in Calls \ {c} : cpc[d] \in Creating => creq[d] # r
  BY <1>0 DEF CallOK, CreatorsOK, Grows
<1>5. step = "ended" => IsClosed(store'[r]) /\ cursor[c] = Len(store'[r].log)
  BY <1>0, <1>1, <1>2 DEF AtEnd
<1>6. /\ cpc' = [cpc EXCEPT ![c] = step]
      /\ creq' = [creq EXCEPT ![c] = r]
      /\ cursor' = [cursor EXCEPT ![c] = cursor[c]]
  BY <1>0 DEF CallGoto, TypeOK
<1> QED
  BY <1>1, <1>3, <1>4, <1>5, <1>6, OneCall

\* A call stops and holds nothing any more.
LEMMA StopsOK ==
    ASSUME TypeOK, StoreOK', CallOK, NEW c \in Calls, NEW step \in {"refused", "gone"},
           CallStops(c, step), UNCHANGED epc,
           \A r \in Requests : Grows(store[r], store'[r])
    PROVE  CallOK'
<1>1. \A d \in Calls \ {c} : cpc[d] \in Creating => epc'[creq[d]] = "none"
  BY DEF CallOK, CreatorsOK
<1>2. step \notin Creating /\ step \notin {"idle", "ended"}
  BY DEF Creating
<1>3. /\ cpc' = [cpc EXCEPT ![c] = step]
      /\ creq' = [creq EXCEPT ![c] = None]
      /\ cursor' = [cursor EXCEPT ![c] = 0]
  BY DEF CallStops
<1> QED
  BY <1>1, <1>2, <1>3, OneCall

\* Every step keeps what the invariant says about calls.
LEMMA CallsStep ==
    ASSUME IInv, [Next]_vars, StoreOK',
           \A r \in Requests : Grows(store[r], store'[r]) \/ Discarded(r)
    PROVE  CallOK'
<1> USE DEF IInv
<1>0. CallOK
  BY DEF CallOK
<1>1. ASSUME NEW c \in Calls, DiscardDelete(c) PROVE CallOK'
  <2>1. PICK r \in Requests : r = creq[c]
    BY <1>1 DEF DiscardDelete, TypeOK, Creating
  <2>2. /\ \A q \in Requests : store'[q] = IF q = r THEN Absent ELSE store[q]
        /\ \A d \in Calls : cpc'[d] = IF d = c THEN "refused" ELSE cpc[d]
        /\ \A d \in Calls : creq'[d] \in {None, creq[d]}
        /\ \A d \in Calls : creq[d] = r /\ cpc[d] = "ended" => creq'[d] = None
        /\ \A d \in Calls : cursor'[d] = IF creq[d] = r THEN 0 ELSE cursor[d]
        /\ \A d \in Calls : d # c /\ cpc[d] # "ended" => creq'[d] = creq[d]
        /\ UNCHANGED epc
    BY <1>1, <2>1 DEF DiscardDelete, TypeOK, execs
  <2>3. \A d \in Calls \ {c} : cpc[d] \in Creating =>
            creq[d] # r /\ cpc[d] # "ended" /\ creq[d] \in Requests
    BY <1>1, <2>1 DEF DiscardDelete, CreatorsOK, Creating, TypeOK
  <2>4. CreatorsOK'
    BY <2>2, <2>3 DEF CreatorsOK, Creating
  <2>5. CursorsOK'
    <3> SUFFICES ASSUME NEW d \in Calls
                 PROVE  /\ cpc'[d] = "idle" => cursor'[d] = 0
                        /\ creq'[d] # None => cursor'[d] <= Len(store'[creq'[d]].log)
      BY DEF CursorsOK
    <3>1. CASE creq[d] = r
      BY <2>2, <3>1 DEF Absent
    <3>2. CASE creq[d] # r
      BY <2>2, <3>2 DEF CursorsOK, TypeOK
    <3> QED
      BY <3>1, <3>2
  <2>6. EndedSawEverything'
    <3> SUFFICES ASSUME NEW d \in Calls, cpc'[d] = "ended", creq'[d] # None
                 PROVE  /\ IsClosed(store'[creq'[d]])
                        /\ cursor'[d] = Len(store'[creq'[d]].log)
      BY DEF EndedSawEverything, IsClosed
    <3>1. d # c /\ cpc[d] = "ended" /\ creq[d] # r /\ creq'[d] = creq[d]
          /\ creq[d] \in Requests
      BY <2>2 DEF TypeOK
    <3>2. IsClosed(store[creq[d]]) /\ cursor[d] = Len(store[creq[d]].log)
      BY <3>1, NoneAssumption DEF EndedSawEverything
    <3> QED
      BY <2>2, <3>1, <3>2
  <2> QED
    BY <2>4, <2>5, <2>6 DEF CallOK
<1> SUFFICES ASSUME \A c \in Calls : ~DiscardDelete(c) PROVE CallOK'
  BY <1>1
<1>2. \A r \in Requests : Grows(store[r], store'[r])
  BY DEF Discarded
<1>3. ASSUME UNCHANGED calls, \A r \in Requests : epc[r] = "none" => epc'[r] = "none"
      PROVE  CallOK'
  BY <1>0, <1>2, <1>3, SameCalls DEF calls
<1>4. ASSUME UNCHANGED epc PROVE \A d \in Calls : cpc[d] \in Creating => epc'[creq[d]] = "none"
  BY <1>4 DEF CreatorsOK
<1>5. ASSUME NEW c \in Calls, CallNext(c) PROVE CallOK'
  <2> USE <1>0, <1>2
  <2>0. cpc[c] \in Creating \cup Following \cup {"read_meta"} => creq[c] \in Requests
    BY DEF TypeOK
  <2>1. ASSUME NEW r \in Requests, StartTurn(c, r) PROVE CallOK'
    <3> DEFINE step == IF store[r].status = "absent" THEN "acquire" ELSE "read_meta"
    <3>1. /\ cpc' = [cpc EXCEPT ![c] = step]
          /\ creq' = [creq EXCEPT ![c] = r]
          /\ cursor' = [cursor EXCEPT ![c] = 0]
          /\ UNCHANGED epc
          /\ store'[r] = Claim(store[r])
      BY <2>1 DEF StartTurn, CursorsOK, TypeOK, execs
    <3>2. step \in Creating =>
            /\ epc'[r] = "none" /\ store'[r].status # "absent"
            /\ \A d \in Calls \ {c} : cpc[d] \in Creating => creq[d] # r
      BY <3>1 DEF Creating, ExecOK, Backed, CreatorsOK, Claim, Absent
    <3>3. 0 <= Len(store'[r].log)
      BY DEF StoreOK, Metas
    <3>4. step \notin {"idle", "ended"}
      OBVIOUS
    <3>5. \A d \in Calls : cpc[d] \in Creating => epc'[creq[d]] = "none"
      BY <1>4, <3>1
    <3> HIDE DEF step
    <3> QED
      BY <3>1, <3>2, <3>3, <3>4, <3>5, OneCall
  <2>2. CASE ReadMeta(c)
    BY <2>0, <2>2, <1>4, GotoOK, StopsOK DEF ReadMeta, execs, Creating
  <2>3. CASE RejectInput(c)
    BY <2>0, <2>3, <1>4, GotoOK DEF RejectInput, execs, Creating
  <2>4. CASE Acquire(c)
    <3>1. \A d \in Calls \ {c} : cpc[d] \in Creating => epc'[creq[d]] = "none"
      BY <2>4 DEF Acquire, CreatorsOK, TypeOK, Creating
    <3>2. CASE lock = None
      BY <2>0, <2>4, <3>1, <3>2, GotoOK DEF Acquire, Creating
    <3>3. CASE lock # None
      BY <2>0, <2>4, <3>1, <3>3, GotoOK DEF Acquire, Creating
    <3> QED
      BY <3>2, <3>3
  <2>5. CASE DiscardRead(c)
    BY <2>0, <2>5, <1>4, GotoOK, StopsOK DEF DiscardRead, execs, Creating
  <2>6. CASE Disconnect(c)
    BY <2>6, StopsOK DEF Disconnect, execs
  <2>7. ASSUME NEW r \in Requests, NEW n \in 0 .. Len(store[r].log), Reconnect(c, r, n)
        PROVE  CallOK'
    <3>1. /\ cpc' = [cpc EXCEPT ![c] = "read"]
          /\ creq' = [creq EXCEPT ![c] = r]
          /\ cursor' = [cursor EXCEPT ![c] = n]
          /\ UNCHANGED <<epc, store>>
      BY <2>7 DEF Reconnect, execs
    <3>2. n \in Nat /\ n <= Len(store'[r].log) /\ "read" \notin Creating
      BY <3>1 DEF Creating
    <3> QED
      BY <1>4, <3>1, <3>2, OneCall
  <2>8. CASE ReadAfter(c)
    <3>1. PICK r \in Requests : r = creq[c]
      BY <2>0, <2>8 DEF ReadAfter, Following
    <3>2. CASE CallGoto(c, "after_empty")
      BY <2>8, <3>1, <3>2, <1>4, GotoOK DEF ReadAfter, execs, Creating
    <3>3. ASSUME NEW n \in (cursor[c] + 1) .. Len(store[r].log),
                 cpc' = [cpc EXCEPT ![c] = "after_read"],
                 cursor' = [cursor EXCEPT ![c] = n], UNCHANGED <<creq, crun>>
          PROVE  CallOK'
      <4>1. creq' = [creq EXCEPT ![c] = r] /\ UNCHANGED <<epc, store>>
        BY <2>8, <3>1, <3>3 DEF ReadAfter, TypeOK, execs
      <4>2. n \in Nat /\ n <= Len(store'[r].log) /\ "after_read" \notin Creating
        BY <4>1 DEF TypeOK, Metas, Creating
      <4> QED
        BY <1>4, <3>3, <4>1, <4>2, OneCall
    <3> QED
      BY <2>8, <3>1, <3>2, <3>3 DEF ReadAfter
  <2>9. CASE AfterRead(c)
    BY <2>0, <2>9, <1>4, GotoOK, StopsOK DEF AfterRead, execs, Creating, Following
  <2>10. CASE AfterEmpty(c)
    <3>0. UNCHANGED <<epc, store>> /\ creq[c] \in Requests
      BY <2>0, <2>10 DEF AfterEmpty, execs, Following
    <3>1. CASE CallStops(c, "refused")
      BY <3>0, <3>1, StopsOK
    <3>2. CASE AtEnd(c) /\ CallGoto(c, "ended")
      BY <3>0, <3>2, <1>4, GotoOK DEF Creating
    <3>3. CASE CallGoto(c, "read")
      BY <3>0, <3>3, <1>4, GotoOK DEF Creating
    <3>4. CASE cpc' = [cpc EXCEPT ![c] = "has_lease"] /\ UNCHANGED <<creq, cursor>>
      <4>1. PICK r \in Requests : r = creq[c]
        BY <3>0
      <4>2. /\ cpc' = [cpc EXCEPT ![c] = "has_lease"]
            /\ creq' = [creq EXCEPT ![c] = r]
            /\ cursor' = [cursor EXCEPT ![c] = cursor[c]]
        BY <3>4, <4>1 DEF TypeOK
      <4>3. cursor[c] \in Nat /\ cursor[c] <= Len(store'[r].log) /\ "has_lease" \notin Creating
        BY <3>0, <4>1, NoneAssumption DEF TypeOK, CursorsOK, Creating
      <4>4. \A d \in Calls : cpc[d] \in Creating => epc'[creq[d]] = "none"
        BY <1>4, <3>0
      <4> QED
        BY <4>2, <4>3, <4>4, OneCall
    <3> QED
      BY <2>10, <3>1, <3>2, <3>3, <3>4 DEF AfterEmpty
  <2>11. CASE HasLease(c)
    BY <2>0, <2>11, <1>4, GotoOK DEF HasLease, execs, Creating, Following
  <2>12. CASE MarkExecutionLost(c)
    BY <2>0, <2>12, <1>4, GotoOK DEF MarkExecutionLost, execs, Creating, Following
  <2> QED
    BY <1>5, <2>1, <2>2, <2>3, <2>4, <2>5, <2>6, <2>7, <2>8, <2>9, <2>10, <2>11, <2>12
       DEF CallNext, CallStep
<1>6. ASSUME NEW r \in Requests, ExecNext(r) PROVE CallOK'
  <2>1. UNCHANGED calls
    BY <1>6 DEF ExecNext, CleanupStep, BeginRunning, AppendFailure, ExecFinish, ClearCancel,
       Release, Publish, ExecFails, StreamEnds, RefreshFails, WatchCancel, Crash,
       LeaseExpires, Age
  <2>2. \A q \in Requests : epc[q] = "none" => epc'[q] = "none"
    BY <1>6 DEF ExecNext, CleanupStep, BeginRunning, AppendFailure, ExecFinish, ClearCancel,
       Release, Publish, ExecFails, StreamEnds, RefreshFails, WatchCancel, Crash, Live,
       LeaseExpires, Age, execs, ExecGoto, ExecStops, SetCancelEvent, TypeOK
  <2> QED
    BY <1>3, <2>1, <2>2
<1>7. CASE \E k \in Cancellers : CancelTurn(k) \/ KillerStep(k)
  <2>1. UNCHANGED <<calls, epc>>
    BY <1>7 DEF CancelTurn, KillerStep, SignalCancel, CancelAndWait, SetCancelEvent,
       WaitReleased, WaitTimesOut, ForceGet, ForceDelete, execs
  <2> QED
    BY <1>3, <2>1
<1>8. CASE LockExpires \/ UNCHANGED vars
  BY <1>3, <1>8 DEF LockExpires, vars, execs
<1> QED
  BY <1>5, <1>6, <1>7, <1>8 DEF Next

-----------------------------------------------------------------------------
(* The store is a set of logs that are opened and closed once *)

\* How a request's turn stands for a reader of its keys.
Seen(m) == CASE m.status = "absent" -> "none" [] IsOpen(m) -> "open" [] OTHER -> m.status

\* The keys of a request that nobody has run: there are none, or a claim
\* without frames, or one that was reported lost.
Unrun(m) ==
    \/ m.status = "absent"
    \/ m.status = "starting" /\ m.log = <<>>
    \/ m.status = "failed" /\ m.log = <<"error">>

UnrunOK == \A r \in Requests : epc[r] = "none" => Unrun(store[r])

\* What may happen to one log in one step.
Kept(m, n) == Seen(n) = Seen(m) /\ n.log = m.log
Opened(m, n) == Seen(m) = "none" /\ Seen(n) = "open" /\ n.log = m.log
Added(m, n) ==
    /\ Seen(m) = "open"
    /\ \E f \in FrameTypes :
         /\ n.log = Append(m.log, f)
         /\ Seen(n) = IF CloseStatus(f) = "none" THEN "open" ELSE CloseStatus(f)
GivenUp(m, n) ==
    /\ Seen(m) = "open" /\ n.log = m.log
    /\ Seen(n) = "failed" \/ (Seen(n) = "interrupted" /\ HasPending(m))
Forgotten(m, n) ==
    /\ \/ Seen(m) = "open" /\ m.log = <<>>
       \/ Seen(m) = "failed" /\ m.log = <<"error">>
    /\ Seen(n) = "none" /\ n.log = <<>>

LogStep(m, n) ==
    Kept(m, n) \/ Opened(m, n) \/ Added(m, n) \/ GivenUp(m, n) \/ Forgotten(m, n)

\* The logs make one step of TurnLogs, or none.
LogsStep == TurnLog!Next \/ UNCHANGED <<Outcomes, Logs>>

\* A step on one request's keys is a step of the logs.
LEMMA OneLog ==
    ASSUME store \in [Requests -> Metas], NEW q \in Requests, NEW n,
           store' = [store EXCEPT ![q] = n],
           LogStep(store[q], n)
    PROVE  LogsStep
<1> DEFINE m == store[q]
<1>1. /\ Outcomes = [r \in Requests |-> Seen(store[r])]
      /\ Outcomes' = [r \in Requests |-> Seen(store'[r])]
  BY DEF Outcomes, Seen, IsOpen
<1>2. \A r \in Requests : store'[r] = IF r = q THEN n ELSE store[r]
  OBVIOUS
<1>3. /\ Outcomes' = [Outcomes EXCEPT ![q] = Seen(n)]
      /\ Logs' = [Logs EXCEPT ![q] = n.log]
      /\ Outcomes[q] = Seen(m)
      /\ Logs[q] = m.log
  BY <1>1, <1>2 DEF Logs
<1> HIDE DEF m
<1>4. CASE Kept(m, n)
  <2>1. Outcomes' = Outcomes /\ Logs' = Logs
    BY <1>1, <1>3, <1>4 DEF Kept, Logs
  <2> QED
    BY <2>1 DEF LogsStep
<1>5. CASE Opened(m, n)
  <2>1. Logs' = Logs
    BY <1>3, <1>5 DEF Opened, Logs
  <2>2. TurnLog!Open(q)
    BY <1>3, <1>5, <2>1 DEF Opened, TurnLog!Open
  <2> QED
    BY <2>2 DEF LogsStep, TurnLog!Next
<1>6. CASE Added(m, n)
  <2>1. PICK f \in FrameTypes :
          /\ n.log = Append(m.log, f)
          /\ Seen(n) = IF CloseStatus(f) = "none" THEN "open" ELSE CloseStatus(f)
    BY <1>6 DEF Added
  <2>2. TurnLog!Add(q, f, Seen(n))
    BY <1>3, <1>6, <2>1 DEF Added, TurnLog!Add
  <2>3. \/ f \in {"token", "pending"} /\ Seen(n) = "open"
        \/ f = "done" /\ Seen(n) = "completed"
        \/ f = "error" /\ Seen(n) = "failed"
        \/ f = "cancelled" /\ Seen(n) = "cancelled"
    BY <2>1 DEF FrameTypes, CloseStatus
  <2> QED
    BY <2>2, <2>3 DEF LogsStep, TurnLog!Next
<1>7. CASE GivenUp(m, n)
  <2>1. Logs' = Logs
    BY <1>3, <1>7 DEF GivenUp, Logs
  <2>2. TurnLog!GiveUp(q, Seen(n)) /\ Seen(n) \in {"failed", "interrupted"}
    BY <1>3, <1>7, <2>1 DEF GivenUp, HasPending, TurnLog!GiveUp
  <2> QED
    BY <2>2 DEF LogsStep, TurnLog!Next
<1>8. CASE Forgotten(m, n)
  <2>1. TurnLog!Forget(q)
    BY <1>3, <1>8 DEF Forgotten, TurnLog!Forget
  <2> QED
    BY <2>1 DEF LogsStep, TurnLog!Next
<1> QED
  BY <1>4, <1>5, <1>6, <1>7, <1>8 DEF LogStep, m

\* Every script of the store, and the end of a lease, is a step of the log.
LEMMA ScriptsAreSteps ==
    ASSUME NEW m, WellFormed(m)
    PROVE  /\ LogStep(m, Claim(m))
           /\ CanSetRunning(m) => LogStep(m, SetRunning(m))
           /\ \A f \in FrameTypes, force \in BOOLEAN :
                AppendResult(m, 1, force) = "OK" =>
                  LogStep(m, AppendFrame(m, f, 1, CloseStatus(f)))
           /\ CanMarkLost(m) => LogStep(m, MarkLost(m, "error", 1))
           /\ \A s \in ClosedStatus :
                (s # "failed" => IsClosed(m) \/ (s = "interrupted" /\ HasPending(m)))
                  => LogStep(m, Finish(m, s))
           /\ LogStep(m, ExpireLease(m))
           /\ Unrun(m) /\ m.status # "absent" => LogStep(m, Absent)
<1>1. LogStep(m, Claim(m))
  BY DEF WellFormed, Metas, LogStep, Kept, Opened, Seen, Claim, Absent, IsOpen, OpenStatus
<1>2. CanSetRunning(m) => LogStep(m, SetRunning(m))
  BY DEF WellFormed, Metas, LogStep, Kept, Seen, CanSetRunning, SetRunning, IsOpen, OpenStatus
<1>3. ASSUME NEW f \in FrameTypes, NEW force \in BOOLEAN, AppendResult(m, 1, force) = "OK"
      PROVE  LogStep(m, AppendFrame(m, f, 1, CloseStatus(f)))
  <2> DEFINE n == AppendFrame(m, f, 1, CloseStatus(f))
  <2>1. IsOpen(m)
    BY <1>3, AppendFrameOK
  <2>2. /\ n.log = Append(m.log, f)
        /\ n.status = IF CloseStatus(f) = "none" THEN m.status ELSE CloseStatus(f)
    BY DEF AppendFrame
  <2>3. CloseStatus(f) \in {"none", "failed", "cancelled", "completed"}
    BY DEF CloseStatus
  <2>4. Seen(m) = "open" /\ Seen(n) = IF CloseStatus(f) = "none" THEN "open" ELSE CloseStatus(f)
    BY <2>1, <2>2, <2>3 DEF Seen, IsOpen, OpenStatus
  <2> HIDE DEF n
  <2>5. Added(m, n)
    BY <2>2, <2>4 DEF Added
  <2> QED
    BY <2>5 DEF LogStep, n
<1>4. ASSUME CanMarkLost(m) PROVE LogStep(m, MarkLost(m, "error", 1))
  <2>1. Added(m, MarkLost(m, "error", 1))
    BY <1>4 DEF Added, Seen, CanMarkLost, MarkLost, IsOpen, OpenStatus, CloseStatus, FrameTypes
  <2> QED
    BY <2>1 DEF LogStep
<1>5. ASSUME NEW s \in ClosedStatus,
             s # "failed" => IsClosed(m) \/ (s = "interrupted" /\ HasPending(m))
      PROVE  LogStep(m, Finish(m, s))
  <2>1. CASE IsOpen(m)
    <3>1. GivenUp(m, Finish(m, s))
      BY <1>5, <2>1 DEF GivenUp, Seen, Finish, IsOpen, IsClosed, OpenStatus, ClosedStatus
    <3> QED
      BY <3>1 DEF LogStep
  <2>2. CASE ~IsOpen(m)
    <3>1. Kept(m, Finish(m, s))
      BY <2>2 DEF Kept, Seen, Finish, IsOpen
    <3> QED
      BY <3>1 DEF LogStep
  <2> QED
    BY <2>1, <2>2
<1>6. LogStep(m, ExpireLease(m))
  BY DEF LogStep, Kept, Seen, ExpireLease, IsOpen
<1>7. Unrun(m) /\ m.status # "absent" => LogStep(m, Absent)
  BY DEF LogStep, Forgotten, Unrun, Seen, Absent, IsOpen, OpenStatus
<1> QED
  BY <1>1, <1>2, <1>3, <1>4, <1>5, <1>6, <1>7

\* Every step of the calls, the executions and the failures is one of the logs.
LEMMA LogsNext ==
    ASSUME IInv, UnrunOK, [Next]_vars
    PROVE  LogsStep
<1> USE DEF IInv
<1>0. store \in [Requests -> Metas] /\ \A r \in Requests : WellFormed(store[r])
  BY DEF StoreOK
<1>1. ASSUME UNCHANGED store PROVE LogsStep
  BY <1>1 DEF LogsStep, Outcomes, Logs
<1>2. CASE Quiet \/ UNCHANGED vars
  <2>1. UNCHANGED store
    BY <1>2, QuietKeepsStore DEF vars
  <2> QED
    BY <1>1, <2>1
<1>3. ASSUME NEW c \in Calls, NEW r \in Requests, StartTurn(c, r) PROVE LogsStep
  BY <1>0, <1>3, ScriptsAreSteps, OneLog DEF StartTurn
<1>4. ASSUME NEW c \in Calls, MarkExecutionLost(c) PROVE LogsStep
  <2>1. creq[c] \in Requests
    BY <1>4 DEF TypeOK, MarkExecutionLost, Following
  <2> QED
    BY <1>0, <1>1, <1>4, <2>1, ScriptsAreSteps, OneLog DEF MarkExecutionLost
<1>5. ASSUME NEW r \in Requests, BeginRunning(r) PROVE LogsStep
  BY <1>0, <1>1, <1>5, ScriptsAreSteps, OneLog DEF BeginRunning
<1>6. ASSUME NEW r \in Requests, AppendFailure(r) PROVE LogsStep
  <2>1. CloseStatus("error") = "failed" /\ "error" \in FrameTypes
    BY DEF CloseStatus, FrameTypes
  <2>2. CASE UNCHANGED store
    BY <1>1, <2>2
  <2>3. CASE /\ AppendResult(store[r], 1, TRUE) = "OK"
             /\ store' = [store EXCEPT ![r] = AppendFrame(store[r], "error", 1, "failed")]
    <3>1. LogStep(store[r], AppendFrame(store[r], "error", 1, "failed"))
      BY <1>0, <2>1, <2>3, ScriptsAreSteps
    <3> QED
      BY <1>0, <2>3, <3>1, OneLog
  <2> QED
    BY <1>6, <2>2, <2>3 DEF AppendFailure
<1>7. ASSUME NEW r \in Requests, ExecFinish(r) PROVE LogsStep
  <2>1. final[r] \in ClosedStatus
    BY DEF TypeOK
  <2>2. final[r] # "failed" =>
            IsClosed(store[r]) \/ (final[r] = "interrupted" /\ HasPending(store[r]))
    BY DEF ExecOK, Backed
  <2>3. LogStep(store[r], Finish(store[r], final[r]))
    BY <1>0, <2>1, <2>2, ScriptsAreSteps
  <2> QED
    BY <1>0, <1>7, <2>3, OneLog DEF ExecFinish
<1>8. ASSUME NEW r \in Requests, LeaseExpires(r) PROVE LogsStep
  BY <1>0, <1>8, ScriptsAreSteps, OneLog DEF LeaseExpires
<1>9. ASSUME NEW r \in Requests, NEW f \in FrameTypes, Publish(r, f) PROVE LogsStep
  <2>1. CASE UNCHANGED store
    BY <1>1, <2>1
  <2>2. CASE /\ AppendResult(store[r], 1, FALSE) = "OK"
             /\ store' = [store EXCEPT ![r] = AppendFrame(store[r], f, 1, CloseStatus(f))]
    <3>1. LogStep(store[r], AppendFrame(store[r], f, 1, CloseStatus(f)))
      BY <1>0, <2>2, ScriptsAreSteps
    <3> QED
      BY <1>0, <2>2, <3>1, OneLog
  <2> QED
    BY <1>9, <2>1, <2>2 DEF Publish
<1>10. ASSUME NEW c \in Calls, DiscardDelete(c) PROVE LogsStep
  <2>1. creq[c] \in Requests /\ cpc[c] \in Creating
    BY <1>10 DEF TypeOK, DiscardDelete, Creating
  <2>2. Unrun(store[creq[c]]) /\ store[creq[c]].status # "absent"
    BY <2>1 DEF CreatorsOK, UnrunOK
  <2>3. LogStep(store[creq[c]], Absent)
    BY <1>0, <2>1, <2>2, ScriptsAreSteps
  <2> QED
    BY <1>0, <1>10, <2>1, <2>3, OneLog DEF DiscardDelete
<1> QED
  BY <1>2, <1>3, <1>4, <1>5, <1>6, <1>7, <1>8, <1>9, <1>10, NextCases DEF Writes

\* No step puts an execution back to where it was not run.
LEMMA NeverUnrunAgain ==
    ASSUME TypeOK, [Next]_vars, NEW r \in Requests, epc'[r] = "none"
    PROVE  epc[r] = "none"
<1> USE DEF TypeOK
<1>1. CASE Frame
  BY <1>1 DEF Frame
<1>2. ASSUME NEW c \in Calls, Acquire(c) \/ MarkExecutionLost(c) PROVE epc[r] = "none"
  BY <1>2 DEF Acquire, MarkExecutionLost, execs
<1>3. ASSUME NEW q \in Requests, Moves(q) \/ Release(q) \/ Crash(q) PROVE epc[r] = "none"
  BY <1>3 DEF Moves, Release, Crash, ExecStops
<1>4. ASSUME NEW k \in Cancellers, ForceDelete(k) PROVE epc[r] = "none"
  BY <1>4 DEF ForceDelete, execs
<1>5. CASE LockExpires
  BY <1>5 DEF LockExpires, execs
<1> QED
  BY <1>1, <1>2, <1>3, <1>4, <1>5, LockChanges DEF LockCases

\* Every step leaves a request that nobody has run without frames of a turn.
LEMMA UnrunStep ==
    ASSUME IInv, UnrunOK, [Next]_vars
    PROVE  UnrunOK'
<1> USE DEF IInv
<1>0. store \in [Requests -> Metas]
  BY DEF StoreOK
<1>1. ASSUME NEW q \in Requests, NEW n, store' = [store EXCEPT ![q] = n],
             epc[q] = "none" => Unrun(n)
      PROVE  UnrunOK'
  <2> SUFFICES ASSUME NEW r \in Requests, epc'[r] = "none" PROVE Unrun(store'[r])
    BY DEF UnrunOK, Unrun
  <2>1. epc[r] = "none"
    BY NeverUnrunAgain
  <2>2. Unrun(store[r])
    BY <2>1 DEF UnrunOK
  <2>3. store'[r] = IF r = q THEN n ELSE store[r]
    BY <1>0, <1>1
  <2> QED
    BY <1>1, <2>1, <2>2, <2>3
<1>2. ASSUME UNCHANGED store PROVE UnrunOK'
  BY <1>2, NeverUnrunAgain DEF UnrunOK, Unrun
<1>3. CASE Quiet \/ UNCHANGED vars
  <2>1. UNCHANGED store
    BY <1>3, QuietKeepsStore DEF vars
  <2> QED
    BY <1>2, <2>1
<1>4. ASSUME NEW c \in Calls, NEW r \in Requests, StartTurn(c, r) PROVE UnrunOK'
  <2>1. Unrun(store[r]) => Unrun(Claim(store[r]))
    BY DEF Unrun, Claim, Absent
  <2> QED
    BY <1>1, <1>4, <2>1 DEF StartTurn, UnrunOK
<1>5. ASSUME NEW c \in Calls, MarkExecutionLost(c) PROVE UnrunOK'
  <2>1. creq[c] \in Requests
    BY <1>5 DEF TypeOK, MarkExecutionLost, Following
  <2>2. CanMarkLost(store[creq[c]]) /\ Unrun(store[creq[c]])
          => Unrun(MarkLost(store[creq[c]], "error", 1))
    <3>1. Append(<<>>, "error") = <<"error">>
      OBVIOUS
    <3> QED
      BY <3>1 DEF Unrun, CanMarkLost, MarkLost, IsOpen, OpenStatus
  <2>3. CASE CanMarkLost(store[creq[c]])
    <3>1. store' = [store EXCEPT ![creq[c]] = MarkLost(store[creq[c]], "error", 1)]
      BY <1>5, <2>3 DEF MarkExecutionLost
    <3> QED
      BY <1>1, <2>1, <2>2, <2>3, <3>1 DEF UnrunOK
  <2>4. CASE ~CanMarkLost(store[creq[c]])
    BY <1>2, <1>5, <2>4 DEF MarkExecutionLost
  <2> QED
    BY <2>3, <2>4
<1>6. ASSUME NEW r \in Requests, LeaseExpires(r) PROVE UnrunOK'
  <2>1. Unrun(store[r]) => Unrun(ExpireLease(store[r]))
    BY DEF Unrun, ExpireLease
  <2> QED
    BY <1>1, <1>6, <2>1 DEF LeaseExpires, UnrunOK
<1>7. ASSUME NEW r \in Requests, BeginRunning(r) \/ AppendFailure(r) \/ ExecFinish(r)
      PROVE  UnrunOK'
  <2>1. epc[r] # "none"
    BY <1>7 DEF BeginRunning, AppendFailure, ExecFinish
  <2>2. UNCHANGED store \/ \E n : store' = [store EXCEPT ![r] = n]
    BY <1>7 DEF BeginRunning, AppendFailure, ExecFinish
  <2> QED
    BY <1>1, <1>2, <2>1, <2>2
<1>8. ASSUME NEW r \in Requests, NEW f \in FrameTypes, Publish(r, f) PROVE UnrunOK'
  <2>1. epc[r] # "none"
    BY <1>8 DEF Publish
  <2>2. UNCHANGED store \/ \E n : store' = [store EXCEPT ![r] = n]
    BY <1>8 DEF Publish
  <2> QED
    BY <1>1, <1>2, <2>1, <2>2
<1>9. ASSUME NEW c \in Calls, DiscardDelete(c) PROVE UnrunOK'
  <2>1. creq[c] \in Requests /\ Unrun(Absent)
    BY <1>9 DEF TypeOK, DiscardDelete, Creating, Unrun, Absent
  <2> QED
    BY <1>1, <1>9, <2>1 DEF DiscardDelete
<1> QED
  BY <1>3, <1>4, <1>5, <1>6, <1>7, <1>8, <1>9, NextCases DEF Writes

-----------------------------------------------------------------------------
(* Theorems *)

\* The invariant is inductive.
LEMMA Induction == IInv /\ [Next]_vars => IInv'
<1> SUFFICES ASSUME IInv, [Next]_vars PROVE IInv'
  OBVIOUS
<1>1. StoreOK' /\ \A r \in Requests : Grows(store[r], store'[r]) \/ Discarded(r)
  BY StoreStep
<1>2. TypeOK'
  BY <1>1, TypeStep
<1>3. ExecOK'
  BY <1>1, ExecStep
<1>4. CreatorsOK' /\ CursorsOK' /\ EndedSawEverything'
  BY <1>1, CallsStep DEF CallOK
<1>5. NoLeakedLock'
  BY LeakStep DEF IInv
<1> QED
  BY <1>1, <1>2, <1>3, <1>4, <1>5 DEF IInv

\* The invariant holds in every state of ReplayTurn.
THEOREM Invariance == Spec => []IInv
BY InitOK, Induction, PTL DEF Spec

\* The variables keep their types.
THEOREM TypeCorrect == Spec => []TypeOK
<1>1. IInv => TypeOK
  BY DEF IInv
<1> QED
  BY <1>1, Invariance, PTL

\* Whatever calls, executions and failures do, a request's log gets at most
\* one terminal frame (ReplayStore's scripts), as its last.
THEOREM LogIsClosedOnce == Spec => []LogClosedOnce
<1>1. IInv => LogClosedOnce
  BY DEF IInv, StoreOK, WellFormed, LogClosedOnce
<1> QED
  BY <1>1, Invariance, PTL

\* The status a reconnecting client reads and the frames it gets tell one
\* story.
THEOREM StatusAlwaysMatchesLog == Spec => []StatusMatchesLog
<1>1. IInv => StatusMatchesLog
  BY DEF IInv, StoreOK, WellFormed, StatusMatchesLog, LogEnded, HasPending
<1> QED
  BY <1>1, Invariance, PTL

\* A stream that stream_replay ended was delivered whole.
THEOREM EndedStreamsAreWhole == Spec => []EndedSawEverything
<1>1. IInv => EndedSawEverything
  BY DEF IInv
<1> QED
  BY <1>1, Invariance, PTL

\* If no turn is resumed, an execution that runs holds the session lock,
\* unless the lock was taken from it.  (An execution that resumes a turn may
\* lose it to the release of an earlier one, which has the same turn id.)
THEOREM LockExcludesTurns ==
    ASSUME OwnTurns
    PROVE  Spec => []LiveTurnHoldsLock
<1>1. Init => LiveTurnHoldsLock
  BY DEF Init, LiveTurnHoldsLock, Live
<1>2. IInv /\ LiveTurnHoldsLock /\ [Next]_vars => LiveTurnHoldsLock'
  BY ExclusionStep DEF IInv
<1> QED
  BY <1>1, <1>2, Invariance, PTL DEF Spec

\* No way out of an execution leaves the session locked, a crash apart.
THEOREM LockIsNotLeaked == Spec => []NoLeakedLock
<1>1. IInv => NoLeakedLock
  BY DEF IInv
<1> QED
  BY <1>1, Invariance, PTL

\* However the execution, the calls that follow, discard or report it, the
\* cancellers and the failures overlap, the store behaves as the logs of
\* TurnLogs: each is opened once, grows, and is closed once.
THEOREM StoreIsALog == Spec => ImplementsTurnLogs
<1>1. ASSUME Init PROVE UnrunOK /\ TurnLog!Init
  <2>1. \A r \in Requests : store[r].status = "absent" /\ store[r].log = <<>>
    BY <1>1 DEF Init, Absent
  <2>2. Logs = [r \in Requests |-> <<>>]
    BY <2>1 DEF Logs
  <2>3. Outcomes = [r \in Requests |-> "none"]
    <3>1. \A r \in Requests : Seen(store[r]) = "none"
      BY <2>1 DEF Seen, IsOpen, OpenStatus
    <3>2. Outcomes = [r \in Requests |-> Seen(store[r])]
      BY DEF Outcomes, Seen, IsOpen
    <3> QED
      BY <3>1, <3>2
  <2> QED
    BY <2>1, <2>2, <2>3 DEF UnrunOK, Unrun, TurnLog!Init
<1>2. IInv /\ UnrunOK /\ [Next]_vars => UnrunOK' /\ [TurnLog!Next]_<<Outcomes, Logs>>
  BY UnrunStep, LogsNext DEF LogsStep
<1> QED
  BY <1>1, <1>2, Invariance, PTL DEF Spec, ImplementsTurnLogs, TurnLog!Spec

\* A request whose turn has ended keeps its outcome and its frames for ever,
\* whoever still writes to it; only the report of a claim that was never run
\* may go.  It follows from TurnLogs alone.
ClosedRequestsRest ==
    \A r \in Requests :
        Outcomes[r] \notin {"none", "open"} =>
            \/ Outcomes'[r] = Outcomes[r] /\ Logs'[r] = Logs[r]
            \/ Logs[r] = <<"error">> /\ Outcomes'[r] = "none" /\ Logs'[r] = <<>>

\* A late frame, a late finish or a late delete (_APPEND_SCRIPT, _FINISH_SCRIPT,
\* discard_starting) does not change how a turn has ended.
THEOREM EndedTurnsRest == Spec => [][ClosedRequestsRest]_<<Outcomes, Logs>>
<1> DEFINE Typed == /\ Outcomes = [r \in Requests |-> Outcomes[r]]
                    /\ Logs = [r \in Requests |-> Logs[r]]
<1>1. Typed
  BY DEF Outcomes, Logs
<1>2. Typed /\ [TurnLog!Next]_<<Outcomes, Logs>> =>
         [ClosedRequestsRest]_<<Outcomes, Logs>>
  BY DEF ClosedRequestsRest, TurnLog!Next, TurnLog!Open, TurnLog!Add, TurnLog!GiveUp,
     TurnLog!Forget
<1> QED
  BY <1>1, <1>2, StoreIsALog, PTL DEF ImplementsTurnLogs, TurnLog!Spec

\* A follower that has read part of a log finds the same frames at the same places
\* when it reads on, in whatever way the log has changed meanwhile; only a log that
\* had no frame of a turn yet can be gone.
FramesStay ==
    \A r \in Requests :
        \/ /\ Len(Logs'[r]) >= Len(Logs[r])
           /\ \A i \in 1 .. Len(Logs[r]) : Logs'[r][i] = Logs[r][i]
        \/ Outcomes'[r] = "none" /\ Logs[r] \in {<<>>, <<"error">>}

\* What read_after has delivered under an offset is never withdrawn or replaced.
THEOREM FramesAreNeverWithdrawn == Spec => [][FramesStay]_<<Outcomes, Logs>>
<1> DEFINE Typed == /\ Outcomes = [r \in Requests |-> Outcomes[r]]
                    /\ Logs \in [Requests -> Seq(FrameTypes)]
<1>1. TypeOK => Typed
  BY DEF TypeOK, Metas, Outcomes, Logs
<1>2. Typed /\ [TurnLog!Next]_<<Outcomes, Logs>> => [FramesStay]_<<Outcomes, Logs>>
  <2> SUFFICES ASSUME Typed, TurnLog!Next, NEW r \in Requests
               PROVE  \/ /\ Len(Logs'[r]) >= Len(Logs[r])
                         /\ \A i \in 1 .. Len(Logs[r]) : Logs'[r][i] = Logs[r][i]
                      \/ Outcomes'[r] = "none" /\ Logs[r] \in {<<>>, <<"error">>}
    BY DEF FramesStay
  <2>1. PICK q \in Requests :
            \/ UNCHANGED Logs
            \/ \E f \in FrameTypes : Logs' = [Logs EXCEPT ![q] = Append(@, f)]
            \/ TurnLog!Forget(q)
    <3>1. PICK q \in Requests :
              \/ TurnLog!Open(q)
              \/ \E f \in FrameTypes, result \in {"open", "completed", "failed", "cancelled"} :
                    TurnLog!Add(q, f, result)
              \/ \E result \in {"failed", "interrupted"} : TurnLog!GiveUp(q, result)
              \/ TurnLog!Forget(q)
      <4>1. {"token", "pending", "done", "error", "cancelled"} \subseteq FrameTypes
        BY DEF FrameTypes
      <4>2. PICK q \in Requests :
                \/ TurnLog!Open(q)
                \/ TurnLog!Add(q, "token", "open") \/ TurnLog!Add(q, "pending", "open")
                \/ TurnLog!Add(q, "done", "completed") \/ TurnLog!Add(q, "error", "failed")
                \/ TurnLog!Add(q, "cancelled", "cancelled")
                \/ TurnLog!GiveUp(q, "failed") \/ TurnLog!GiveUp(q, "interrupted")
                \/ TurnLog!Forget(q)
        BY Zenon DEF TurnLog!Next
      <4> QED  BY <4>1, <4>2, Zenon
    <3> QED  BY <3>1 DEF TurnLog!Open, TurnLog!Add, TurnLog!GiveUp
  <2>0. Logs[r] \in Seq(FrameTypes) /\ Len(Logs[r]) \in Nat
    <3>1. Logs[r] \in Seq(FrameTypes)
      OBVIOUS
    <3> QED  BY <3>1
  <2>2. CASE TurnLog!Forget(q)
    <3>1. CASE r = q
      BY <2>2, <3>1 DEF TurnLog!Forget
    <3>2. CASE r # q
      <4>1. Logs'[r] = Logs[r]
        BY <2>2, <3>2 DEF TurnLog!Forget
      <4> QED  BY <2>0, <4>1
    <3> QED  BY <3>1, <3>2
  <2>3. CASE UNCHANGED Logs
    BY <2>0, <2>3
  <2>4. ASSUME NEW f \in FrameTypes, Logs' = [Logs EXCEPT ![q] = Append(@, f)]
        PROVE  /\ Len(Logs'[r]) >= Len(Logs[r])
               /\ \A i \in 1 .. Len(Logs[r]) : Logs'[r][i] = Logs[r][i]
    <3>1. CASE r = q
      <4> DEFINE s == Logs[r]
      <4>1. s \in Seq(FrameTypes) /\ Logs'[r] = Append(s, f)
        BY <2>4, <3>1
      <4>2. Len(Append(s, f)) = Len(s) + 1 /\ \A i \in 1 .. Len(s) : Append(s, f)[i] = s[i]
        <5> HIDE DEF s
        <5> QED  BY <4>1
      <4> QED  BY <4>1, <4>2
    <3>2. CASE r # q
      <4>1. Logs'[r] = Logs[r]
        BY <2>4, <3>2
      <4> QED  BY <2>0, <4>1
    <3> QED  BY <3>1, <3>2
  <2> QED
    BY <2>1, <2>2, <2>3, <2>4
<1> QED
  BY <1>1, <1>2, TypeCorrect, StoreIsALog, PTL DEF ImplementsTurnLogs, TurnLog!Spec
=============================================================================
