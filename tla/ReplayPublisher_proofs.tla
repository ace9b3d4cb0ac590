----------------------- MODULE ReplayPublisher_proofs -----------------------
(***************************************************************************)
(* Proof that the log of a turn is faithful to what its execution has      *)
(* published (LogIsFaithful), for a stream of any length and a buffer of   *)
(* any size.  The argument is about one line of frames, those of the log,  *)
(* of the append that is under way and of the buffer: a frame joins it at  *)
(* its end when publish has accounted for it, and what leaves it is lost   *)
(* for good, which ends the execution as failed.                           *)
(***************************************************************************)
EXTENDS ReplayPublisher, TLAPS

Statuses == {"failed", "completed", "cancelled", "interrupted"}
LockedAt == {"tokens", "frame", "closing", "fail_tokens", "fail_frame"}
FreeAt == {"stream", "publish", "close", "ended", "fail", "finish", "done"}

TypeOK ==
    /\ sent \in Seq(Kinds)
    /\ log \in Seq(Nat) /\ taken \in Seq(Nat) /\ buffer \in Seq(Nat)
    /\ lock \in {"free", "main", "flusher"}
    /\ flusher \in {"none", "asleep", "appending"}
    /\ pc \in LockedAt \cup FreeAt
    /\ handling \in BOOLEAN
    /\ final \in Statuses /\ terminal \in {"none"} \cup Statuses
    /\ flushError \in {"none", "limit", "error", "unanswered", "closed"}

\* Who holds the lock appends, and nothing waits behind it; an execution that has
\* closed its publisher has no frame left, and no task that could bring one.
LockOK ==
    /\ lock = "main" <=> pc \in LockedAt
    /\ lock = "flusher" <=> flusher = "appending"
    /\ lock = "main" => flusher = "none"
    /\ lock = "free" => taken = <<>>
    /\ lock # "free" => buffer = <<>>
    /\ pc \in {"frame", "fail_frame"} => taken = <<>>
    /\ pc = "ended" => lock = "free" /\ flusher = "none" /\ buffer = <<>>

\* The frame in hand is not on the line yet.
InHandOut == pc \in {"publish", "frame"} \/ (pc = "tokens" /\ InHand # "token")
Accounted == IF InHandOut THEN Len(sent) - 1 ELSE Len(sent)

\* Who has a frame in hand has published it, and no except clause leads back.
HandOK ==
    /\ pc \in {"publish", "tokens", "frame"} => Len(sent) > 0
    /\ pc = "frame" => InHand # "token"
    /\ handling => pc \in {"fail", "fail_tokens", "fail_frame", "finish", "done"}

Line == log \o taken \o buffer
Whole(n) == [i \in 1..n |-> i]

\* In order, and nothing behind the frame n.
Good(s, n) == Increasing(s) /\ \A i \in 1..Len(s) : s[i] <= n

\* No frame has been lost so far.
Lossless ==
    /\ ~handling /\ flushError = "none"
    /\ pc \notin {"fail", "fail_tokens", "fail_frame", "finish", "done"}

\* The frames that are accounted for and not lost, in order; none is lost as long as
\* no append has failed.
LineOK == Good(Line, Accounted) /\ (Lossless => Line = Whole(Accounted))

\* An execution has a good end only with the whole line in the log.
FinalOK ==
    final # "failed" =>
        /\ pc \in {"finish", "done"}
        /\ lock = "free" /\ flusher = "none" /\ buffer = <<>>
        /\ log = Whole(Len(sent))

Inv == TypeOK /\ LockOK /\ HandOK /\ LineOK /\ FinalOK

-----------------------------------------------------------------------------
(* Sequences of frames *)

\* A place of a sequence that has become longer by one is the last or one of before.
LEMMA LastOrBefore ==
    ASSUME NEW m \in Nat
    PROVE  /\ \A i \in 1..(m + 1) : i = m + 1 \/ i \in 1..m
           /\ \A i, j \in 1..(m + 1) : i < j => i \in 1..m
  OBVIOUS

LEMMA AppendKeepsGood ==
    ASSUME NEW s \in Seq(Nat), NEW n \in Nat, Good(s, n)
    PROVE  Append(s, n + 1) \in Seq(Nat) /\ Good(Append(s, n + 1), n + 1)
<1> DEFINE t == Append(s, n + 1)
<1>1. t \in Seq(Nat) /\ Len(t) = Len(s) + 1
  OBVIOUS
<1>2. \A i \in 1..Len(s) : t[i] = s[i] /\ s[i] \in Nat
  OBVIOUS
<1>3. t[Len(s) + 1] = n + 1
  OBVIOUS
<1>4. Len(s) \in Nat
  OBVIOUS
<1>5. \A i \in 1..Len(s) : s[i] <= n
  BY DEF Good
<1>6. \A i, j \in 1..Len(s) : i < j => s[i] < s[j]
  BY DEF Good, Increasing
<1> HIDE DEF t
<1>7. ASSUME NEW i \in 1..Len(t)
      PROVE  t[i] <= n + 1
  <2>1. CASE i = Len(s) + 1
    BY <2>1, <1>3
  <2>2. CASE i \in 1..Len(s)
    <3>1. t[i] = s[i] /\ s[i] \in Nat /\ s[i] <= n
      BY <2>2, <1>2, <1>5
    <3> QED
      BY <3>1
  <2> QED
    BY <2>1, <2>2, <1>1, <1>4
<1>8. \A i, j \in 1..Len(t) : i < j => t[i] < t[j]
  <2>1. SUFFICES ASSUME NEW i \in 1..Len(t), NEW j \in 1..Len(t), i < j
                 PROVE  t[i] < t[j]
    OBVIOUS
  <2>a. i \in 1..Len(s) /\ (j = Len(s) + 1 \/ j \in 1..Len(s))
    BY <2>1, <1>1, <1>4, LastOrBefore
  <2>2. CASE j = Len(s) + 1
    <3>1. t[i] = s[i] /\ s[i] \in Nat /\ s[i] <= n
      BY <2>a, <1>2, <1>5
    <3>2. t[j] = n + 1
      BY <2>2, <1>3
    <3> QED
      BY <3>1, <3>2
  <2>3. CASE j \in 1..Len(s)
    <3>2. t[i] = s[i] /\ t[j] = s[j] /\ s[i] < s[j]
      BY <2>1, <2>3, <2>a, <1>2, <1>6
    <3> QED
      BY <3>2
  <2> QED
    BY <2>2, <2>3, <2>a
<1> QED
  BY <1>1, <1>7, <1>8 DEF Good, Increasing, t

LEMMA GoodIsMonotone ==
    ASSUME NEW s \in Seq(Nat), NEW n \in Nat, NEW m \in Nat, Good(s, n), n <= m
    PROVE  Good(s, m)
  BY DEF Good

LEMMA AppendToWhole ==
    ASSUME NEW n \in Nat
    PROVE  Append(Whole(n), n + 1) = Whole(n + 1)
  BY DEF Whole

LEMMA AppendIsSomething ==
    ASSUME NEW s \in Seq(Nat), NEW x \in Nat
    PROVE  Append(s, x) # <<>>
<1>1. Len(Append(s, x)) = Len(s) + 1 /\ Len(s) \in Nat
  OBVIOUS
<1>2. Len(<<>>) = 0
  OBVIOUS
<1> QED
  BY <1>1, <1>2

LEMMA DropKeepsGood ==
    ASSUME NEW a \in Seq(Nat), NEW b \in Seq(Nat), NEW c \in Seq(Nat), NEW n \in Nat,
           Good(a \o b \o c, n)
    PROVE  Good(a \o <<>> \o c, n)
<1> DEFINE t == a \o b \o c
           u == a \o <<>> \o c
           In(i) == IF i <= Len(a) THEN i ELSE i + Len(b)
<1>1. /\ Len(a) \in Nat /\ Len(b) \in Nat /\ Len(c) \in Nat
      /\ Len(u) = Len(a) + Len(c) /\ Len(t) = Len(a) + Len(b) + Len(c)
  OBVIOUS
<1>2. \A i \in 1..Len(u) : u[i] = t[In(i)]
  BY SMTT(30)
<1>3. \A i \in 1..Len(t) : t[i] <= n
  BY DEF Good
<1>4. \A i, j \in 1..Len(t) : i < j => t[i] < t[j]
  BY DEF Good, Increasing
<1> HIDE DEF t, u
<1>5. \A i \in 1..Len(u) : In(i) \in 1..Len(t)
  BY <1>1
<1>6. \A i, j \in 1..Len(u) : i < j => In(i) < In(j)
  BY <1>1
<1> HIDE DEF In
<1>7. \A i \in 1..Len(u) : u[i] <= n
  BY <1>2, <1>3, <1>5
<1>8. \A i, j \in 1..Len(u) : i < j => u[i] < u[j]
  BY <1>2, <1>4, <1>5, <1>6
<1> QED
  BY <1>7, <1>8 DEF Good, Increasing, u

-----------------------------------------------------------------------------
(* The line *)

LEMMA AccountedType ==
    ASSUME TypeOK, HandOK
    PROVE  Accounted \in Nat /\ Len(sent) \in Nat
  BY DEF TypeOK, HandOK, Accounted, InHandOut

\* The frames are handed on, or one joins them, or those of an append are lost.
Handed == Line' = Line /\ Accounted <= Accounted'
            /\ (Lossless' => Lossless /\ Accounted' = Accounted)
Joined == Line' = Append(Line, Accounted + 1) /\ Accounted' = Accounted + 1
            /\ (Lossless' => Lossless)
Dropped == Line' = log \o <<>> \o buffer /\ Accounted <= Accounted' /\ ~Lossless'

LEMMA LineKeeps ==
    ASSUME TypeOK, LineOK, Accounted \in Nat, Accounted' \in Nat, Handed \/ Joined \/ Dropped
    PROVE  LineOK'
<1>1. Line \in Seq(Nat)
  BY DEF TypeOK, Line
<1>2. CASE Handed
  <2>1. Good(Line, Accounted')
    BY <1>1, <1>2, GoodIsMonotone DEF Handed, LineOK
  <2> QED
    BY <2>1, <1>2 DEF Handed, LineOK, Good, Increasing, Whole
<1>3. CASE Joined
  <2>1. Good(Append(Line, Accounted + 1), Accounted + 1)
    BY <1>1, AppendKeepsGood DEF LineOK
  <2>2. Append(Whole(Accounted), Accounted + 1) = Whole(Accounted + 1)
    BY AppendToWhole
  <2> QED
    BY <2>1, <2>2, <1>3 DEF Joined, LineOK, Good, Increasing, Whole
<1>4. CASE Dropped
  <2>1. Good(log \o <<>> \o buffer, Accounted)
    BY DropKeepsGood DEF LineOK, TypeOK, Line
  <2>2. log \o <<>> \o buffer \in Seq(Nat)
    BY DEF TypeOK
  <2>3. Good(log \o <<>> \o buffer, Accounted')
    BY <2>1, <2>2, <1>4, GoodIsMonotone DEF Dropped
  <2> QED
    BY <2>3, <1>4 DEF Dropped, LineOK, Good, Increasing
<1> QED
  BY <1>2, <1>3, <1>4

\* The line is the same when an append is begun, and when it has been written.
LEMMA LineMoves ==
    ASSUME NEW a \in Seq(Nat), NEW b \in Seq(Nat), NEW x \in Nat
    PROVE  /\ a \o b \o <<>> = a \o <<>> \o b
           /\ (a \o b) \o <<>> \o <<>> = a \o b \o <<>>
           /\ a \o Append(b, x) \o <<>> = Append(a \o <<>> \o b, x)
           /\ a \o <<>> \o Append(b, x) = Append(a \o <<>> \o b, x)
           /\ Append(a, x) \o <<>> \o <<>> = Append(a \o <<>> \o <<>>, x)
           /\ a \o <<>> \o <<>> = a
  BY SMTT(30)

-----------------------------------------------------------------------------
(* One step *)

LEMMA TypeStep ==
    ASSUME Inv, [FramesNext]_frameVars
    PROVE  TypeOK'
<1>1. ASSUME NEW kind \in Kinds, Publish(kind)
      PROVE  TypeOK'
  <2>1. sent' \in Seq(Kinds)
    <3>1. sent \in Seq(Kinds) /\ Append(sent, kind) \in Seq(Kinds)
      BY <1>1 DEF Inv, TypeOK
    <3> QED
      BY <3>1, <1>1, Zenon DEF Publish
  <2>2. handling' \in BOOLEAN
    BY <1>1, Zenon DEF Publish, Raise, Inv, TypeOK
  <2> QED
    BY <2>1, <2>2, <1>1 DEF Publish, Raise, Inv, TypeOK, LockedAt, FreeAt, Statuses, Kinds, Closing
<1>2. CASE BufferToken
  <2>1. buffer' \in Seq(Nat) /\ taken' \in Seq(Nat)
    <3>1. /\ taken \in Seq(Nat) /\ <<>> \in Seq(Nat)
          /\ Append(buffer, Len(sent)) \in Seq(Nat)
      BY DEF Inv, TypeOK
    <3> QED
      BY <3>1, <1>2, Zenon DEF BufferToken, FlushLocked
  <2>2. handling' \in BOOLEAN
    BY <1>2, Zenon DEF BufferToken, FlushLocked, Inv, TypeOK
  <2> QED
    BY <2>1, <2>2, <1>2, SMTT(30) DEF BufferToken, FlushLocked, Inv, TypeOK, LockedAt, FreeAt, Statuses, Kinds, Closing
<1>3. CASE FlushBeforeFrame
  BY <1>3 DEF FlushBeforeFrame, FlushLocked, Inv, TypeOK, LockedAt, FreeAt, Statuses
<1>4. CASE AppendTokens
  <2>1. log' \in Seq(Nat) /\ taken' \in Seq(Nat)
    BY <1>4 DEF AppendTokens, Raise, Outcomes, Written, Inv, TypeOK
  <2>2. handling' \in BOOLEAN
    BY <1>4, Zenon DEF AppendTokens, Raise, Outcomes, Written, Inv, TypeOK
  <2> QED
    BY <2>1, <2>2, <1>4 DEF AppendTokens, Raise, Outcomes, Written, Inv, TypeOK, LockedAt, FreeAt, Statuses, Kinds, Closing
<1>5. CASE AppendFrame
  <2>1. log' \in Seq(Nat)
    BY <1>5 DEF AppendFrame, Raise, Outcomes, Written, Inv, TypeOK
  <2>2. handling' \in BOOLEAN
    BY <1>5, Zenon DEF AppendFrame, Raise, Outcomes, Written, Inv, TypeOK
  <2> QED
    BY <2>1, <2>2, <1>5 DEF AppendFrame, Raise, Outcomes, Written, Inv, TypeOK, LockedAt, FreeAt, Statuses, Kinds, Closing
<1>6. CASE AgentStreamEnds
  BY <1>6, ZenonT(60) DEF AgentStreamEnds, Raise, Inv, TypeOK, LockedAt, FreeAt, Statuses
<1>7. CASE Close
  BY <1>7 DEF Close, Inv, TypeOK, LockedAt, FreeAt, Statuses
<1>8. CASE Ended
  BY <1>8, ZenonT(60) DEF Ended, Raise, Inv, TypeOK, LockedAt, FreeAt, Statuses
<1>9. CASE FailFlush
  BY <1>9 DEF FailFlush, FlushLocked, Inv, TypeOK, LockedAt, FreeAt, Statuses
<1>10. CASE FailTokens
  <2>1. log' \in Seq(Nat) /\ taken' \in Seq(Nat)
    BY <1>10 DEF FailTokens, Raise, Outcomes, Written, Inv, TypeOK
  <2>2. handling' \in BOOLEAN
    BY <1>10, Zenon DEF FailTokens, Raise, Outcomes, Written, Inv, TypeOK
  <2> QED
    BY <2>1, <2>2, <1>10 DEF FailTokens, Raise, Outcomes, Written, Inv, TypeOK, LockedAt, FreeAt, Statuses, Kinds, Closing
<1>11. CASE FailFrame
  BY <1>11, ZenonT(60) DEF FailFrame, Raise, Outcomes, Written, Inv, TypeOK, LockedAt, FreeAt, Statuses
<1>12. CASE Cancelled
  BY <1>12 DEF Cancelled, Raise, Inv, TypeOK, LockedAt, FreeAt, Statuses
<1>13. CASE Finish
  BY <1>13 DEF Finish, Inv, TypeOK, LockedAt, FreeAt, Statuses
<1>14. CASE FlushWakes
  BY <1>14 DEF FlushWakes, Inv, TypeOK, LockedAt, FreeAt, Statuses
<1>15. CASE FlushAppends
  BY <1>15 DEF FlushAppends, Outcomes, Written, Inv, TypeOK, LockedAt, FreeAt, Statuses
<1>16. CASE MarkLost
  BY <1>16 DEF MarkLost, Inv, TypeOK, LockedAt, FreeAt, Statuses
<1>17. CASE UNCHANGED frameVars
  BY <1>17 DEF frameVars, Inv, TypeOK, LockedAt, FreeAt, Statuses
<1> QED
  BY <1>1, <1>2, <1>3, <1>4, <1>5, <1>6, <1>7, <1>8, <1>9, <1>10, <1>11, <1>12, <1>13, <1>14, <1>15, <1>16, <1>17 DEF FramesNext, MainStep

LEMMA LockStep ==
    ASSUME Inv, [FramesNext]_frameVars
    PROVE  LockOK'
<1>1. ASSUME NEW kind \in Kinds, Publish(kind)
      PROVE  LockOK'
  BY <1>1 DEF Publish, Raise, Inv, TypeOK, LockOK, LockedAt, FreeAt
<1>2. CASE BufferToken
  <2> DEFINE frames == Append(buffer, Len(sent))
  <2>1. frames # <<>>
    BY AppendIsSomething, SMTT(30) DEF Inv, TypeOK
  <2> HIDE DEF frames
  <2>2. CASE FlushLocked(frames, "tokens", "stream")
    BY <2>1, <2>2, <1>2 DEF BufferToken, FlushLocked, Inv, TypeOK, LockOK, LockedAt, FreeAt
  <2>3. CASE /\ buffer' = frames /\ pc' = "stream" /\ UNCHANGED <<taken, lock>>
             /\ flusher' = IF flusher = "none" THEN "asleep" ELSE flusher
    BY <2>3, <1>2 DEF BufferToken, Inv, TypeOK, LockOK, LockedAt, FreeAt
  <2> QED
    BY <2>2, <2>3, <1>2, Zenon DEF BufferToken, frames
<1>3. CASE FlushBeforeFrame
  BY <1>3 DEF FlushBeforeFrame, FlushLocked, Inv, TypeOK, LockOK, LockedAt, FreeAt
<1>4. CASE AppendTokens
  BY <1>4 DEF AppendTokens, Raise, Outcomes, Written, Inv, TypeOK, LockOK, LockedAt, FreeAt
<1>5. CASE AppendFrame
  BY <1>5 DEF AppendFrame, Raise, Outcomes, Written, Inv, TypeOK, LockOK, LockedAt, FreeAt
<1>6. CASE AgentStreamEnds
  BY <1>6 DEF AgentStreamEnds, Raise, Inv, TypeOK, LockOK, LockedAt, FreeAt
<1>7. CASE Close
  BY <1>7 DEF Close, Inv, TypeOK, LockOK, LockedAt, FreeAt
<1>8. CASE Ended
  BY <1>8 DEF Ended, Raise, Inv, TypeOK, LockOK, LockedAt, FreeAt
<1>9. CASE FailFlush
  BY <1>9 DEF FailFlush, FlushLocked, Inv, TypeOK, LockOK, LockedAt, FreeAt
<1>10. CASE FailTokens
  BY <1>10 DEF FailTokens, Raise, Outcomes, Written, Inv, TypeOK, LockOK, LockedAt, FreeAt
<1>11. CASE FailFrame
  BY <1>11 DEF FailFrame, Raise, Outcomes, Written, Inv, TypeOK, LockOK, LockedAt, FreeAt
<1>12. CASE Cancelled
  BY <1>12 DEF Cancelled, Raise, Inv, TypeOK, LockOK, LockedAt, FreeAt
<1>13. CASE Finish
  BY <1>13 DEF Finish, Inv, TypeOK, LockOK, LockedAt, FreeAt
<1>14. CASE FlushWakes
  BY <1>14 DEF FlushWakes, Inv, TypeOK, LockOK, LockedAt, FreeAt
<1>15. CASE FlushAppends
  BY <1>15 DEF FlushAppends, Outcomes, Written, Inv, TypeOK, LockOK, LockedAt, FreeAt
<1>16. CASE MarkLost
  BY <1>16 DEF MarkLost, Inv, TypeOK, LockOK, LockedAt, FreeAt
<1>17. CASE UNCHANGED frameVars
  BY <1>17 DEF frameVars, Inv, TypeOK, LockOK, LockedAt, FreeAt
<1> QED
  BY <1>1, <1>2, <1>3, <1>4, <1>5, <1>6, <1>7, <1>8, <1>9, <1>10, <1>11, <1>12, <1>13, <1>14, <1>15, <1>16, <1>17 DEF FramesNext, MainStep

LEMMA HandStep ==
    ASSUME Inv, [FramesNext]_frameVars
    PROVE  HandOK'
<1>1. ASSUME NEW kind \in Kinds, Publish(kind)
      PROVE  HandOK'
  BY <1>1 DEF Publish, Raise, Inv, TypeOK, HandOK, InHand, LockedAt, FreeAt
<1>2. CASE BufferToken
  BY <1>2 DEF BufferToken, FlushLocked, Inv, TypeOK, HandOK, InHand, LockedAt, FreeAt
<1>3. CASE FlushBeforeFrame
  BY <1>3 DEF FlushBeforeFrame, FlushLocked, Inv, TypeOK, HandOK, InHand, LockedAt, FreeAt
<1>4. CASE AppendTokens
  BY <1>4 DEF AppendTokens, Raise, Outcomes, Written, Inv, TypeOK, HandOK, InHand, LockedAt, FreeAt
<1>5. CASE AppendFrame
  BY <1>5 DEF AppendFrame, Raise, Outcomes, Written, Inv, TypeOK, HandOK, InHand, LockedAt, FreeAt
<1>6. CASE AgentStreamEnds
  BY <1>6 DEF AgentStreamEnds, Raise, Inv, TypeOK, HandOK, InHand, LockedAt, FreeAt
<1>7. CASE Close
  BY <1>7 DEF Close, Inv, TypeOK, HandOK, InHand, LockedAt, FreeAt
<1>8. CASE Ended
  BY <1>8 DEF Ended, Raise, Inv, TypeOK, HandOK, InHand, LockedAt, FreeAt
<1>9. CASE FailFlush
  BY <1>9 DEF FailFlush, FlushLocked, Inv, TypeOK, HandOK, InHand, LockedAt, FreeAt
<1>10. CASE FailTokens
  BY <1>10 DEF FailTokens, Raise, Outcomes, Written, Inv, TypeOK, HandOK, InHand, LockedAt, FreeAt
<1>11. CASE FailFrame
  BY <1>11 DEF FailFrame, Raise, Outcomes, Written, Inv, TypeOK, HandOK, InHand, LockedAt, FreeAt
<1>12. CASE Cancelled
  BY <1>12 DEF Cancelled, Raise, Inv, TypeOK, HandOK, InHand, LockedAt, FreeAt
<1>13. CASE Finish
  BY <1>13 DEF Finish, Inv, TypeOK, HandOK, InHand, LockedAt, FreeAt
<1>14. CASE FlushWakes
  BY <1>14 DEF FlushWakes, Inv, TypeOK, HandOK, InHand, LockedAt, FreeAt
<1>15. CASE FlushAppends
  BY <1>15 DEF FlushAppends, Outcomes, Written, Inv, TypeOK, HandOK, InHand, LockedAt, FreeAt
<1>16. CASE MarkLost
  BY <1>16 DEF MarkLost, Inv, TypeOK, HandOK, InHand, LockedAt, FreeAt
<1>17. CASE UNCHANGED frameVars
  BY <1>17 DEF frameVars, Inv, TypeOK, HandOK, InHand, LockedAt, FreeAt
<1> QED
  BY <1>1, <1>2, <1>3, <1>4, <1>5, <1>6, <1>7, <1>8, <1>9, <1>10, <1>11, <1>12, <1>13, <1>14, <1>15, <1>16, <1>17 DEF FramesNext, MainStep

\* What an action does to the line.  The frame in hand joins it when it is buffered, or
\* when the frame that is not a token is written.
LEMMA LineStep ==
    ASSUME Inv, TypeOK', HandOK', [FramesNext]_frameVars
    PROVE  LineOK'
<1> USE DEF Inv
<1>0. Accounted \in Nat /\ Accounted' \in Nat /\ Len(sent) \in Nat /\ Len(sent)' \in Nat
  BY AccountedType DEF TypeOK, HandOK, Accounted, InHandOut, InHand
<1>a. /\ log \in Seq(Nat) /\ taken \in Seq(Nat) /\ buffer \in Seq(Nat)
      /\ lock = "free" => taken = <<>>
      /\ lock # "free" => buffer = <<>>
  BY DEF TypeOK, LockOK
<1> SUFFICES Handed \/ Joined \/ Dropped
  BY <1>0, LineKeeps
<1>1. ASSUME NEW kind \in Kinds, Publish(kind)
      PROVE  Handed \/ Joined \/ Dropped
  <2>1. Line' = Line
    BY <1>1 DEF Publish, Raise, Line
  <2>2. Accounted <= Accounted' /\ (Lossless' => Lossless /\ Accounted' = Accounted)
    BY <1>1, <1>0 DEF Publish, Raise, Accounted, InHandOut, Lossless, InHand, TypeOK, HandOK
  <2> QED
    BY <2>1, <2>2 DEF Handed
<1>2. CASE BufferToken
  <2>1. Line' = Append(Line, Len(sent))
    <3>1. log' = log /\ taken = <<>> /\ Len(sent) \in Nat
      BY <1>2, <1>0, <1>a DEF BufferToken
    <3>2. CASE taken' = Append(buffer, Len(sent)) /\ buffer' = <<>>
      BY <3>1, <3>2, <1>a, LineMoves, SMTT(30) DEF Line
    <3>3. CASE taken' = taken /\ buffer' = Append(buffer, Len(sent))
      BY <3>1, <3>3, <1>a, LineMoves, SMTT(30) DEF Line
    <3> QED
      BY <3>2, <3>3, <1>2, Zenon DEF BufferToken, FlushLocked
  <2>2. Accounted' = Accounted + 1 /\ Len(sent) = Accounted + 1 /\ (Lossless' => Lossless)
    BY <1>2, <1>0, <1>a, AppendIsSomething
    DEF BufferToken, FlushLocked, Accounted, InHandOut, Lossless, InHand
  <2> QED
    BY <2>1, <2>2 DEF Joined
<1>3. CASE FlushBeforeFrame
  <2>1. Line' = Line
    BY <1>3, <1>a, LineMoves DEF FlushBeforeFrame, FlushLocked, Line, LockOK, LockedAt
  <2>2. Accounted <= Accounted' /\ (Lossless' => Lossless /\ Accounted' = Accounted)
    BY <1>3, <1>0 DEF FlushBeforeFrame, FlushLocked, Accounted, InHandOut, Lossless, InHand, TypeOK, HandOK
  <2> QED
    BY <2>1, <2>2 DEF Handed
<1>4. CASE AppendTokens
  <2>1. PICK o \in Outcomes(FALSE) :
          /\ log' = IF Written(o) THEN log \o taken ELSE log
          /\ o # "ok" => Raise(o)
    BY <1>4 DEF AppendTokens
  <2>2. Accounted <= Accounted' /\ (Lossless' => Lossless /\ Accounted' = Accounted)
    BY <1>4, <1>0 DEF AppendTokens, Raise, Accounted, InHandOut, Lossless, InHand, TypeOK, HandOK
  <2>3. buffer' = buffer /\ taken' = <<>> /\ lock # "free"
    BY <1>4 DEF AppendTokens, LockOK, LockedAt
  <2>4. CASE Written(o)
    <3>1. Line' = Line
      BY <2>1, <2>3, <2>4, <1>a, LineMoves DEF Line
    <3> QED
      BY <3>1, <2>2 DEF Handed
  <2>5. CASE ~Written(o)
    <3>1. ~Lossless'
      BY <2>1, <2>5, <1>4 DEF AppendTokens, Lossless, Written, Raise
    <3>2. Line' = log \o <<>> \o buffer
      BY <2>1, <2>3, <2>5 DEF Line
    <3> QED
      BY <3>1, <3>2, <2>2 DEF Dropped
  <2> QED
    BY <2>4, <2>5
<1>5. CASE AppendFrame
  <2>1. PICK o \in Outcomes(FALSE) :
          /\ log' = IF Written(o) THEN Append(log, Len(sent)) ELSE log
          /\ IF o = "ok" THEN pc' = "stream" /\ UNCHANGED handling ELSE Raise(o)
    BY <1>5 DEF AppendFrame
  <2>2. taken = <<>> /\ buffer = <<>> /\ UNCHANGED <<sent, taken, buffer, flushError>>
    BY <1>5 DEF AppendFrame, LockOK, LockedAt
  <2>3. Accounted' = Accounted + 1 /\ Len(sent) = Accounted + 1
    BY <1>5, <2>1, <2>2, <1>0 DEF AppendFrame, Raise, Accounted, InHandOut, InHand, HandOK
  <2>4. CASE Written(o)
    <3>1. Line' = Append(Line, Len(sent))
      BY <2>1, <2>2, <2>4, <1>0, <1>a, LineMoves DEF Line
    <3>2. Lossless' => Lossless
      BY <2>1, <2>2, <1>5 DEF AppendFrame, Lossless, Raise
    <3> QED
      BY <3>1, <3>2, <2>3 DEF Joined
  <2>5. CASE ~Written(o)
    <3>1. Line' = Line
      BY <2>1, <2>2, <2>5 DEF Line
    <3>2. ~Lossless'
      BY <2>1, <2>5 DEF Written, Raise, Lossless
    <3> QED
      BY <3>1, <3>2, <2>3, <1>0 DEF Handed
  <2> QED
    BY <2>4, <2>5
<1>6. CASE AgentStreamEnds
  <2>1. Line' = Line
    BY <1>6 DEF AgentStreamEnds, Raise, Line
  <2>2. Accounted <= Accounted' /\ (Lossless' => Lossless /\ Accounted' = Accounted)
    BY <1>6, <1>0 DEF AgentStreamEnds, Raise, Accounted, InHandOut, Lossless, InHand, TypeOK, HandOK
  <2> QED
    BY <2>1, <2>2 DEF Handed
<1>7. CASE Close
  <2>1. Line' = Line
    BY <1>7, <1>a, LineMoves DEF Close, Line, LockOK, LockedAt
  <2>2. Accounted <= Accounted' /\ (Lossless' => Lossless /\ Accounted' = Accounted)
    BY <1>7, <1>0 DEF Close, Accounted, InHandOut, Lossless, InHand, TypeOK, HandOK
  <2> QED
    BY <2>1, <2>2 DEF Handed
<1>8. CASE Ended
  <2>1. Line' = Line
    BY <1>8 DEF Ended, Raise, Line
  <2>2. Accounted <= Accounted' /\ (Lossless' => Lossless /\ Accounted' = Accounted)
    BY <1>8, <1>0 DEF Ended, Raise, Accounted, InHandOut, Lossless, InHand, TypeOK, HandOK
  <2> QED
    BY <2>1, <2>2 DEF Handed
<1>9. CASE FailFlush
  <2>1. Line' = Line
    BY <1>9, <1>a, LineMoves DEF FailFlush, FlushLocked, Line, LockOK, LockedAt
  <2>2. Accounted <= Accounted' /\ (Lossless' => Lossless /\ Accounted' = Accounted)
    BY <1>9, <1>0 DEF FailFlush, FlushLocked, Accounted, InHandOut, Lossless, InHand, TypeOK, HandOK
  <2> QED
    BY <2>1, <2>2 DEF Handed
<1>10. CASE FailTokens
  <2>1. PICK o \in Outcomes(FALSE) :
          /\ log' = IF Written(o) THEN log \o taken ELSE log
          /\ pc' # "stream"
    BY <1>10 DEF FailTokens, Raise
  <2>2. Accounted <= Accounted' /\ (Lossless' => Lossless /\ Accounted' = Accounted)
    BY <1>10, <1>0 DEF FailTokens, Raise, Accounted, InHandOut, Lossless, InHand, TypeOK, HandOK
  <2>3. buffer' = buffer /\ taken' = <<>> /\ lock # "free"
    BY <1>10 DEF FailTokens, LockOK, LockedAt
  <2>4. CASE Written(o)
    <3>1. Line' = Line
      BY <2>1, <2>3, <2>4, <1>a, LineMoves DEF Line
    <3> QED
      BY <3>1, <2>2 DEF Handed
  <2>5. CASE ~Written(o)
    <3>1. ~Lossless'
      BY <2>1, <2>5, <1>10 DEF FailTokens, Lossless, Written, Raise
    <3>2. Line' = log \o <<>> \o buffer
      BY <2>1, <2>3, <2>5 DEF Line
    <3> QED
      BY <3>1, <3>2, <2>2 DEF Dropped
  <2> QED
    BY <2>4, <2>5
<1>11. CASE FailFrame
  <2>1. Line' = Line
    BY <1>11 DEF FailFrame, Raise, Line
  <2>2. Accounted <= Accounted' /\ (Lossless' => Lossless /\ Accounted' = Accounted)
    BY <1>11, <1>0 DEF FailFrame, Raise, Accounted, InHandOut, Lossless, InHand, TypeOK, HandOK
  <2> QED
    BY <2>1, <2>2 DEF Handed
<1>12. CASE Cancelled
  <2>1. Line' = Line
    BY <1>12 DEF Cancelled, Raise, Line
  <2>2. Accounted <= Accounted' /\ (Lossless' => Lossless /\ Accounted' = Accounted)
    BY <1>12, <1>0 DEF Cancelled, Raise, Accounted, InHandOut, Lossless, InHand, TypeOK, HandOK
  <2> QED
    BY <2>1, <2>2 DEF Handed
<1>13. CASE Finish
  <2>1. Line' = Line
    BY <1>13 DEF Finish, Line
  <2>2. Accounted <= Accounted' /\ (Lossless' => Lossless /\ Accounted' = Accounted)
    BY <1>13, <1>0 DEF Finish, Accounted, InHandOut, Lossless, InHand, TypeOK, HandOK
  <2> QED
    BY <2>1, <2>2 DEF Handed
<1>14. CASE FlushWakes
  <2>1. Line' = Line
    BY <1>14, <1>a, LineMoves DEF FlushWakes, Line, LockOK, LockedAt
  <2>2. Accounted <= Accounted' /\ (Lossless' => Lossless /\ Accounted' = Accounted)
    BY <1>14, <1>0 DEF FlushWakes, Accounted, InHandOut, Lossless, InHand, TypeOK, HandOK
  <2> QED
    BY <2>1, <2>2 DEF Handed
<1>15. CASE FlushAppends
  <2>1. PICK o \in Outcomes(FALSE) :
          /\ log' = IF Written(o) THEN log \o taken ELSE log
          /\ flushError' = IF o = "ok" THEN flushError ELSE o
    BY <1>15 DEF FlushAppends
  <2>2. Accounted <= Accounted' /\ (Lossless' => Lossless /\ Accounted' = Accounted)
    BY <1>15, <1>0 DEF FlushAppends, Outcomes, Accounted, InHandOut, Lossless, InHand, TypeOK, HandOK
  <2>3. buffer' = buffer /\ taken' = <<>> /\ lock # "free"
    BY <1>15 DEF FlushAppends, LockOK, LockedAt
  <2>4. CASE Written(o)
    <3>1. Line' = Line
      BY <2>1, <2>3, <2>4, <1>a, LineMoves DEF Line
    <3> QED
      BY <3>1, <2>2 DEF Handed
  <2>5. CASE ~Written(o)
    <3>1. ~Lossless'
      BY <2>1, <2>5, <1>15 DEF FlushAppends, Outcomes, Lossless, Written
    <3>2. Line' = log \o <<>> \o buffer
      BY <2>1, <2>3, <2>5 DEF Line
    <3> QED
      BY <3>1, <3>2, <2>2 DEF Dropped
  <2> QED
    BY <2>4, <2>5
<1>16. CASE MarkLost
  <2>1. Line' = Line
    BY <1>16 DEF MarkLost, Line
  <2>2. Accounted <= Accounted' /\ (Lossless' => Lossless /\ Accounted' = Accounted)
    BY <1>16, <1>0 DEF MarkLost, Accounted, InHandOut, Lossless, InHand, TypeOK, HandOK
  <2> QED
    BY <2>1, <2>2 DEF Handed
<1>17. CASE UNCHANGED frameVars
  <2>1. Line' = Line
    BY <1>17 DEF frameVars, Line
  <2>2. Accounted <= Accounted' /\ (Lossless' => Lossless /\ Accounted' = Accounted)
    BY <1>17, <1>0 DEF frameVars, Accounted, InHandOut, Lossless, InHand, TypeOK, HandOK
  <2> QED
    BY <2>1, <2>2 DEF Handed
<1> QED
  BY <1>1, <1>2, <1>3, <1>4, <1>5, <1>6, <1>7, <1>8, <1>9, <1>10, <1>11, <1>12, <1>13, <1>14, <1>15, <1>16, <1>17 DEF FramesNext, MainStep

LEMMA FinalStep ==
    ASSUME Inv, [FramesNext]_frameVars
    PROVE  FinalOK'
<1> USE DEF Inv
<1>1. CASE Ended
  <2>1. CASE final' = final /\ UNCHANGED <<sent, log>>
    BY <2>1, <1>1 DEF Ended, FinalOK
  <2>2. CASE /\ flushError = "none" /\ pc' \in {"finish", "fail"}
             /\ pc' = "fail" => final' = final
    <3>1. Lossless /\ Accounted = Len(sent)
      BY <2>2, <1>1 DEF Ended, Lossless, HandOK, Accounted, InHandOut
    <3>2. Line = log
      BY <1>1, LineMoves DEF Ended, Line, LockOK, TypeOK
    <3>3. log = Whole(Len(sent))
      BY <3>1, <3>2 DEF LineOK
    <3> QED
      BY <3>3, <2>2, <1>1 DEF Ended, FinalOK, LockOK, Whole
  <2> QED
    BY <2>1, <2>2, <1>1 DEF Ended
<1>2. CASE UNCHANGED final /\ final = "failed"
  BY <1>2 DEF FinalOK
<1>3. CASE ~Ended /\ final # "failed"
  <2>1. pc \in {"finish", "done"} /\ lock = "free" /\ flusher = "none"
    BY <1>3 DEF FinalOK
  <2>2. Finish \/ MarkLost \/ UNCHANGED frameVars
    BY <2>1, <1>3 DEF FramesNext, MainStep, Publish, BufferToken, FlushBeforeFrame,
       AppendTokens, AppendFrame, AgentStreamEnds, Close, FailFlush, FailTokens, FailFrame,
       Cancelled, FlushWakes, FlushAppends
  <2> QED
    BY <2>2, <1>3 DEF Finish, MarkLost, frameVars, FinalOK, Whole
<1>4. CASE ~Ended
  <2>1. UNCHANGED final
    BY <1>4 DEF FramesNext, MainStep, Publish, BufferToken, FlushBeforeFrame,
       AppendTokens, AppendFrame, AgentStreamEnds, Close, FailFlush, FailTokens, FailFrame,
       Cancelled, Finish, FlushWakes, FlushAppends, MarkLost, frameVars
  <2> QED
    BY <2>1, <1>2, <1>3, <1>4
<1> QED
  BY <1>1, <1>4

-----------------------------------------------------------------------------
(* Theorems *)

LEMMA InvHolds == FramesSpec => []Inv
<1>1. FramesInit => Inv
  <2> SUFFICES ASSUME FramesInit
               PROVE  Inv
    OBVIOUS
  <2>1. Line = <<>> /\ Len(sent) = 0 /\ Accounted = 0
    BY DEF FramesInit, Line, Accounted, InHandOut
  <2>2. Good(<<>>, 0)
    BY DEF Good, Increasing
  <2>3. <<>> = Whole(0)
    <3>1. Whole(0) \in Seq(Nat) /\ Len(Whole(0)) = 0
      BY DEF Whole
    <3> QED
      BY <3>1
  <2>4. LineOK
    BY <2>1, <2>2, <2>3 DEF LineOK
  <2>5. TypeOK
    <3>1. <<>> \in Seq(Kinds) /\ <<>> \in Seq(Nat)
      OBVIOUS
    <3> QED
      BY <3>1, Zenon DEF FramesInit, TypeOK, FreeAt, Statuses
  <2>6. LockOK /\ HandOK /\ FinalOK
    BY DEF FramesInit, LockOK, HandOK, FinalOK, LockedAt
  <2> QED
    BY <2>4, <2>5, <2>6 DEF Inv
<1>2. Inv /\ [FramesNext]_frameVars => Inv'
  <2> SUFFICES ASSUME Inv, [FramesNext]_frameVars
               PROVE  Inv'
    OBVIOUS
  <2>1. TypeOK' /\ LockOK' /\ HandOK' /\ FinalOK'
    BY TypeStep, LockStep, HandStep, FinalStep
  <2>2. LineOK'
    BY <2>1, LineStep
  <2> QED
    BY <2>1, <2>2 DEF Inv
<1> QED
  BY <1>1, <1>2, PTL DEF FramesSpec

\* The log has the published frames in order, none twice and none before the tokens
\* that it follows, whichever of the two tasks has written them, and an execution that
\* ends well has lost none (ReplayFramePublisher), for every stream and every buffer.
THEOREM FramesReachTheLog == FramesSpec => []LogIsFaithful
<1>1. Inv => LogIsFaithful
  BY DEF Inv, LineOK, Good, Line, FinalOK, Whole, LogIsFaithful
<1> QED
  BY <1>1, InvHolds, PTL

=============================================================================
