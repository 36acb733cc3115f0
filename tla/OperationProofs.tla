-------------------------- MODULE OperationProofs --------------------------
(***************************************************************************)
(* Proofs about the loops that the methods of an operation are: wait()     *)
(* (OperationWait), and those around Fetch (FetchAll); and about what the  *)
(* client takes the server's answers for: late answers (LateAnswers), and  *)
(* the description of a result set with the data frame made by it          *)
(* (ResultSchema).                                                         *)
(***************************************************************************)
EXTENDS OperationWait, FetchAll, LateAnswers, ResultSchema, TLAPS

-----------------------------------------------------------------------------
(***************************************************************************)
(* The facts about sequences that the proofs use.                          *)
(***************************************************************************)
LEMMA SeqWider ==
  ASSUME NEW S, NEW T, S \subseteq T, NEW s \in Seq(S)
  PROVE  s \in Seq(T)
OBVIOUS

LEMMA SeqElement ==
  ASSUME NEW S, NEW s \in Seq(S), NEW k \in 1..Len(s)
  PROVE  s[k] \in S
OBVIOUS

LEMMA SeqEmpty ==
  ASSUME NEW S
  PROVE  <<>> \in Seq(S) /\ Len(<<>>) = 0
OBVIOUS

LEMMA SeqLength ==
  ASSUME NEW S, NEW s \in Seq(S)
  PROVE  Len(s) \in Nat /\ s \in [1..Len(s) -> S]
OBVIOUS

LEMMA SeqJoin ==
  ASSUME NEW S, NEW s \in Seq(S), NEW t \in Seq(S)
  PROVE  /\ s \o t \in Seq(S) /\ Len(s \o t) = Len(s) + Len(t)
         /\ \A k \in 1..(Len(s) + Len(t)) :
              (s \o t)[k] = IF k <= Len(s) THEN s[k] ELSE t[k - Len(s)]
OBVIOUS

-----------------------------------------------------------------------------
(***************************************************************************)
(* What wait() guarantees for every first interval and every timeout.      *)
(*                                                                         *)
(* The bound on the overshoot rests on the closed form of the back-off:    *)
(* while the thread is in its k-th sleep (k > 1), total_sleep is the sum   *)
(* of the sleeps before, one first interval less than the current one; and *)
(* either that sum passed the timeout test or it is the first interval,    *)
(* which is never tested.                                                  *)
(***************************************************************************)

BackOff ==
  /\ wait_pc = "firstSleep" =>
       interval = FirstInterval /\ total_sleep = FirstInterval
  /\ (wait_pc = "sleep" /\ timeout_seconds > 0) =>
       /\ interval = total_sleep + FirstInterval
       /\ total_sleep <= timeout_seconds \/ total_sleep = FirstInterval

WaitInv == WaitTypeOK /\ BackOff /\ RaisesInTime /\ ReturnsOnlyFinished

FinishedIsRemembered == opState = "FINISHED" => everFinished

\* The state before the first call satisfies the invariant.
LEMMA WaitInvInit == WaitInit => WaitInv /\ FinishedIsRemembered
<1> SUFFICES ASSUME WaitInit PROVE WaitInv /\ FinishedIsRemembered
  BY Zenon
<1>1. everFinished \in BOOLEAN /\ FinishedIsRemembered
  BY Zenon DEF WaitInit, FinishedIsRemembered
<1>2. /\ opState \in OperationStates /\ online \in BOOLEAN
      /\ wait_pc = "idle" /\ timeout_seconds = 0 /\ interval = 0 /\ total_sleep = 0
  BY Zenon DEF WaitInit, OperationStates
<1> QED BY <1>1, <1>2, Zenon DEF WaitInv, WaitTypeOK, Sleeping, NotWaiting, BackOff,
                          RaisesInTime, ReturnsOnlyFinished

\* everFinished remembers every visit to FINISHED, in every step.
LEMMA RememberedNext ==
  FinishedIsRemembered /\ [WaitNext]_allWaitVars => FinishedIsRemembered'
<1> SUFFICES ASSUME FinishedIsRemembered, [WaitNext]_allWaitVars
             PROVE  FinishedIsRemembered'
  BY Zenon
<1>1. CASE UNCHANGED operationVars
  BY <1>1, Zenon DEF operationVars, FinishedIsRemembered
<1>2. CASE \E new \in OperationStates : SetState(new)
  BY <1>2, Zenon DEF SetState, FinishedIsRemembered
<1>3. UNCHANGED operationVars \/ \E new \in OperationStates : SetState(new)
  BY Zenon DEF WaitNext, allWaitVars, operationVars, OperationStates, ServerProgress, ConnectionLost,
         Cancel, Close, Wait, WakeFirst, Wake
<1> QED BY <1>1, <1>2, <1>3, Zenon

\* A step of the server, of the network or of another thread leaves the waiting
\* thread where it is.
LEMMA OthersPreserve ==
  ASSUME WaitInv, UNCHANGED waitVars, opState' \in OperationStates,
         everFinished' \in BOOLEAN, online' \in BOOLEAN,
         everFinished => everFinished'
  PROVE  WaitInv'
BY Zenon DEF WaitInv, WaitTypeOK, BackOff, RaisesInTime, ReturnsOnlyFinished, waitVars, MaxOf

\* The loop either leaves for a finished operation or doubles the interval.
LEMMA WaitLoopStep ==
  ASSUME Loop
  PROVE  \/ opState = "FINISHED" /\ wait_pc' = "returned" /\ interval' = interval
         \/ /\ wait_pc' = "sleep"
            /\ interval' = IF timeout_seconds = 0 THEN interval ELSE 2 * interval
BY Zenon DEF Loop, HasResultSet, SleepAgain, Doubled

\* The end of the first sleep.
LEMMA WakeFirstPreserves ==
  ASSUME WaitInv, FinishedIsRemembered, WakeFirst
  PROVE  WaitInv'
<1>1. /\ timeout_seconds' = timeout_seconds /\ total_sleep' = total_sleep
      /\ opState' = opState /\ everFinished' = everFinished
      /\ online' = online /\ wait_pc = "firstSleep"
  BY Zenon DEF WakeFirst, operationVars
<1>2. timeout_seconds \in Nat
  BY WaitAssumption DEF WaitInv, WaitTypeOK
<1>3. CASE opState = "FINISHED" /\ wait_pc' = "returned" /\ interval' = interval
  BY <1>1, <1>3, Zenon DEF WaitInv, WaitTypeOK, BackOff, RaisesInTime, ReturnsOnlyFinished,
                    FinishedIsRemembered, Sleeping, NotWaiting
<1>4. CASE /\ wait_pc' = "sleep"
           /\ interval' = IF timeout_seconds = 0 THEN interval ELSE 2 * interval
  BY <1>1, <1>2, <1>4, WaitAssumption
     DEF WaitInv, WaitTypeOK, BackOff, RaisesInTime, ReturnsOnlyFinished, Sleeping,
         NotWaiting
<1> QED BY <1>3, <1>4, WaitLoopStep, Zenon DEF WakeFirst

\* The end of a later sleep: timed out, finished, or asleep for twice as long.
LEMMA WakePreserves ==
  ASSUME WaitInv, FinishedIsRemembered, Wake
  PROVE  WaitInv'
<1>1. /\ timeout_seconds' = timeout_seconds
      /\ opState' = opState /\ everFinished' = everFinished
      /\ online' = online /\ wait_pc = "sleep"
      /\ total_sleep' = IF timeout_seconds = 0 THEN total_sleep ELSE total_sleep + interval
  BY Zenon DEF Wake, operationVars
<1>2. /\ timeout_seconds \in Nat /\ interval \in Nat /\ total_sleep \in Nat
      /\ FirstInterval \in Nat
  BY WaitAssumption DEF WaitInv, WaitTypeOK
<1>3. total_sleep' \in Nat
  BY <1>1, <1>2
<1>4. CASE TimedOut(total_sleep') /\ wait_pc' = "raised" /\ interval' = interval
  <2>1. RaisesInTime'
    BY <1>1, <1>2, <1>3, <1>4
       DEF WaitInv, WaitTypeOK, BackOff, RaisesInTime, TimedOut, MaxOf
  <2> QED BY <1>1, <1>2, <1>3, <1>4, <2>1, Zenon
             DEF WaitInv, WaitTypeOK, BackOff, ReturnsOnlyFinished, Sleeping, NotWaiting
<1>5. CASE opState = "FINISHED" /\ wait_pc' = "returned" /\ interval' = interval
  BY <1>1, <1>3, <1>5, Zenon DEF WaitInv, WaitTypeOK, BackOff, RaisesInTime,
                    ReturnsOnlyFinished, FinishedIsRemembered, Sleeping, NotWaiting
<1>6. CASE /\ ~TimedOut(total_sleep')
           /\ wait_pc' = "sleep"
           /\ interval' = IF timeout_seconds = 0 THEN interval ELSE 2 * interval
  <2>1. BackOff'
    BY <1>1, <1>2, <1>3, <1>6 DEF WaitInv, BackOff, TimedOut
  <2> QED BY <1>1, <1>2, <1>3, <1>6, <2>1
             DEF WaitInv, WaitTypeOK, RaisesInTime, ReturnsOnlyFinished, Sleeping,
                 NotWaiting
<1> QED BY <1>4, <1>5, <1>6, WaitLoopStep, Zenon DEF Wake

\* Every step preserves the invariant.
LEMMA WaitInvNext ==
  WaitInv /\ FinishedIsRemembered /\ [WaitNext]_allWaitVars => WaitInv'
<1> SUFFICES ASSUME WaitInv, FinishedIsRemembered, [WaitNext]_allWaitVars
             PROVE  WaitInv'
  BY Zenon
<1>1. CASE ServerProgress
  BY <1>1, OthersPreserve, Zenon
     DEF ServerProgress, SetState, OperationStates, WaitInv, WaitTypeOK
<1>2. CASE ConnectionLost
  BY <1>2, OthersPreserve, Zenon DEF ConnectionLost, operationVars, WaitInv, WaitTypeOK
<1>3. CASE Cancel
  BY <1>3, OthersPreserve, Zenon DEF Cancel, SetState, OperationStates, WaitInv, WaitTypeOK
<1>4. CASE Close
  BY <1>4, OthersPreserve, Zenon DEF Close, SetState, OperationStates, WaitInv, WaitTypeOK
<1>5. ASSUME NEW t \in Timeouts, Wait(t) PROVE WaitInv'
  BY <1>5, WaitAssumption
     DEF Wait, WaitInv, WaitTypeOK, BackOff, RaisesInTime, ReturnsOnlyFinished,
         FinishedIsRemembered, HasResultSet, Sleeping, NotWaiting, operationVars
<1>6. CASE WakeFirst
  BY <1>6, WakeFirstPreserves, Zenon
<1>7. CASE Wake
  BY <1>7, WakePreserves, Zenon
<1>8. CASE UNCHANGED allWaitVars
  BY <1>8, OthersPreserve, Zenon DEF allWaitVars, waitVars, WaitInv, WaitTypeOK
<1> QED BY <1>1, <1>2, <1>3, <1>4, <1>5, <1>6, <1>7, <1>8, Zenon DEF WaitNext

\* The inductive invariant holds in every behaviour.
THEOREM WaitInvCorrect == WaitSpec => [](WaitInv /\ FinishedIsRemembered)
BY WaitInvInit, WaitInvNext, RememberedNext, PTL DEF WaitSpec

\* wait() returns normally only for an operation that reached FINISHED.
THEOREM WaitIsTruthful == WaitSpec => []ReturnsOnlyFinished
BY WaitInvCorrect, PTL DEF WaitInv

\* wait(t) raises only after more than t, and less than twice t (or twice the
\* first interval, when that is longer) plus one first interval.
THEOREM WaitRaisesInTime == WaitSpec => []RaisesInTime
BY WaitInvCorrect, PTL DEF WaitInv

\* The interval and the total sleep of wait() stay natural numbers, and its place
\* in the loop and its timeout stay what they may be.
THEOREM WaitTypes == WaitSpec => []WaitTypeOK
BY WaitInvCorrect, PTL DEF WaitInv

-----------------------------------------------------------------------------
(***************************************************************************)
(* FetchAll for every size of the result set and of the batches.           *)
(*                                                                         *)
(* The inductive invariant ties three things together: the rows in the     *)
(* client's hands (pending) are the last rows the server handed out; what  *)
(* was delivered lies below them, and is gapless while nothing failed; and *)
(* the loops leave Fetch for good only at the end of the result set.       *)
(***************************************************************************)

Pos == cursor - Len(pending)

PendingInv ==
  /\ Len(pending) <= cursor
  /\ \A h \in 1..Len(pending) : pending[h] = Pos + h
  /\ pc = "idle" => pending = <<>>

OutInv ==
  /\ \A h \in 1..Len(out) : out[h] <= Pos
  /\ ~failed => Len(out) = Pos /\ \A h \in 1..Len(out) : out[h] = h

EndInv ==
  /\ column_kind = "none" => numRows = 0
  /\ pc = "schema" /\ ~has_more_rows => cursor = numRows
  /\ pc = "schema" /\ reader = "fetchall_pandas" => ~has_more_rows
  /\ pc = "convert" => cursor = numRows
  /\ pc = "idle" /\ outcome = "returned" => cursor = numRows

FetchInv == TypeOK /\ PendingInv /\ OutInv /\ RowsOnceInOrder /\ EndInv

\* The lengths and positions the proofs compute with are natural numbers.
LEMMA Numbers ==
  ASSUME FetchInv
  PROVE  /\ cursor \in Nat /\ numRows \in Nat /\ cursor <= numRows
         /\ Len(pending) \in Nat /\ Len(out) \in Nat /\ Pos \in Nat
         /\ pending \in Seq(Nat) /\ out \in Seq(Nat)
<1>1. numRows \in Nat /\ cursor \in 0..numRows
  BY FetchAssumption, Zenon DEF FetchInv, TypeOK
<1>2. pending \in Seq(Nat) /\ out \in Seq(Nat)
  <2>1. 1..numRows \subseteq Nat
    BY <1>1
  <2> QED BY <2>1, SeqWider, Zenon DEF FetchInv, TypeOK
<1> QED BY <1>1, <1>2 DEF FetchInv, PendingInv, Pos

-----------------------------------------------------------------------------
(***************************************************************************)
(* The four kinds of steps, by what they do to the rows.                   *)
(***************************************************************************)
Quiet == UNCHANGED <<numRows, column_kind, cursor, reader, pending, out, failed>>

Fetched(k) ==
  /\ cursor' = cursor + k
  /\ pending' = pending \o RowsOf(cursor, k)
  /\ UNCHANGED <<numRows, column_kind, reader, out, failed, outcome>>

Failed(k) ==
  /\ Fail
  /\ cursor' = cursor + k
  /\ UNCHANGED <<numRows, column_kind, reader>>

HandedOver ==
  /\ HandOver
  /\ UNCHANGED <<numRows, column_kind, cursor, reader>>

\* Every step is of one of the four kinds.
LEMMA StepKinds ==
  ASSUME FetchInv, [Next]_vars
  PROVE  \/ Quiet
         \/ \E k \in 0..(numRows - cursor) : Fetched(k)
         \/ \E k \in 0..(numRows - cursor) : Failed(k)
         \/ HandedOver
<1>0. /\ cursor \in Nat /\ numRows \in Nat /\ cursor <= numRows
      /\ batchsize \in Nat
  BY Numbers, FetchAssumption, Zenon DEF FetchInv, TypeOK
<1>1. ASSUME NEW k \in 0..batchsize, NEW more \in BOOLEAN, Answer(k, more)
      PROVE  k \in 0..(numRows - cursor)
  BY <1>0, <1>1 DEF Answer
<1>2. CASE FetchOK
  <2>1. PICK k \in 0..batchsize, more \in BOOLEAN :
          /\ Answer(k, more)
          /\ cursor' = cursor + k
          /\ pending' = pending \o RowsOf(cursor, k)
    BY <1>2, Zenon DEF FetchOK
  <2>2. Fetched(k)
    BY <1>2, <2>1, Zenon DEF FetchOK, Fetched
  <2> QED BY <1>1, <2>1, <2>2, Zenon
<1>3. CASE FetchThrows
  <2>1. PICK k \in 0..(numRows - cursor) : cursor' = cursor + k
    <3>1. CASE UNCHANGED cursor
      <4>1. 0 \in 0..(numRows - cursor) /\ cursor' = cursor + 0
        BY <1>0, <3>1
      <4> QED BY <4>1, Zenon
    <3>2. CASE \E k \in 0..batchsize, more \in BOOLEAN :
                 Answer(k, more) /\ cursor' = cursor + k
      BY <1>1, <3>2, Zenon
    <3> QED BY <1>3, <3>1, <3>2, Zenon DEF FetchThrows
  <2> QED BY <1>3, <2>1, Zenon DEF FetchThrows, Failed
<1>4. CASE FetchError \/ SchemaFails \/ ConvertFails
  <2>1. 0 \in 0..(numRows - cursor) /\ cursor + 0 = cursor
    BY <1>0
  <2>2. Fail /\ UNCHANGED <<numRows, column_kind, reader, cursor>>
    BY <1>4, Zenon DEF FetchError, SchemaFails, ConvertFails, serverVars
  <2> QED BY <2>1, <2>2, Zenon DEF Failed
<1>5. CASE PrintBatch \/ Convert
  BY <1>5, Zenon DEF PrintBatch, Convert, HandedOver, serverVars
<1>6. CASE (\E n \in BatchSizes : Call(n)) \/ Schema \/ UNCHANGED vars
  BY <1>6, Zenon DEF Call, Schema, vars, Quiet, serverVars, resultVars
<1> QED BY <1>2, <1>3, <1>4, <1>5, <1>6, Zenon DEF Next

\* What RowsOf returns: k consecutive rows.
LEMMA RowsOfProperties ==
  ASSUME NEW n \in Nat, NEW k \in Nat
  PROVE  /\ RowsOf(n, k) \in Seq(Nat)
         /\ RowsOf(n, k) \in Seq((n + 1)..(n + k))
         /\ Len(RowsOf(n, k)) = k
         /\ \A h \in 1..k : RowsOf(n, k)[h] = n + h
<1>1. \A h \in 1..k : n + h \in Nat /\ n + h \in (n + 1)..(n + k)
  OBVIOUS
<1>2. RowsOf(n, k) \in [1..k -> (n + 1)..(n + k)] /\ RowsOf(n, k) \in [1..k -> Nat]
  BY <1>1, Zenon DEF RowsOf
<1>3. RowsOf(n, k) \in Seq((n + 1)..(n + k)) /\ RowsOf(n, k) \in Seq(Nat)
  BY <1>2
<1> QED BY <1>2, <1>3, SeqLength DEF RowsOf

\* Two halves of a concatenation, each by its own index.
LEMMA ConcatHalves ==
  ASSUME NEW s \in Seq(Nat), NEW t \in Seq(Nat)
  PROVE  /\ Len(s) \in Nat /\ Len(t) \in Nat
         /\ Len(s \o t) = Len(s) + Len(t)
         /\ \A h \in 1..Len(s) : (s \o t)[h] = s[h]
         /\ \A h \in 1..Len(t) : (s \o t)[Len(s) + h] = t[h]
<1>1. Len(s) \in Nat /\ Len(t) \in Nat
  BY SeqLength, Zenon
<1>2. /\ Len(s \o t) = Len(s) + Len(t)
      /\ \A h \in 1..(Len(s) + Len(t)) :
           (s \o t)[h] = IF h <= Len(s) THEN s[h] ELSE t[h - Len(s)]
  BY SeqJoin
<1>3. ASSUME NEW h \in 1..Len(s) PROVE (s \o t)[h] = s[h]
  <2>1. h \in 1..(Len(s) + Len(t)) /\ h <= Len(s)
    BY <1>1
  <2> QED BY <1>2, <2>1, Zenon
<1>4. ASSUME NEW h \in 1..Len(t) PROVE (s \o t)[Len(s) + h] = t[h]
  <2>1. /\ Len(s) + h \in 1..(Len(s) + Len(t)) /\ ~(Len(s) + h <= Len(s))
        /\ (Len(s) + h) - Len(s) = h
    BY <1>1
  <2> QED BY <1>2, <2>1, Zenon
<1> QED BY <1>1, <1>2, <1>3, <1>4, Zenon

\* The first conjuncts of the invariant, after a batch was appended.
LEMMA FetchedRows ==
  ASSUME FetchInv, NEW k \in 0..(numRows - cursor), Fetched(k)
  PROVE  /\ pending' \in Seq(1..numRows')
         /\ cursor' \in 0..numRows'
         /\ Len(pending') = Len(pending) + k
         /\ Pos' = Pos
         /\ Len(pending') <= cursor'
         /\ \A h \in 1..Len(pending') : pending'[h] = Pos' + h
<1>0. /\ cursor \in Nat /\ numRows \in Nat /\ cursor <= numRows
      /\ Len(pending) \in Nat /\ pending \in Seq(Nat) /\ k \in Nat
      /\ k <= numRows - cursor /\ Len(pending) <= cursor
  BY Numbers DEF FetchInv, PendingInv
<1>1. /\ cursor' = cursor + k /\ numRows' = numRows
      /\ pending' = pending \o RowsOf(cursor, k)
  BY Zenon DEF Fetched
<1>2. /\ RowsOf(cursor, k) \in Seq(Nat)
      /\ RowsOf(cursor, k) \in Seq((cursor + 1)..(cursor + k))
      /\ Len(RowsOf(cursor, k)) = k
      /\ \A h \in 1..k : RowsOf(cursor, k)[h] = cursor + h
  BY <1>0, RowsOfProperties, Zenon
<1>3. pending' \in Seq(1..numRows')
  <2>1. (cursor + 1)..(cursor + k) \subseteq 1..numRows
    BY <1>0
  <2>2. RowsOf(cursor, k) \in Seq(1..numRows)
    BY <1>2, <2>1, SeqWider, Zenon
  <2>3. pending \in Seq(1..numRows)
    BY Zenon DEF FetchInv, TypeOK
  <2> QED BY <1>1, <2>2, <2>3, SeqJoin, Zenon
<1>4. /\ Len(pending') = Len(pending) + k
      /\ \A h \in 1..Len(pending) : pending'[h] = pending[h]
      /\ \A h \in 1..k : pending'[Len(pending) + h] = RowsOf(cursor, k)[h]
  BY <1>0, <1>1, <1>2, ConcatHalves, ZenonT(30)
<1>5. Pos' = Pos
  BY <1>0, <1>1, <1>4 DEF Pos
<1>6. ASSUME NEW h \in 1..Len(pending') PROVE pending'[h] = Pos' + h
  <2>1. CASE h <= Len(pending)
    BY <1>0, <1>4, <1>5, <2>1 DEF FetchInv, PendingInv
  <2>2. CASE h > Len(pending)
    <3>1. PICK j \in 1..k : h = Len(pending) + j
      <4>1. h - Len(pending) \in 1..k /\ h = Len(pending) + (h - Len(pending))
        BY <1>0, <1>4, <2>2
      <4> QED BY <4>1, Zenon
    <3>2. pending'[h] = cursor + j
      BY <1>2, <1>4, <3>1, Zenon
    <3> QED BY <1>0, <1>5, <3>1, <3>2 DEF Pos
  <2> QED BY <1>0, <1>4, <2>1, <2>2
<1> QED BY <1>0, <1>1, <1>3, <1>4, <1>5, <1>6

\* Handing over appends to out exactly the rows after Pos.
LEMMA HandedOverRows ==
  ASSUME FetchInv, HandedOver
  PROVE  /\ out' \in Seq(1..numRows') /\ pending' = <<>>
         /\ Len(pending') = 0 /\ Pos' = cursor /\ cursor = Pos + Len(pending)
         /\ Len(out') = Len(out) + Len(pending)
         /\ \A h \in 1..Len(out) : out'[h] = out[h]
         /\ \A h \in (Len(out) + 1)..Len(out') : out'[h] = Pos + (h - Len(out))
<1>0. /\ cursor \in Nat /\ Len(pending) \in Nat /\ Len(out) \in Nat /\ Pos \in Nat
      /\ pending \in Seq(Nat) /\ out \in Seq(Nat)
  BY Numbers, Zenon
<1>1. /\ out' = out \o pending /\ pending' = <<>>
      /\ cursor' = cursor /\ numRows' = numRows
  BY Zenon DEF HandedOver, HandOver
<1>2. /\ Len(out') = Len(out) + Len(pending)
      /\ \A h \in 1..Len(out) : out'[h] = out[h]
      /\ \A h \in 1..Len(pending) : out'[Len(out) + h] = pending[h]
  BY <1>0, <1>1, ConcatHalves, Zenon
<1>3. out' \in Seq(1..numRows')
  BY <1>1, SeqJoin, Zenon DEF FetchInv, TypeOK
<1>4. Len(pending') = 0
  BY <1>1, SeqEmpty, Zenon
<1>5. Pos' = cursor /\ cursor = Pos + Len(pending)
  BY <1>0, <1>1, <1>4 DEF Pos
<1>6. ASSUME NEW h \in (Len(out) + 1)..Len(out')
      PROVE  out'[h] = Pos + (h - Len(out))
  <2>1. h - Len(out) \in 1..Len(pending) /\ h = Len(out) + (h - Len(out))
    BY <1>0, <1>2
  <2>2. out'[h] = pending[h - Len(out)]
    BY <1>2, <2>1, Zenon
  <2> QED BY <2>1, <2>2, Zenon DEF FetchInv, PendingInv
<1> QED BY <1>1, <1>2, <1>3, <1>4, <1>5, <1>6, Zenon

\* A failed call leaves nothing pending.
LEMMA FailedRows ==
  ASSUME FetchInv, NEW k \in 0..(numRows - cursor), Failed(k)
  PROVE  /\ pending' = <<>> /\ Len(pending') = 0 /\ pending' \in Seq(1..numRows')
         /\ cursor' \in 0..numRows' /\ Pos' = cursor' /\ Pos <= Pos'
         /\ out' = out /\ failed' /\ pc' = "idle" /\ outcome' = "failed"
<1>0. /\ cursor \in Nat /\ numRows \in Nat /\ cursor <= numRows
      /\ Len(pending) \in Nat /\ k \in Nat /\ k <= numRows - cursor
  BY Numbers
<1>1. /\ cursor' = cursor + k /\ numRows' = numRows /\ pending' = <<>>
      /\ out' = out /\ failed' /\ pc' = "idle" /\ outcome' = "failed"
  BY Zenon DEF Failed, Fail
<1>2. Len(pending') = 0 /\ pending' \in Seq(1..numRows')
  BY <1>1, SeqEmpty, Zenon
<1> QED BY <1>0, <1>1, <1>2 DEF Pos

-----------------------------------------------------------------------------
(***************************************************************************)
(* The invariant is inductive.                                             *)
(***************************************************************************)
\* The control variables keep their types.
LEMMA ControlType ==
  ASSUME TypeOK, [Next]_vars
  PROVE  /\ column_kind' \in {"none", "ok", "unsupported"} /\ reader' \in Readers
         /\ numRows' \in RowCounts /\ numRows' = numRows
         /\ column_kind' = column_kind /\ reader' = reader
         /\ pc' \in {"idle", "fetch", "schema", "convert"}
         /\ batchsize' \in BatchSizes
         /\ outcome' \in {"none", "returned", "failed"}
         /\ connected' \in BOOLEAN /\ has_more_rows' \in BOOLEAN
         /\ cached_metadata' \in BOOLEAN /\ failed' \in BOOLEAN
<1>1. CASE FetchOK
  BY <1>1, Zenon DEF TypeOK, FetchOK, LoopAgain
<1>2. CASE FetchThrows
  BY <1>2, Zenon DEF TypeOK, FetchThrows, Fail
<1>3. CASE FetchError
  BY <1>3, Zenon DEF TypeOK, FetchError, Fail, serverVars
<1>4. CASE PrintBatch
  BY <1>4, Zenon DEF TypeOK, PrintBatch, HandOver, Return, serverVars
<1>5. CASE Schema
  BY <1>5, Zenon DEF TypeOK, Schema, serverVars, resultVars
<1>6. CASE SchemaFails
  BY <1>6, Zenon DEF TypeOK, SchemaFails, Fail, serverVars
<1>7. CASE Convert
  BY <1>7, Zenon DEF TypeOK, Convert, HandOver, Return, serverVars
<1>8. CASE ConvertFails
  BY <1>8, Zenon DEF TypeOK, ConvertFails, Fail, serverVars
<1>9. CASE \E n \in BatchSizes : Call(n)
  BY <1>9, Zenon DEF TypeOK, Call, serverVars, resultVars
<1>10. CASE UNCHANGED vars
  BY <1>10 DEF TypeOK, vars
<1> QED BY <1>1, <1>2, <1>3, <1>4, <1>5, <1>6, <1>7, <1>8, <1>9, <1>10 DEF Next

\* A call begins, or stays idle, with nothing pending.
LEMMA IdleIsEmpty ==
  ASSUME FetchInv, [Next]_vars, pc' = "idle"
  PROVE  pending' = <<>>
<1>1. CASE FetchThrows \/ FetchError \/ SchemaFails \/ ConvertFails
  BY <1>1, Zenon DEF FetchThrows, FetchError, SchemaFails, ConvertFails, Fail
<1>2. CASE PrintBatch \/ Convert
  BY <1>2, Zenon DEF PrintBatch, Convert, HandOver
<1>3. CASE FetchOK \/ Schema \/ \E n \in BatchSizes : Call(n)
  BY <1>3, Zenon DEF FetchOK, Schema, Call
<1>4. CASE UNCHANGED vars
  BY <1>4, Zenon DEF vars, FetchInv, PendingInv
<1> QED BY <1>1, <1>2, <1>3, <1>4, Zenon DEF Next

\* The rows of the invariant: types, pending rows, delivered rows.
RowInv ==
  /\ cursor \in 0..numRows
  /\ pending \in Seq(1..numRows)
  /\ out \in Seq(1..numRows)
  /\ Len(pending) <= cursor
  /\ \A h \in 1..Len(pending) : pending[h] = Pos + h
  /\ OutInv
  /\ RowsOnceInOrder

\* Every kind of step preserves them.
LEMMA RowInvNext ==
  ASSUME FetchInv, [Next]_vars
  PROVE  RowInv'
<1>0. /\ cursor \in Nat /\ numRows \in Nat /\ cursor <= numRows
      /\ Len(pending) \in Nat /\ Len(out) \in Nat /\ Pos \in Nat
  BY Numbers, Zenon
<1>1. RowInv
  BY Zenon DEF FetchInv, TypeOK, PendingInv, RowInv
<1>2. CASE Quiet
  BY <1>1, <1>2, Zenon DEF Quiet, RowInv, OutInv, RowsOnceInOrder, Pos
<1>3. ASSUME NEW k \in 0..(numRows - cursor), Fetched(k) PROVE RowInv'
  <2>1. /\ pending' \in Seq(1..numRows') /\ cursor' \in 0..numRows'
        /\ Pos' = Pos /\ Len(pending') <= cursor'
        /\ \A h \in 1..Len(pending') : pending'[h] = Pos' + h
    BY <1>3, FetchedRows, Zenon
  <2>2. out' = out /\ failed' = failed /\ numRows' = numRows
    BY <1>3, Zenon DEF Fetched
  <2>3. OutInv' /\ RowsOnceInOrder'
    BY <1>1, <2>1, <2>2, Zenon DEF RowInv, OutInv, RowsOnceInOrder
  <2> QED BY <1>1, <2>1, <2>2, <2>3, Zenon DEF RowInv
<1>4. ASSUME NEW k \in 0..(numRows - cursor), Failed(k) PROVE RowInv'
  <2>1. /\ pending' \in Seq(1..numRows') /\ cursor' \in 0..numRows'
        /\ Len(pending') = 0 /\ Pos' = cursor' /\ Pos <= Pos'
        /\ out' = out /\ failed'
    BY <1>4, FailedRows, Zenon
  <2>2. numRows' = numRows
    BY <1>4, Zenon DEF Failed
  <2>3. \A h \in 1..Len(out) : out[h] \in Nat
    BY Numbers, SeqElement, Zenon
  <2>4. OutInv'
    BY <1>0, <1>1, <2>1, <2>2, <2>3 DEF RowInv, OutInv
  <2>5. RowsOnceInOrder'
    BY <1>1, <2>1, Zenon DEF RowInv, RowsOnceInOrder
  <2> QED BY <1>0, <1>1, <2>1, <2>2, <2>4, <2>5 DEF RowInv
<1>5. CASE HandedOver
  <2>1. /\ out' \in Seq(1..numRows') /\ Len(pending') = 0 /\ pending' = <<>>
        /\ Pos' = cursor /\ cursor = Pos + Len(pending)
        /\ Len(out') = Len(out) + Len(pending)
        /\ \A h \in 1..Len(out) : out'[h] = out[h]
        /\ \A h \in (Len(out) + 1)..Len(out') : out'[h] = Pos + (h - Len(out))
    BY <1>5, HandedOverRows, Zenon
  <2>2. cursor' = cursor /\ numRows' = numRows /\ failed' = failed
    BY <1>5, Zenon DEF HandedOver, HandOver
  <2>3. \A h \in 1..Len(out) : out[h] \in Nat /\ out[h] <= Pos
    BY <1>1, Numbers, SeqElement, Zenon DEF RowInv, OutInv
  <2>4. \A h \in 1..Len(out') : h \in 1..Len(out) \/ h \in (Len(out) + 1)..Len(out')
    BY <1>0, <2>1
  <2>5. ASSUME NEW h \in 1..Len(out') PROVE out'[h] <= Pos'
    <3>1. CASE h \in 1..Len(out)
      BY <1>0, <2>1, <2>3, <3>1
    <3>2. CASE h \in (Len(out) + 1)..Len(out')
      BY <1>0, <2>1, <3>2
    <3> QED BY <2>4, <3>1, <3>2, Zenon
  <2>6. ASSUME ~failed' PROVE Len(out') = Pos' /\ \A h \in 1..Len(out') : out'[h] = h
    <3>1. Len(out) = Pos /\ \A h \in 1..Len(out) : out[h] = h
      BY <1>1, <2>2, <2>6, Zenon DEF RowInv, OutInv
    <3>2. ASSUME NEW h \in 1..Len(out') PROVE out'[h] = h
      <4>1. CASE h \in 1..Len(out)
        BY <2>1, <3>1, <4>1, Zenon
      <4>2. CASE h \in (Len(out) + 1)..Len(out')
        BY <1>0, <2>1, <3>1, <4>2
      <4> QED BY <2>4, <4>1, <4>2, Zenon
    <3> QED BY <2>1, <3>1, <3>2, Zenon
  <2>7. ASSUME NEW h \in 1..Len(out'), NEW j \in 1..Len(out'), h < j
        PROVE  out'[h] < out'[j]
    <3>1. CASE h \in 1..Len(out) /\ j \in 1..Len(out)
      BY <1>1, <2>1, <2>7, <3>1, Zenon DEF RowInv, RowsOnceInOrder
    <3>2. CASE h \in 1..Len(out) /\ j \in (Len(out) + 1)..Len(out')
      <4>1. out'[h] \in Nat /\ out'[h] <= Pos /\ out'[j] = Pos + (j - Len(out))
        BY <2>1, <2>3, <3>2, Zenon
      <4>2. j \in Int /\ j - Len(out) >= 1
        BY <1>0, <3>2
      <4> QED BY <1>0, <4>1, <4>2
    <3>3. CASE h \in (Len(out) + 1)..Len(out') /\ j \in (Len(out) + 1)..Len(out')
      BY <1>0, <2>1, <2>7, <3>3
    <3> QED BY <1>0, <2>1, <2>4, <2>7, <3>1, <3>2, <3>3
  <2>8. OutInv' /\ RowsOnceInOrder'
    BY <2>5, <2>6, <2>7, Zenon DEF OutInv, RowsOnceInOrder
  <2>9. pending' \in Seq(1..numRows')
    BY <2>1, SeqEmpty, Zenon
  <2> QED BY <1>0, <1>1, <2>1, <2>2, <2>8, <2>9 DEF RowInv
<1> QED BY <1>2, <1>3, <1>4, <1>5, StepKinds, Zenon

\* The loops leave Fetch for good only at the end of the result set.
LEMMA EndInvNext ==
  ASSUME FetchInv, [Next]_vars
  PROVE  EndInv'
<1>0. /\ cursor \in Nat /\ numRows \in Nat /\ cursor <= numRows
      /\ numRows' = numRows /\ column_kind' = column_kind /\ reader' = reader
      /\ reader \in {"fetchall_pandas", "PrintResults"}
      /\ has_more_rows \in BOOLEAN /\ EndInv
  BY Numbers, ControlType, FetchAssumption, Zenon DEF FetchInv, TypeOK
<1>1. CASE FetchOK
  <2>1. PICK k \in 0..batchsize, more \in BOOLEAN :
          /\ Answer(k, more) /\ cursor' = cursor + k
          /\ has_more_rows' = more
          /\ pc' = IF reader = "fetchall_pandas" /\ has_more_rows' THEN "fetch"
                                                                   ELSE "schema"
    BY <1>1, Zenon DEF FetchOK, LoopAgain
  <2>2. batchsize \in Nat
    BY FetchAssumption, Zenon DEF FetchInv, TypeOK
  <2>3. ~has_more_rows' => cursor' = numRows
    BY <1>0, <2>1, <2>2 DEF Answer
  <2> QED BY <1>0, <2>1, <2>3, Zenon DEF EndInv
<1>2. CASE FetchThrows \/ FetchError \/ SchemaFails \/ ConvertFails
  <2>1. pc' = "idle" /\ outcome' = "failed"
    BY <1>2, Zenon DEF FetchThrows, FetchError, SchemaFails, ConvertFails, Fail
  <2> QED BY <1>0, <2>1, Zenon DEF EndInv
<1>3. CASE PrintBatch
  BY <1>0, <1>3 DEF PrintBatch, Return, EndInv, serverVars
<1>4. CASE Convert
  BY <1>0, <1>4, Zenon DEF Convert, Return, EndInv, serverVars
<1>5. CASE Schema
  BY <1>0, <1>5, Zenon DEF Schema, EndInv, serverVars
<1>6. CASE \E n \in BatchSizes : Call(n)
  BY <1>0, <1>6, Zenon DEF Call, EndInv, serverVars
<1>7. CASE UNCHANGED vars
  BY <1>0, <1>7, Zenon DEF vars, EndInv
<1> QED BY <1>1, <1>2, <1>3, <1>4, <1>5, <1>6, <1>7, Zenon DEF Next

\* Before the first call nothing is pending and nothing was delivered.
LEMMA FetchInvInit == Init => FetchInv
<1> SUFFICES ASSUME Init PROVE FetchInv
  BY Zenon
<1>1. /\ Len(pending) = 0 /\ Len(out) = 0
      /\ pending \in Seq(1..numRows) /\ out \in Seq(1..numRows)
  BY SeqEmpty, Zenon DEF Init
<1>2. numRows \in Nat /\ cursor = 0 /\ cursor \in 0..numRows
  BY FetchAssumption DEF Init
<1>3. TypeOK
  BY <1>1, <1>2, Zenon DEF Init, TypeOK
<1>4. Pos = 0 /\ pending = <<>>
  <2>1. Pos = 0
    BY <1>1, <1>2 DEF Pos
  <2> QED BY <2>1, Zenon DEF Init
<1>5. PendingInv /\ OutInv /\ RowsOnceInOrder
  BY <1>1, <1>2, <1>4 DEF PendingInv, OutInv, RowsOnceInOrder
<1>6. EndInv
  BY Zenon DEF Init, EndInv
<1> QED BY <1>3, <1>5, <1>6, Zenon DEF FetchInv

\* Every step preserves the invariant.
LEMMA FetchInvNext == FetchInv /\ [Next]_vars => FetchInv'
<1> SUFFICES ASSUME FetchInv, [Next]_vars PROVE FetchInv'
  BY Zenon
<1>1. RowInv'
  BY RowInvNext, Zenon
<1>2. TypeOK'
  <2>1. TypeOK
    BY Zenon DEF FetchInv
  <2> QED BY <1>1, <2>1, ControlType, Zenon DEF TypeOK, RowInv
<1>3. PendingInv' /\ OutInv' /\ RowsOnceInOrder'
  BY <1>1, IdleIsEmpty, Zenon DEF RowInv, PendingInv
<1>4. EndInv'
  BY EndInvNext, Zenon
<1> QED BY <1>2, <1>3, <1>4, Zenon DEF FetchInv

\* The inductive invariant holds in every behaviour.
THEOREM FetchInvCorrect == Spec => []FetchInv
BY FetchInvInit, FetchInvNext, PTL DEF Spec

\* No row is handed over twice or out of order, over all calls.
THEOREM RowsInOrder == Spec => []RowsOnceInOrder
<1>1. FetchInv => RowsOnceInOrder
  BY Zenon DEF FetchInv
<1> QED BY <1>1, FetchInvCorrect, PTL

\* The invariant gives the completeness of an unfailed read.
LEMMA InvGivesComplete == FetchInv => CompleteUnlessFailed
<1> SUFFICES ASSUME FetchInv, pc = "idle", outcome = "returned", ~failed
             PROVE  out = [h \in 1..numRows |-> h]
  BY Zenon DEF CompleteUnlessFailed
<1>1. /\ pending = <<>> /\ cursor = numRows /\ numRows \in Nat /\ out \in Seq(Nat)
      /\ Len(out) = Pos /\ \A h \in 1..Len(out) : out[h] = h
  BY Numbers, Zenon DEF FetchInv, PendingInv, EndInv, OutInv
<1>2. Len(out) = numRows
  BY <1>1, SeqEmpty DEF Pos
<1>3. out \in [1..numRows -> Nat]
  BY <1>1, <1>2, SeqLength, Zenon
<1> QED BY <1>1, <1>2, <1>3, Zenon

\* Without a reported failure, a call that returned has handed over everything.
THEOREM ReadIsComplete == Spec => []CompleteUnlessFailed
BY InvGivesComplete, FetchInvCorrect, PTL

-----------------------------------------------------------------------------
(***************************************************************************)
(* FetchAll implements ResultStream.                                       *)
(***************************************************************************)
\* Initial states map to initial states.
LEMMA StreamInit == Init => Stream!Init
<1> SUFFICES ASSUME Init PROVE Stream!Init
  BY Zenon
<1>1. Len(pending) = 0 /\ cursor = 0 /\ numRows \in Nat
  BY SeqEmpty, FetchAssumption, Zenon DEF Init
<1>2. cursor - Len(pending) = 0
  BY <1>1
<1> QED BY <1>1, <1>2, Zenon DEF Init, Stream!Init

\* A row that is handed over is delivered; a failure loses the pending rows and
\* those the server moved past; every other step is a stutter.
LEMMA StreamNext == FetchInv /\ [Next]_vars => [Stream!Next]_(Stream!vars)
<1> SUFFICES ASSUME FetchInv, [Next]_vars PROVE [Stream!Next]_(Stream!vars)
  BY Zenon
<1>0. /\ cursor \in Nat /\ numRows \in Nat /\ cursor <= numRows
      /\ Len(pending) \in Nat /\ Pos \in Nat
      /\ pending \in Seq(Nat) /\ out \in Seq(Nat)
  BY Numbers, Zenon
<1>1. CASE Quiet
  BY <1>1, Zenon DEF Quiet, Stream!vars
<1>2. ASSUME NEW k \in 0..(numRows - cursor), Fetched(k)
      PROVE  [Stream!Next]_(Stream!vars)
  <2>1. Pos' = Pos
    BY <1>2, FetchedRows, Zenon
  <2> QED BY <1>2, <2>1, Zenon DEF Fetched, Stream!vars, Pos
<1>3. ASSUME NEW k \in 0..(numRows - cursor), Failed(k) PROVE Stream!Next
  <2>1. /\ cursor' \in 0..numRows /\ Pos' = cursor' /\ Pos <= Pos'
        /\ out' = out /\ failed' = TRUE /\ numRows' = numRows
    BY <1>3, FailedRows, Zenon DEF Failed, Fail
  <2>2. cursor' - Pos \in 0..(numRows - Pos) /\ Pos' = Pos + (cursor' - Pos)
    <3>1. ASSUME NEW c \in Nat, c <= numRows, Pos <= c
          PROVE  c - Pos \in 0..(numRows - Pos) /\ c = Pos + (c - Pos)
      BY <1>0, <3>1
    <3>2. cursor' \in Nat /\ cursor' <= numRows /\ Pos <= cursor'
      BY <1>0, <2>1
    <3> QED BY <2>1, <3>1, <3>2, Zenon
  <2>3. Stream!Lose(cursor' - Pos)
    BY <2>1, <2>2, Zenon DEF Stream!Lose, Pos
  <2> QED BY <2>2, <2>3, Zenon DEF Stream!Next, Pos
<1>4. CASE HandedOver
  <2>1. /\ Pos' = cursor /\ cursor = Pos + Len(pending)
        /\ out' = out \o pending /\ numRows' = numRows /\ failed' = failed
    BY <1>4, HandedOverRows, Zenon DEF HandedOver, HandOver
  <2>2. Len(pending) \in 0..(numRows - Pos)
    BY <1>0, <2>1
  <2>3. pending = Stream!Rows(Pos, Len(pending))
    <3>1. pending \in [1..Len(pending) -> Nat]
      BY <1>0, SeqLength, Zenon
    <3>2. \A h \in 1..Len(pending) : pending[h] = Pos + h
      BY Zenon DEF FetchInv, PendingInv
    <3> QED BY <3>1, <3>2, Zenon DEF Stream!Rows
  <2>4. Stream!Deliver(Len(pending))
    BY <2>1, <2>3, Zenon DEF Stream!Deliver, Pos
  <2> QED BY <2>2, <2>4, Zenon DEF Stream!Next, Pos
<1> QED BY <1>1, <1>2, <1>3, <1>4, StepKinds, Zenon

\* The loops of fetchall_pandas and PrintResults implement the row stream.
THEOREM StreamImplemented == Spec => ImplementsStream
BY StreamInit, StreamNext, FetchInvCorrect, PTL
   DEF Spec, ImplementsStream, Stream!Spec

\* The cursor stays within the result and only rows of it are held or returned.
THEOREM FetchTypes == Spec => []TypeOK
<1>1. FetchInv => TypeOK
  BY Zenon DEF FetchInv
<1> QED BY <1>1, FetchInvCorrect, PTL


-----------------------------------------------------------------------------
(***************************************************************************)
(* Proofs about LateAnswers, for any number of calls, operations and       *)
(* methods.  The invariant ties the position in the stream of answers to   *)
(* the number of timeouts: as long as the client is at the start of an     *)
(* answer, it has taken one for every call that has returned, but for      *)
(* those that timed out.                                                   *)
(***************************************************************************)

Position == ~ garbled => consumed = Len(calls) - late - (IF waiting THEN 1 ELSE 0)

Current == waiting => calls[Last].before = late /\ calls[Last].result = "none"

\* What is known of every call that returned an answer.
Answered(n) ==
    calls[n].result = "answer" =>
        /\ calls[n].answer = n - calls[n].before
        /\ calls[n].answer \in 1 .. n
        /\ calls[n].answer <= consumed
        /\ calls[calls[n].answer].method = calls[n].method

LateInv ==
    /\ LateTypeOK /\ Position /\ Current
    /\ \A n \in 1 .. Len(calls) : Answered(n)
    /\ AnswersInOrder

\* s with its element k replaced by x is a sequence over S, as long as s.
Updated(S, s, k, x) ==
  [s EXCEPT ![k] = x] \in Seq(S) /\ Len([s EXCEPT ![k] = x]) = Len(s)

\* A sequence with one element replaced is one of the same length.
LEMMA SeqUpdate ==
  ASSUME NEW S, NEW s \in Seq(S), NEW k \in 1..Len(s), NEW x \in S
  PROVE  Updated(S, s, k, x)
BY DEF Updated

\* What ReturnCall does to the calls: it fills in the last one (Receive, ReceiveGarbled,
\* TimeOut).
LEMMA ReturnFillsLast ==
    ASSUME LateTypeOK, waiting,
           NEW r \in {"answer", "timeout", "error", "garbage"}, NEW a \in Nat, ReturnCall(r, a)
    PROVE  /\ calls' \in Seq(CallShape) /\ Len(calls') = Len(calls) /\ ~ waiting'
           /\ Last \in 1 .. Len(calls)
           /\ \A n \in 1 .. Len(calls) :
                /\ calls'[n].before = calls[n].before
                /\ calls'[n].method = calls[n].method
                /\ n # Last => calls'[n] = calls[n]
           /\ calls'[Last].result = r /\ calls'[Last].answer = a
<1> USE DEF LateTypeOK, ReturnCall, Last
<1>1. Len(calls) \in 1 .. Len(calls)
  OBVIOUS
<1>2. calls[Len(calls)] \in CallShape
  BY <1>1
<1> DEFINE new == [calls[Len(calls)] EXCEPT !.result = r, !.answer = a]
<1>3. new \in CallShape /\ new.before = calls[Len(calls)].before
      /\ new.method = calls[Len(calls)].method /\ new.result = r /\ new.answer = a
  BY <1>2, Zenon DEF CallShape
<1>4. calls' = [calls EXCEPT ![Len(calls)] = new]
  BY <1>1, Zenon
<1> HIDE DEF new
<1>5. calls' \in Seq(CallShape) /\ Len(calls') = Len(calls)
  <2>1. calls \in Seq(CallShape)
    BY Zenon
  <2> HIDE DEF LateTypeOK, ReturnCall
  <2>2. Updated(CallShape, calls, Len(calls), new)
    BY <1>1, <1>3, <2>1, SeqUpdate, Zenon
  <2> QED BY <1>4, <2>2, Zenon DEF Updated
<1>6. \A n \in 1 .. Len(calls) : calls'[n] = IF n = Len(calls) THEN new ELSE calls[n]
  BY <1>4
<1> QED
  BY <1>1, <1>3, <1>5, <1>6, Zenon

\* The new call at the end of the calls (Send).
LEMMA SendAppends ==
    ASSUME LateTypeOK, NEW operation \in Operations, NEW method \in Methods, Send(operation, method)
    PROVE  /\ calls' \in Seq(CallShape) /\ Len(calls') = Len(calls) + 1
           /\ Len(calls') <= MaxCalls
           /\ \A n \in 1 .. Len(calls) : calls'[n] = calls[n]
           /\ calls'[Len(calls) + 1].before = late
           /\ calls'[Len(calls) + 1].result = "none"
<1> DEFINE new == [operation |-> operation, method |-> method, before |-> late,
                   result |-> "none", answer |-> None]
<1>1. new \in CallShape /\ new.before = late /\ new.result = "none"
  BY Zenon DEF CallShape, LateTypeOK, None
<1>2. calls' = Append(calls, new) /\ calls \in Seq(CallShape)
  BY Zenon DEF Send, LateTypeOK
<1>3. Len(calls) < MaxCalls /\ MaxCalls \in Nat
  BY CallsAssumption, Zenon DEF Send
<1> HIDE DEF new
<1> QED
  BY <1>1, <1>2, <1>3

\* The first state: nothing was called.
LEMMA InitHolds == LateInit => LateInv
<1> SUFFICES ASSUME LateInit PROVE LateInv
  BY Zenon
<1>1. calls = <<>> /\ Len(calls) = 0 /\ calls \in Seq(CallShape)
  BY DEF LateInit
<1>2. LateTypeOK
  <2>1. /\ is_connected \in BOOLEAN /\ timeout \in BOOLEAN /\ waiting \in BOOLEAN
        /\ garbled \in BOOLEAN /\ ~ waiting
    BY Zenon DEF LateInit
  <2>2. 0 <= MaxCalls /\ answered \in 0 .. 0 /\ consumed \in 0 .. answered /\ late \in Nat
    BY CallsAssumption DEF LateInit
  <2> QED
    BY <1>1, <2>1, <2>2, Zenon DEF LateTypeOK
<1>3. Position /\ Current
  BY <1>1 DEF LateInit, Position, Current
<1>4. (\A n \in 1 .. Len(calls) : Answered(n)) /\ AnswersInOrder
  BY <1>1 DEF AnswersInOrder
<1> QED
  BY <1>2, <1>3, <1>4, Zenon DEF LateInv

\* The fields of a call have their types.
LEMMA CallFields ==
    ASSUME LateTypeOK, NEW n \in 1 .. Len(calls)
    PROVE  /\ calls[n] \in CallShape /\ Len(calls) \in Nat
           /\ calls[n].answer \in Nat /\ calls[n].before \in Nat
<1>1. calls[n] \in CallShape /\ Len(calls) \in Nat
  BY DEF LateTypeOK
<1> QED
  BY <1>1, Zenon DEF CallShape

\* Steps that leave the calls and the answers taken alone keep what is known of them.
LEMMA SameCalls ==
    ASSUME LateInv, calls' = calls, consumed' \in Nat, consumed <= consumed', LateTypeOK
    PROVE  (\A n \in 1 .. Len(calls) : Answered(n))' /\ AnswersInOrder'
<1>1. \A n \in 1 .. Len(calls) : Answered(n)'
  <2> TAKE n \in 1 .. Len(calls)
  <2>1. Answered(n)
    BY Zenon DEF LateInv
  <2>2. calls[n].answer \in Nat /\ consumed \in Nat
    BY CallFields DEF LateTypeOK
  <2>3. calls[n].result = "answer" => calls[n].answer <= consumed'
    BY <2>1, <2>2 DEF Answered
  <2> QED
    BY <2>1, <2>3, Zenon DEF Answered
<1> QED
  BY <1>1, Zenon DEF LateInv, AnswersInOrder

\* Making a call (Send): it waits, with no answer yet.
LEMMA SendKeeps ==
    ASSUME LateInv, NEW operation \in Operations, NEW method \in Methods, Send(operation, method)
    PROVE  LateInv'
<1>1. LateTypeOK
  BY Zenon DEF LateInv
<1>2. /\ calls' \in Seq(CallShape) /\ Len(calls') = Len(calls) + 1 /\ Len(calls') <= MaxCalls
      /\ \A n \in 1 .. Len(calls) : calls'[n] = calls[n]
      /\ calls'[Len(calls) + 1].before = late
      /\ calls'[Len(calls) + 1].result = "none"
  BY <1>1, SendAppends, Zenon
<1>3. Len(calls) \in Nat
  BY <1>1 DEF LateTypeOK
<1>4. ~ waiting /\ waiting' = TRUE /\ is_connected' = is_connected /\ timeout' = timeout
      /\ answered' = answered /\ consumed' = consumed /\ late' = late /\ garbled' = garbled
  BY Zenon DEF Send
<1>5. LateTypeOK'
  BY <1>1, <1>2, <1>3, <1>4 DEF LateTypeOK
<1>6. Position'
  BY <1>1, <1>2, <1>3, <1>4 DEF LateInv, Position, LateTypeOK
<1>7. Current'
  BY <1>2, <1>4, Zenon DEF Current, Last
<1>8. \A n \in 1 .. Len(calls') : Answered(n)'
  <2> TAKE n \in 1 .. Len(calls')
  <2>1. CASE n \in 1 .. Len(calls)
    <3>1. Answered(n) /\ calls[n] \in CallShape
      BY <1>1, <2>1 DEF LateInv, LateTypeOK
    <3>2. calls'[n] = calls[n]
      BY <1>2, <2>1, Zenon
    <3>3. calls[n].result = "answer" => calls'[calls[n].answer] = calls[calls[n].answer]
      <4> HAVE calls[n].result = "answer"
      <4>1. calls[n].answer \in 1 .. n
        BY <3>1, Zenon DEF Answered
      <4>2. calls[n].answer \in 1 .. Len(calls)
        BY <1>3, <2>1, <4>1
      <4> QED
        BY <1>2, <4>2, Zenon
    <3> QED
      BY <3>1, <3>2, <3>3, <1>4, Zenon DEF Answered
  <2>2. CASE n = Len(calls) + 1
    BY <1>2, <2>2, Zenon DEF Answered
  <2> QED
    BY <1>2, <1>3, <2>1, <2>2
<1>9. AnswersInOrder'
  <2> SUFFICES ASSUME NEW k \in 1 .. Len(calls'), NEW n \in 1 .. Len(calls'), k < n,
                      calls'[k].result = "answer", calls'[n].result = "answer"
               PROVE  calls'[k].answer < calls'[n].answer
    BY Zenon DEF AnswersInOrder
  <2>1. n # Len(calls) + 1 /\ k # Len(calls) + 1
    BY <1>2, Zenon
  <2>2. n \in 1 .. Len(calls) /\ k \in 1 .. Len(calls)
    BY <1>2, <1>3, <2>1
  <2> QED
    BY <1>2, <2>2, Zenon DEF LateInv, AnswersInOrder
<1> QED
  BY <1>5, <1>6, <1>7, <1>8, <1>9, Zenon DEF LateInv

\* A call that returns without an answer (TimeOut, ReceiveGarbled) leaves what is known
\* of the answers as it was.
LEMMA NoAnswerKeeps ==
    ASSUME LateInv, waiting, NEW r \in {"timeout", "error", "garbage"}, ReturnCall(r, None),
           consumed' = consumed
    PROVE  (\A n \in 1 .. Len(calls) : Answered(n))' /\ AnswersInOrder'
<1>1. LateTypeOK
  BY Zenon DEF LateInv
<1>2. /\ Len(calls') = Len(calls) /\ Last \in 1 .. Len(calls)
      /\ \A n \in 1 .. Len(calls) :
           /\ calls'[n].before = calls[n].before
           /\ calls'[n].method = calls[n].method
           /\ n # Last => calls'[n] = calls[n]
      /\ calls'[Last].result = r
  BY <1>1, ReturnFillsLast, Zenon DEF None
<1>3. r # "answer"
  BY Zenon
<1>4. \A n \in 1 .. Len(calls') : Answered(n)'
  <2> TAKE n \in 1 .. Len(calls')
  <2>1. CASE n = Last
    BY <1>2, <1>3, <2>1, Zenon DEF Answered
  <2>2. CASE n # Last
    <3>1. n \in 1 .. Len(calls) /\ Answered(n) /\ calls'[n] = calls[n]
      BY <1>2, <2>2, Zenon DEF LateInv
    <3>2. calls[n].result = "answer" => calls[n].answer \in 1 .. Len(calls)
      BY <3>1, <1>1, CallFields DEF Answered
    <3>3. calls[n].result = "answer" =>
            calls'[calls[n].answer].method = calls[calls[n].answer].method
      BY <3>2, <1>2, Zenon
    <3> QED
      BY <3>1, <3>3, Zenon DEF Answered
  <2> QED
    BY <2>1, <2>2, Zenon
<1>5. AnswersInOrder'
  BY <1>2, <1>3 DEF LateInv, AnswersInOrder
<1> QED
  BY <1>4, <1>5, Zenon

\* Taking an answer: it is the next one, and it lags by the timeouts (Receive).
LEMMA ReceiveKeeps ==
    ASSUME LateInv, Receive
    PROVE  LateInv'
<1>1. LateTypeOK /\ Position /\ Current
  BY Zenon DEF LateInv
<1>2. /\ waiting /\ ~ garbled /\ consumed < answered
      /\ calls[consumed + 1].method = calls[Last].method
      /\ ReturnCall("answer", consumed + 1) /\ consumed' = consumed + 1
      /\ is_connected' = is_connected /\ timeout' = timeout /\ answered' = answered
      /\ late' = late /\ garbled' = garbled
  BY Zenon DEF Receive
<1>3. /\ consumed \in Nat /\ answered \in Nat /\ late \in Nat /\ Len(calls) \in Nat
      /\ consumed + 1 \in Nat /\ answered <= Len(calls)
  BY <1>1 DEF LateTypeOK
<1>4. /\ calls' \in Seq(CallShape) /\ Len(calls') = Len(calls) /\ ~ waiting'
      /\ Last \in 1 .. Len(calls)
      /\ \A n \in 1 .. Len(calls) :
           /\ calls'[n].before = calls[n].before
           /\ calls'[n].method = calls[n].method
           /\ n # Last => calls'[n] = calls[n]
      /\ calls'[Last].result = "answer" /\ calls'[Last].answer = consumed + 1
  BY <1>1, <1>2, <1>3, ReturnFillsLast, Zenon
<1>5. consumed + 1 = Last - calls[Last].before
  <2>1. consumed = Len(calls) - late - 1
    BY <1>1, <1>2, Zenon DEF Position
  <2>2. calls[Last].before = late
    BY <1>1, <1>2, Zenon DEF Current
  <2> QED
    BY <2>1, <2>2, <1>3 DEF Last
<1>6. LateTypeOK'
  <2>1. waiting' \in BOOLEAN /\ is_connected' \in BOOLEAN /\ timeout' \in BOOLEAN /\ garbled' \in BOOLEAN
    BY <1>1, <1>2, Zenon DEF LateTypeOK, ReturnCall
  <2>2. consumed' \in 0 .. answered' /\ answered' \in 0 .. Len(calls')
    BY <1>2, <1>3, <1>4
  <2>3. Len(calls') <= MaxCalls /\ late' \in Nat
    BY <1>1, <1>2, <1>4, Zenon DEF LateTypeOK
  <2> QED
    BY <2>1, <2>2, <2>3, <1>4, Zenon DEF LateTypeOK
<1>7. Position' /\ Current'
  <2>1. consumed' = Len(calls') - late'
    BY <1>1, <1>2, <1>3, <1>4 DEF Position
  <2> QED
    BY <2>1, <1>3, <1>4, <1>2 DEF Position, Current
<1>8. \A n \in 1 .. Len(calls) :
        n # Last /\ calls[n].result = "answer" =>
          /\ calls[n].answer \in 1 .. Len(calls) /\ calls[n].answer <= consumed
          /\ calls[n].answer \in Nat
  BY <1>1, <1>3, CallFields DEF LateInv, Answered
<1>9. \A n \in 1 .. Len(calls') : Answered(n)'
  <2> TAKE n \in 1 .. Len(calls')
  <2>1. CASE n = Last
    <3>1. consumed + 1 \in 1 .. Last /\ consumed + 1 <= consumed' /\ consumed + 1 \in 1 .. Len(calls)
      BY <1>2, <1>3 DEF Last
    <3>2. calls'[consumed + 1].method = calls'[Last].method
      BY <1>2, <1>4, <3>1, Zenon
    <3>3. calls'[Last].answer = Last - calls'[Last].before
      BY <1>4, <1>5, Zenon
    <3> QED
      BY <1>4, <2>1, <3>1, <3>2, <3>3, Zenon DEF Answered
  <2>2. CASE n # Last
    <3>1. n \in 1 .. Len(calls) /\ Answered(n) /\ calls'[n] = calls[n]
      BY <1>4, <2>2, Zenon DEF LateInv
    <3>2. calls[n].result = "answer" =>
            /\ calls'[calls[n].answer].method = calls[calls[n].answer].method
            /\ calls[n].answer <= consumed'
      BY <3>1, <2>2, <1>2, <1>3, <1>4, <1>8
    <3> QED
      BY <3>1, <3>2, Zenon DEF Answered
  <2> QED
    BY <2>1, <2>2, Zenon
<1>10. AnswersInOrder'
  <2> SUFFICES ASSUME NEW k \in 1 .. Len(calls'), NEW n \in 1 .. Len(calls'), k < n,
                      calls'[k].result = "answer", calls'[n].result = "answer"
               PROVE  calls'[k].answer < calls'[n].answer
    BY Zenon DEF AnswersInOrder
  <2>1. k # Last /\ k \in 1 .. Len(calls) /\ n \in 1 .. Len(calls) /\ calls'[k] = calls[k]
    BY <1>3, <1>4 DEF Last
  <2>2. CASE n = Last
    BY <2>1, <2>2, <1>3, <1>4, <1>8
  <2>3. CASE n # Last
    BY <2>1, <2>3, <1>4, Zenon DEF LateInv, AnswersInOrder
  <2> QED
    BY <2>2, <2>3, Zenon
<1> QED
  BY <1>6, <1>7, <1>9, <1>10, Zenon DEF LateInv

\* Giving up on an answer (TimeOut): the position falls back by one.
LEMMA TimeOutKeeps ==
    ASSUME LateInv, TimeOut
    PROVE  LateInv'
<1>1. LateTypeOK /\ Position
  BY Zenon DEF LateInv
<1>2. /\ waiting /\ ReturnCall("timeout", None) /\ late' = late + 1
      /\ garbled' \in {garbled, TRUE} /\ is_connected' = is_connected /\ timeout' = timeout
      /\ answered' = answered /\ consumed' = consumed
  BY Zenon DEF TimeOut
<1>3. calls' \in Seq(CallShape) /\ Len(calls') = Len(calls) /\ ~ waiting' /\ Len(calls) \in Nat
  BY <1>1, <1>2, ReturnFillsLast DEF None, LateTypeOK
<1>4. LateTypeOK'
  <2>1. waiting' \in BOOLEAN /\ is_connected' \in BOOLEAN /\ timeout' \in BOOLEAN
    BY <1>1, <1>2, Zenon DEF LateTypeOK, ReturnCall
  <2>2. garbled' \in BOOLEAN
    BY <1>1, <1>2, Zenon DEF LateTypeOK
  <2>3. late' \in Nat /\ answered' \in 0 .. Len(calls') /\ consumed' \in 0 .. answered'
        /\ Len(calls') <= MaxCalls
    BY <1>1, <1>2, <1>3 DEF LateTypeOK
  <2> QED
    BY <2>1, <2>2, <2>3, <1>3, Zenon DEF LateTypeOK
<1>5. Position' /\ Current'
  <2>0. ~ garbled' => ~ garbled
    BY <1>1, <1>2, Zenon DEF LateTypeOK
  <2>1. ~ garbled' => consumed = Len(calls) - late - 1
    BY <2>0, <1>1, <1>2, Zenon DEF Position
  <2>2. ~ garbled' => consumed' = Len(calls') - late'
    BY <2>1, <1>1, <1>2, <1>3 DEF LateTypeOK
  <2> QED
    BY <2>2, <1>1, <1>2, <1>3 DEF Position, Current, LateTypeOK
<1>6. (\A n \in 1 .. Len(calls) : Answered(n))' /\ AnswersInOrder'
  BY <1>2, NoAnswerKeeps, Zenon
<1> QED
  BY <1>4, <1>5, <1>6, Zenon DEF LateInv

\* Every step keeps the invariant.
LEMMA StepKeeps == LateInv /\ [LateNext]_lateVars => LateInv'
<1> SUFFICES ASSUME LateInv, [LateNext]_lateVars PROVE LateInv'
  BY Zenon
<1>1. LateTypeOK /\ Position /\ Current
  BY Zenon DEF LateInv
<1>2. CASE SetRecvTimeout
  <2>1. LateTypeOK'
    BY <1>1, <1>2, Zenon DEF LateTypeOK, SetRecvTimeout
  <2>2. Position' /\ Current'
    BY <1>1, <1>2, Zenon DEF Position, Current, SetRecvTimeout, Last
  <2> QED
    BY <1>1, <1>2, <2>1, <2>2, SameCalls DEF LateInv, SetRecvTimeout, LateTypeOK
<1>3. CASE ServerAnswers
  <2>1. LateTypeOK'
    BY <1>1, <1>3 DEF LateTypeOK, ServerAnswers
  <2>2. Position' /\ Current'
    BY <1>1, <1>3, Zenon DEF Position, Current, ServerAnswers, Last
  <2> QED
    BY <1>1, <1>3, <2>1, <2>2, SameCalls DEF LateInv, ServerAnswers, LateTypeOK
<1>4. CASE CloseService
  <2>1. LateTypeOK'
    BY <1>1, <1>4, Zenon DEF LateTypeOK, CloseService
  <2>2. Position' /\ Current'
    BY <1>1, <1>4, Zenon DEF Position, Current, CloseService, Last
  <2> QED
    BY <1>1, <1>4, <2>1, <2>2, SameCalls DEF LateInv, CloseService, LateTypeOK
<1>5. CASE \E operation \in Operations, method \in Methods : Send(operation, method)
  BY <1>5, SendKeeps, Zenon
<1>6. CASE Receive
  BY <1>6, ReceiveKeeps, Zenon
<1>7. CASE ReceiveOther
  <2>1. LateTypeOK'
    BY <1>1, <1>7 DEF LateTypeOK, ReceiveOther
  <2>2. Position' /\ Current'
    BY <1>1, <1>7, Zenon DEF Position, Current, ReceiveOther, Last
  <2>3. consumed \in Nat /\ consumed' = consumed + 1 /\ calls' = calls
    BY <1>1, <1>7 DEF ReceiveOther, LateTypeOK
  <2>4. (\A n \in 1 .. Len(calls) : Answered(n))' /\ AnswersInOrder'
    BY <1>1, <2>3, SameCalls
  <2> QED
    BY <2>1, <2>2, <2>4, Zenon DEF LateInv
<1>8. CASE ReceiveGarbled
  <2> PICK r \in {"error", "garbage"} : ReturnCall(r, None)
    BY <1>8, Zenon DEF ReceiveGarbled
  <2>1. /\ waiting /\ garbled /\ is_connected' = is_connected /\ timeout' = timeout
        /\ answered' = answered /\ consumed' = consumed /\ late' = late /\ garbled' = garbled
    BY <1>8, Zenon DEF ReceiveGarbled
  <2>2. calls' \in Seq(CallShape) /\ Len(calls') = Len(calls) /\ ~ waiting'
    BY <1>1, <2>1, ReturnFillsLast, Zenon DEF None
  <2>3. waiting' \in BOOLEAN
    BY Zenon DEF ReturnCall
  <2>4. LateTypeOK'
    BY <1>1, <2>1, <2>2, <2>3, Zenon DEF LateTypeOK
  <2>5. Position' /\ Current'
    BY <2>1, <2>2, Zenon DEF Position, Current
  <2>6. (\A n \in 1 .. Len(calls) : Answered(n))' /\ AnswersInOrder'
    BY <2>1, NoAnswerKeeps, Zenon
  <2> QED
    BY <2>4, <2>5, <2>6, Zenon DEF LateInv
<1>9. CASE TimeOut
  BY <1>9, TimeOutKeeps, Zenon
<1>10. CASE UNCHANGED lateVars
  <2>1. LateTypeOK' /\ Position' /\ Current'
    BY <1>1, <1>10, Zenon DEF LateTypeOK, Position, Current, lateVars, Last
  <2>2. calls' = calls /\ consumed' = consumed /\ consumed \in Nat
    BY <1>1, <1>10 DEF lateVars, LateTypeOK
  <2> QED
    BY <1>1, <2>1, <2>2, SameCalls DEF LateInv
<1> QED
  BY <1>2, <1>3, <1>4, <1>5, <1>6, <1>7, <1>8, <1>9, <1>10 DEF LateNext

\* The invariant holds in every behaviour.
LEMMA AlwaysIInv == LateSpec => []LateInv
<1>1. LateInit => LateInv
  BY InitHolds, Zenon
<1>2. LateInv /\ [LateNext]_lateVars => LateInv'
  BY StepKeeps, Zenon
<1> QED
  BY <1>1, <1>2, PTL DEF LateSpec

\* However many calls time out, the answers that are handed out lag by the number of
\* timeouts before the call (SetRecvTimeout and the shared connection).
THEOREM AnswersLagHolds == LateSpec => []AnswersLag
<1>1. LateInv => AnswersLag
  BY Zenon DEF LateInv, AnswersLag, Answered
<1> QED
  BY <1>1, AlwaysIInv, PTL

\* No answer is handed out twice or out of order, so a Fetch that is tried again until it
\* returns gets every batch once.
THEOREM AnswersInOrderHolds == LateSpec => []AnswersInOrder
<1>1. LateInv => AnswersInOrder
  BY Zenon DEF LateInv
<1> QED
  BY <1>1, AlwaysIInv, PTL

\* An answer is of the method that was called.
THEOREM SameMethodHolds == LateSpec => []SameMethod
<1>1. LateInv => SameMethod
  BY Zenon DEF LateInv, SameMethod, Answered
<1> QED
  BY <1>1, AlwaysIInv, PTL

\* The state of the connection and the calls is well typed.
THEOREM LateTypeOKHolds == LateSpec => []LateTypeOK
<1>1. LateInv => LateTypeOK
  BY Zenon DEF LateInv
<1> QED
  BY <1>1, AlwaysIInv, PTL

-----------------------------------------------------------------------------
(***************************************************************************)
(* Descriptions and data frames of result sets with any columns.           *)
(*                                                                         *)
(* Three invariants, one on top of the other: the cached columns are those *)
(* the server described; a description that is freed is held by nobody;    *)
(* and the loop of fetchall_pandas has, for each name up to its column,    *)
(* the last column with that name.                                         *)
(***************************************************************************)

Types == [k \in DOMAIN server |-> TTypeDescToColumnType(server[k])]

ColumnsInv ==
    /\ \E m \in Nat \ {0} : server \in [1 .. m -> Columns]
    /\ cached => columns = Types
    /\ ~ cached => columns = <<>>

Objects == {Op, SchemaObject} \cup {Desc(k) : k \in Int} \cup {Type(k) : k \in Int}

HeldInv == held \subseteq Objects /\ (freed => held = {})

Supported(k) == columns[k].id \notin {"DATE", "INVALID"}

\* The columns before m are done.
DoneBefore(m) ==
    /\ names = [k \in 1 .. m - 1 |-> server[k].name]
    /\ DOMAIN converted = {server[k].name : k \in 1 .. m - 1}
    /\ \A k \in 1 .. m - 1 : Supported(k)
    /\ \A s \in DOMAIN converted :
         LET from == converted[s].from
         IN /\ from \in 1 .. m - 1 /\ server[from].name = s
            /\ \A j \in from + 1 .. m - 1 : server[j].name # s
            /\ converted[s].as = Converted(columns[from].id)

LoopInv == i # 0 => cached /\ i \in 1 .. Len(columns) + 1 /\ DoneBefore(i)

Inv == ColumnsInv /\ HeldInv /\ LoopInv /\ FrameHoldsLast /\ FrameIsSupported

-----------------------------------------------------------------------------
\* Lengths of the sequences of ColumnsInv.
LEMMA Lengths ==
    ASSUME ColumnsInv
    PROVE  /\ Len(server) \in Nat \ {0} /\ DOMAIN server = 1 .. Len(server)
           /\ \A k \in DOMAIN server : server[k] \in Description
           /\ cached => /\ Len(columns) = Len(server) /\ DOMAIN columns = DOMAIN server
                        /\ \A k \in DOMAIN server : columns[k] = TTypeDescToColumnType(server[k])
<1>1. PICK m \in Nat \ {0} : server \in [1 .. m -> Columns]
  BY Zenon DEF ColumnsInv
<1>2. server \in Seq(Columns) /\ Len(server) = m /\ DOMAIN server = 1 .. m
  BY <1>1
<1>3. \A k \in DOMAIN server : server[k] \in Description
  BY <1>1, <1>2, SchemaAssumption, Zenon
<1>4. ASSUME cached
      PROVE  /\ Len(columns) = Len(server) /\ DOMAIN columns = DOMAIN server
             /\ \A k \in DOMAIN server : columns[k] = TTypeDescToColumnType(server[k])
  <2>1. columns = [k \in 1 .. m |-> TTypeDescToColumnType(server[k])]
    BY <1>4, <1>2, Zenon DEF ColumnsInv, Types
  <2>. QED BY <2>1, <1>2
<1>. QED BY <1>2, <1>3, <1>4, Zenon

\* What TTypeDescToColumnType makes: an object of the class that its identifier promises,
\* with the identifier of the description unless the type is invalid.
LEMMA TypeMade ==
    ASSUME NEW t \in Description
    PROVE  LET c == TTypeDescToColumnType(t)
           IN /\ c.class = PyClass(c.id)
              /\ c.id # "INVALID" => /\ c.id = t.type /\ t.primitive /\ t.type # "unknown"
                                     /\ NeedsQualifiers(t) => t.qualified
<1>1. t.type \in TypeIds /\ t.primitive \in BOOLEAN /\ t.qualified \in BOOLEAN
  BY Zenon DEF Description
<1>. QED
  BY <1>1, Zenon DEF TTypeDescToColumnType, Invalid, Primitive, PyClass, NeedsQualifiers, TypeIds

\* FillSchema leaves the columns as they are, or sets them to the server's.
LEMMA Filled ==
    ASSUME ColumnsInv, FillSchema, UNCHANGED server
    PROVE  /\ ColumnsInv'
           /\ cached => UNCHANGED <<columns, cached>>
           /\ ~ raised' => cached'
BY Zenon DEF ColumnsInv, FillSchema, Types

\* Nothing but FillSchema touches the columns.
LEMMA ColumnsKept ==
    ASSUME ColumnsInv, UNCHANGED <<server, columns, cached>>
    PROVE  ColumnsInv'
BY Zenon DEF ColumnsInv, Types

LEMMA ColumnsStep ==
    ASSUME Inv, [SchemaNext]_schemaVars
    PROVE  ColumnsInv' /\ UNCHANGED server /\ (cached => UNCHANGED <<columns, cached>>)
<1> USE DEF Inv
<1>1. CASE GetSchema
  BY <1>1, Filled, Zenon DEF GetSchema
<1>2. CASE FetchAll
  BY <1>2, Filled, Zenon DEF FetchAll
<1>3. CASE UNCHANGED <<server, columns, cached>>
  BY <1>3, ColumnsKept, Zenon
<1>. QED
  BY <1>1, <1>2, <1>3, Zenon DEF SchemaNext, schemaVars, ConvertColumn, MakeFrame, GetColumn, GetType, Drop

-----------------------------------------------------------------------------
\* Whatever the program holds keeps the cached columns.
LEMMA Keeps ==
    ASSUME NEW holding, NEW o \in holding, o \in Objects, cached
    PROVE  SchemaObject \in Alive(holding)
<1>1. CASE o = Op
  <2>1. SchemaObject \in Parent(o)
    BY <1>1, Zenon DEF Parent, Op
  <2>. QED BY <2>1, Zenon DEF Alive
<1>2. CASE o = SchemaObject
  BY <1>2, Zenon DEF Alive
<1>3. ASSUME NEW k \in Int, o = Desc(k) PROVE SchemaObject \in Alive(holding)
  <2>1. SchemaObject \in Parent(o)
    BY <1>3, Zenon DEF Parent, Desc
  <2>. QED BY <2>1, Zenon DEF Alive
<1>4. ASSUME NEW k \in Int, o = Type(k) PROVE SchemaObject \in Alive(holding)
  <2>1. Desc(k) \in Parent(o)
    BY <1>4, Zenon DEF Parent, Type, Desc
  <2>2. SchemaObject \in Parent(Desc(k))
    BY Zenon DEF Parent, Desc
  <2>. QED BY <2>1, <2>2, Zenon DEF Alive
<1>. QED BY <1>1, <1>2, <1>3, <1>4, Zenon DEF Objects

LEMMA HeldStep ==
    ASSUME Inv, [SchemaNext]_schemaVars
    PROVE  HeldInv'
<1> USE DEF Inv, HeldInv
<1>1. CASE GetSchema
  BY <1>1, Zenon DEF GetSchema, Objects
<1>2. CASE FetchAll
  BY <1>2, Zenon DEF FetchAll
<1>3. CASE \E k \in -1 .. MaxColumns : GetColumn(k)
  BY <1>3, SchemaAssumption DEF GetColumn, Objects
<1>4. CASE \E k \in 0 .. MaxColumns - 1 : GetType(k)
  BY <1>4, SchemaAssumption DEF GetType, Objects
<1>5. ASSUME NEW o \in held, Drop(o) PROVE HeldInv'
  <2>1. held' \subseteq Objects
    BY <1>5, Zenon DEF Drop
  <2>2. ASSUME freed', held' # {} PROVE FALSE
    <3>1. ~ freed
      BY <2>2, <1>5, Zenon DEF Drop
    <3>2. columns # <<>> /\ SchemaObject \notin Alive(held')
      BY <2>2, <3>1, <1>5, Zenon DEF Drop
    <3>3. cached
      BY <3>2, Zenon DEF ColumnsInv
    <3>4. PICK p \in held' : p \in Objects
      BY <2>1, <2>2, Zenon
    <3>. QED BY <3>2, <3>3, <3>4, Keeps, Zenon
  <2>. QED BY <2>1, <2>2, Zenon
<1>6. CASE ConvertColumn \/ MakeFrame \/ UNCHANGED schemaVars
  BY <1>6 DEF ConvertColumn, MakeFrame, schemaVars
<1>. QED BY <1>1, <1>2, <1>3, <1>4, <1>5, <1>6 DEF SchemaNext

-----------------------------------------------------------------------------
\* A turn of the loop that does not raise.
LEMMA OneMoreColumn ==
    ASSUME Inv, ConvertColumn, i' # 0
    PROVE  LoopInv'
<1> USE DEF Inv
<1>0. /\ i \in 1 .. Len(columns) /\ i # 0 /\ Len(columns) \in Nat
      /\ UNCHANGED <<server, columns, cached>>
  <2>1. i \in 1 .. Len(columns) /\ UNCHANGED <<server, columns, cached>>
    BY Zenon DEF ConvertColumn
  <2>2. cached
    BY <2>1 DEF LoopInv
  <2>. QED BY <2>1, <2>2, Lengths
<1>1. cached /\ DoneBefore(i)
  BY <1>0, Zenon DEF LoopInv
<1>2. Supported(i)
  BY Zenon DEF ConvertColumn, Supported
<1> DEFINE s == server[i].name
           new == [from |-> i, as |-> Converted(columns[i].id)]
<1>3. /\ names' = Append(names, s)
      /\ converted' = [x \in DOMAIN converted \cup {s} |-> IF x = s THEN new ELSE converted[x]]
      /\ i' = i + 1
  BY <1>2, ZenonT(30) DEF ConvertColumn, Supported
<1>4. names' = [k \in 1 .. i |-> server[k].name]
  BY <1>0, <1>1, <1>3 DEF DoneBefore
<1>5. 1 .. i = (1 .. i - 1) \cup {i}
  BY <1>0
<1>6. DOMAIN converted' = {server[k].name : k \in 1 .. i}
  BY <1>1, <1>3, <1>5 DEF DoneBefore
<1>7. \A k \in 1 .. i : Supported(k)
  BY <1>1, <1>2, <1>5, Zenon DEF DoneBefore
<1>8. ASSUME NEW x \in DOMAIN converted'
      PROVE  /\ converted'[x].from \in 1 .. i /\ server[converted'[x].from].name = x
             /\ \A j \in converted'[x].from + 1 .. i : server[j].name # x
             /\ converted'[x].as = Converted(columns[converted'[x].from].id)
  <2>1. CASE x = s
    <3>1. converted'[x] = new
      BY <1>3, <2>1, Zenon
    <3>2. new.from = i /\ new.as = Converted(columns[i].id)
      BY Zenon
    <3>. QED BY <3>1, <3>2, <2>1, <1>0
  <2>2. CASE x # s
    <3>1. x \in DOMAIN converted /\ converted'[x] = converted[x]
      BY <1>3, <2>2, Zenon
    <3> DEFINE from == converted[x].from
    <3>2. /\ from \in 1 .. i - 1 /\ server[from].name = x
          /\ \A j \in from + 1 .. i - 1 : server[j].name # x
          /\ converted[x].as = Converted(columns[from].id)
      BY <1>1, <3>1, Zenon DEF DoneBefore
    <3> HIDE DEF from
    <3>3. from \in 1 .. i
      BY <3>2, <1>0
    <3>4. ASSUME NEW j \in from + 1 .. i PROVE server[j].name # x
      <4>1. j = i \/ j \in from + 1 .. i - 1
        BY <3>3, <1>0
      <4>. QED BY <4>1, <3>2, <2>2, Zenon
    <3>. QED BY <3>1, <3>2, <3>3, <3>4, Zenon DEF from
  <2>. QED BY <2>1, <2>2, Zenon
<1>9. i' - 1 = i /\ i' \in 1 .. Len(columns) + 1
  BY <1>3, <1>0
<1>10. DoneBefore(i)'
  <2>1. names' = [k \in 1 .. i' - 1 |-> server'[k].name]
    BY <1>0, <1>4, <1>9, Zenon
  <2>2. DOMAIN converted' = {server'[k].name : k \in 1 .. i' - 1}
    BY <1>0, <1>6, <1>9, Zenon
  <2>3. \A k \in 1 .. i' - 1 : Supported(k)'
    BY <1>0, <1>7, <1>9, Zenon DEF Supported
  <2> HIDE DEF s, new
  <2>4. \A x \in DOMAIN converted' :
          /\ converted'[x].from \in 1 .. i' - 1 /\ server'[converted'[x].from].name = x
          /\ \A j \in converted'[x].from + 1 .. i' - 1 : server'[j].name # x
          /\ converted'[x].as = Converted(columns'[converted'[x].from].id)
    BY <1>0, <1>8, <1>9, Zenon
  <2>. QED BY <2>1, <2>2, <2>3, <2>4, Zenon DEF DoneBefore
<1>. QED BY <1>0, <1>1, <1>9, <1>10, Zenon DEF LoopInv

LEMMA LoopStep ==
    ASSUME Inv, [SchemaNext]_schemaVars
    PROVE  LoopInv'
<1> USE DEF Inv
<1>1. CASE GetSchema
  BY <1>1, Zenon DEF GetSchema, Idle, LoopInv
<1>2. CASE FetchAll
  <2>1. CASE i' = 0
    BY <2>1, Zenon DEF LoopInv
  <2>2. CASE i' # 0
    <3>1. i' = 1 /\ ~ raised' /\ names' = <<>> /\ converted' = <<>>
      BY <1>2, <2>2, Zenon DEF FetchAll
    <3>2. cached' /\ ColumnsInv'
      BY <1>2, <3>1, Filled, Zenon DEF FetchAll
    <3>3. Len(columns') \in Nat
      <4>1. PICK m \in Nat : server' \in [1 .. m -> Columns]
        BY <3>2, Zenon DEF ColumnsInv
      <4>2. columns' = [k \in 1 .. m |-> TTypeDescToColumnType(server'[k])]
        BY <3>2, <4>1, Zenon DEF ColumnsInv, Types, TTypeDescToColumnType, NeedsQualifiers,
                          Invalid, Primitive
      <4>. QED BY <4>2
    <3>4. i' - 1 = 0 /\ 1 .. 0 = {} /\ i' \in 1 .. Len(columns') + 1
      BY <3>1, <3>3
    <3>5. DoneBefore(i)'
      BY <3>1, <3>4 DEF DoneBefore
    <3>. QED BY <3>2, <3>4, <3>5, Zenon DEF LoopInv
  <2>. QED BY <2>1, <2>2, Zenon
<1>3. CASE ConvertColumn
  <2>1. CASE i' = 0
    BY <2>1, Zenon DEF LoopInv
  <2>. QED BY <1>3, <2>1, OneMoreColumn, Zenon
<1>4. CASE MakeFrame
  BY <1>4, Zenon DEF MakeFrame, LoopInv
<1>5. CASE UNCHANGED <<server, columns, cached, i, names, converted>>
  <2>0. /\ server' = server /\ columns' = columns /\ cached' = cached /\ i' = i
        /\ names' = names /\ converted' = converted
    BY <1>5, Zenon
  <2>1. \A k : Supported(k)' <=> Supported(k)
    BY <2>0, Zenon DEF Supported
  <2>2. i # 0 => DoneBefore(i)'
    BY <2>0, <2>1 DEF LoopInv, DoneBefore
  <2>. QED BY <2>0, <2>2, Zenon DEF LoopInv
<1>. QED
  BY <1>1, <1>2, <1>3, <1>4, <1>5, Zenon DEF SchemaNext, schemaVars, GetColumn, GetType, Drop

-----------------------------------------------------------------------------
\* The frame that MakeFrame makes.
LEMMA FrameMade ==
    ASSUME Inv, MakeFrame
    PROVE  FrameHoldsLast' /\ FrameIsSupported'
<1> USE DEF Inv
<1>1. i = Len(columns) + 1 /\ UNCHANGED <<server, columns, cached, names, converted>>
  BY Zenon DEF MakeFrame
<1>2. i # 0 /\ cached
  <2>1. Len(columns) \in Nat
    BY Lengths DEF ColumnsInv
  <2>2. i # 0
    BY <2>1, <1>1
  <2>. QED BY <2>2, Zenon DEF LoopInv
<1> DEFINE m == Len(server)
<1>3. /\ m \in Nat \ {0} /\ DOMAIN server = 1 .. m /\ i - 1 = m
      /\ \A k \in 1 .. m : columns[k] = TTypeDescToColumnType(server[k])
      /\ \A k \in 1 .. m : server[k] \in Description
  BY <1>1, <1>2, Lengths
<1> HIDE DEF m
<1>4. /\ names = [k \in 1 .. m |-> server[k].name]
      /\ DOMAIN converted = {server[k].name : k \in 1 .. m}
      /\ \A k \in 1 .. m : Supported(k)
  BY <1>2, <1>3, Zenon DEF LoopInv, DoneBefore
<1>5. \A x \in DOMAIN converted :
        /\ converted[x].from \in 1 .. m /\ server[converted[x].from].name = x
        /\ \A j \in converted[x].from + 1 .. m : server[j].name # x
        /\ converted[x].as = Converted(columns[converted[x].from].id)
  BY <1>2, <1>3, Zenon DEF LoopInv, DoneBefore
<1>6. \A k \in 1 .. m :
        /\ columns[k].id = server[k].type
        /\ server[k].primitive /\ server[k].type \notin {"DATE", "unknown"}
        /\ NeedsQualifiers(server[k]) => server[k].qualified
  BY <1>3, <1>4, TypeMade DEF Supported
<1>7. frame' = [k \in 1 .. m |-> converted[server[k].name]]
  BY <1>4, Zenon DEF MakeFrame
<1>8. ASSUME NEW k \in 1 .. m
      PROVE  /\ frame'[k].from >= k
             /\ server[frame'[k].from].name = server[k].name
             /\ \A j \in frame'[k].from + 1 .. m : server[j].name # server[k].name
             /\ frame'[k].as = Converted(server[frame'[k].from].type)
  <2> DEFINE x == server[k].name
             from == converted[x].from
  <2>1. x \in DOMAIN converted /\ frame'[k] = converted[x]
    BY <1>4, <1>7, Zenon
  <2>2. /\ from \in 1 .. m /\ server[from].name = x
        /\ \A j \in from + 1 .. m : server[j].name # x
        /\ converted[x].as = Converted(columns[from].id)
    BY <1>5, <2>1, Zenon
  <2>3. columns[from].id = server[from].type
    BY <2>2, <1>6, Zenon
  <2>4. server[k].name = x
    BY Zenon
  <2> HIDE DEF from, x
  <2>5. from >= k
    <3>1. k \notin from + 1 .. m
      BY <2>2, <2>4, Zenon
    <3>. QED BY <3>1, <2>2, <1>3
  <2>. QED BY <2>1, <2>2, <2>3, <2>4, <2>5, Zenon DEF from
<1>9. Len(frame') = m /\ DOMAIN frame' = 1 .. m
  BY <1>7, <1>3
<1>10. FrameHoldsLast'
  BY <1>1, <1>8, <1>9 DEF FrameHoldsLast, m
<1>11. FrameIsSupported'
  BY <1>1, <1>3, <1>6, Zenon DEF FrameIsSupported, NeedsQualifiers
<1>. QED BY <1>10, <1>11, Zenon

LEMMA FrameStep ==
    ASSUME Inv, [SchemaNext]_schemaVars
    PROVE  FrameHoldsLast' /\ FrameIsSupported'
<1>1. CASE MakeFrame
  BY <1>1, FrameMade, Zenon
<1>2. CASE UNCHANGED <<server, frame>>
  BY <1>2, Zenon DEF Inv, FrameHoldsLast, FrameIsSupported
<1>. QED
  BY <1>1, <1>2, Zenon DEF SchemaNext, schemaVars, GetSchema, FetchAll, ConvertColumn, GetColumn, GetType, Drop

LEMMA InvInit == SchemaInit => Inv
<1> SUFFICES ASSUME SchemaInit PROVE Inv
  BY Zenon
<1>1. ColumnsInv
  <2>1. PICK m \in 1 .. MaxColumns : server \in [1 .. m -> Columns]
    BY Zenon DEF SchemaInit
  <2>2. m \in Nat \ {0}
    BY SchemaAssumption
  <2>. QED BY <2>1, <2>2, Zenon DEF SchemaInit, ColumnsInv
<1>2. HeldInv
  BY Zenon DEF SchemaInit, HeldInv, Objects
<1>. QED
  BY <1>1, <1>2, Zenon DEF SchemaInit, Inv, LoopInv, FrameHoldsLast, FrameIsSupported

\* The invariant holds in every state of ResultSchema.
THEOREM SchemaInvariant == SchemaSpec => []Inv
<1>1. Inv /\ [SchemaNext]_schemaVars => Inv'
  BY ColumnsStep, HeldStep, LoopStep, FrameStep, Zenon DEF Inv
<1>. QED BY <1>1, InvInit, PTL DEF SchemaSpec

\* No object of ext.pyx outlives the C++ columns it points to (the parent attributes).
THEOREM PointersStayGood == SchemaSpec => []PointersAreGood
<1>1. Inv => PointersAreGood
  BY Zenon DEF Inv, HeldInv, PointersAreGood
<1>. QED BY <1>1, SchemaInvariant, PTL

\* GetDecimalType and GetCharacterType cast to the class the object has.
THEOREM CastsStayGood == SchemaSpec => []CastsAreGood
<1>1. Inv => CastsAreGood
  <2> SUFFICES ASSUME Inv, NEW k \in DOMAIN columns
               PROVE  columns[k].class = PyClass(columns[k].id)
    BY Zenon DEF CastsAreGood
  <2>1. cached
    BY DEF Inv, ColumnsInv
  <2>2. k \in DOMAIN server /\ server[k] \in Description
        /\ columns[k] = TTypeDescToColumnType(server[k])
    BY <2>1, Lengths, Zenon DEF Inv
  <2>. QED BY <2>2, TypeMade, Zenon
<1>. QED BY <1>1, SchemaInvariant, PTL

\* The data frame of fetchall_pandas has the last column of each name.
THEOREM FramesHoldLast == SchemaSpec => []FrameHoldsLast
<1>1. Inv => FrameHoldsLast
  BY Zenon DEF Inv
<1>. QED BY <1>1, SchemaInvariant, PTL

\* fetchall_pandas raises before it makes a data frame with an unsupported type.
THEOREM FramesAreSupported == SchemaSpec => []FrameIsSupported
<1>1. Inv => FrameIsSupported
  BY Zenon DEF Inv
<1>. QED BY <1>1, SchemaInvariant, PTL
=============================================================================
