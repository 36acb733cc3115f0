---------------------------- MODULE OperationWait ----------------------------
(***************************************************************************)
(* Operation.wait() of the Python binding: a polling loop on              *)
(* Operation::HasResultSet with exponential back-off and a timeout.        *)
(*                                                                         *)
(* The loop gives the interpreter lock away only inside time.sleep, so one *)
(* step is all that happens between two sleeps.  During a sleep the server *)
(* moves the operation on, the connection can go down, and other threads   *)
(* of the program can cancel or close the same Operation.                  *)
(*                                                                         *)
(* Durations are whole multiples of one time unit (a millisecond).  Without *)
(* a timeout they are compared with nothing and the model stops counting.  *)
(***************************************************************************)
EXTENDS Integers

CONSTANTS
  FirstInterval,   \* length of the first sleep: 0.05 s
  Timeouts         \* values of timeout_seconds; 0: wait without a limit

ASSUME WaitAssumption ==
  /\ FirstInterval \in Nat \ {0}
  /\ Timeouts \subseteq Nat

VARIABLES
  opState,         \* server: state of the operation
  everFinished,    \* history: the operation has been in state FINISHED
  online,          \* the operation's Thrift client still has its connection
  wait_pc,         \* where the waiting thread is
  timeout_seconds, \* timeout_seconds of the current call
  interval,        \* length of the current sleep
  total_sleep      \* what the loop has added up so far

operationVars == <<opState, everFinished>>
waitVars == <<wait_pc, timeout_seconds, interval, total_sleep>>
allWaitVars == <<opState, everFinished, online, wait_pc, timeout_seconds, interval, total_sleep>>

\* What TOperationStateToOperationState makes of the server's states; UNKNOWN
\* also stands for those it does not know.
OperationStates ==
  {"INITIALIZED", "PENDING", "RUNNING", "FINISHED", "CANCELED", "CLOSED", "ERROR",
   "UNKNOWN"}

Sleeping == {"firstSleep", "sleep"}
NotWaiting == {"idle", "returned", "raised"}

\* The variables of wait() and the state of the operation keep their kinds.
WaitTypeOK ==
  /\ opState \in OperationStates
  /\ everFinished \in BOOLEAN
  /\ online \in BOOLEAN
  /\ wait_pc \in Sleeping \cup NotWaiting
  /\ timeout_seconds \in Timeouts \cup {0}
  /\ interval \in Nat
  /\ total_sleep \in Nat

WaitInit ==
  /\ opState \in {"INITIALIZED", "PENDING", "RUNNING", "FINISHED", "ERROR", "UNKNOWN"}
  /\ everFinished = (opState = "FINISHED")
  /\ online = TRUE
  /\ wait_pc = "idle"
  /\ timeout_seconds = 0
  /\ interval = 0
  /\ total_sleep = 0

-----------------------------------------------------------------------------
(***************************************************************************)
(* The server, the network and the program's other threads.                *)
(***************************************************************************)
SetState(new) ==
  /\ opState' = new
  /\ everFinished' = (everFinished \/ new = "FINISHED")

ServerProgress ==
  /\ \/ opState = "INITIALIZED" /\ SetState("PENDING")
     \/ opState \in {"INITIALIZED", "PENDING", "UNKNOWN"} /\ SetState("RUNNING")
     \/ opState \in {"RUNNING", "UNKNOWN"} /\ SetState("FINISHED")
     \/ opState \in {"INITIALIZED", "PENDING", "RUNNING", "UNKNOWN"} /\ SetState("ERROR")
     \/ opState \in {"INITIALIZED", "PENDING", "RUNNING"} /\ SetState("UNKNOWN")
  /\ UNCHANGED <<online, waitVars>>

ConnectionLost ==
  /\ online
  /\ online' = FALSE
  /\ UNCHANGED <<operationVars, waitVars>>

\* Operation.cancel(): a server without a CANCELED state reports ERROR.
Cancel ==
  /\ online
  /\ opState # "CLOSED"
  /\ SetState("CANCELED") \/ SetState("ERROR")
  /\ UNCHANGED <<online, waitVars>>

\* Operation.close(): the server forgets the handle.
Close ==
  /\ online
  /\ SetState("CLOSED")
  /\ UNCHANGED <<online, waitVars>>

-----------------------------------------------------------------------------
(***************************************************************************)
(* The waiting thread.  GetState fails when the RPC throws and when the    *)
(* server does not know the handle any more; op_state is then not set.     *)
(***************************************************************************)
GetStateOK == online /\ opState # "CLOSED"

\* Mutants of HasResultSet: op_state read although GetState failed (its stack
\* slot still holds an earlier FINISHED); the test of s.ok() inverted.
HasResultSetUnchecked == ~GetStateOK \/ opState = "FINISHED"
HasResultSetInverted == ~GetStateOK /\ opState = "FINISHED"

HasResultSet == GetStateOK /\ opState = "FINISHED"

\* Mutant of TimedOut: the last interval compared in place of the sum.
TimedOutInterval(slept) == timeout_seconds > 0 /\ interval > timeout_seconds

TimedOut(slept) == timeout_seconds > 0 /\ slept > timeout_seconds

Doubled == IF timeout_seconds = 0 THEN interval ELSE 2 * interval

\* Mutant of SleepAgain: interval and total_sleep are set inside the loop.
SleepAgainReset ==
  /\ wait_pc' = "firstSleep"
  /\ interval' = FirstInterval

SleepAgain ==
  /\ wait_pc' = "sleep"
  /\ interval' = Doubled

\* The test of the while loop, then its end or the sleep of its body.
Loop ==
  \/ HasResultSet /\ wait_pc' = "returned" /\ UNCHANGED interval
  \/ ~HasResultSet /\ SleepAgain

\* wait(t): return at once, or fall asleep for the first time.
Wait(t) ==
  /\ wait_pc \in NotWaiting
  /\ timeout_seconds' = t
  /\ \/ /\ HasResultSet
        /\ wait_pc' = "returned"
        /\ interval' = 0
        /\ total_sleep' = 0
     \/ /\ ~HasResultSet
        /\ wait_pc' = "firstSleep"
        /\ interval' = FirstInterval
        /\ total_sleep' = FirstInterval
  /\ UNCHANGED <<operationVars, online>>

\* The first sleep ends: its length is never compared with the timeout.
WakeFirst ==
  /\ wait_pc = "firstSleep"
  /\ Loop
  /\ UNCHANGED <<operationVars, online, timeout_seconds, total_sleep>>

\* A later sleep ends: the timeout is looked at before the operation is.
Wake ==
  /\ wait_pc = "sleep"
  /\ total_sleep' = IF timeout_seconds = 0 THEN total_sleep ELSE total_sleep + interval
  /\ \/ TimedOut(total_sleep') /\ wait_pc' = "raised" /\ UNCHANGED interval
     \/ ~TimedOut(total_sleep') /\ Loop
  /\ UNCHANGED <<operationVars, online, timeout_seconds>>

WaitNext ==
  \/ ServerProgress \/ ConnectionLost \/ Cancel \/ Close
  \/ \E t \in Timeouts : Wait(t)
  \/ WakeFirst \/ Wake

\* time.sleep returns, and so does the GetState call that ends the step: of the
\* calls of an Operation "only ... Fetch" blocks (operation.h).  Nothing is
\* assumed of what the server does with the operation, or of the caller.
Fairness == WF_allWaitVars(WakeFirst) /\ WF_allWaitVars(Wake)

WaitSpec == WaitInit /\ [][WaitNext]_allWaitVars /\ Fairness

-----------------------------------------------------------------------------
(***************************************************************************)
(* A call of wait() returns normally only for an operation that really     *)
(* finished: a lost connection, a handle closed by another thread, a       *)
(* failed or cancelled statement never look like a finished one to         *)
(* HasResultSet (operation.cc), whose op_state is unset when GetState fails.*)
(***************************************************************************)
ReturnsOnlyFinished == wait_pc = "returned" => everFinished

MaxOf(a, b) == IF a > b THEN a ELSE b

(***************************************************************************)
(* "Operation timed out" is raised only by a call that has a timeout, only *)
(* when the call slept for longer than that, and the doubling interval of  *)
(* wait() never carries the call past twice the timeout by more than the   *)
(* first interval.                                                         *)
(***************************************************************************)
RaisesInTime ==
  wait_pc = "raised" =>
    /\ 0 < timeout_seconds
    /\ timeout_seconds < total_sleep
    /\ total_sleep <= 2 * MaxOf(timeout_seconds, FirstInterval) + FirstInterval

(***************************************************************************)
(* wait(t) with a positive t ends, whatever becomes of the operation, the  *)
(* connection and the handle while the thread sleeps.                      *)
(***************************************************************************)
TimeoutEndsWait == (wait_pc \in Sleeping /\ timeout_seconds > 0) ~> wait_pc \in NotWaiting

(***************************************************************************)
(* Every call, wait() without a limit included, notices an operation that  *)
(* stays FINISHED on a connection that stays up.                           *)
(***************************************************************************)
FinishedEndsWait ==
  <>[](online /\ opState = "FINISHED") => []<>(wait_pc \in NotWaiting)
=============================================================================
