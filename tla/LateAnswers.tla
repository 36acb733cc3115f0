---------------------------- MODULE LateAnswers ----------------------------
(***************************************************************************)
(* Receive timeouts (Service::SetRecvTimeout) on the one connection that   *)
(* all sessions and operations of a Service share.  A call that times out  *)
(* returns an error (TRY_RPC_OR_RETURN) but leaves the connection open and *)
(* its request in it: the server still answers, and the next call reads    *)
(* that answer first.  The Thrift client compares the name of the method   *)
(* and nothing else.  When the name differs, or when a timeout came in the *)
(* middle of an answer, the bytes that are read next are no message, and   *)
(* what calls return from then on is anything at all.                      *)
(*                                                                         *)
(* Requests and answers are numbered in the order they are sent: answer n  *)
(* is the one to call n.  The server executes and answers the calls of a   *)
(* connection one after the other.                                         *)
(***************************************************************************)
EXTENDS Integers, Sequences

CONSTANTS Operations,   \* the operations on the connection
          Methods,      \* remote methods, as "FetchResults"
          MaxCalls      \* calls in a behaviour

ASSUME CallsAssumption == MaxCalls \in Nat

VARIABLES is_connected, \* Service::IsConnected()
          timeout,      \* a receive timeout is set
          calls,        \* the calls made so far, with what came of each
          waiting,      \* the last of them has not returned
          answered,     \* how many of them the server has answered
          consumed,     \* how many answers the client has taken
          late,         \* how many calls have timed out
          garbled       \* the client is no longer at the start of an answer

lateVars == <<is_connected, timeout, calls, waiting, answered, consumed, late, garbled>>

None == 0

\* A call: its operation and method, the timeouts before it, how it ended, and the
\* answer it returned.
CallShape == [operation : Operations, method : Methods, before : Nat,
         result : {"none", "answer", "timeout", "error", "garbage"}, answer : Nat]

LateInit ==
    /\ is_connected = TRUE /\ timeout = FALSE
    /\ calls = <<>> /\ waiting = FALSE
    /\ answered = 0 /\ consumed = 0 /\ late = 0
    /\ garbled = FALSE

\* Service::SetRecvTimeout; 0 for no timeout.
SetRecvTimeout ==
    /\ is_connected /\ ~ waiting
    /\ timeout' = ~ timeout
    /\ UNCHANGED <<is_connected, calls, waiting, answered, consumed, late, garbled>>

\* Any of the methods of Session and Operation that call the server.
Send(operation, method) ==
    /\ is_connected /\ ~ waiting /\ Len(calls) < MaxCalls
    /\ calls' = Append(calls, [operation |-> operation, method |-> method, before |-> late,
                               result |-> "none", answer |-> None])
    /\ waiting' = TRUE
    /\ UNCHANGED <<is_connected, timeout, answered, consumed, late, garbled>>

\* The server: it does not know whether anyone waits.
ServerAnswers ==
    /\ is_connected /\ answered < Len(calls)
    /\ answered' = answered + 1
    /\ UNCHANGED <<is_connected, timeout, calls, waiting, consumed, late, garbled>>

Last == Len(calls)
ReturnCall(result, answer) ==
    /\ calls' = [calls EXCEPT ![Last].result = result, ![Last].answer = answer]
    /\ waiting' = FALSE

\* Mutant of Receive: answers that are late are recognised and dropped, but one too
\* many of them.
ReceiveDrops ==
    /\ is_connected /\ waiting /\ ~ garbled /\ consumed < answered
    /\ calls[consumed + 1].method = calls[Last].method
    /\ ReturnCall("answer", answered)
    /\ consumed' = answered
    /\ UNCHANGED <<is_connected, timeout, answered, late, garbled>>

\* Mutant of Receive: a call takes its own answer only.
ReceiveOwn ==
    /\ is_connected /\ waiting /\ ~ garbled /\ consumed < answered
    /\ consumed + 1 = Last
    /\ ReturnCall("answer", consumed + 1)
    /\ consumed' = consumed + 1
    /\ UNCHANGED <<is_connected, timeout, answered, late, garbled>>

\* The next answer is for a call of this method, whichever.
Receive ==
    /\ is_connected /\ waiting /\ ~ garbled /\ consumed < answered
    /\ calls[consumed + 1].method = calls[Last].method
    /\ ReturnCall("answer", consumed + 1)
    /\ consumed' = consumed + 1
    /\ UNCHANGED <<is_connected, timeout, answered, late, garbled>>

\* It is for another one: it is skipped, and the client reads on behind it.
ReceiveOther ==
    /\ is_connected /\ waiting /\ ~ garbled /\ consumed < answered
    /\ calls[consumed + 1].method # calls[Last].method
    /\ consumed' = consumed + 1
    /\ garbled' = TRUE
    /\ UNCHANGED <<is_connected, timeout, calls, waiting, answered, late>>

\* Of bytes that are no message, something is made, if the call returns at all.
ReceiveGarbled ==
    /\ is_connected /\ waiting /\ garbled
    /\ \E result \in {"error", "garbage"} : ReturnCall(result, None)
    /\ UNCHANGED <<is_connected, timeout, answered, consumed, late, garbled>>

\* TSocket throws and TRY_RPC_OR_RETURN returns an error; an answer that is on its way
\* may have been read in part.
TimeOut ==
    /\ is_connected /\ waiting /\ timeout
    /\ ReturnCall("timeout", None)
    /\ late' = late + 1
    /\ garbled' \in {garbled, TRUE}
    /\ UNCHANGED <<is_connected, timeout, answered, consumed>>

\* Service::Close
CloseService ==
    /\ is_connected /\ ~ waiting
    /\ is_connected' = FALSE
    /\ UNCHANGED <<timeout, calls, waiting, answered, consumed, late, garbled>>

LateNext == \/ SetRecvTimeout \/ ServerAnswers \/ CloseService
        \/ \E operation \in Operations, method \in Methods : Send(operation, method)
        \/ Receive \/ ReceiveOther \/ ReceiveGarbled \/ TimeOut

\* The server answers, and the client reads the answers that are there.  Nothing is said
\* of a client that reads what is no answer: it may wait for bytes that never come.
LateFairness == WF_lateVars(ServerAnswers) /\ WF_lateVars(Receive \/ ReceiveOther)

LateSpec == LateInit /\ [][LateNext]_lateVars /\ LateFairness

-----------------------------------------------------------------------------
(* Properties.                                                             *)

\* The state holds what its names say.
LateTypeOK ==
    /\ is_connected \in BOOLEAN /\ timeout \in BOOLEAN /\ waiting \in BOOLEAN /\ garbled \in BOOLEAN
    /\ calls \in Seq(CallShape) /\ Len(calls) <= MaxCalls
    /\ answered \in 0 .. Len(calls) /\ consumed \in 0 .. answered /\ late \in Nat
    /\ waiting => Len(calls) > 0

\* A call that returns an answer returns that of the call which was made as many calls
\* earlier as calls had timed out before (SetRecvTimeout, and the shared rpc_).  So a
\* client that has seen no timeout gets its own answers, and one that retries a Fetch
\* until it returns loses no batch and sees none twice.
AnswersLag ==
    \A n \in 1 .. Len(calls) :
        calls[n].result = "answer" => calls[n].answer = n - calls[n].before

\* Answers are never handed out twice, and never out of the order of the requests.
AnswersInOrder ==
    \A m, n \in 1 .. Len(calls) :
        m < n /\ calls[m].result = "answer" /\ calls[n].result = "answer" =>
            calls[m].answer < calls[n].answer

\* A method that returns an answer returns one of its own kind: the client never takes
\* the rows of a FetchResults for a state.
SameMethod ==
    \A n \in 1 .. Len(calls) :
        calls[n].result = "answer" =>
            calls[n].answer \in 1 .. n /\ calls[calls[n].answer].method = calls[n].method

\* While the server goes on answering, a call returns, with or without a timeout, unless
\* the connection is garbled: late answers never use up what a call waits for.
CallReturns == waiting ~> (~ waiting \/ garbled)

=============================================================================
