---------------------------- MODULE ClientProofs ----------------------------
(***************************************************************************)
(* Proofs about the C++ objects (HS2Client) for any number of pointers,    *)
(* connections and handles, in debug and in release builds; and about the  *)
(* Python layer (PyClient), which only takes steps of HS2Client, so that   *)
(* what is proved of the C++ objects holds for Python programs.            *)
(***************************************************************************)
EXTENDS PyClient, TLAPS

-----------------------------------------------------------------------------
(***************************************************************************)
(* Type correctness: every method and every server step keeps each         *)
(* variable in its type.                                                   *)
(***************************************************************************)
LEMMA TypeInit == Init => TypeOK
BY DEF Init, TypeOK, TransportStates, SessionObjects, OperationObjects, Calls,
       HandleStates, NullSession, NullOperation

\* Server steps keep the server records in their type.
LEMMA ServerType ==
  ASSUME TypeOK,
         \/ UNCHANGED serverVars
         \/ \E c \in Conns, h \in SessionHandles : ServerOpenSession(c, h)
         \/ \E h \in SessionHandles \cup {NoHandle} : ServerCloseSession(h)
         \/ \E h \in SessionHandles \cup {NoHandle}, p \in OperationHandles :
              ServerExecuteStatement(h, p)
         \/ \E p \in OperationHandles \cup {NoHandle} : ServerCloseOperation(p)
  PROVE  /\ srvSession' \in
              [SessionHandles -> [state : HandleStates, conn : Conns \cup {NoConn}]]
         /\ srvOp' \in
              [OperationHandles ->
                 [state : HandleStates, session : SessionHandles \cup {NoHandle}]]
<1>1. CASE UNCHANGED serverVars
  BY <1>1, Zenon DEF TypeOK, serverVars
<1>2. ASSUME NEW c \in Conns, NEW h \in SessionHandles, ServerOpenSession(c, h)
      PROVE  srvSession' \in
               [SessionHandles -> [state : HandleStates, conn : Conns \cup {NoConn}]]
  BY <1>2, Zenon DEF TypeOK, ServerOpenSession, HandleStates
<1>3. ASSUME NEW h \in SessionHandles \cup {NoHandle}, ServerCloseSession(h)
      PROVE  /\ srvSession' \in
                  [SessionHandles -> [state : HandleStates, conn : Conns \cup {NoConn}]]
             /\ srvOp' \in
                  [OperationHandles ->
                     [state : HandleStates, session : SessionHandles \cup {NoHandle}]]
  BY <1>3 DEF TypeOK, ServerCloseSession, HandleStates
<1>4. ASSUME NEW h \in SessionHandles \cup {NoHandle}, NEW p \in OperationHandles,
             ServerExecuteStatement(h, p)
      PROVE  srvOp' \in
               [OperationHandles ->
                  [state : HandleStates, session : SessionHandles \cup {NoHandle}]]
  BY <1>4, Zenon DEF TypeOK, ServerExecuteStatement, HandleStates
<1>5. ASSUME NEW p \in OperationHandles \cup {NoHandle}, ServerCloseOperation(p)
      PROVE  srvOp' \in
               [OperationHandles ->
                  [state : HandleStates, session : SessionHandles \cup {NoHandle}]]
  BY <1>5, ZenonT(30) DEF TypeOK, ServerCloseOperation, HandleStates
<1>6. QED
  BY <1>1, <1>2, <1>3, <1>4, <1>5, Zenon
     DEF TypeOK, ServerOpenSession, ServerExecuteStatement, ServerCloseOperation

\* Every method leaves a transport in one of its states.
LEMMA TransportType ==
  ASSUME TypeOK, NEW c \in Conns \cup {NoConn},
         \/ Delivered(c)
         \/ Thrown(c)
  PROVE  transport' \in [Conns -> TransportStates]
BY Zenon DEF TypeOK, Delivered, Thrown, TransportStates

\* What Close does to a Session or an Operation keeps it one.
LEMMA SessionUpdate ==
  ASSUME NEW s \in SessionPtrs, session \in [SessionPtrs -> SessionObjects],
         \/ session' = [session EXCEPT ![s].last = "closeOK"]
         \/ session' = [session EXCEPT ![s].last = "closeErr"]
         \/ session' = [session EXCEPT ![s] =
                          [@ EXCEPT !.open_ = FALSE, !.last = "closeOK"]]
  PROVE  session' \in [SessionPtrs -> SessionObjects]
<1>1. CASE session' = [session EXCEPT ![s].last = "closeOK"]
  BY <1>1 DEF SessionObjects, Calls
<1>2. CASE session' = [session EXCEPT ![s].last = "closeErr"]
  BY <1>2 DEF SessionObjects, Calls
<1>3. CASE session' = [session EXCEPT ![s] =
                      [@ EXCEPT !.open_ = FALSE, !.last = "closeOK"]]
  BY <1>3, ZenonT(30) DEF SessionObjects, Calls
<1>4. QED
  BY <1>1, <1>2, <1>3, Zenon

\* The same for an Operation.
LEMMA OperationUpdate ==
  ASSUME NEW o \in OperationPtrs, operation \in [OperationPtrs -> OperationObjects],
         \/ operation' = [operation EXCEPT ![o].last = "closeOK"]
         \/ operation' = [operation EXCEPT ![o].last = "closeErr"]
         \/ operation' = [operation EXCEPT ![o] =
                            [@ EXCEPT !.open_ = FALSE, !.last = "closeOK"]]
  PROVE  operation' \in [OperationPtrs -> OperationObjects]
<1>1. CASE operation' = [operation EXCEPT ![o].last = "closeOK"]
  BY <1>1 DEF OperationObjects, Calls
<1>2. CASE operation' = [operation EXCEPT ![o].last = "closeErr"]
  BY <1>2 DEF OperationObjects, Calls
<1>3. CASE operation' = [operation EXCEPT ![o] =
                      [@ EXCEPT !.open_ = FALSE, !.last = "closeOK"]]
  BY <1>3, ZenonT(30) DEF OperationObjects, Calls
<1>4. QED
  BY <1>1, <1>2, <1>3, Zenon

\* Every method of every object, and every server step, keeps the types.
LEMMA TypeNext == TypeOK /\ [Next]_vars => TypeOK'
<1> SUFFICES ASSUME TypeOK, [Next]_vars
             PROVE  TypeOK'
  BY Zenon
<1> USE DEF TypeOK
<1>a. ASSUME NEW how \in {"aborted", "crashed"}, Exit(how)
      PROVE  TypeOK'
  BY <1>a, Zenon DEF Exit, serverVars
<1>1. ASSUME NEW c \in Conns, NEW v \in ProtocolVersions, Connect(c, v)
      PROVE  TypeOK'
  BY <1>1, <1>a, Zenon DEF Connect, TransportStates, serverVars
<1>2. CASE CloseService
  BY <1>2, Zenon DEF CloseService, IsConnected, TransportStates, serverVars
<1>3. CASE DeleteService
  BY <1>3, <1>a, Zenon DEF DeleteService, serverVars
<1>4. ASSUME NEW s \in SessionPtrs, OpenSession(s)
      PROVE  TypeOK'
  <2>1. CASE OpenSessionOK(s)
    <3>1. transport' \in [Conns -> TransportStates]
      BY <2>1, <1>4, TransportType, Zenon DEF OpenSessionOK
    <3>2. session' \in [SessionPtrs -> SessionObjects]
      BY <2>1, <1>4
         DEF OpenSessionOK, OpenSession, SessionObjects, OpenedSession, Calls
    <3>3. QED
      BY <2>1, <1>4, <3>1, <3>2, ServerType, Zenon DEF OpenSessionOK, OpenSession
  <2>2. CASE OpenSessionFails(s)
    <3>1. /\ transport' \in [Conns -> TransportStates]
          /\ UNCHANGED serverVars
             \/ \E h \in SessionHandles : ServerOpenSession(service, h)
      BY <2>2, <1>4, TransportType, Zenon DEF OpenSessionFails, Fails
    <3>2. session' \in [SessionPtrs -> SessionObjects]
      BY <2>2, <1>4, Zenon
         DEF OpenSessionFails, OpenSession, SessionObjects, FailedSession, Calls
    <3>3. QED
      BY <2>2, <1>4, <3>1, <3>2, ServerType, Zenon DEF OpenSessionFails, OpenSession
  <2>3. QED
    BY <1>4, <1>a, <2>1, <2>2, Zenon DEF OpenSession
<1>5. ASSUME NEW s \in SessionPtrs, CloseSession(s)
      PROVE  TypeOK'
  <2>1. /\ session[s].conn \in Conns \cup {NoConn}
        /\ session[s].handle \in SessionHandles \cup {NoHandle}
    BY Zenon DEF SessionObjects
  <2>2. /\ \/ UNCHANGED transport
           \/ Delivered(session[s].conn)
           \/ Thrown(session[s].conn)
        /\ UNCHANGED serverVars \/ ServerCloseSession(session[s].handle)
    BY <1>5, Zenon DEF CloseSession, CloseSessionOK, CloseSessionFails, Fails
  <2>3. transport' \in [Conns -> TransportStates]
    BY <2>1, <2>2, TransportType, Zenon
  <2>4. session' \in [SessionPtrs -> SessionObjects]
    <3>1. \/ session' = [session EXCEPT ![s].last = "closeOK"]
          \/ session' = [session EXCEPT ![s].last = "closeErr"]
          \/ session' = [session EXCEPT ![s] =
                         [@ EXCEPT !.open_ = FALSE, !.last = "closeOK"]]
      BY <1>5, Zenon DEF CloseSession, CloseSessionOK, CloseSessionFails, Fails
    <3>2. QED
      BY <3>1, SessionUpdate, Zenon
  <2>5. UNCHANGED <<process, service, operation>>
    BY <1>5, Zenon DEF CloseSession
  <2>6. /\ srvSession' \in
             [SessionHandles -> [state : HandleStates, conn : Conns \cup {NoConn}]]
        /\ srvOp' \in
             [OperationHandles ->
                [state : HandleStates, session : SessionHandles \cup {NoHandle}]]
    BY <2>1, <2>2, ServerType, Zenon
  <2>7. QED
    BY <2>3, <2>4, <2>5, <2>6, Zenon
<1>6. ASSUME NEW s \in SessionPtrs, DeleteSession(s)
      PROVE  TypeOK'
  <2>1. NullSession \in SessionObjects
    BY Zenon DEF NullSession, SessionObjects, Calls
  <2>2. QED
    BY <1>6, <1>a, <2>1, Zenon DEF DeleteSession, serverVars
<1>7. ASSUME NEW s \in SessionPtrs, NEW o \in OperationPtrs, ExecuteStatement(s, o)
      PROVE  TypeOK'
  <2>1. /\ session[s].conn \in Conns \cup {NoConn}
        /\ session[s].handle \in SessionHandles \cup {NoHandle}
    BY Zenon DEF SessionObjects
  <2>2. CASE ExecuteStatementOK(s, o)
    <3>1. transport' \in [Conns -> TransportStates]
      BY <2>1, <2>2, TransportType, Zenon DEF ExecuteStatementOK
    <3>2. operation' \in [OperationPtrs -> OperationObjects]
      BY <2>1, <2>2
         DEF ExecuteStatementOK, OperationObjects, OpenedOperation, Calls
    <3>3. QED
      BY <2>1, <2>2, <3>1, <3>2, ServerType, Zenon DEF ExecuteStatementOK
  <2>3. CASE ExecuteStatementFails(s, o)
    <3>1. /\ transport' \in [Conns -> TransportStates]
          /\ UNCHANGED serverVars
             \/ \E p \in OperationHandles : ServerExecuteStatement(session[s].handle, p)
      BY <2>1, <2>3, TransportType, Zenon DEF ExecuteStatementFails, Fails
    <3>2. operation' \in [OperationPtrs -> OperationObjects]
      BY <2>1, <2>3, Zenon
         DEF ExecuteStatementFails, OperationObjects, FailedOperation, Calls
    <3>3. QED
      BY <2>1, <2>3, <3>1, <3>2, ServerType, Zenon DEF ExecuteStatementFails
  <2>4. QED
    BY <1>7, <1>a, <2>2, <2>3, Zenon DEF ExecuteStatement
<1>8. ASSUME NEW o \in OperationPtrs, CloseOperation(o)
      PROVE  TypeOK'
  <2>1. /\ operation[o].conn \in Conns \cup {NoConn}
        /\ operation[o].handle \in OperationHandles \cup {NoHandle}
    BY Zenon DEF OperationObjects
  <2>2. /\ \/ UNCHANGED transport
           \/ Delivered(operation[o].conn)
           \/ Thrown(operation[o].conn)
        /\ UNCHANGED serverVars \/ ServerCloseOperation(operation[o].handle)
    BY <1>8, Zenon DEF CloseOperation, CloseOperationOK, CloseOperationFails, Fails
  <2>3. transport' \in [Conns -> TransportStates]
    BY <2>1, <2>2, TransportType, Zenon
  <2>4. operation' \in [OperationPtrs -> OperationObjects]
    <3>1. \/ operation' = [operation EXCEPT ![o].last = "closeOK"]
          \/ operation' = [operation EXCEPT ![o].last = "closeErr"]
          \/ operation' = [operation EXCEPT ![o] =
                         [@ EXCEPT !.open_ = FALSE, !.last = "closeOK"]]
      BY <1>8, Zenon DEF CloseOperation, CloseOperationOK, CloseOperationFails, Fails
    <3>2. QED
      BY <3>1, OperationUpdate, Zenon
  <2>5. UNCHANGED <<process, service, session>>
    BY <1>8, Zenon DEF CloseOperation
  <2>6. /\ srvSession' \in
             [SessionHandles -> [state : HandleStates, conn : Conns \cup {NoConn}]]
        /\ srvOp' \in
             [OperationHandles ->
                [state : HandleStates, session : SessionHandles \cup {NoHandle}]]
    BY <2>1, <2>2, ServerType, Zenon
  <2>7. QED
    BY <2>3, <2>4, <2>5, <2>6, Zenon
<1>9. ASSUME NEW o \in OperationPtrs, QueryOperation(o)
      PROVE  TypeOK'
  <2>1. operation[o].conn \in Conns \cup {NoConn}
    BY Zenon DEF OperationObjects
  <2>2. QED
    BY <1>9, <2>1, TransportType, Zenon DEF QueryOperation, clientVars, serverVars
<1>10. ASSUME NEW o \in OperationPtrs, DeleteOperation(o)
       PROVE  TypeOK'
  <2>1. NullOperation \in OperationObjects
    BY Zenon DEF NullOperation, OperationObjects, Calls
  <2>2. QED
    BY <1>10, <1>a, <2>1, Zenon DEF DeleteOperation, serverVars
<1>11. ASSUME NEW h \in SessionHandles, ServerDropSession(h)
       PROVE  TypeOK'
  BY <1>11, ServerType, Zenon DEF ServerDropSession
<1>12. CASE UNCHANGED vars
  BY <1>12, Zenon DEF vars
<1>13. QED
  BY <1>1, <1>2, <1>3, <1>4, <1>5, <1>6, <1>7, <1>8, <1>9, <1>10, <1>11, <1>12, Zenon DEF Next

(***************************************************************************)
(* TypeOK holds in every reachable state: no method stores a handle, a     *)
(* connection or a status of the wrong kind.                               *)
(***************************************************************************)
THEOREM TypeCorrect == Spec => []TypeOK
BY TypeInit, TypeNext, PTL DEF Spec

-----------------------------------------------------------------------------
(***************************************************************************)
(* The inductive invariant.  It says of every object, closed ones included *)
(* because they keep their handle, how the handle relates to the server's  *)
(* records and to the connection.                                          *)
(***************************************************************************)
ServiceInv == service # NoConn => transport[service] # "unused"

SessionInvOf(s) ==
  /\ session[s].exists =>
       session[s].conn \in Conns /\ transport[session[s].conn] # "unused"
  /\ session[s].open_ => session[s].handle # NoHandle
  /\ session[s].last = "closeOK" => ~session[s].open_
  /\ session[s].handle # NoHandle =>
       /\ session[s].exists
       /\ srvSession[session[s].handle].state # "unused"
       /\ srvSession[session[s].handle].conn = session[s].conn
       /\ session[s].open_ \/ srvSession[session[s].handle].state = "freed"

SessionInv == \A s \in SessionPtrs : SessionInvOf(s)

OperationInvOf(o) ==
  /\ operation[o].exists =>
       operation[o].conn \in Conns /\ transport[operation[o].conn] # "unused"
  /\ operation[o].open_ => operation[o].handle # NoHandle
  /\ operation[o].last = "closeOK" => ~operation[o].open_
  /\ operation[o].handle # NoHandle =>
       /\ operation[o].exists
       /\ srvOp[operation[o].handle].state # "unused"
       /\ srvOp[operation[o].handle].session = operation[o].session_handle
       /\ srvSession[operation[o].session_handle].conn = operation[o].conn
       /\ operation[o].open_ \/ srvOp[operation[o].handle].state = "freed"

OperationInv == \A o \in OperationPtrs : OperationInvOf(o)

DistinctHandles ==
  \A o, q \in OperationPtrs :
    o # q /\ operation[o].handle # NoHandle
      => operation[o].handle # operation[q].handle

ServerInv ==
  /\ \A h \in SessionHandles : srvSession[h].state # "unused" =>
       srvSession[h].conn \in Conns /\ transport[srvSession[h].conn] # "unused"
  /\ \A p \in OperationHandles : srvOp[p].state # "unused" =>
       srvOp[p].session \in SessionHandles
         /\ srvSession[srvOp[p].session].state # "unused"

Inv ==
  /\ TypeOK
  /\ ServiceInv
  /\ SessionInv
  /\ OperationInv
  /\ DistinctHandles
  /\ ServerInv
  /\ NoLeakOnIntactConnection
  /\ OpenHandleIsLive

-----------------------------------------------------------------------------
(***************************************************************************)
(* Every step moves transports and handles forward only: a connection that *)
(* is not up never comes up again, an issued handle stays issued to the    *)
(* same owner, a freed handle stays freed.                                 *)
(***************************************************************************)
TransportForward ==
  \A c \in Conns : transport[c] # "unused" =>
    /\ transport'[c] # "unused"
    /\ transport'[c] = "open" => transport[c] = "open"

ServerForward ==
  /\ \A h \in SessionHandles : srvSession[h].state # "unused" =>
       /\ srvSession'[h].state # "unused"
       /\ srvSession'[h].conn = srvSession[h].conn
       /\ srvSession'[h].state = "live" => srvSession[h].state = "live"
  /\ \A p \in OperationHandles : srvOp[p].state # "unused" =>
       /\ srvOp'[p].state # "unused"
       /\ srvOp'[p].session = srvOp[p].session
       /\ srvOp'[p].state = "live" => srvOp[p].state = "live"

\* An RPC leaves the transport as it was or finds it broken.
LEMMA CallForward ==
  ASSUME TypeOK, NEW c, Delivered(c) \/ Thrown(c)
  PROVE  TransportForward
BY Zenon DEF TypeOK, Delivered, Thrown, TransportForward

\* A used transport never becomes unused or open again, on any step.
LEMMA TransportNext ==
  ASSUME TypeOK, ServiceInv, [Next]_vars
  PROVE  TransportForward
<1>1. CASE UNCHANGED transport
  BY <1>1, Zenon DEF TransportForward
<1>2. ASSUME NEW how, Exit(how)
      PROVE  TransportForward
  BY <1>2, <1>1, Zenon DEF Exit
<1>3. ASSUME NEW c \in Conns, NEW v \in ProtocolVersions, Connect(c, v)
      PROVE  TransportForward
  BY <1>3, <1>2, Zenon DEF Connect, TransportForward, TypeOK
<1>4. CASE CloseService
  BY <1>4, Zenon DEF CloseService, TransportForward, TypeOK
<1>5. CASE DeleteService
  BY <1>5, <1>1, <1>2, Zenon DEF DeleteService
<1>6. ASSUME NEW s \in SessionPtrs, OpenSession(s)
      PROVE  TransportForward
  BY <1>6, <1>2, CallForward, Zenon DEF OpenSession, OpenSessionOK, OpenSessionFails, Fails
<1>7. ASSUME NEW s \in SessionPtrs, CloseSession(s)
      PROVE  TransportForward
  BY <1>7, <1>1, CallForward, Zenon DEF CloseSession, CloseSessionOK, CloseSessionFails, Fails
<1>8. ASSUME NEW s \in SessionPtrs, DeleteSession(s)
      PROVE  TransportForward
  BY <1>8, <1>1, <1>2, Zenon DEF DeleteSession
<1>9. ASSUME NEW s \in SessionPtrs, NEW o \in OperationPtrs, ExecuteStatement(s, o)
      PROVE  TransportForward
  BY <1>9, <1>2, CallForward, Zenon
     DEF ExecuteStatement, ExecuteStatementOK, ExecuteStatementFails, Fails
<1>10. ASSUME NEW o \in OperationPtrs, CloseOperation(o)
       PROVE  TransportForward
  BY <1>10, <1>1, CallForward, Zenon
     DEF CloseOperation, CloseOperationOK, CloseOperationFails, Fails
<1>11. ASSUME NEW o \in OperationPtrs, QueryOperation(o)
       PROVE  TransportForward
  BY <1>11, CallForward, Zenon DEF QueryOperation
<1>12. ASSUME NEW o \in OperationPtrs, DeleteOperation(o)
       PROVE  TransportForward
  BY <1>12, <1>1, <1>2, Zenon DEF DeleteOperation
<1>13. ASSUME NEW h \in SessionHandles, ServerDropSession(h)
       PROVE  TransportForward
  BY <1>13, <1>1, Zenon DEF ServerDropSession
<1>14. CASE UNCHANGED vars
  BY <1>14, <1>1, Zenon DEF vars
<1>15. QED
  BY <1>3, <1>4, <1>5, <1>6, <1>7, <1>8, <1>9, <1>10, <1>11, <1>12, <1>13, <1>14, Zenon
     DEF Next

\* What a step of any action does to the server: nothing, or one server step.
ServerStep ==
  \/ UNCHANGED serverVars
  \/ \E c \in Conns, h \in SessionHandles :
       transport[c] # "unused" /\ ServerOpenSession(c, h)
  \/ \E h \in SessionHandles : ServerCloseSession(h)
  \/ \E h \in SessionHandles, p \in OperationHandles : ServerExecuteStatement(h, p)
  \/ \E p \in OperationHandles : ServerCloseOperation(p)

\* Every step changes the server state by at most one request, or by the end of
\* a session.
LEMMA ServerStepNext ==
  ASSUME TypeOK, ServiceInv, [Next]_vars
  PROVE  ServerStep
<1>1. CASE UNCHANGED serverVars
  BY <1>1, Zenon DEF ServerStep
<1>2. ASSUME NEW how, Exit(how)
      PROVE  ServerStep
  BY <1>2, <1>1, Zenon DEF Exit
<1>3. ASSUME NEW h, ServerCloseSession(h)
      PROVE  ServerStep
  BY <1>3, Zenon DEF ServerStep, ServerCloseSession
<1>4. ASSUME NEW h, NEW p \in OperationHandles, ServerExecuteStatement(h, p)
      PROVE  ServerStep
  BY <1>4, Zenon DEF ServerStep, ServerExecuteStatement
<1>5. ASSUME NEW p, ServerCloseOperation(p)
      PROVE  ServerStep
  BY <1>5, Zenon DEF ServerStep, ServerCloseOperation
<1>6. ASSUME NEW s \in SessionPtrs, OpenSession(s)
      PROVE  ServerStep
  <2>1. service \in Conns /\ transport[service] # "unused"
    BY <1>6, Zenon DEF OpenSession, TypeOK, ServiceInv
  <2>2. ASSUME NEW h \in SessionHandles, ServerOpenSession(service, h)
        PROVE  ServerStep
    BY <2>1, <2>2, Zenon DEF ServerStep
  <2>3. QED
    BY <1>6, <1>1, <1>2, <2>2, Zenon DEF OpenSession, OpenSessionOK, OpenSessionFails, Fails
<1>7. ASSUME NEW s \in SessionPtrs, CloseSession(s)
      PROVE  ServerStep
  BY <1>7, <1>1, <1>3, Zenon DEF CloseSession, CloseSessionOK, CloseSessionFails, Fails
<1>8. ASSUME NEW s \in SessionPtrs, NEW o \in OperationPtrs, ExecuteStatement(s, o)
      PROVE  ServerStep
  BY <1>8, <1>1, <1>2, <1>4, Zenon
     DEF ExecuteStatement, ExecuteStatementOK, ExecuteStatementFails, Fails
<1>9. ASSUME NEW o \in OperationPtrs, CloseOperation(o)
      PROVE  ServerStep
  BY <1>9, <1>1, <1>5, Zenon DEF CloseOperation, CloseOperationOK, CloseOperationFails, Fails
<1>10. ASSUME NEW h \in SessionHandles, ServerDropSession(h)
       PROVE  ServerStep
  BY <1>10, <1>3, Zenon DEF ServerDropSession
<1>11. ASSUME \/ \E c \in Conns, v \in ProtocolVersions : Connect(c, v)
              \/ CloseService
              \/ DeleteService
              \/ \E s \in SessionPtrs : DeleteSession(s)
              \/ \E o \in OperationPtrs : QueryOperation(o) \/ DeleteOperation(o)
       PROVE  ServerStep
  BY <1>11, <1>1, <1>2, Zenon
     DEF Connect, CloseService, DeleteService, DeleteSession, QueryOperation,
         DeleteOperation
<1>12. CASE UNCHANGED vars
  BY <1>12, <1>1, Zenon DEF vars, serverVars
<1>13. QED
  BY <1>6, <1>7, <1>8, <1>9, <1>10, <1>11, <1>12, Zenon DEF Next

\* Handles only move forward: unused, live, freed; and keep their owners.
LEMMA ServerStepForward ==
  ASSUME TypeOK, ServerStep
  PROVE  ServerForward
<1> USE DEF TypeOK, ServerForward
<1>1. CASE UNCHANGED serverVars
  BY <1>1, Zenon DEF serverVars
<1>2. ASSUME NEW c \in Conns, NEW h \in SessionHandles, ServerOpenSession(c, h)
      PROVE  ServerForward
  BY <1>2, Zenon DEF ServerOpenSession
<1>3. ASSUME NEW h \in SessionHandles, ServerCloseSession(h)
      PROVE  ServerForward
  BY <1>3 DEF ServerCloseSession
<1>4. ASSUME NEW h \in SessionHandles, NEW p \in OperationHandles,
             ServerExecuteStatement(h, p)
      PROVE  ServerForward
  BY <1>4, Zenon DEF ServerExecuteStatement
<1>5. ASSUME NEW p \in OperationHandles, ServerCloseOperation(p)
      PROVE  ServerForward
  BY <1>5 DEF ServerCloseOperation
<1>6. QED
  BY <1>1, <1>2, <1>3, <1>4, <1>5, Zenon DEF ServerStep

\* An issued handle keeps an issued owner, after every step.
LEMMA ServerInvNext ==
  ASSUME TypeOK, ServerInv, ServerStep, TransportForward, ServerForward
  PROVE  ServerInv'
<1>1. ASSUME NEW h \in SessionHandles, srvSession'[h].state # "unused",
             srvSession[h].state = "unused"
      PROVE  srvSession'[h].conn \in Conns /\ transport'[srvSession'[h].conn] # "unused"
  BY <1>1
     DEF ServerStep, serverVars, ServerOpenSession, ServerCloseSession,
         ServerExecuteStatement, ServerCloseOperation, TypeOK, TransportForward
<1>2. ASSUME NEW p \in OperationHandles, srvOp'[p].state # "unused",
             srvOp[p].state = "unused"
      PROVE  srvOp'[p].session \in SessionHandles
               /\ srvSession'[srvOp'[p].session].state # "unused"
  BY <1>2
     DEF ServerStep, serverVars, ServerOpenSession, ServerCloseSession,
         ServerExecuteStatement, ServerCloseOperation, TypeOK
<1>3. QED
  BY <1>1, <1>2 DEF ServerInv, TransportForward, ServerForward

-----------------------------------------------------------------------------
\* What a step of any action does to one Session object.
SessionStep(s) ==
  \/ session'[s] = session[s]
  \/ ~Dies(session[s].open_) /\ session'[s] = NullSession
  \/ /\ ~Dies(session[s].open_)
     /\ service \in Conns /\ transport[service] # "unused"
     /\ session'[s] = FailedSession(service)
  \/ /\ ~Dies(session[s].open_)
     /\ service \in Conns /\ transport[service] # "unused"
     /\ \E h \in SessionHandles :
          ServerOpenSession(service, h) /\ session'[s] = OpenedSession(service, h)
  \/ /\ ~session[s].open_
     /\ session'[s] = [session[s] EXCEPT !.last = "closeOK"]
  \/ session'[s] = [session[s] EXCEPT !.last = "closeErr"]
  \/ /\ ServerCloseSession(session[s].handle)
     /\ session'[s] = [session[s] EXCEPT !.open_ = FALSE, !.last = "closeOK"]

\* What a step can do to a Session object: open, fail, close, delete or leave it.
LEMMA SessionStepNext ==
  ASSUME TypeOK, ServiceInv, [Next]_vars, NEW s \in SessionPtrs
  PROVE  SessionStep(s)
<1>1. CASE UNCHANGED session
  BY <1>1, Zenon DEF SessionStep
<1>2. ASSUME NEW how, Exit(how)
      PROVE  SessionStep(s)
  BY <1>2, <1>1, Zenon DEF Exit
<1>3. ASSUME NEW r \in SessionPtrs, OpenSession(r)
      PROVE  SessionStep(s)
  <2>1. service \in Conns /\ transport[service] # "unused"
    BY <1>3, Zenon DEF OpenSession, TypeOK, ServiceInv
  <2>a. Exit("aborted") \/ ~Dies(session[r].open_)
    BY <1>3, Zenon DEF OpenSession
  <2>2. CASE OpenSessionOK(r)
    BY <1>2, <2>1, <2>a, <2>2, Zenon DEF OpenSessionOK, SessionStep, TypeOK
  <2>3. CASE OpenSessionFails(r)
    BY <1>2, <2>1, <2>a, <2>3, Zenon DEF OpenSessionFails, Fails, SessionStep, TypeOK
  <2>4. QED
    BY <1>3, <1>2, <2>2, <2>3, Zenon DEF OpenSession
<1>4. ASSUME NEW r \in SessionPtrs, CloseSession(r)
      PROVE  SessionStep(s)
  <2>1. CASE r # s
    BY <1>4, <2>1, Zenon
       DEF CloseSession, CloseSessionOK, CloseSessionFails, Fails, SessionStep, TypeOK
  <2>2. CASE r = s
    <3>1. CASE ~session[s].open_ /\ session' = [session EXCEPT ![s].last = "closeOK"]
      BY <3>1, Zenon DEF SessionStep, TypeOK
    <3>2. CASE session' = [session EXCEPT ![s].last = "closeErr"]
      BY <3>2, Zenon DEF SessionStep, TypeOK
    <3>3. CASE /\ ServerCloseSession(session[s].handle)
               /\ session' = [session EXCEPT ![s] =
                                [@ EXCEPT !.open_ = FALSE, !.last = "closeOK"]]
      BY <3>3, Zenon DEF SessionStep, TypeOK
    <3>4. QED
      BY <1>4, <2>2, <3>1, <3>2, <3>3, Zenon
         DEF CloseSession, CloseSessionOK, CloseSessionFails, Fails
  <2>3. QED
    BY <2>1, <2>2, Zenon
<1>5. ASSUME NEW r \in SessionPtrs, DeleteSession(r)
      PROVE  SessionStep(s)
  BY <1>5, <1>2, Zenon DEF DeleteSession, SessionStep, TypeOK
<1>6. ASSUME NEW r \in SessionPtrs, NEW o \in OperationPtrs, ExecuteStatement(r, o)
      PROVE  SessionStep(s)
  BY <1>6, <1>1, <1>2, Zenon
     DEF ExecuteStatement, ExecuteStatementOK, ExecuteStatementFails, Fails
<1>7. ASSUME \/ \E c \in Conns, v \in ProtocolVersions : Connect(c, v)
             \/ CloseService
             \/ DeleteService
             \/ \E o \in OperationPtrs :
                  CloseOperation(o) \/ QueryOperation(o) \/ DeleteOperation(o)
             \/ \E h \in SessionHandles : ServerDropSession(h)
      PROVE  SessionStep(s)
  BY <1>7, <1>1, <1>2, Zenon
     DEF Connect, CloseService, DeleteService, CloseOperation, QueryOperation,
         DeleteOperation, ServerDropSession, clientVars
<1>8. CASE UNCHANGED vars
  BY <1>8, <1>1, Zenon DEF vars
<1>9. QED
  BY <1>3, <1>4, <1>5, <1>6, <1>7, <1>8, Zenon DEF Next

\* The links from Session objects to connections and handles are preserved.
LEMMA SessionInvNext ==
  ASSUME TypeOK, SessionInv, TransportForward, ServerForward, TypeOK',
         NEW s \in SessionPtrs, SessionStep(s)
  PROVE  SessionInvOf(s)'
<1> USE DEF SessionInvOf
<1>0. SessionInvOf(s)
  BY Zenon DEF SessionInv
<1>1. CASE session'[s] = session[s]
  BY <1>0, <1>1
     DEF TransportForward, ServerForward, TypeOK, SessionObjects, HandleStates
<1>2. CASE session'[s] = NullSession
  BY <1>2 DEF NullSession
<1>3. CASE /\ service \in Conns /\ transport[service] # "unused"
           /\ session'[s] = FailedSession(service)
  BY <1>3 DEF FailedSession, TransportForward
<1>4. ASSUME service \in Conns, transport[service] # "unused",
             NEW h \in SessionHandles, ServerOpenSession(service, h),
             session'[s] = OpenedSession(service, h)
      PROVE  SessionInvOf(s)'
  BY <1>4, ConstantsAssumption
     DEF OpenedSession, TransportForward, ServerOpenSession, TypeOK
<1>5. CASE /\ ~session[s].open_
           /\ session'[s] = [session[s] EXCEPT !.last = "closeOK"]
  <2>1. /\ session'[s].exists = session[s].exists
        /\ session'[s].conn = session[s].conn
        /\ session'[s].open_ = session[s].open_
        /\ session'[s].handle = session[s].handle
    BY <1>5 DEF TypeOK, SessionObjects
  <2>2. QED
    BY <1>0, <1>5, <2>1
       DEF TransportForward, ServerForward, TypeOK, SessionObjects, HandleStates
<1>6. CASE session'[s] = [session[s] EXCEPT !.last = "closeErr"]
  <2>1. /\ session'[s].exists = session[s].exists
        /\ session'[s].conn = session[s].conn
        /\ session'[s].open_ = session[s].open_
        /\ session'[s].handle = session[s].handle
        /\ session'[s].last = "closeErr"
    BY <1>6 DEF TypeOK, SessionObjects
  <2>2. QED
    BY <1>0, <2>1
       DEF TransportForward, ServerForward, TypeOK, SessionObjects, HandleStates
<1>7. CASE /\ ServerCloseSession(session[s].handle)
           /\ session'[s] = [session[s] EXCEPT !.open_ = FALSE, !.last = "closeOK"]
  <2>1. /\ session'[s].exists = session[s].exists
        /\ session'[s].conn = session[s].conn
        /\ session'[s].open_ = FALSE
        /\ session'[s].handle = session[s].handle
    BY <1>7 DEF TypeOK, SessionObjects
  <2>2. /\ session[s].handle \in SessionHandles
        /\ srvSession'[session[s].handle].state = "freed"
    BY <1>7 DEF ServerCloseSession, TypeOK
  <2>3. QED
    BY <1>0, <2>1, <2>2 DEF TransportForward, ServerForward
<1>8. QED
  BY <1>1, <1>2, <1>3, <1>4, <1>5, <1>6, <1>7, Zenon DEF SessionStep

-----------------------------------------------------------------------------
\* What a step of any action does to one Operation object.
OperationStep(o) ==
  \/ operation'[o] = operation[o]
  \/ ~Dies(operation[o].open_) /\ operation'[o] = NullOperation
  \/ \E s \in SessionPtrs :
       /\ ~Dies(operation[o].open_)
       /\ session[s].exists /\ operation'[o] = FailedOperation(session[s].conn)
  \/ \E s \in SessionPtrs, p \in OperationHandles :
       /\ ~Dies(operation[o].open_)
       /\ session[s].exists
       /\ ServerExecuteStatement(session[s].handle, p)
       /\ operation'[o] = OpenedOperation(session[s].conn, session[s].handle, p)
       /\ \A q \in OperationPtrs \ {o} : operation'[q] = operation[q]
  \/ /\ ~operation[o].open_
     /\ operation'[o] = [operation[o] EXCEPT !.last = "closeOK"]
  \/ operation'[o] = [operation[o] EXCEPT !.last = "closeErr"]
  \/ /\ ServerCloseOperation(operation[o].handle)
     /\ operation'[o] = [operation[o] EXCEPT !.open_ = FALSE, !.last = "closeOK"]

\* What a step can do to an Operation object.
LEMMA OperationStepNext ==
  ASSUME TypeOK, [Next]_vars, NEW o \in OperationPtrs
  PROVE  OperationStep(o)
<1>1. CASE UNCHANGED operation
  BY <1>1, Zenon DEF OperationStep
<1>2. ASSUME NEW how, Exit(how)
      PROVE  OperationStep(o)
  BY <1>2, <1>1, Zenon DEF Exit
<1>3. ASSUME NEW s \in SessionPtrs, NEW q \in OperationPtrs, ExecuteStatement(s, q)
      PROVE  OperationStep(o)
  <2>1. session[s].exists
    BY <1>3, Zenon DEF ExecuteStatement
  <2>a. Exit("aborted") \/ ~Dies(operation[q].open_)
    BY <1>3, Zenon DEF ExecuteStatement
  <2>2. CASE ExecuteStatementOK(s, q)
    BY <1>2, <2>1, <2>a, <2>2, Zenon DEF ExecuteStatementOK, OperationStep, TypeOK
  <2>3. CASE ExecuteStatementFails(s, q)
    BY <1>2, <2>1, <2>a, <2>3, Zenon DEF ExecuteStatementFails, Fails, OperationStep, TypeOK
  <2>4. QED
    BY <1>3, <1>2, <2>2, <2>3, Zenon DEF ExecuteStatement
<1>4. ASSUME NEW q \in OperationPtrs, CloseOperation(q)
      PROVE  OperationStep(o)
  <2>1. CASE q # o
    BY <1>4, <2>1, Zenon
       DEF CloseOperation, CloseOperationOK, CloseOperationFails, Fails, OperationStep,
           TypeOK
  <2>2. CASE q = o
    <3>1. CASE ~operation[o].open_ /\ operation' = [operation EXCEPT ![o].last = "closeOK"]
      BY <3>1, Zenon DEF OperationStep, TypeOK
    <3>2. CASE operation' = [operation EXCEPT ![o].last = "closeErr"]
      BY <3>2, Zenon DEF OperationStep, TypeOK
    <3>3. CASE /\ ServerCloseOperation(operation[o].handle)
               /\ operation' = [operation EXCEPT ![o] =
                                  [@ EXCEPT !.open_ = FALSE, !.last = "closeOK"]]
      BY <3>3, Zenon DEF OperationStep, TypeOK
    <3>4. QED
      BY <1>4, <2>2, <3>1, <3>2, <3>3, Zenon
         DEF CloseOperation, CloseOperationOK, CloseOperationFails, Fails
  <2>3. QED
    BY <2>1, <2>2, Zenon
<1>5. ASSUME NEW q \in OperationPtrs, DeleteOperation(q)
      PROVE  OperationStep(o)
  BY <1>5, <1>2, Zenon DEF DeleteOperation, OperationStep, TypeOK
<1>6. ASSUME NEW s \in SessionPtrs, OpenSession(s)
      PROVE  OperationStep(o)
  BY <1>6, <1>1, <1>2, Zenon DEF OpenSession, OpenSessionOK, OpenSessionFails, Fails
<1>7. ASSUME \/ \E c \in Conns, v \in ProtocolVersions : Connect(c, v)
             \/ CloseService
             \/ DeleteService
             \/ \E s \in SessionPtrs : CloseSession(s) \/ DeleteSession(s)
             \/ \E q \in OperationPtrs : QueryOperation(q)
             \/ \E h \in SessionHandles : ServerDropSession(h)
      PROVE  OperationStep(o)
  BY <1>7, <1>1, <1>2, Zenon
     DEF Connect, CloseService, DeleteService, CloseSession, DeleteSession,
         QueryOperation, ServerDropSession, clientVars
<1>8. CASE UNCHANGED vars
  BY <1>8, <1>1, Zenon DEF vars
<1>9. QED
  BY <1>3, <1>4, <1>5, <1>6, <1>7, <1>8, Zenon DEF Next

\* The links from Operation objects to connections and handles are preserved.
LEMMA OperationInvNext ==
  ASSUME TypeOK, SessionInv, OperationInv, ServerInv, TransportForward, ServerForward,
         TypeOK', NEW o \in OperationPtrs, OperationStep(o)
  PROVE  OperationInvOf(o)'
<1> USE DEF OperationInvOf
<1> DEFINE Kept == /\ operation'[o].exists = operation[o].exists
                   /\ operation'[o].conn = operation[o].conn
                   /\ operation'[o].handle = operation[o].handle
                   /\ operation'[o].session_handle = operation[o].session_handle
<1>0. OperationInvOf(o)
  BY Zenon DEF OperationInv
<1>a. operation[o].handle # NoHandle =>
        /\ operation[o].handle \in OperationHandles
        /\ operation[o].session_handle \in SessionHandles
        /\ srvSession[operation[o].session_handle].state # "unused"
  BY <1>0 DEF ServerInv, TypeOK, OperationObjects
<1>b. ASSUME Kept
      PROVE  /\ operation'[o].exists => operation'[o].conn \in Conns
                                        /\ transport'[operation'[o].conn] # "unused"
             /\ operation'[o].handle # NoHandle =>
                  /\ operation'[o].exists
                  /\ srvOp'[operation'[o].handle].state # "unused"
                  /\ srvOp'[operation'[o].handle].session = operation'[o].session_handle
                  /\ srvSession'[operation'[o].session_handle].conn = operation'[o].conn
                  /\ srvOp[operation[o].handle].state = "freed"
                       => srvOp'[operation'[o].handle].state = "freed"
  BY <1>0, <1>a, <1>b DEF TransportForward, ServerForward, TypeOK, HandleStates
<1>1. CASE operation'[o] = operation[o]
  BY <1>0, <1>1, <1>b, Zenon
<1>2. CASE operation'[o] = NullOperation
  BY <1>2 DEF NullOperation
<1>3. ASSUME NEW s \in SessionPtrs, session[s].exists,
             operation'[o] = FailedOperation(session[s].conn)
      PROVE  OperationInvOf(o)'
  BY <1>3 DEF FailedOperation, TransportForward, SessionInv, SessionInvOf
<1>4. ASSUME NEW s \in SessionPtrs, NEW p \in OperationHandles, session[s].exists,
             ServerExecuteStatement(session[s].handle, p),
             operation'[o] = OpenedOperation(session[s].conn, session[s].handle, p)
      PROVE  OperationInvOf(o)'
  <2>1. /\ session[s].handle \in SessionHandles
        /\ session[s].handle # NoHandle
        /\ srvSession'[session[s].handle] = srvSession[session[s].handle]
        /\ srvOp'[p].state = "live" /\ srvOp'[p].session = session[s].handle
    BY <1>4, ConstantsAssumption, Zenon DEF ServerExecuteStatement, TypeOK
  <2>2. QED
    BY <1>4, <2>1, ConstantsAssumption
       DEF OpenedOperation, TransportForward, SessionInv, SessionInvOf
<1>5. CASE /\ ~operation[o].open_
           /\ operation'[o] = [operation[o] EXCEPT !.last = "closeOK"]
  <2>1. Kept /\ operation'[o].open_ = operation[o].open_
    BY <1>5 DEF TypeOK, OperationObjects
  <2>2. QED
    BY <1>0, <1>5, <1>b, <2>1, Zenon
<1>6. CASE operation'[o] = [operation[o] EXCEPT !.last = "closeErr"]
  <2>1. Kept /\ operation'[o].open_ = operation[o].open_
             /\ operation'[o].last = "closeErr"
    BY <1>6 DEF TypeOK, OperationObjects
  <2>2. QED
    BY <1>0, <1>b, <2>1, Zenon
<1>7. CASE /\ ServerCloseOperation(operation[o].handle)
           /\ operation'[o] = [operation[o] EXCEPT !.open_ = FALSE, !.last = "closeOK"]
  <2>1. Kept /\ operation'[o].open_ = FALSE
    BY <1>7 DEF TypeOK, OperationObjects
  <2>2. srvOp'[operation[o].handle].state = "freed"
    BY <1>7 DEF ServerCloseOperation, TypeOK
  <2>3. QED
    BY <1>b, <2>1, <2>2, Zenon
<1>8. QED
  BY <1>1, <1>2, <1>3, <1>4, <1>5, <1>6, <1>7, Zenon DEF OperationStep

\* The handle of an Operation only changes to a fresh one or to none.
LEMMA DistinctHandlesNext ==
  ASSUME TypeOK, OperationInv, DistinctHandles,
         \A o \in OperationPtrs : OperationStep(o)
  PROVE  DistinctHandles'
<1> DEFINE Fresh(o) ==
      \E p \in OperationHandles :
        /\ srvOp[p].state = "unused"
        /\ operation'[o].handle = p
        /\ \A q \in OperationPtrs \ {o} : operation'[q] = operation[q]
<1>1. ASSUME NEW o \in OperationPtrs
      PROVE  operation'[o].handle \in {operation[o].handle, NoHandle} \/ Fresh(o)
  <2> OperationStep(o)
    BY Zenon
  <2>1. ASSUME NEW last,
               operation'[o] = [operation[o] EXCEPT !.last = last]
        PROVE  operation'[o].handle = operation[o].handle
    BY <2>1 DEF TypeOK, OperationObjects
  <2>a. CASE operation'[o] = [operation[o] EXCEPT !.open_ = FALSE, !.last = "closeOK"]
    BY <2>a DEF TypeOK, OperationObjects
  <2>2. CASE \E s \in SessionPtrs, p \in OperationHandles :
               /\ ServerExecuteStatement(session[s].handle, p)
               /\ operation'[o] = OpenedOperation(session[s].conn, session[s].handle, p)
               /\ \A q \in OperationPtrs \ {o} : operation'[q] = operation[q]
    BY <2>2 DEF ServerExecuteStatement, OpenedOperation
  <2>3. CASE operation'[o] = NullOperation
    BY <2>3 DEF NullOperation
  <2>4. ASSUME NEW s \in SessionPtrs, operation'[o] = FailedOperation(session[s].conn)
        PROVE  operation'[o].handle = NoHandle
    BY <2>4 DEF FailedOperation
  <2>5. QED
    BY <2>1, <2>2, <2>3, <2>4, <2>a, Zenon DEF OperationStep
<1>2. \A o \in OperationPtrs : operation[o].handle # NoHandle =>
        srvOp[operation[o].handle].state # "unused"
  BY Zenon DEF OperationInv, OperationInvOf
<1>3. SUFFICES ASSUME NEW o \in OperationPtrs, NEW q \in OperationPtrs, o # q,
                      operation'[o].handle # NoHandle
               PROVE  operation'[o].handle # operation'[q].handle
  BY Zenon DEF DistinctHandles
<1>4. CASE Fresh(o)
  BY <1>2, <1>3, <1>4, Zenon
<1>5. CASE Fresh(q)
  BY <1>2, <1>3, <1>5, Zenon
<1>6. QED
  BY <1>1, <1>3, <1>4, <1>5 DEF DistinctHandles

-----------------------------------------------------------------------------
\* An operation handle is freed by the end of its session or by its own
\* Operation, which then is not open or has lost the connection.
LEMMA FreedStep ==
  ASSUME TypeOK, OperationInv, [Next]_vars, NEW p \in OperationHandles,
         srvOp[p].state = "live", srvOp'[p].state # "live"
  PROVE  \/ srvSession'[srvOp[p].session].state # "live"
         \/ \E q \in OperationPtrs :
              /\ operation[q].handle = p
              /\ ~operation'[q].open_ \/ transport'[operation[q].conn] # "open"
<1> DEFINE Goal == \/ srvSession'[srvOp[p].session].state # "live"
                   \/ \E q \in OperationPtrs :
                        /\ operation[q].handle = p
                        /\ ~operation'[q].open_ \/ transport'[operation[q].conn] # "open"
<1>1. CASE UNCHANGED serverVars
  BY <1>1, Zenon DEF serverVars
<1>2. ASSUME NEW how, Exit(how)
      PROVE  Goal
  BY <1>2, <1>1, Zenon DEF Exit
<1>3. ASSUME NEW h, ServerCloseSession(h)
      PROVE  Goal
  BY <1>3 DEF ServerCloseSession, TypeOK
<1>4. ASSUME \/ \E c, h : ServerOpenSession(c, h)
             \/ \E h, r : ServerExecuteStatement(h, r)
      PROVE  Goal
  BY <1>4, Zenon DEF ServerOpenSession, ServerExecuteStatement, TypeOK
<1>5. ASSUME NEW q \in OperationPtrs, CloseOperation(q)
      PROVE  Goal
  <2>1. ASSUME ServerCloseOperation(operation[q].handle)
        PROVE  operation[q].handle = p
    BY <2>1, Zenon DEF ServerCloseOperation, TypeOK
  <2>2. CASE CloseOperationOK(q)
    <3>1. ~operation'[q].open_
      BY <2>2, Zenon DEF CloseOperationOK, TypeOK, OperationObjects
    <3>2. QED
      BY <2>1, <2>2, <3>1, Zenon DEF CloseOperationOK
  <2>3. CASE Thrown(operation[q].conn) /\ ServerCloseOperation(operation[q].handle)
    <3>1. operation[q].conn \in Conns
      BY <1>5, Zenon DEF CloseOperation, OperationInv, OperationInvOf
    <3>2. transport'[operation[q].conn] # "open"
      BY <2>3, <3>1, Zenon DEF Thrown, TypeOK
    <3>3. QED
      BY <2>1, <2>3, <3>2, Zenon
  <2>4. QED
    BY <1>1, <1>5, <2>2, <2>3, Zenon DEF CloseOperation, CloseOperationFails, Fails
<1>6. ASSUME NEW s \in SessionPtrs, OpenSession(s)
      PROVE  Goal
  BY <1>6, <1>1, <1>2, <1>4, Zenon DEF OpenSession, OpenSessionOK, OpenSessionFails, Fails
<1>7. ASSUME NEW s \in SessionPtrs, CloseSession(s)
      PROVE  Goal
  BY <1>7, <1>1, <1>3, Zenon DEF CloseSession, CloseSessionOK, CloseSessionFails, Fails
<1>8. ASSUME NEW s \in SessionPtrs, NEW o \in OperationPtrs, ExecuteStatement(s, o)
      PROVE  Goal
  BY <1>8, <1>1, <1>2, <1>4, Zenon
     DEF ExecuteStatement, ExecuteStatementOK, ExecuteStatementFails, Fails
<1>9. ASSUME NEW h \in SessionHandles, ServerDropSession(h)
      PROVE  Goal
  BY <1>9, <1>3, Zenon DEF ServerDropSession
<1>10. ASSUME \/ \E c \in Conns, v \in ProtocolVersions : Connect(c, v)
              \/ CloseService
              \/ DeleteService
              \/ \E s \in SessionPtrs : DeleteSession(s)
              \/ \E o \in OperationPtrs : QueryOperation(o) \/ DeleteOperation(o)
       PROVE  Goal
  BY <1>10, <1>1, <1>2, Zenon
     DEF Connect, CloseService, DeleteService, DeleteSession, QueryOperation,
         DeleteOperation
<1>11. CASE UNCHANGED vars
  BY <1>11, <1>1, Zenon DEF vars, serverVars
<1>12. QED
  BY <1>5, <1>6, <1>7, <1>8, <1>9, <1>10, <1>11, Zenon DEF Next

\* A Close that does not clear open_ changes nothing else either.
LEMMA OnlyLastChanges ==
  ASSUME TypeOK, NEW o \in OperationPtrs, NEW last,
         operation'[o] = [operation[o] EXCEPT !.last = last]
  PROVE  /\ operation'[o].open_ = operation[o].open_
         /\ operation'[o].conn = operation[o].conn
         /\ operation'[o].handle = operation[o].handle
         /\ operation'[o].session_handle = operation[o].session_handle
BY DEF TypeOK, OperationObjects

\* An open Operation keeps a live handle while its session and connection last.
LEMMA OpenHandleIsLiveNext ==
  ASSUME TypeOK, OperationInv, DistinctHandles, ServerInv, OpenHandleIsLive,
         TransportForward, ServerForward, [Next]_vars,
         \A o \in OperationPtrs : OperationStep(o)
  PROVE  OpenHandleIsLive'
<1> SUFFICES ASSUME NEW o \in OperationPtrs, operation'[o].open_,
                    transport'[operation'[o].conn] = "open",
                    srvSession'[operation'[o].session_handle].state = "live"
             PROVE  srvOp'[operation'[o].handle].state = "live"
  BY Zenon DEF OpenHandleIsLive
<1> DEFINE Kept == /\ operation'[o].open_ = operation[o].open_
                   /\ operation'[o].conn = operation[o].conn
                   /\ operation'[o].handle = operation[o].handle
                   /\ operation'[o].session_handle = operation[o].session_handle
<1>1. CASE Kept
  <2>1. /\ operation[o].handle \in OperationHandles
        /\ operation[o].conn \in Conns
        /\ transport[operation[o].conn] # "unused"
        /\ srvOp[operation[o].handle].session = operation[o].session_handle
        /\ operation[o].session_handle \in SessionHandles
        /\ srvSession[operation[o].session_handle].state # "unused"
    BY <1>1 DEF OperationInv, OperationInvOf, ServerInv, TypeOK, OperationObjects
  <2>2. /\ transport[operation[o].conn] = "open"
        /\ srvSession[operation[o].session_handle].state = "live"
    BY <1>1, <2>1 DEF TransportForward, ServerForward
  <2>3. srvOp[operation[o].handle].state = "live"
    BY <1>1, <2>2, Zenon DEF OpenHandleIsLive
  <2>4. CASE srvOp'[operation[o].handle].state # "live"
    <3>1. PICK q \in OperationPtrs :
             /\ operation[q].handle = operation[o].handle
             /\ ~operation'[q].open_ \/ transport'[operation[q].conn] # "open"
      BY <1>1, <2>1, <2>3, <2>4, FreedStep
    <3>2. q = o
      BY <2>1, <3>1, ConstantsAssumption, Zenon DEF DistinctHandles
    <3>3. QED
      BY <1>1, <3>1, <3>2, Zenon
  <2>5. QED
    BY <1>1, <2>4, Zenon
<1>2. ASSUME NEW last, operation'[o] = [operation[o] EXCEPT !.last = last]
      PROVE  Kept
  BY <1>2, OnlyLastChanges, Zenon
<1>3. ASSUME operation'[o] = [operation[o] EXCEPT !.open_ = FALSE, !.last = "closeOK"]
      PROVE  operation'[o].open_ = FALSE
  BY <1>3, Zenon DEF TypeOK, OperationObjects
<1>4. CASE operation'[o] = NullOperation
  BY <1>4 DEF NullOperation
<1>5. ASSUME NEW s \in SessionPtrs, operation'[o] = FailedOperation(session[s].conn)
      PROVE  FALSE
  BY <1>5 DEF FailedOperation
<1>6. ASSUME NEW s \in SessionPtrs, NEW p \in OperationHandles,
             ServerExecuteStatement(session[s].handle, p),
             operation'[o] = OpenedOperation(session[s].conn, session[s].handle, p)
      PROVE  srvOp'[operation'[o].handle].state = "live"
  BY <1>6 DEF ServerExecuteStatement, OpenedOperation, TypeOK
<1>7. OperationStep(o)
  BY Zenon
<1>8. QED
  BY <1>1, <1>2, <1>3, <1>4, <1>5, <1>6, <1>7, Zenon DEF OperationStep

-----------------------------------------------------------------------------
\* In a debug build that keeps running, an open Session stays open with its
\* handle until the handle is freed; the same for an Operation.
LEMMA OpenSessionStays ==
  ASSUME TypeOK, ~NDEBUG, NEW s \in SessionPtrs, SessionStep(s), session[s].open_
  PROVE  \/ session'[s].open_ /\ session'[s].handle = session[s].handle
         \/ srvSession'[session[s].handle].state = "freed"
<1>1. ASSUME NEW last, session'[s] = [session[s] EXCEPT !.last = last]
      PROVE  session'[s].open_ /\ session'[s].handle = session[s].handle
  BY <1>1 DEF TypeOK, SessionObjects
<1>2. ASSUME ServerCloseSession(session[s].handle)
      PROVE  srvSession'[session[s].handle].state = "freed"
  BY <1>2 DEF ServerCloseSession, TypeOK
<1>3. QED
  BY <1>1, <1>2, Zenon DEF SessionStep, Dies

\* The Operation half.
LEMMA OpenOperationStays ==
  ASSUME TypeOK, ~NDEBUG, NEW o \in OperationPtrs, OperationStep(o),
         operation[o].open_
  PROVE  \/ operation'[o].open_ /\ operation'[o].handle = operation[o].handle
         \/ srvOp'[operation[o].handle].state = "freed"
<1>1. ASSUME NEW last, operation'[o] = [operation[o] EXCEPT !.last = last]
      PROVE  operation'[o].open_ /\ operation'[o].handle = operation[o].handle
  BY <1>1 DEF TypeOK, OperationObjects
<1>2. ASSUME ServerCloseOperation(operation[o].handle)
      PROVE  srvOp'[operation[o].handle].state = "freed"
  BY <1>2 DEF ServerCloseOperation, TypeOK
<1>3. QED
  BY <1>1, <1>2, Zenon DEF OperationStep, Dies

\* A handle that comes alive is stored in an open object, or the reply that
\* carried it was lost with the connection.
LEMMA NewSessionHandle ==
  ASSUME TypeOK, ServiceInv, [Next]_vars, NEW h \in SessionHandles,
         srvSession[h].state # "live", srvSession'[h].state = "live"
  PROVE  \/ \E s \in SessionPtrs : session'[s].open_ /\ session'[s].handle = h
         \/ transport'[srvSession'[h].conn] # "open"
<1>1. PICK c \in Conns : ServerOpenSession(c, h)
  <2>1. ServerStep
    BY ServerStepNext, Zenon
  <2>2. QED
    BY <2>1, Zenon
       DEF ServerStep, serverVars, ServerOpenSession, ServerCloseSession,
           ServerExecuteStatement, ServerCloseOperation, TypeOK
<1>2. PICK s \in SessionPtrs : OpenSession(s)
  <2>1. srvSession' # srvSession
    BY Zenon
  <2>2. ASSUME NEW g, ServerCloseSession(g)
        PROVE  srvSession'[h].state # "live"
    BY <2>2, Zenon DEF ServerCloseSession, TypeOK
  <2>3. QED
    BY <2>1, <2>2, Zenon
       DEF Next, vars, serverVars, Exit, Connect, CloseService, DeleteService,
           CloseSession, CloseSessionOK, CloseSessionFails, DeleteSession,
           ExecuteStatement, ExecuteStatementOK, ExecuteStatementFails,
           CloseOperation, CloseOperationOK, CloseOperationFails, QueryOperation,
           DeleteOperation, ServerDropSession, Fails, ServerExecuteStatement,
           ServerCloseOperation
<1>3. service \in Conns
  BY <1>2, Zenon DEF OpenSession, TypeOK
<1>4. ASSUME NEW g \in SessionHandles, ServerOpenSession(service, g)
      PROVE  g = h /\ srvSession'[h].conn = service
  BY <1>4, Zenon DEF ServerOpenSession, TypeOK
<1>5. CASE OpenSessionOK(s)
  BY <1>4, <1>5 DEF OpenSessionOK, OpenedSession, TypeOK
<1>6. CASE OpenSessionFails(s)
  <2>1. /\ Thrown(service)
        /\ \E g \in SessionHandles : ServerOpenSession(service, g)
    BY <1>6, Zenon DEF OpenSessionFails, Fails, serverVars
  <2>2. QED
    BY <1>3, <1>4, <2>1, Zenon DEF Thrown, TypeOK
<1>7. QED
  BY <1>2, <1>5, <1>6, Zenon DEF OpenSession, Exit, serverVars

\* The same for an operation handle and an Operation.
LEMMA NewOperationHandle ==
  ASSUME TypeOK, ServiceInv, SessionInv, [Next]_vars, NEW p \in OperationHandles,
         srvOp[p].state # "live", srvOp'[p].state = "live"
  PROVE  \/ \E o \in OperationPtrs : operation'[o].open_ /\ operation'[o].handle = p
         \/ transport'[srvSession'[srvOp'[p].session].conn] # "open"
<1>1. srvOp' # srvOp
  BY Zenon
<1>2. ASSUME \/ \E h : ServerCloseSession(h)
             \/ \E q : ServerCloseOperation(q)
      PROVE  FALSE
  BY <1>2, Zenon DEF ServerCloseSession, ServerCloseOperation, TypeOK
<1>3. PICK s \in SessionPtrs, o \in OperationPtrs : ExecuteStatement(s, o)
  BY <1>1, <1>2, Zenon
     DEF Next, vars, serverVars, Exit, Connect, CloseService, DeleteService,
         OpenSession, OpenSessionOK, OpenSessionFails, CloseSession, CloseSessionOK,
         CloseSessionFails, DeleteSession, CloseOperation, CloseOperationOK,
         CloseOperationFails, QueryOperation, DeleteOperation, ServerDropSession,
         Fails, ServerOpenSession
<1>4. ASSUME NEW q \in OperationHandles,
             ServerExecuteStatement(session[s].handle, q)
      PROVE  /\ q = p
             /\ srvOp'[p].session = session[s].handle
             /\ srvSession'[srvOp'[p].session].conn = session[s].conn
  <2>1. q = p /\ srvOp'[p].session = session[s].handle
    BY <1>4, Zenon DEF ServerExecuteStatement, TypeOK
  <2>2. session[s].handle \in SessionHandles /\ srvSession' = srvSession
    BY <1>4, Zenon DEF ServerExecuteStatement
  <2>3. QED
    BY <2>1, <2>2, ConstantsAssumption, Zenon DEF SessionInv, SessionInvOf
<1>5. CASE ExecuteStatementOK(s, o)
  BY <1>4, <1>5 DEF ExecuteStatementOK, OpenedOperation, TypeOK
<1>6. CASE ExecuteStatementFails(s, o)
  <2>1. /\ Thrown(session[s].conn)
        /\ \E q \in OperationHandles : ServerExecuteStatement(session[s].handle, q)
    BY <1>1, <1>6, Zenon DEF ExecuteStatementFails, Fails, serverVars
  <2>2. session[s].conn \in Conns
    BY <1>3, Zenon DEF ExecuteStatement, SessionInv, SessionInvOf
  <2>3. QED
    BY <1>4, <2>1, <2>2, Zenon DEF Thrown, TypeOK
<1>7. QED
  BY <1>1, <1>3, <1>5, <1>6, Zenon DEF ExecuteStatement, Exit, serverVars

\* A process that runs after a step ran before it.
LEMMA RunningBefore ==
  ASSUME [Next]_vars, Running'
  PROVE  Running
BY Zenon DEF Next, vars, Running, ServerDropSession, Connect, CloseService, DeleteService,
       OpenSession, CloseSession, DeleteSession, ExecuteStatement, CloseOperation,
       QueryOperation, DeleteOperation

\* No step of a running debug build leaks a handle on a connection that is up.
LEMMA NoLeakNext ==
  ASSUME TypeOK, ServiceInv, SessionInv, OperationInv, ServerInv,
         NoLeakOnIntactConnection, TransportForward, ServerForward, [Next]_vars,
         \A s \in SessionPtrs : SessionStep(s),
         \A o \in OperationPtrs : OperationStep(o)
  PROVE  NoLeakOnIntactConnection'
<1> SUFFICES ASSUME Running', ~NDEBUG
             PROVE  NoLeakOnIntactConnection'
  BY Zenon DEF NoLeakOnIntactConnection
<1>1. Running
  BY RunningBefore, Zenon
<1>2. ASSUME NEW h \in SessionHandles, srvSession'[h].state = "live",
             transport'[srvSession'[h].conn] = "open"
      PROVE  \E s \in SessionPtrs : session'[s].open_ /\ session'[s].handle = h
  <2>1. CASE srvSession[h].state = "live"
    <3>1. transport[srvSession[h].conn] = "open"
      BY <1>2, <2>1, Zenon DEF ServerInv, ServerForward, TransportForward
    <3>2. PICK s \in SessionPtrs : session[s].open_ /\ session[s].handle = h
      BY <1>1, <2>1, <3>1, Zenon DEF NoLeakOnIntactConnection
    <3>3. QED
      BY <1>2, <3>2, OpenSessionStays, Zenon
  <2>2. CASE srvSession[h].state # "live"
    BY <1>2, <2>2, NewSessionHandle, Zenon
  <2>3. QED
    BY <2>1, <2>2, Zenon
<1>3. ASSUME NEW p \in OperationHandles, srvOp'[p].state = "live",
             transport'[srvSession'[srvOp'[p].session].conn] = "open"
      PROVE  \E o \in OperationPtrs : operation'[o].open_ /\ operation'[o].handle = p
  <2>1. CASE srvOp[p].state = "live"
    <3>1. transport[ConnOf(p)] = "open"
      BY <1>3, <2>1, Zenon DEF ServerInv, ServerForward, TransportForward, ConnOf
    <3>2. PICK o \in OperationPtrs : operation[o].open_ /\ operation[o].handle = p
      BY <1>1, <2>1, <3>1, Zenon DEF NoLeakOnIntactConnection
    <3>3. QED
      BY <1>3, <3>2, OpenOperationStays, Zenon
  <2>2. CASE srvOp[p].state # "live"
    BY <1>3, <2>2, NewOperationHandle, Zenon
  <2>3. QED
    BY <2>1, <2>2, Zenon
<1>4. QED
  BY <1>2, <1>3, Zenon DEF NoLeakOnIntactConnection, ConnOf

\* The Service object names a connection that was used.
LEMMA ServiceInvNext ==
  ASSUME TypeOK, ServiceInv, TransportForward, [Next]_vars
  PROVE  ServiceInv'
<1>1. CASE UNCHANGED service
  BY <1>1, Zenon DEF ServiceInv, TransportForward, TypeOK
<1>2. ASSUME NEW c \in Conns, NEW v \in ProtocolVersions, Connect(c, v)
      PROVE  ServiceInv'
  BY <1>1, <1>2, Zenon DEF Connect, Exit, ServiceInv, TypeOK
<1>3. CASE DeleteService
  BY <1>1, <1>3, Zenon DEF DeleteService, Exit, ServiceInv
<1>4. QED
  BY <1>1, <1>2, <1>3, Zenon
     DEF Next, vars, Exit, CloseService, OpenSession, OpenSessionOK, OpenSessionFails,
         CloseSession, DeleteSession, ExecuteStatement, ExecuteStatementOK,
         ExecuteStatementFails, CloseOperation, QueryOperation, clientVars,
         DeleteOperation, ServerDropSession, Fails

-----------------------------------------------------------------------------
\* The initial state satisfies the invariant.
LEMMA InvInit == Init => Inv
<1> SUFFICES ASSUME Init
             PROVE  Inv
  BY Zenon
<1>1. TypeOK
  BY TypeInit, Zenon
<1>2. /\ ServiceInv /\ SessionInv /\ OperationInv /\ DistinctHandles /\ ServerInv
  BY Zenon DEF Init, ServiceInv, SessionInv, SessionInvOf, OperationInv, OperationInvOf,
         DistinctHandles, ServerInv, NullSession, NullOperation
<1>3. NoLeakOnIntactConnection /\ OpenHandleIsLive
  BY Zenon DEF Init, NoLeakOnIntactConnection, OpenHandleIsLive, NullOperation
<1>4. QED
  BY <1>1, <1>2, <1>3, Zenon DEF Inv

\* Every step preserves the invariant.
LEMMA InvNext == Inv /\ [Next]_vars => Inv'
<1> SUFFICES ASSUME Inv, [Next]_vars
             PROVE  Inv'
  BY Zenon
<1> USE DEF Inv
<1>1. TypeOK'
  BY TypeNext, Zenon
<1>2. TransportForward /\ ServerStep
  BY TransportNext, ServerStepNext, Zenon
<1>3. ServerForward
  BY <1>2, ServerStepForward, Zenon
<1>4. /\ \A s \in SessionPtrs : SessionStep(s)
      /\ \A o \in OperationPtrs : OperationStep(o)
  BY SessionStepNext, OperationStepNext, Zenon
<1>5. SessionInv'
  BY <1>1, <1>2, <1>3, <1>4, SessionInvNext, Zenon DEF SessionInv
<1>6. OperationInv'
  BY <1>1, <1>2, <1>3, <1>4, OperationInvNext, Zenon DEF OperationInv
<1>7. DistinctHandles' /\ ServerInv' /\ ServiceInv'
  BY <1>2, <1>3, <1>4, DistinctHandlesNext, ServerInvNext, ServiceInvNext, Zenon
<1>8. NoLeakOnIntactConnection' /\ OpenHandleIsLive'
  BY <1>2, <1>3, <1>4, NoLeakNext, OpenHandleIsLiveNext, Zenon
<1>9. QED
  BY <1>1, <1>5, <1>6, <1>7, <1>8, Zenon

\* The inductive invariant holds in every behaviour of the client and the server.
THEOREM InvCorrect == Spec => []Inv
BY InvInit, InvNext, PTL DEF Spec

(***************************************************************************)
(* Whatever calls are made in whatever order, and whichever of them fail,  *)
(* no two open Operations share a handle and each keeps the session and    *)
(* the connection the server issued its handle under.                      *)
(***************************************************************************)
THEOREM HandlesOwned == Spec => []HandleOwnership
<1>1. Inv => HandleOwnership
  BY ConstantsAssumption, Zenon
     DEF Inv, HandleOwnership, OperationInv, OperationInvOf, DistinctHandles, ConnOf,
         TypeOK, OperationObjects
<1>2. QED
  BY <1>1, InvCorrect, PTL

(***************************************************************************)
(* A debug build leaks no session and no operation on a connection that is *)
(* up: every one alive on the server is held by an open client object.     *)
(***************************************************************************)
THEOREM NoLeak == Spec => []NoLeakOnIntactConnection
<1>1. Inv => NoLeakOnIntactConnection
  BY Zenon DEF Inv
<1>2. QED
  BY <1>1, InvCorrect, PTL

(***************************************************************************)
(* While the connection and the session are up, an open Operation's handle *)
(* is alive on the server.                                                 *)
(***************************************************************************)
THEOREM OpenIsLive == Spec => []OpenHandleIsLive
<1>1. Inv => OpenHandleIsLive
  BY Zenon DEF Inv
<1>2. QED
  BY <1>1, InvCorrect, PTL

(***************************************************************************)
(* An object whose last Close returned OK is not open, and the handle it   *)
(* still stores is freed on the server.                                    *)
(***************************************************************************)
THEOREM CloseOKIsTrue == Spec => []CloseOKReleases
<1>1. Inv => CloseOKReleases
  BY Zenon DEF Inv, CloseOKReleases, SessionInv, SessionInvOf, OperationInv, OperationInvOf
<1>2. QED
  BY <1>1, InvCorrect, PTL

-----------------------------------------------------------------------------
(***************************************************************************)
(* Python programs: their steps are steps of the C++ objects, and the      *)
(* parent references do what they are for.                                 *)
(***************************************************************************)
\* A step of a Python program is a step of the C++ objects, or leaves them alone.
LEMMA PyStepIsStep ==
  ASSUME [PyNext]_allVars
  PROVE  [Next]_vars
<1>1. CASE NewService
  BY <1>1 DEF NewService, PyProtocols, ProtocolVersions, Next
<1>2. CASE ServiceClose
  BY <1>2, Zenon DEF ServiceClose, Next
<1>3. ASSUME NEW s \in SessionPtrs, PyOpenSession(s) \/ PyCloseSession(s)
      PROVE  [Next]_vars
  BY <1>3, Zenon DEF PyOpenSession, PyCloseSession, Next
<1>4. ASSUME NEW s \in SessionPtrs, NEW o \in OperationPtrs, Execute(s, o)
      PROVE  [Next]_vars
  BY <1>4, Zenon DEF Execute, Next
<1>5. ASSUME NEW o \in OperationPtrs, PyCloseOperation(o) \/ PyQuery(o)
      PROVE  [Next]_vars
  BY <1>5, Zenon DEF PyCloseOperation, PyQuery, Next
<1>6. ASSUME NEW x \in PyObjects, Drop(x)
      PROVE  [Next]_vars
  BY <1>6, Zenon DEF Drop
<1>7. CASE Destroy
  BY <1>7, Zenon DEF Destroy, Next
<1>8. ASSUME NEW x \in PyObjects, Dealloc(x)
      PROVE  [Next]_vars
  BY <1>8, Zenon DEF Dealloc, DeallocOperation, DeallocSession, DeallocService, Next
<1>9. ASSUME NEW h \in SessionHandles, PyServerDrop(h)
      PROVE  [Next]_vars
  BY <1>9, Zenon DEF PyServerDrop, Next
<1>10. CASE UNCHANGED allVars
  BY <1>10, Zenon DEF allVars
<1>11. QED
  BY <1>1, <1>2, <1>3, <1>4, <1>5, <1>6, <1>7, <1>8, <1>9, <1>10, Zenon DEF PyNext, Collect

(***************************************************************************)
(* The Python classes use the C++ classes as HS2Client allows: every       *)
(* behaviour of ext.pyx is a behaviour of the C++ objects.                 *)
(***************************************************************************)
THEOREM PyImplementsClient == PySpec => Spec
<1>1. PyInit => Init
  BY Zenon DEF PyInit
<1>2. [PyNext]_allVars => [Next]_vars
  BY PyStepIsStep, Zenon
<1>3. QED
  BY <1>1, <1>2, PTL DEF PySpec, Spec

(***************************************************************************)
(* In a Python program, too, open Operations own their handles and a Close *)
(* that returned has released its handle.                                  *)
(***************************************************************************)
THEOREM PyHandles == PySpec => [](HandleOwnership /\ CloseOKReleases)
BY PyImplementsClient, HandlesOwned, CloseOKIsTrue, PTL

-----------------------------------------------------------------------------
(***************************************************************************)
(* No null client: the transport of a Python Service is never "null".      *)
(***************************************************************************)
NoNull ==
  /\ \A c \in Conns : transport[c] # "null"
  /\ process # "crashed"

\* A call does not make a transport null.
LEMMA CallNoNull ==
  ASSUME TypeOK, NEW c, Delivered(c) \/ Thrown(c), \A d \in Conns : transport[d] # "null"
  PROVE  \A d \in Conns : transport'[d] # "null"
BY Zenon DEF TypeOK, Delivered, Thrown

\* Exit by a DCHECK makes no transport null.
LEMMA AbortNoNull ==
  ASSUME NoNull, Exit("aborted")
  PROVE  NoNull'
BY Zenon DEF NoNull, Exit

\* Python code never sees a null transport, because PyProtocols are supported.
LEMMA NoNullNext ==
  ASSUME TypeOK, NoNull, [PyNext]_allVars
  PROVE  NoNull'
<1>1. CASE NewService
  <2>1. PICK c \in Conns, v \in PyProtocols : Connect(c, v)
    BY <1>1, Zenon DEF NewService
  <2>2. ~(v < 6)
    BY DEF PyProtocols
  <2>3. CASE Exit("aborted")
    BY <2>3, AbortNoNull, Zenon
  <2>4. CASE ~Exit("aborted")
    <3>1. /\ \E t \in {"open", "closed"} : transport' = [transport EXCEPT ![c] = t]
          /\ process' = process
      BY <2>1, <2>2, <2>4, Zenon DEF Connect
    <3>2. QED
      BY <3>1, Zenon DEF TypeOK, NoNull
  <2>5. QED
    BY <2>3, <2>4, Zenon
<1>2. ASSUME CloseService
      PROVE  NoNull'
  BY <1>2, Zenon DEF CloseService, TypeOK, NoNull
<1>3. ASSUME NEW s \in SessionPtrs, OpenSession(s)
      PROVE  NoNull'
  <2>1. service \in Conns
    BY <1>3, Zenon DEF OpenSession, TypeOK
  <2>2. transport[service] # "null"
    BY <2>1, Zenon DEF NoNull
  <2>3. CASE OpenSessionOK(s)
    BY <2>3, CallNoNull, Zenon DEF OpenSessionOK, NoNull
  <2>4. CASE OpenSessionFails(s)
    BY <2>4, CallNoNull, Zenon DEF OpenSessionFails, Fails, NoNull
  <2>5. QED
    BY <1>3, <2>2, <2>3, <2>4, AbortNoNull, Zenon DEF OpenSession
<1>4. ASSUME NEW s \in SessionPtrs, CloseSession(s)
      PROVE  NoNull'
  <2>1. CASE UNCHANGED transport
    BY <1>4, <2>1, Zenon DEF CloseSession, NoNull
  <2>2. CASE CloseSessionOK(s)
    BY <1>4, <2>2, CallNoNull, Zenon DEF CloseSession, CloseSessionOK, NoNull
  <2>3. CASE CloseSessionFails(s)
    BY <1>4, <2>3, CallNoNull, Zenon DEF CloseSession, CloseSessionFails, Fails, NoNull
  <2>4. QED
    BY <1>4, <2>1, <2>2, <2>3, Zenon DEF CloseSession
<1>5. ASSUME NEW s \in SessionPtrs, NEW o \in OperationPtrs, ExecuteStatement(s, o)
      PROVE  NoNull'
  <2>1. CASE ExecuteStatementOK(s, o)
    BY <2>1, CallNoNull, Zenon DEF ExecuteStatementOK, NoNull
  <2>2. CASE ExecuteStatementFails(s, o)
    BY <2>2, CallNoNull, Zenon DEF ExecuteStatementFails, Fails, NoNull
  <2>3. QED
    BY <1>5, <2>1, <2>2, AbortNoNull, Zenon DEF ExecuteStatement
<1>6. ASSUME NEW o \in OperationPtrs, CloseOperation(o)
      PROVE  NoNull'
  <2>1. CASE UNCHANGED transport
    BY <1>6, <2>1, Zenon DEF CloseOperation, NoNull
  <2>2. CASE CloseOperationOK(o)
    BY <1>6, <2>2, CallNoNull, Zenon DEF CloseOperation, CloseOperationOK, NoNull
  <2>3. CASE CloseOperationFails(o)
    BY <1>6, <2>3, CallNoNull, Zenon DEF CloseOperation, CloseOperationFails, Fails, NoNull
  <2>4. QED
    BY <1>6, <2>1, <2>2, <2>3, Zenon DEF CloseOperation
<1>7. ASSUME NEW o \in OperationPtrs, QueryOperation(o)
      PROVE  NoNull'
  BY <1>7, CallNoNull, Zenon DEF QueryOperation, clientVars, NoNull
<1>8. CASE Destroy
  BY <1>8, AbortNoNull, Zenon
     DEF Destroy, DeleteOperation, DeleteSession, DeleteService, NoNull
<1>9. ASSUME NEW h \in SessionHandles, PyServerDrop(h)
      PROVE  NoNull'
  BY <1>9, Zenon DEF PyServerDrop, ServerDropSession, NoNull
<1>10. CASE UNCHANGED vars
  BY <1>10, Zenon DEF vars, NoNull
<1>11. ASSUME NEW x \in PyObjects, Dealloc(x)
       PROVE  NoNull'
  BY <1>2, <1>4, <1>6, <1>10, <1>11, Zenon
     DEF Dealloc, DeallocOperation, DeallocSession, DeallocService
<1>12. ASSUME NEW x \in PyObjects, Drop(x)
       PROVE  NoNull'
  BY <1>10, <1>12, Zenon DEF Drop
<1>13. QED
  <2>1. CASE UNCHANGED allVars
    BY <1>10, <2>1, Zenon DEF allVars
  <2>2. CASE PyNext
    BY <1>1, <1>2, <1>3, <1>4, <1>5, <1>6, <1>7, <1>8, <1>9, <1>11, <1>12, <2>2, Zenon
       DEF PyNext, Collect, ServiceClose, PyOpenSession, PyCloseSession, Execute,
           PyCloseOperation, PyQuery
  <2>3. QED
    BY <2>1, <2>2, Zenon

(***************************************************************************)
(* A Python program never calls through a null Thrift client, whatever     *)
(* fails and in whatever order it drops and closes its objects.            *)
(***************************************************************************)
THEOREM PyNeverCrashes == PySpec => []NoNullClient
<1>1. PyInit => TypeOK /\ NoNull
  <2>1. ASSUME PyInit PROVE NoNull
    BY <2>1, Zenon DEF PyInit, Init, NoNull
  <2>2. QED
    BY <2>1, TypeInit, Zenon DEF PyInit
<1>2. (TypeOK /\ NoNull) /\ [PyNext]_allVars => (TypeOK /\ NoNull)'
  BY PyStepIsStep, TypeNext, NoNullNext, Zenon
<1>3. TypeOK /\ NoNull => NoNullClient
  BY Zenon DEF NoNull, NoNullClient
<1>4. QED
  BY <1>1, <1>2, <1>3, PTL DEF PySpec

-----------------------------------------------------------------------------
(***************************************************************************)
(* Parents.  The inductive invariant adds to ParentsOutliveChildren that   *)
(* an object whose __dealloc__ has run has no children, and gets none      *)
(* before it is deleted.  Family is ParentsOutliveChildren said of the C++ *)
(* objects, with the connection of a Session being a real one.             *)
(***************************************************************************)
Family ==
  /\ \A o \in OperationPtrs : operation[o].exists =>
       /\ parent[o] \in SessionPtrs
       /\ session[parent[o]].exists
       /\ session[parent[o]].conn = operation[o].conn
  /\ \A s \in SessionPtrs : session[s].exists =>
       session[s].conn = service /\ session[s].conn \in Conns

Childless(x) ==
  /\ x = PyService => \A s \in SessionPtrs : ~session[s].exists
  /\ \A o \in OperationPtrs : operation[o].exists => parent[o] # x

DyingIsChildless == dying # Nobody => Childless(dying)

PyInv ==
  /\ TypeOK
  /\ PyTypeOK
  /\ Running => Family /\ DyingIsChildless

\* Alive says of each kind of object that its C++ object exists.
LEMMA AliveExists ==
  /\ Alive(PyService) <=> service # NoConn
  /\ \A s \in SessionPtrs : Alive(s) <=> session[s].exists
  /\ \A o \in OperationPtrs : Alive(o) <=> operation[o].exists
BY PyObjectsAssumption, Zenon DEF Alive

\* HasChild and Childless are opposites.
LEMMA ChildlessHasNoChild ==
  ASSUME NEW x
  PROVE  ~HasChild(x) => Childless(x)
BY AliveExists, Zenon DEF HasChild, Childless

\* Closing a Session changes neither which objects exist nor their connections.
LEMMA CloseSessionKeeps ==
  ASSUME TypeOK, NEW s \in SessionPtrs, CloseSession(s), NEW t \in SessionPtrs
  PROVE  session'[t].exists = session[t].exists /\ session'[t].conn = session[t].conn
<1> USE DEF TypeOK, SessionObjects
<1>1. CASE session' = [session EXCEPT ![s].last = "closeOK"]
  BY <1>1
<1>2. CASE session' = [session EXCEPT ![s].last = "closeErr"]
  BY <1>2
<1>3. CASE session' = [session EXCEPT ![s] = [@ EXCEPT !.open_ = FALSE, !.last = "closeOK"]]
  BY <1>3
<1>4. QED
  BY <1>1, <1>2, <1>3, Zenon DEF CloseSession, CloseSessionOK, CloseSessionFails

\* Closing an Operation changes neither which objects exist nor their connections.
LEMMA CloseOperationKeeps ==
  ASSUME TypeOK, NEW o \in OperationPtrs, CloseOperation(o), NEW q \in OperationPtrs
  PROVE  /\ operation'[q].exists = operation[q].exists
         /\ operation'[q].conn = operation[q].conn
<1> USE DEF TypeOK, OperationObjects
<1>1. CASE operation' = [operation EXCEPT ![o].last = "closeOK"]
  BY <1>1
<1>2. CASE operation' = [operation EXCEPT ![o].last = "closeErr"]
  BY <1>2
<1>3. CASE operation' = [operation EXCEPT ![o] = [@ EXCEPT !.open_ = FALSE, !.last = "closeOK"]]
  BY <1>3
<1>4. QED
  BY <1>1, <1>2, <1>3, Zenon DEF CloseOperation, CloseOperationOK, CloseOperationFails

\* A step leaves existence, connections and parents alone.
Kept ==
  /\ service' = service
  /\ parent' = parent
  /\ \A s \in SessionPtrs :
       session'[s].exists = session[s].exists /\ session'[s].conn = session[s].conn
  /\ \A o \in OperationPtrs :
       /\ operation'[o].exists = operation[o].exists
       /\ operation'[o].conn = operation[o].conn

\* Such a step keeps Family and Childless.
LEMMA KeptFamily ==
  ASSUME Kept
  PROVE  /\ Family => Family'
         /\ \A x : Childless(x) => Childless(x)'
BY DEF Kept, Family, Childless
\* The Python variables keep their types.
LEMMA PyTypeNext ==
  ASSUME PyTypeOK, [PyNext]_allVars
  PROVE  PyTypeOK'
<1> USE DEF PyTypeOK, PyObjects
<1>1. ASSUME NEW x \in PyObjects, NEW ok, Returned(x, ok)
      PROVE  held' \subseteq PyObjects /\ clean' \in BOOLEAN
  BY <1>1, Zenon DEF Returned
<1>2. CASE NewService
  BY <1>1, <1>2, Zenon DEF NewService
<1>3. CASE ServiceClose
  BY <1>3, Zenon DEF ServiceClose
<1>4. ASSUME NEW s \in SessionPtrs, PyOpenSession(s)
      PROVE  PyTypeOK'
  BY <1>1, <1>4, Zenon DEF PyOpenSession
<1>5. ASSUME NEW s \in SessionPtrs, PyCloseSession(s)
      PROVE  PyTypeOK'
  BY <1>5, Zenon DEF PyCloseSession
<1>6. ASSUME NEW s \in SessionPtrs, NEW o \in OperationPtrs, Execute(s, o)
      PROVE  PyTypeOK'
  BY <1>1, <1>6, Zenon DEF Execute
<1>7. ASSUME NEW o \in OperationPtrs, PyCloseOperation(o) \/ PyQuery(o)
      PROVE  PyTypeOK'
  BY <1>7, Zenon DEF PyCloseOperation, PyQuery
<1>8. ASSUME NEW x \in PyObjects, Drop(x)
      PROVE  PyTypeOK'
  BY <1>8, Zenon DEF Drop
<1>9. CASE Destroy
  BY <1>9, Zenon DEF Destroy
<1>10. ASSUME NEW x \in PyObjects, Dealloc(x)
       PROVE  PyTypeOK'
  <2>1. clean' \in BOOLEAN
    BY <1>10, Zenon DEF Dealloc, DeallocOperation, DeallocSession, DeallocService
  <2>2. QED
    BY <1>10, <2>1, Zenon DEF Dealloc
<1>11. ASSUME NEW h \in SessionHandles, PyServerDrop(h)
       PROVE  PyTypeOK'
  BY <1>11, Zenon DEF PyServerDrop
<1>12. CASE UNCHANGED allVars
  BY <1>12, Zenon DEF allVars, pyVars
<1>13. QED
  BY <1>2, <1>3, <1>4, <1>5, <1>6, <1>7, <1>8, <1>9, <1>10, <1>11, <1>12, Zenon
     DEF PyNext, Collect

\* Every step of a program that goes on running keeps the invariant.
LEMMA FamilyNext ==
  ASSUME PyInv, Running, Running', [PyNext]_allVars
  PROVE  Family' /\ DyingIsChildless'
<1> USE DEF PyInv
<1>0. TypeOK /\ PyTypeOK /\ Family /\ DyingIsChildless
  BY Zenon
<1>t. DOMAIN session = SessionPtrs /\ DOMAIN operation = OperationPtrs
  BY <1>0, Zenon DEF TypeOK
<1>c. ASSUME dying' = Nobody
      PROVE  DyingIsChildless'
  BY <1>c, Zenon DEF DyingIsChildless
<1>d. ASSUME NEW x, dying' = x, Childless(x), Kept
      PROVE  DyingIsChildless'
  BY <1>d, Zenon DEF DyingIsChildless, Childless, Kept
<1>a. ASSUME Exit("aborted")
      PROVE  FALSE
  BY <1>a, Zenon DEF Exit, Running
<1>b. ASSUME Exit("crashed")
      PROVE  FALSE
  BY <1>b, Zenon DEF Exit, Running
<1>1. CASE NewService
  <2>1. PICK c \in Conns, v \in PyProtocols : Connect(c, v)
    BY <1>1, Zenon DEF NewService
  <2>2. session' = session /\ operation' = operation /\ parent' = parent
        /\ dying' = Nobody
    BY <1>1, <2>1, <1>a, Zenon DEF NewService, Connect, InProgram
  <2>3. \A s \in SessionPtrs : ~session[s].exists
    BY <1>0, <1>1, ConstantsAssumption, Zenon DEF NewService, Family
  <2>4. QED
    BY <1>0, <2>2, <2>3, <1>c, Zenon DEF Family
<1>2. CASE ServiceClose
  <2>1. Kept /\ dying' = Nobody
    BY <1>2, Zenon DEF ServiceClose, CloseService, InProgram, Kept
  <2>2. QED
    BY <1>0, <2>1, <1>c, KeptFamily, Zenon
<1>3. ASSUME NEW s \in SessionPtrs, PyOpenSession(s)
      PROVE  Family' /\ dying' = Nobody
  <2>1. /\ \A t \in SessionPtrs \ {s} : session'[t] = session[t]
        /\ session'[s].conn = service
    <3>0. DOMAIN session = SessionPtrs
      BY <1>0, Zenon DEF TypeOK
    <3>1. CASE OpenSessionOK(s)
      <4>1. PICK h : session' = [session EXCEPT ![s] = OpenedSession(service, h)]
        BY <3>1, Zenon DEF OpenSessionOK
      <4>2. QED
        BY <3>0, <4>1, Zenon DEF OpenedSession
    <3>2. CASE OpenSessionFails(s)
      <4>1. session' = [session EXCEPT ![s] = FailedSession(service)]
        BY <3>2, Zenon DEF OpenSessionFails
      <4>2. QED
        BY <3>0, <4>1, Zenon DEF FailedSession
    <3>3. QED
      BY <1>3, <3>1, <3>2, <1>a, <1>b, Zenon DEF PyOpenSession, OpenSession
  <2>2. service' = service /\ operation' = operation
    BY <1>3, <1>a, <1>b, Zenon DEF PyOpenSession, OpenSession, OpenSessionOK, OpenSessionFails
  <2>3. parent' = parent /\ dying' = Nobody /\ ~session[s].exists /\ service \in Conns
    BY <1>0, <1>3, Zenon DEF PyOpenSession, OpenSession, InProgram, TypeOK
  <2>4. \A o \in OperationPtrs : operation[o].exists => parent[o] # s
    BY <1>0, <2>3, Zenon DEF Family
  <2>5. QED
    BY <1>0, <2>1, <2>2, <2>3, <2>4 DEF Family
<1>4. ASSUME NEW s \in SessionPtrs, PyCloseSession(s)
      PROVE  Kept /\ dying' = Nobody
  BY <1>0, <1>4, CloseSessionKeeps, Zenon DEF PyCloseSession, CloseSession, InProgram, Kept
<1>5. ASSUME NEW s \in SessionPtrs, NEW o \in OperationPtrs, Execute(s, o)
      PROVE  Family' /\ dying' = Nobody
  <2>1. /\ \A q \in OperationPtrs \ {o} : operation'[q] = operation[q]
        /\ operation'[o].conn = session[s].conn
    <3>1. CASE ExecuteStatementOK(s, o)
      <4>1. PICK p \in OperationHandles : operation' = [operation EXCEPT ![o] =
                    OpenedOperation(session[s].conn, session[s].handle, p)]
        BY <3>1, Zenon DEF ExecuteStatementOK
      <4>2. QED
        BY <1>t, <4>1, Zenon DEF OpenedOperation
    <3>2. CASE ExecuteStatementFails(s, o)
      BY <1>0, <3>2, Zenon DEF ExecuteStatementFails, FailedOperation, TypeOK
    <3>3. QED
      BY <1>5, <3>1, <3>2, <1>a, Zenon DEF Execute, ExecuteStatement
  <2>2. service' = service /\ session' = session
    BY <1>5, <1>a, Zenon DEF Execute, ExecuteStatement, ExecuteStatementOK, ExecuteStatementFails
  <2>3. /\ parent' = [parent EXCEPT ![o] = s]
        /\ dying' = Nobody
        /\ session[s].exists
    BY <1>5, AliveExists, Zenon DEF Execute, SessionReachable, InProgram
  <2>4. \A q \in OperationPtrs : parent'[q] = IF q = o THEN s ELSE parent[q]
    BY <1>0, <2>3, Zenon DEF PyTypeOK
  <2>5. QED
    BY <1>0, <2>1, <2>2, <2>3, <2>4 DEF Family
<1>6. ASSUME NEW o \in OperationPtrs, PyCloseOperation(o)
      PROVE  Kept /\ dying' = Nobody
  BY <1>0, <1>6, CloseOperationKeeps, Zenon DEF PyCloseOperation, CloseOperation, InProgram, Kept
<1>7. ASSUME NEW o \in OperationPtrs, PyQuery(o)
      PROVE  Kept /\ dying' = Nobody
  BY <1>7, Zenon DEF PyQuery, QueryOperation, clientVars, InProgram, Kept
<1>8. ASSUME NEW x \in PyObjects, Drop(x)
      PROVE  Kept /\ dying' = Nobody
  BY <1>8, Zenon DEF Drop, vars, InProgram, Kept
<1>9. ASSUME Destroy
      PROVE  Family' /\ dying' = Nobody
  <2>1. dying # Nobody /\ dying' = Nobody
    BY <1>9, PyObjectsAssumption, Zenon DEF Destroy
  <2>2. Childless(dying)
    BY <1>0, <2>1, Zenon DEF DyingIsChildless
  <2>3. CASE dying \in OperationPtrs
    <3>1. DeleteOperation(dying)
      BY <1>9, <2>3, PyObjectsAssumption, Zenon DEF Destroy
    <3>2. /\ operation' = [operation EXCEPT ![dying] = NullOperation]
          /\ service' = service /\ session' = session
      BY <3>1, <1>a, Zenon DEF DeleteOperation
    <3>3. \A o \in OperationPtrs :
            /\ operation'[o] = IF o = dying THEN NullOperation ELSE operation[o]
            /\ parent'[o] = IF o = dying THEN Nobody ELSE parent[o]
      BY <1>0, <1>9, <3>2, Zenon DEF Destroy, TypeOK
    <3>4. ~NullOperation.exists
      BY Zenon DEF NullOperation
    <3>5. QED
      BY <1>0, <2>1, <3>2, <3>3, <3>4 DEF Family
  <2>4. CASE dying \notin OperationPtrs
    <3>1. \A o \in OperationPtrs : parent'[o] = parent[o]
      BY <1>9, <2>4, Zenon DEF Destroy
    <3>2. CASE dying \in SessionPtrs
      <4>1. DeleteSession(dying)
        BY <1>9, <3>2, <2>4, PyObjectsAssumption, Zenon DEF Destroy
      <4>2. /\ session' = [session EXCEPT ![dying] = NullSession]
            /\ service' = service /\ operation' = operation
        BY <4>1, <1>a, Zenon DEF DeleteSession
      <4>3. \A s \in SessionPtrs :
              session'[s] = IF s = dying THEN NullSession ELSE session[s]
        BY <1>t, <4>2, Zenon
      <4>4. ~NullSession.exists
        BY Zenon DEF NullSession
      <4>5. \A o \in OperationPtrs : operation[o].exists => parent[o] # dying
        BY <2>2, Zenon DEF Childless
      <4>6. ASSUME NEW o \in OperationPtrs, operation'[o].exists
            PROVE  /\ parent'[o] \in SessionPtrs /\ session'[parent'[o]].exists
                   /\ session'[parent'[o]].conn = operation'[o].conn
        <5>1. /\ parent'[o] = parent[o] /\ operation'[o] = operation[o]
              /\ parent[o] # dying
          BY <3>1, <4>2, <4>5, <4>6, Zenon
        <5>2. /\ parent[o] \in SessionPtrs /\ session[parent[o]].exists
              /\ session[parent[o]].conn = operation[o].conn
          BY <1>0, <4>6, <5>1, Zenon DEF Family
        <5>3. QED
          BY <4>3, <5>1, <5>2, Zenon
      <4>7. ASSUME NEW s \in SessionPtrs, session'[s].exists
            PROVE  session'[s].conn = service' /\ session'[s].conn \in Conns
        <5>1. session'[s] = session[s]
          BY <4>3, <4>4, <4>7, Zenon
        <5>2. QED
          BY <1>0, <4>2, <4>7, <5>1, Zenon DEF Family
      <4>8. QED
        BY <2>1, <4>6, <4>7, Zenon DEF Family
    <3>3. CASE dying \notin SessionPtrs
      <4>1. dying = PyService /\ DeleteService
        BY <1>9, <3>3, <2>4, Zenon DEF Destroy
      <4>2. session' = session /\ operation' = operation
        BY <4>1, <1>a, Zenon DEF DeleteService
      <4>3. \A s \in SessionPtrs : ~session[s].exists
        BY <2>2, <4>1, Zenon DEF Childless
      <4>4. QED
        BY <1>0, <2>1, <3>1, <4>2, <4>3, Zenon DEF Family
    <3>4. QED
      BY <3>2, <3>3, Zenon
  <2>5. QED
    BY <2>3, <2>4, Zenon
<1>10. ASSUME NEW x \in PyObjects, Dealloc(x)
       PROVE  Kept /\ dying' = x /\ Childless(x)
  <2>1. dying' = x /\ Childless(x) /\ parent' = parent
    BY <1>10, ChildlessHasNoChild, Zenon DEF Dealloc, Garbage
  <2>2. CASE x \in OperationPtrs /\ DeallocOperation(x)
    BY <1>0, <2>1, <2>2, CloseOperationKeeps, Zenon DEF DeallocOperation, CloseOperation, Kept
  <2>3. CASE x \in SessionPtrs /\ DeallocSession(x)
    BY <1>0, <2>1, <2>3, CloseSessionKeeps, Zenon DEF DeallocSession, CloseSession, Kept
  <2>4. CASE DeallocService
    BY <2>1, <2>4, Zenon DEF DeallocService, CloseService, vars, Kept
  <2>5. QED
    BY <1>10, <2>1, <2>2, <2>3, <2>4, Zenon DEF Dealloc
<1>11. ASSUME NEW h \in SessionHandles, PyServerDrop(h)
       PROVE  Kept /\ dying' = dying
  BY <1>11, Zenon DEF PyServerDrop, ServerDropSession, Kept
<1>e. ASSUME Kept, dying' = dying
      PROVE  DyingIsChildless'
  BY <1>0, <1>e, Zenon DEF DyingIsChildless, Childless, Kept
<1>13. CASE \E s \in SessionPtrs : PyOpenSession(s) \/ PyCloseSession(s)
  BY <1>0, <1>3, <1>4, <1>13, <1>c, KeptFamily, Zenon
<1>14. CASE \E o \in OperationPtrs : PyCloseOperation(o) \/ PyQuery(o)
  BY <1>0, <1>6, <1>7, <1>14, <1>c, KeptFamily, Zenon
<1>15. QED
  <2>1. CASE Collect
    BY <1>0, <1>9, <1>10, <2>1, <1>c, <1>d, KeptFamily, Zenon DEF Collect
  <2>2. CASE \E h \in SessionHandles : PyServerDrop(h)
    BY <1>0, <1>11, <2>2, <1>e, KeptFamily, Zenon
  <2>3. CASE UNCHANGED allVars
    <3>1. Kept /\ dying' = dying
      BY <2>3, Zenon DEF allVars, vars, pyVars, Kept
    <3>2. QED
      BY <1>0, <3>1, <1>e, KeptFamily, Zenon
  <2>4. CASE \E s \in SessionPtrs, o \in OperationPtrs : Execute(s, o)
    BY <1>5, <1>c, <2>4, Zenon
  <2>5. CASE \E x \in PyObjects : Drop(x)
    BY <1>0, <1>8, <1>c, <2>5, KeptFamily, Zenon
  <2>6. QED
    BY <1>1, <1>2, <1>13, <1>14, <2>1, <2>2, <2>3, <2>4, <2>5, Zenon DEF PyNext
\* A process that has ended does not run again.
LEMMA StaysStopped ==
  ASSUME [PyNext]_allVars, Running'
  PROVE  Running
<1>1. CASE Next
  BY <1>1, Zenon DEF Next, Connect, CloseService, DeleteService, OpenSession, CloseSession,
     DeleteSession, ExecuteStatement, CloseOperation, QueryOperation, DeleteOperation,
     ServerDropSession, Running
<1>2. CASE UNCHANGED vars
  BY <1>2, Zenon DEF vars, Running
<1>3. QED
  BY <1>1, <1>2, PyStepIsStep, Zenon

\* The invariant holds in every state of a Python program.
THEOREM PyInvCorrect == PySpec => []PyInv
<1>1. PyInit => PyInv
  <2> SUFFICES ASSUME PyInit
               PROVE  PyInv
    BY Zenon
  <2>1. TypeOK
    BY TypeInit, Zenon DEF PyInit
  <2>2. PyTypeOK
    BY Zenon DEF PyInit, PyTypeOK
  <2>3. DyingIsChildless
    BY Zenon DEF PyInit, DyingIsChildless
  <2>4. /\ \A s \in SessionPtrs : ~session[s].exists
        /\ \A o \in OperationPtrs : ~operation[o].exists
    BY Zenon DEF PyInit, Init, NullSession, NullOperation
  <2>5. QED
    BY <2>1, <2>2, <2>3, <2>4, Zenon DEF PyInv, Family
<1>2. PyInv /\ [PyNext]_allVars => PyInv'
  <2> SUFFICES ASSUME PyInv, [PyNext]_allVars
               PROVE  PyInv'
    BY Zenon
  <2>1. TypeOK' /\ PyTypeOK'
    BY PyStepIsStep, TypeNext, PyTypeNext, Zenon DEF PyInv
  <2>2. ASSUME Running'
        PROVE  Family' /\ DyingIsChildless'
    BY <2>2, StaysStopped, FamilyNext, Zenon
  <2>3. QED
    BY <2>1, <2>2, Zenon DEF PyInv
<1>3. QED
  BY <1>1, <1>2, PTL DEF PySpec

(***************************************************************************)
(* For any numbers of objects: no Session is collected before its          *)
(* Operations, and no Service before its Sessions.                         *)
(***************************************************************************)
THEOREM ParentsKept == PySpec => []ParentsOutliveChildren
<1>1. PyInv => ParentsOutliveChildren
  BY AliveExists, Zenon DEF PyInv, Family, ParentsOutliveChildren
<1>2. QED
  BY <1>1, PyInvCorrect, PTL

\* The references held, the parents of operations and the object being collected
\* stay what they may be.
THEOREM PyTypes == PySpec => []PyTypeOK
<1>1. PyInv => PyTypeOK
  BY Zenon DEF PyInv
<1>2. QED
  BY <1>1, PyInvCorrect, PTL
-----------------------------------------------------------------------------
(***************************************************************************)
(* Programs that close in order.  As long as they do, the object that is   *)
(* about to be deleted is closed, and every handle alive on the server is  *)
(* held by an object whose open_ is true.                                  *)
(***************************************************************************)
DyingIsClosed ==
  /\ dying \in SessionPtrs => ~session[dying].open_
  /\ dying \in OperationPtrs => ~operation[dying].open_
  /\ dying = PyService => ~IsConnected

Covered ==
  /\ \A h \in SessionHandles : srvSession[h].state = "live" =>
       \E s \in SessionPtrs : session[s].open_ /\ session[s].handle = h
  /\ \A p \in OperationHandles : srvOp[p].state = "live" =>
       \E o \in OperationPtrs : operation[o].open_ /\ operation[o].handle = p

CleanInv == clean => process # "aborted" /\ DyingIsClosed /\ Covered

\* A step that changes neither the objects nor the server.
LEMMA SameCovered ==
  ASSUME Covered, UNCHANGED <<session, operation, serverVars>>
  PROVE  Covered'
BY Zenon DEF Covered, serverVars

\* An object that does not exist is not open.
LEMMA OpenExists ==
  ASSUME Inv
  PROVE  /\ \A s \in SessionPtrs : session[s].open_ => session[s].exists
         /\ \A o \in OperationPtrs : operation[o].open_ => operation[o].exists
BY Zenon DEF Inv, SessionInv, SessionInvOf, OperationInv, OperationInvOf

\* A Session that opens holds the handle the server issued.
LEMMA OpenSessionCovers ==
  ASSUME Inv, Covered, NEW s \in SessionPtrs, OpenSession(s), ~session[s].exists,
         session'[s].open_
  PROVE  Covered' /\ process' = process
<1>0. TypeOK /\ ~session[s].open_
  BY OpenExists, Zenon DEF Inv
<1>1. OpenSessionOK(s)
  <2>1. ASSUME OpenSessionFails(s) PROVE FALSE
    <3>1. session'[s] = FailedSession(service)
      BY <1>0, <2>1, Zenon DEF OpenSessionFails, TypeOK
    <3>. QED BY <3>1 DEF FailedSession
  <2>2. ASSUME NEW how, Exit(how) PROVE FALSE
    BY <1>0, <2>2, Zenon DEF Exit
  <2>. QED BY <2>1, <2>2, Zenon DEF OpenSession
<1>2. PICK h \in SessionHandles :
        /\ ServerOpenSession(service, h)
        /\ session' = [session EXCEPT ![s] = OpenedSession(service, h)]
  BY <1>1, Zenon DEF OpenSessionOK
<1>3. session'[s].handle = h /\ \A t \in SessionPtrs \ {s} : session'[t] = session[t]
  BY <1>0, <1>2, Zenon DEF OpenedSession, TypeOK
<1>4. \A g \in SessionHandles : g # h => srvSession'[g] = srvSession[g]
  BY <1>0, <1>2, Zenon DEF ServerOpenSession, TypeOK
<1>5. UNCHANGED <<srvOp, operation, process>>
  BY <1>1, <1>2, Zenon DEF OpenSessionOK, ServerOpenSession
<1>. QED BY <1>0, <1>3, <1>4, <1>5 DEF Covered

\* An Operation that opens holds the handle the server issued.
LEMMA ExecuteCovers ==
  ASSUME Inv, Covered, NEW s \in SessionPtrs, NEW o \in OperationPtrs,
         ExecuteStatement(s, o), ~operation[o].exists, operation'[o].open_
  PROVE  Covered' /\ process' = process
<1>0. TypeOK /\ ~operation[o].open_
  BY OpenExists, Zenon DEF Inv
<1>1. ExecuteStatementOK(s, o)
  <2>1. ASSUME ExecuteStatementFails(s, o) PROVE FALSE
    <3>1. operation'[o] = FailedOperation(session[s].conn)
      BY <1>0, <2>1, Zenon DEF ExecuteStatementFails, TypeOK
    <3>. QED BY <3>1 DEF FailedOperation
  <2>2. ASSUME NEW how, Exit(how) PROVE FALSE
    BY <1>0, <2>2, Zenon DEF Exit
  <2>. QED BY <2>1, <2>2, Zenon DEF ExecuteStatement
<1>2. PICK p \in OperationHandles :
        /\ ServerExecuteStatement(session[s].handle, p)
        /\ operation' = [operation EXCEPT ![o] =
             OpenedOperation(session[s].conn, session[s].handle, p)]
  BY <1>1, Zenon DEF ExecuteStatementOK
<1>3. operation'[o].handle = p /\ \A q \in OperationPtrs \ {o} : operation'[q] = operation[q]
  BY <1>0, <1>2, Zenon DEF OpenedOperation, TypeOK
<1>4. \A q \in OperationHandles : q # p => srvOp'[q] = srvOp[q]
  BY <1>0, <1>2, Zenon DEF ServerExecuteStatement, TypeOK
<1>5. UNCHANGED <<srvSession, session, process>>
  BY <1>1, <1>2, Zenon DEF ExecuteStatementOK, ServerExecuteStatement
<1>. QED BY <1>0, <1>3, <1>4, <1>5 DEF Covered

\* A Session that is closed after Close had no live handle, or has it no more.
LEMMA CloseSessionCovers ==
  ASSUME TypeOK, Covered, NEW s \in SessionPtrs, CloseSession(s), ~session'[s].open_
  PROVE  Covered' /\ process' = process
<1>0. UNCHANGED <<process, operation>>
  BY Zenon DEF CloseSession
<1>1. CASE ~session[s].open_
  <2>1. session' = [session EXCEPT ![s].last = "closeOK"] /\ UNCHANGED serverVars
    BY <1>1, Zenon DEF CloseSession, CloseSessionOK, CloseSessionFails
  <2>2. \A t \in SessionPtrs : session[t].open_ => session'[t] = session[t]
    BY <1>1, <2>1, Zenon DEF TypeOK
  <2>. QED BY <1>0, <2>1, <2>2 DEF Covered, serverVars
<1>2. CASE session[s].open_
  <2>1. CloseSessionOK(s)
    <3>1. ~CloseSessionFails(s)
      <4>1. ASSUME session' = [session EXCEPT ![s].last = "closeErr"] PROVE FALSE
        BY <4>1, <1>2, Zenon DEF TypeOK, SessionObjects
      <4>. QED BY <4>1, Zenon DEF CloseSessionFails
    <3>. QED BY <1>2, <3>1, Zenon DEF CloseSession
  <2>2. /\ ServerCloseSession(session[s].handle)
        /\ \A t \in SessionPtrs \ {s} : session'[t] = session[t]
    BY <2>1, Zenon DEF CloseSessionOK, TypeOK
  <2>3. \A h \in SessionHandles : srvSession'[h].state = "live" =>
          srvSession[h].state = "live" /\ h # session[s].handle
    BY <2>2 DEF ServerCloseSession, TypeOK
  <2>4. \A p \in OperationHandles : srvOp'[p].state = "live" => srvOp[p].state = "live"
    BY <2>2, Zenon DEF ServerCloseSession, TypeOK
  <2>5. ASSUME NEW h \in SessionHandles, srvSession'[h].state = "live"
        PROVE  \E t \in SessionPtrs : session'[t].open_ /\ session'[t].handle = h
    <3>1. PICK t \in SessionPtrs : session[t].open_ /\ session[t].handle = h
      BY <2>3, <2>5, Zenon DEF Covered
    <3>2. t # s /\ session'[t] = session[t]
      BY <2>2, <2>3, <2>5, <3>1, Zenon
    <3>. QED BY <3>1, <3>2, Zenon
  <2>6. ASSUME NEW p \in OperationHandles, srvOp'[p].state = "live"
        PROVE  \E o \in OperationPtrs : operation'[o].open_ /\ operation'[o].handle = p
    BY <1>0, <2>4, <2>6, Zenon DEF Covered
  <2>. QED BY <1>0, <2>5, <2>6, Zenon DEF Covered
<1>. QED BY <1>1, <1>2, Zenon

\* The same for an Operation.
LEMMA CloseOperationCovers ==
  ASSUME TypeOK, Covered, NEW o \in OperationPtrs, CloseOperation(o), ~operation'[o].open_
  PROVE  Covered' /\ process' = process
<1>0. UNCHANGED <<process, session>>
  BY Zenon DEF CloseOperation
<1>1. CASE ~operation[o].open_
  <2>1. operation' = [operation EXCEPT ![o].last = "closeOK"] /\ UNCHANGED serverVars
    BY <1>1, Zenon DEF CloseOperation, CloseOperationOK, CloseOperationFails
  <2>2. \A q \in OperationPtrs : operation[q].open_ => operation'[q] = operation[q]
    BY <1>1, <2>1, Zenon DEF TypeOK
  <2>. QED BY <1>0, <2>1, <2>2 DEF Covered, serverVars
<1>2. CASE operation[o].open_
  <2>1. CloseOperationOK(o)
    <3>1. ~CloseOperationFails(o)
      <4>1. ASSUME operation' = [operation EXCEPT ![o].last = "closeErr"] PROVE FALSE
        BY <4>1, <1>2, Zenon DEF TypeOK, OperationObjects
      <4>. QED BY <4>1, Zenon DEF CloseOperationFails
    <3>. QED BY <1>2, <3>1, Zenon DEF CloseOperation
  <2>2. /\ ServerCloseOperation(operation[o].handle)
        /\ \A q \in OperationPtrs \ {o} : operation'[q] = operation[q]
    BY <2>1, Zenon DEF CloseOperationOK, TypeOK
  <2>3. \A p \in OperationHandles : srvOp'[p].state = "live" =>
          srvOp[p].state = "live" /\ p # operation[o].handle
    BY <2>2, Zenon DEF ServerCloseOperation, TypeOK
  <2>4. UNCHANGED srvSession
    BY <2>2, Zenon DEF ServerCloseOperation
  <2>. QED BY <1>0, <2>2, <2>3, <2>4 DEF Covered
<1>. QED BY <1>1, <1>2, Zenon

\* Deleting what is closed leaves every live handle held.
LEMMA DestroyCovers ==
  ASSUME Inv, Covered, DyingIsClosed, Destroy
  PROVE  Covered' /\ process' = process
<1>0. TypeOK
  BY Zenon DEF Inv
<1>1. ASSUME dying \in OperationPtrs, DeleteOperation(dying)
      PROVE  Covered' /\ process' = process
  <2>1. ~operation[dying].open_
    BY <1>1, Zenon DEF DyingIsClosed
  <2>2. /\ operation' = [operation EXCEPT ![dying] = NullOperation]
        /\ UNCHANGED <<process, session, serverVars>>
    BY <1>1, <2>1, Zenon DEF DeleteOperation, Dies
  <2>3. \A q \in OperationPtrs : operation[q].open_ => operation'[q] = operation[q]
    BY <1>0, <2>1, <2>2, Zenon DEF TypeOK
  <2>. QED BY <2>2, <2>3 DEF Covered, serverVars
<1>2. ASSUME dying \in SessionPtrs, DeleteSession(dying)
      PROVE  Covered' /\ process' = process
  <2>1. ~session[dying].open_
    BY <1>2, Zenon DEF DyingIsClosed
  <2>2. /\ session' = [session EXCEPT ![dying] = NullSession]
        /\ UNCHANGED <<process, operation, serverVars>>
    BY <1>2, <2>1, Zenon DEF DeleteSession, Dies
  <2>3. \A t \in SessionPtrs : session[t].open_ => session'[t] = session[t]
    BY <1>0, <2>1, <2>2, Zenon DEF TypeOK
  <2>. QED BY <2>2, <2>3 DEF Covered, serverVars
<1>3. ASSUME dying = PyService, DeleteService
      PROVE  Covered' /\ process' = process
  <2>1. ~IsConnected
    BY <1>3, Zenon DEF DyingIsClosed
  <2>2. UNCHANGED <<process, session, operation, serverVars>>
    BY <1>3, <2>1, Zenon DEF DeleteService, Dies
  <2>. QED BY <2>2, SameCovered, Zenon
<1>. QED BY <1>1, <1>2, <1>3, Zenon DEF Destroy

\* What __dealloc__ leaves behind when it did not fail.
LEMMA DeallocCovers ==
  ASSUME Inv, PyTypeOK, Covered, NEW x \in PyObjects, Dealloc(x), clean'
  PROVE  Covered' /\ process' = process /\ DyingIsClosed' /\ clean
<1>0. TypeOK /\ dying' = x /\ clean \in BOOLEAN
  BY Zenon DEF Inv, PyTypeOK, Dealloc
<1>1. ASSUME x \in OperationPtrs, DeallocOperation(x)
      PROVE  Covered' /\ process' = process /\ DyingIsClosed' /\ clean
  <2>1. CloseOperation(x) /\ clean /\ ~operation'[x].open_
    BY <1>1, Zenon DEF DeallocOperation
  <2>2. x \notin SessionPtrs /\ x # PyService
    BY <1>1, PyObjectsAssumption, Zenon
  <2>3. DyingIsClosed'
    BY <1>0, <2>1, <2>2, Zenon DEF DyingIsClosed
  <2>. QED BY <1>0, <1>1, <2>1, <2>3, CloseOperationCovers, Zenon
<1>2. ASSUME x \in SessionPtrs, DeallocSession(x)
      PROVE  Covered' /\ process' = process /\ DyingIsClosed' /\ clean
  <2>1. CloseSession(x) /\ clean /\ ~session'[x].open_
    BY <1>2, Zenon DEF DeallocSession
  <2>2. x \notin OperationPtrs /\ x # PyService
    BY <1>2, PyObjectsAssumption, Zenon
  <2>3. DyingIsClosed'
    BY <1>0, <2>1, <2>2, Zenon DEF DyingIsClosed
  <2>. QED BY <1>0, <1>2, <2>1, <2>3, CloseSessionCovers, Zenon
<1>3. ASSUME x = PyService, DeallocService
      PROVE  Covered' /\ process' = process /\ DyingIsClosed' /\ clean
  <2>1. UNCHANGED <<process, service, session, operation, serverVars>> /\ clean
    BY <1>3, <1>0, Zenon DEF DeallocService, CloseService, vars, serverVars
  <2>2. ~IsConnected'
    BY <1>3, <2>1, Zenon DEF DeallocService, CloseService, IsConnected, vars
  <2>3. x \notin SessionPtrs /\ x \notin OperationPtrs
    BY <1>3, PyObjectsAssumption, Zenon
  <2>4. DyingIsClosed'
    BY <1>0, <2>2, <2>3, Zenon DEF DyingIsClosed
  <2>. QED BY <2>1, <2>4, SameCovered, Zenon
<1>. QED BY <1>1, <1>2, <1>3, Zenon DEF Dealloc

\* While Python code runs nothing is dying.
LEMMA NobodyIsClosed ==
  ASSUME dying' = Nobody
  PROVE  DyingIsClosed'
BY PyObjectsAssumption, Zenon DEF DyingIsClosed

LEMMA CleanNext ==
  ASSUME Inv, PyTypeOK, CleanInv, [PyNext]_allVars
  PROVE  CleanInv'
<1> SUFFICES ASSUME clean'
             PROVE  process' # "aborted" /\ DyingIsClosed' /\ Covered'
  BY Zenon DEF CleanInv
<1>0. TypeOK /\ clean \in BOOLEAN
  BY Zenon DEF Inv, PyTypeOK
<1> DEFINE Good == process' # "aborted" /\ DyingIsClosed' /\ Covered'
<1>a. ASSUME clean, dying' = Nobody, process' = process, Covered => Covered'
      PROVE  Good
  BY <1>a, NobodyIsClosed, Zenon DEF CleanInv
<1>1. CASE NewService
  <2>1. PICK c \in Conns, v \in PyProtocols : Connect(c, v)
    BY <1>1, Zenon DEF NewService
  <2>2. ~IsConnected
    BY <1>1, Zenon DEF NewService, IsConnected
  <2>3. UNCHANGED <<process, session, operation, serverVars>>
    BY <2>1, <2>2, Zenon DEF Connect, Dies
  <2>4. clean /\ dying' = Nobody
    BY <1>1, Zenon DEF NewService, Returned, InProgram
  <2>. QED BY <2>3, <2>4, <1>a, SameCovered, Zenon
<1>2. CASE ServiceClose
  <2>1. UNCHANGED <<process, session, operation, serverVars>>
    BY <1>2, Zenon DEF ServiceClose, CloseService
  <2>2. clean /\ dying' = Nobody
    BY <1>2, Zenon DEF ServiceClose, InProgram
  <2>. QED BY <2>1, <2>2, <1>a, SameCovered, Zenon
<1>3. ASSUME NEW s \in SessionPtrs, PyOpenSession(s)
      PROVE  Good
  <2>1. clean /\ dying' = Nobody /\ session'[s].open_
    BY <1>3, Zenon DEF PyOpenSession, Returned, InProgram
  <2>2. Covered
    BY <2>1, Zenon DEF CleanInv
  <2>3. Covered' /\ process' = process
    BY <1>3, <2>1, <2>2, OpenSessionCovers, Zenon DEF PyOpenSession
  <2>. QED BY <2>1, <2>3, <1>a, Zenon
<1>4. ASSUME NEW s \in SessionPtrs, PyCloseSession(s)
      PROVE  Good
  <2>1. clean /\ dying' = Nobody /\ ~session'[s].open_
    BY <1>4, Zenon DEF PyCloseSession, InProgram
  <2>2. Covered
    BY <2>1, Zenon DEF CleanInv
  <2>3. Covered' /\ process' = process
    BY <1>0, <1>4, <2>1, <2>2, CloseSessionCovers, Zenon DEF PyCloseSession
  <2>. QED BY <2>1, <2>3, <1>a, Zenon
<1>5. ASSUME NEW s \in SessionPtrs, NEW o \in OperationPtrs, Execute(s, o)
      PROVE  Good
  <2>1. clean /\ dying' = Nobody /\ operation'[o].open_
    BY <1>5, Zenon DEF Execute, Returned, InProgram
  <2>2. Covered
    BY <2>1, Zenon DEF CleanInv
  <2>3. Covered' /\ process' = process
    BY <1>5, <2>1, <2>2, ExecuteCovers, Zenon DEF Execute
  <2>. QED BY <2>1, <2>3, <1>a, Zenon
<1>6. ASSUME NEW o \in OperationPtrs, PyCloseOperation(o)
      PROVE  Good
  <2>1. clean /\ dying' = Nobody /\ ~operation'[o].open_
    BY <1>6, Zenon DEF PyCloseOperation, InProgram
  <2>2. Covered
    BY <2>1, Zenon DEF CleanInv
  <2>3. Covered' /\ process' = process
    BY <1>0, <1>6, <2>1, <2>2, CloseOperationCovers, Zenon DEF PyCloseOperation
  <2>. QED BY <2>1, <2>3, <1>a, Zenon
<1>7. ASSUME NEW o \in OperationPtrs, PyQuery(o)
      PROVE  Good
  <2>1. UNCHANGED <<process, session, operation, serverVars>>
    BY <1>7, Zenon DEF PyQuery, QueryOperation, clientVars
  <2>2. clean /\ dying' = Nobody
    BY <1>7, Zenon DEF PyQuery, InProgram
  <2>. QED BY <2>1, <2>2, <1>a, SameCovered, Zenon
<1>8. ASSUME NEW x \in PyObjects, Drop(x)
      PROVE  Good
  <2>1. UNCHANGED <<process, session, operation, serverVars>>
    BY <1>8, Zenon DEF Drop, vars, serverVars
  <2>2. clean /\ dying' = Nobody
    BY <1>8, Zenon DEF Drop, InProgram
  <2>. QED BY <2>1, <2>2, <1>a, SameCovered, Zenon
<1>9. CASE Destroy
  <2>1. clean /\ dying' = Nobody
    BY <1>9, Zenon DEF Destroy
  <2>2. Covered /\ DyingIsClosed
    BY <2>1, Zenon DEF CleanInv
  <2>3. Covered' /\ process' = process
    BY <1>9, <2>2, DestroyCovers, Zenon
  <2>. QED BY <2>1, <2>3, <1>a, Zenon
<1>10. ASSUME NEW x \in PyObjects, Dealloc(x)
       PROVE  Good
  <2>1. clean
    <3>1. \/ clean' = clean
          \/ clean' = (clean /\ ~operation'[x].open_)
          \/ clean' = (clean /\ ~session'[x].open_)
          \/ clean' = (clean /\ transport'[service] = "closed")
      BY <1>10, Zenon DEF Dealloc, DeallocOperation, DeallocSession, DeallocService
    <3>. QED BY <3>1, Zenon
  <2>2. Covered /\ process # "aborted"
    BY <2>1, Zenon DEF CleanInv
  <2>. QED BY <1>10, <2>2, DeallocCovers, Zenon
<1>11. ASSUME NEW h \in SessionHandles, PyServerDrop(h)
       PROVE  FALSE
  BY <1>11, Zenon DEF PyServerDrop
<1>12. CASE UNCHANGED allVars
  <2>1. UNCHANGED <<process, session, operation, serverVars, service, transport, dying, clean>>
    BY <1>12, Zenon DEF allVars, vars, pyVars, serverVars
  <2>2. process # "aborted" /\ DyingIsClosed /\ Covered
    BY <2>1, Zenon DEF CleanInv
  <2>3. DyingIsClosed'
    BY <2>1, <2>2, Zenon DEF DyingIsClosed, IsConnected
  <2>. QED BY <2>1, <2>2, <2>3, SameCovered, Zenon
<1>. QED
  BY <1>1, <1>2, <1>3, <1>4, <1>5, <1>6, <1>7, <1>8, <1>9, <1>10, <1>11, <1>12
     DEF PyNext, Collect

\* The invariants together, in every state of a Python program.
LEMMA CleanInvCorrect == PySpec => [](Inv /\ PyTypeOK /\ CleanInv)
<1>1. PyInit => CleanInv
  BY PyObjectsAssumption
     DEF PyInit, Init, CleanInv, DyingIsClosed, Covered
<1>2. (Inv /\ PyTypeOK) /\ CleanInv /\ [PyNext]_allVars => CleanInv'
  BY CleanNext, Zenon
<1>3. PySpec => []Inv
  BY PyImplementsClient, InvCorrect, PTL
<1>. QED BY <1>1, <1>2, <1>3, PyTypes, PTL DEF PySpec

(***************************************************************************)
(* For any number of objects, dropped in any order: the DCHECKs of the     *)
(* destructors hold as long as no call fails, the server drops no session  *)
(* and nothing is closed under an open child.                              *)
(***************************************************************************)
THEOREM CleanProgramsRun == PySpec => []CleanNeverAborts
<1>1. CleanInv => CleanNeverAborts
  BY Zenon DEF CleanInv, CleanNeverAborts
<1>. QED BY <1>1, CleanInvCorrect, PTL

(***************************************************************************)
(* Under the same condition nothing that was collected is left open on the *)
(* server: __dealloc__ closed it.                                          *)
(***************************************************************************)
THEOREM CollectionCloses == PySpec => []CollectedIsClosed
<1>1. Inv /\ CleanInv => CollectedIsClosed
  BY OpenExists, AliveExists, Zenon DEF CleanInv, Covered, CollectedIsClosed
<1>. QED BY <1>1, CleanInvCorrect, PTL

=============================================================================
