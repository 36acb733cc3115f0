----------------------------- MODULE HS2Client -----------------------------
(***************************************************************************)
(* The client objects of hs2client and the HiveServer2 state behind them.  *)
(*                                                                         *)
(* A program holds one std::unique_ptr<Service>, some                      *)
(* std::unique_ptr<Session> (SessionPtrs) and some                         *)
(* std::unique_ptr<Operation> (OperationPtrs).  Every Session and every    *)
(* Operation shares the Thrift client (ThriftRPC) of the Service it was    *)
(* opened through, and keeps using it after that Service is closed,        *)
(* replaced or deleted.  Conns names the connections: one for each Service *)
(* object that is ever constructed.                                        *)
(*                                                                         *)
(* An RPC is one step.  It is delivered (the server answers with a status) *)
(* or it throws a TException; when it throws on a connection that was up,  *)
(* the server may or may not have executed it.  No receive timeout is set, *)
(* which is the default: a call that throws has lost its connection.       *)
(***************************************************************************)
EXTENDS Integers

CONSTANTS
  Conns,             \* connections, one per Service object constructed
  SessionPtrs,       \* the unique_ptr<Session> variables of the program
  OperationPtrs,     \* the unique_ptr<Operation> variables of the program
  SessionHandles,    \* session handles the server can issue
  OperationHandles,  \* operation handles the server can issue
  NoConn, NoHandle,  \* a null Service pointer, a handle never assigned
  NDEBUG             \* TRUE in a release build: DCHECK does nothing

ASSUME ConstantsAssumption ==
  /\ NoConn \notin Conns
  /\ NoHandle \notin SessionHandles \cup OperationHandles
  /\ NDEBUG \in BOOLEAN

VARIABLES
  process,    \* "running", "aborted" by a DCHECK, or "crashed" on a null client
  service,    \* the connection of the program's Service object, or NoConn
  transport,  \* state of each connection's transport, seen by the client
  session,    \* the Session object behind each pointer
  operation,  \* the Operation object behind each pointer
  srvSession, \* server: state of each session handle, and its connection
  srvOp       \* server: state of each operation handle, and its session

clientVars == <<process, service, session, operation>>
serverVars == <<srvSession, srvOp>>
vars == <<process, service, transport, session, operation, srvSession, srvOp>>

(***************************************************************************)
(* "null": Open returned before it made a transport or a client.           *)
(* "broken": the peer is gone and the socket is not closed yet.            *)
(***************************************************************************)
TransportStates == {"unused", "null", "closed", "open", "broken"}

\* The last of Open and Close called on the object, and whether it returned OK.
Calls == {"none", "openOK", "openErr", "closeOK", "closeErr"}

SessionObjects ==
  [exists : BOOLEAN, conn : Conns \cup {NoConn}, open_ : BOOLEAN,
   handle : SessionHandles \cup {NoHandle}, last : Calls]

OperationObjects ==
  [exists : BOOLEAN, conn : Conns \cup {NoConn}, open_ : BOOLEAN,
   handle : OperationHandles \cup {NoHandle},
   session_handle : SessionHandles \cup {NoHandle}, last : Calls]

HandleStates == {"unused", "live", "freed"}

ProtocolVersions == 1..7   \* V1 .. V7 of ProtocolVersion

NullSession ==
  [exists |-> FALSE, conn |-> NoConn, open_ |-> FALSE,
   handle |-> NoHandle, last |-> "none"]

NullOperation ==
  [exists |-> FALSE, conn |-> NoConn, open_ |-> FALSE,
   handle |-> NoHandle, session_handle |-> NoHandle, last |-> "none"]

\* The object constructed on connection c, after Open returned OK with handle h
\* (p for an Operation, in session h), and after Open failed.
OpenedSession(c, h) ==
  [exists |-> TRUE, conn |-> c, open_ |-> TRUE, handle |-> h, last |-> "openOK"]

FailedSession(c) ==
  [exists |-> TRUE, conn |-> c, open_ |-> FALSE, handle |-> NoHandle,
   last |-> "openErr"]

\* Mutant of OpenedOperation: session_handle not stored.
OpenedOperationNoSession(c, h, p) ==
  [exists |-> TRUE, conn |-> c, open_ |-> TRUE, handle |-> p,
   session_handle |-> NoHandle, last |-> "openOK"]

OpenedOperation(c, h, p) ==
  [exists |-> TRUE, conn |-> c, open_ |-> TRUE, handle |-> p,
   session_handle |-> h, last |-> "openOK"]

FailedOperation(c) ==
  [exists |-> TRUE, conn |-> c, open_ |-> FALSE, handle |-> NoHandle,
   session_handle |-> NoHandle, last |-> "openErr"]

Init ==
  /\ process = "running"
  /\ service = NoConn
  /\ transport = [c \in Conns |-> "unused"]
  /\ session = [s \in SessionPtrs |-> NullSession]
  /\ operation = [o \in OperationPtrs |-> NullOperation]
  /\ srvSession = [h \in SessionHandles |-> [state |-> "unused", conn |-> NoConn]]
  /\ srvOp = [h \in OperationHandles |-> [state |-> "unused", session |-> NoHandle]]

-----------------------------------------------------------------------------
(***************************************************************************)
(* The server.  It is external: CloseSession also frees the operations of  *)
(* the session, and a session can end without the client asking for it.    *)
(***************************************************************************)
ServerOpenSession(c, h) ==
  /\ srvSession[h].state = "unused"
  /\ srvSession' = [srvSession EXCEPT ![h] = [state |-> "live", conn |-> c]]
  /\ UNCHANGED srvOp

ServerCloseSession(h) ==
  /\ h \in SessionHandles
  /\ srvSession[h].state = "live"
  /\ srvSession' = [srvSession EXCEPT ![h].state = "freed"]
  /\ srvOp' = [p \in OperationHandles |->
                 IF srvOp[p].state = "live" /\ srvOp[p].session = h
                   THEN [srvOp[p] EXCEPT !.state = "freed"]
                   ELSE srvOp[p]]

ServerExecuteStatement(h, p) ==
  /\ h \in SessionHandles
  /\ srvSession[h].state = "live"
  /\ srvOp[p].state = "unused"
  /\ srvOp' = [srvOp EXCEPT ![p] = [state |-> "live", session |-> h]]
  /\ UNCHANGED srvSession

ServerCloseOperation(p) ==
  /\ p \in OperationHandles
  /\ srvOp[p].state = "live"
  /\ srvOp' = [srvOp EXCEPT ![p].state = "freed"]
  /\ UNCHANGED srvSession

ServerDropSession(h) ==
  /\ ServerCloseSession(h)
  /\ UNCHANGED <<process, service, transport, session, operation>>

-----------------------------------------------------------------------------
(***************************************************************************)
(* How a call can end.  TRY_RPC_OR_RETURN turns every TException into      *)
(* Status::Error and leaves the transport as Thrift left it.               *)
(***************************************************************************)
Running == process = "running"

Delivered(c) == transport[c] = "open" /\ UNCHANGED transport

Thrown(c) ==
  \/ transport[c] = "closed" /\ UNCHANGED transport
  \/ /\ transport[c] \in {"open", "broken"}
     /\ \E t \in {"broken", "closed"} : transport' = [transport EXCEPT ![c] = t]

\* The call returns a status that is not OK: the server refused it, or it threw,
\* before the server executed it (Effect) or after.
Fails(c, Effect) ==
  \/ (Delivered(c) \/ Thrown(c)) /\ UNCHANGED serverVars
  \/ transport[c] = "open" /\ Thrown(c) /\ Effect

\* DCHECK(!open) in a destructor ends a debug build.
Dies(open) == ~NDEBUG /\ open

Exit(how) ==
  /\ process' = how
  /\ UNCHANGED <<service, transport, session, operation, serverVars>>

-----------------------------------------------------------------------------
(***************************************************************************)
(* Service                                                                 *)
(***************************************************************************)
IsConnected == service # NoConn /\ transport[service] \in {"open", "broken"}

Connect(c, version) ==
  /\ Running
  /\ transport[c] = "unused"
  /\ \/ Dies(IsConnected) /\ Exit("aborted")
     \/ /\ ~Dies(IsConnected)
        /\ service' = c
        /\ \/ version < 6 /\ transport' = [transport EXCEPT ![c] = "null"]
           \/ /\ version >= 6
              /\ \E t \in {"open", "closed"} :
                   transport' = [transport EXCEPT ![c] = t]
        /\ UNCHANGED <<process, session, operation, serverVars>>

CloseService ==
  /\ Running
  /\ IsConnected
  /\ transport' \in {[transport EXCEPT ![service] = "closed"], transport}
  /\ UNCHANGED <<process, service, session, operation, serverVars>>

DeleteService ==
  /\ Running
  /\ service # NoConn
  /\ \/ Dies(IsConnected) /\ Exit("aborted")
     \/ /\ ~Dies(IsConnected)
        /\ service' = NoConn
        /\ UNCHANGED <<process, transport, session, operation, serverVars>>

-----------------------------------------------------------------------------
(***************************************************************************)
(* Session                                                                 *)
(***************************************************************************)
OpenSessionOK(s) ==
  /\ Delivered(service)
  /\ \E h \in SessionHandles :
       /\ ServerOpenSession(service, h)
       /\ session' = [session EXCEPT ![s] = OpenedSession(service, h)]
  /\ UNCHANGED <<process, service, operation>>

OpenSessionFails(s) ==
  /\ Fails(service, \E h \in SessionHandles : ServerOpenSession(service, h))
  /\ session' = [session EXCEPT ![s] = FailedSession(service)]
  /\ UNCHANGED <<process, service, operation>>

\* reset() deletes the previous Session before the RPC is made.
OpenSession(s) ==
  /\ Running
  /\ service # NoConn
  /\ \/ Dies(session[s].open_) /\ Exit("aborted")
     \/ /\ ~Dies(session[s].open_)
        /\ \/ transport[service] = "null" /\ Exit("crashed")
           \/ OpenSessionOK(s)
           \/ OpenSessionFails(s)

CloseSessionOK(s) ==
  /\ session[s].open_
  /\ Delivered(session[s].conn)
  /\ ServerCloseSession(session[s].handle)
  /\ session' = [session EXCEPT ![s] = [@ EXCEPT !.open_ = FALSE, !.last = "closeOK"]]

CloseSessionFails(s) ==
  /\ session[s].open_
  /\ Fails(session[s].conn, ServerCloseSession(session[s].handle))
  /\ session' = [session EXCEPT ![s].last = "closeErr"]

CloseSession(s) ==
  /\ Running
  /\ session[s].exists
  /\ \/ /\ ~session[s].open_
        /\ session' = [session EXCEPT ![s].last = "closeOK"]
        /\ UNCHANGED <<transport, serverVars>>
     \/ CloseSessionOK(s)
     \/ CloseSessionFails(s)
  /\ UNCHANGED <<process, service, operation>>

DeleteSession(s) ==
  /\ Running
  /\ session[s].exists
  /\ \/ Dies(session[s].open_) /\ Exit("aborted")
     \/ /\ ~Dies(session[s].open_)
        /\ session' = [session EXCEPT ![s] = NullSession]
        /\ UNCHANGED <<process, service, transport, operation, serverVars>>

-----------------------------------------------------------------------------
(***************************************************************************)
(* Operation                                                               *)
(***************************************************************************)
ExecuteStatementOK(s, o) ==
  /\ Delivered(session[s].conn)
  /\ \E p \in OperationHandles :
       /\ ServerExecuteStatement(session[s].handle, p)
       /\ operation' = [operation EXCEPT ![o] =
            OpenedOperation(session[s].conn, session[s].handle, p)]
  /\ UNCHANGED <<process, service, session>>

ExecuteStatementFails(s, o) ==
  /\ Fails(session[s].conn,
           \E p \in OperationHandles : ServerExecuteStatement(session[s].handle, p))
  /\ operation' = [operation EXCEPT ![o] = FailedOperation(session[s].conn)]
  /\ UNCHANGED <<process, service, session>>

\* reset() deletes the previous Operation before the RPC is made; nothing checks
\* that the Session is open.
ExecuteStatement(s, o) ==
  /\ Running
  /\ session[s].exists
  /\ \/ Dies(operation[o].open_) /\ Exit("aborted")
     \/ /\ ~Dies(operation[o].open_)
        /\ ExecuteStatementOK(s, o) \/ ExecuteStatementFails(s, o)

\* Mutant of CloseOperationOK: open_ = false is missing.
CloseOperationOKStaysOpen(o) ==
  /\ operation[o].open_
  /\ Delivered(operation[o].conn)
  /\ ServerCloseOperation(operation[o].handle)
  /\ operation' = [operation EXCEPT ![o].last = "closeOK"]

CloseOperationOK(o) ==
  /\ operation[o].open_
  /\ Delivered(operation[o].conn)
  /\ ServerCloseOperation(operation[o].handle)
  /\ operation' = [operation EXCEPT ![o] = [@ EXCEPT !.open_ = FALSE, !.last = "closeOK"]]

\* Mutants of CloseOperationFails: open_ is cleared before the status is looked
\* at; an exception is taken for success.
CloseOperationFailsCleared(o) ==
  /\ operation[o].open_
  /\ Fails(operation[o].conn, ServerCloseOperation(operation[o].handle))
  /\ operation' = [operation EXCEPT ![o] = [@ EXCEPT !.open_ = FALSE, !.last = "closeErr"]]

CloseOperationFailsSwallowed(o) ==
  /\ operation[o].open_
  /\ Thrown(operation[o].conn)
  /\ operation' = [operation EXCEPT ![o] = [@ EXCEPT !.open_ = FALSE, !.last = "closeOK"]]
  /\ UNCHANGED serverVars

CloseOperationFails(o) ==
  /\ operation[o].open_
  /\ Fails(operation[o].conn, ServerCloseOperation(operation[o].handle))
  /\ operation' = [operation EXCEPT ![o].last = "closeErr"]

CloseOperation(o) ==
  /\ Running
  /\ operation[o].exists
  /\ \/ /\ ~operation[o].open_
        /\ operation' = [operation EXCEPT ![o].last = "closeOK"]
        /\ UNCHANGED <<transport, serverVars>>
     \/ CloseOperationOK(o)
     \/ CloseOperationFails(o)
  /\ UNCHANGED <<process, service, session>>

\* GetState, GetLog, GetProfile, GetResultSetMetadata, Fetch, Cancel: whatever
\* they return, they leave the objects alone, and they too can lose the connection.
QueryOperation(o) ==
  /\ Running
  /\ operation[o].exists
  /\ Delivered(operation[o].conn) \/ Thrown(operation[o].conn)
  /\ UNCHANGED <<clientVars, serverVars>>

DeleteOperation(o) ==
  /\ Running
  /\ operation[o].exists
  /\ \/ Dies(operation[o].open_) /\ Exit("aborted")
     \/ /\ ~Dies(operation[o].open_)
        /\ operation' = [operation EXCEPT ![o] = NullOperation]
        /\ UNCHANGED <<process, service, transport, session, serverVars>>

-----------------------------------------------------------------------------
Next ==
  \/ \E c \in Conns, v \in ProtocolVersions : Connect(c, v)
  \/ CloseService
  \/ DeleteService
  \/ \E s \in SessionPtrs : OpenSession(s)
  \/ \E s \in SessionPtrs : CloseSession(s)
  \/ \E s \in SessionPtrs : DeleteSession(s)
  \/ \E s \in SessionPtrs, o \in OperationPtrs : ExecuteStatement(s, o)
  \/ \E o \in OperationPtrs : CloseOperation(o)
  \/ \E o \in OperationPtrs : QueryOperation(o)
  \/ \E o \in OperationPtrs : DeleteOperation(o)
  \/ \E h \in SessionHandles : ServerDropSession(h)

Spec == Init /\ [][Next]_vars

-----------------------------------------------------------------------------
(***************************************************************************)
(* Properties                                                              *)
(***************************************************************************)

\* Every variable keeps the shape its C++ member or server record has.
TypeOK ==
  /\ process \in {"running", "aborted", "crashed"}
  /\ service \in Conns \cup {NoConn}
  /\ transport \in [Conns -> TransportStates]
  /\ session \in [SessionPtrs -> SessionObjects]
  /\ operation \in [OperationPtrs -> OperationObjects]
  /\ srvSession \in
       [SessionHandles -> [state : HandleStates, conn : Conns \cup {NoConn}]]
  /\ srvOp \in
       [OperationHandles ->
          [state : HandleStates, session : SessionHandles \cup {NoHandle}]]

\* The connection a live server operation was started over.
ConnOf(p) == srvSession[srvOp[p].session].conn

(***************************************************************************)
(* An open Operation holds a handle no other open Operation holds, and the *)
(* session handle it copied (GetProfile sends both) is the one the server  *)
(* issued it under, reached over the same connection, even after its       *)
(* Session object was closed, replaced or deleted.                         *)
(***************************************************************************)
HandleOwnership ==
  \A o \in OperationPtrs : operation[o].open_ =>
    /\ \A q \in OperationPtrs \ {o} :
         operation[q].open_ => operation[q].handle # operation[o].handle
    /\ operation[o].handle \in OperationHandles
    /\ srvOp[operation[o].handle].session = operation[o].session_handle
    /\ ConnOf(operation[o].handle) = operation[o].conn

(***************************************************************************)
(* In a debug build, as long as a connection is up, every session and      *)
(* every operation alive on the server over it is held by an open client   *)
(* object: reset() in OpenSession, ExecuteStatement and Connect, failed    *)
(* opens and refused closes leak nothing.                                  *)
(***************************************************************************)
NoLeakOnIntactConnection ==
  (Running /\ ~NDEBUG) =>
    /\ \A h \in SessionHandles :
         srvSession[h].state = "live" /\ transport[srvSession[h].conn] = "open"
           => \E s \in SessionPtrs : session[s].open_ /\ session[s].handle = h
    /\ \A p \in OperationHandles :
         srvOp[p].state = "live" /\ transport[ConnOf(p)] = "open"
           => \E o \in OperationPtrs : operation[o].open_ /\ operation[o].handle = p

(***************************************************************************)
(* open_ is not stale while the connection is up: the handle of an open    *)
(* Operation is alive on the server as long as its session is.             *)
(***************************************************************************)
OpenHandleIsLive ==
  \A o \in OperationPtrs :
    /\ operation[o].open_
    /\ transport[operation[o].conn] = "open"
    /\ srvSession[operation[o].session_handle].state = "live"
    => srvOp[operation[o].handle].state = "live"

(***************************************************************************)
(* Close returning OK is the truth: the object may be deleted (its         *)
(* destructor's DCHECK holds) and whatever handle it held is freed on the  *)
(* server, whatever failed before.                                         *)
(***************************************************************************)
CloseOKReleases ==
  /\ \A s \in SessionPtrs : session[s].last = "closeOK" =>
       /\ ~session[s].open_
       /\ session[s].handle # NoHandle
            => srvSession[session[s].handle].state = "freed"
  /\ \A o \in OperationPtrs : operation[o].last = "closeOK" =>
       /\ ~operation[o].open_
       /\ operation[o].handle # NoHandle
            => srvOp[operation[o].handle].state = "freed"

=============================================================================
