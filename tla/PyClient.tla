------------------------------ MODULE PyClient ------------------------------
(***************************************************************************)
(* The Python objects of ext.pyx on top of the C++ objects of HS2Client.   *)
(*                                                                         *)
(* A Python Service, Session or Operation owns one C++ object through a    *)
(* unique_ptr, so it lives exactly as long as that object exists; a        *)
(* Session refers to the Service it came from and an Operation to its      *)
(* Session (parent).  An object nothing refers to is collected at once:    *)
(* __dealloc__ closes it, and an exception is ignored there; then its      *)
(* unique_ptr deletes the C++ object, with its DCHECK; then the reference  *)
(* to the parent is dropped.  The interpreter lock is held all along, so   *)
(* no other Python code runs in between.                                   *)
(*                                                                         *)
(* There is at most one Python Service at a time, and a pointer is used    *)
(* again only after its object was collected.                              *)
(***************************************************************************)
EXTENDS HS2Client

CONSTANTS
  PyService,  \* the Python Service, as something to refer to
  Nobody      \* no object

ASSUME PyObjectsAssumption ==
  /\ SessionPtrs \cap OperationPtrs = {}
  /\ PyService \notin SessionPtrs \cup OperationPtrs
  /\ Nobody \notin SessionPtrs \cup OperationPtrs \cup {PyService}

VARIABLES
  held,    \* the objects the program has variables for
  parent,  \* the Session each Operation refers to
  dying,   \* the object whose __dealloc__ has run, or Nobody
  clean    \* no call has failed, no session was dropped by the server, and
           \* nothing was closed by hand under an open child

pyVars == <<held, parent, dying, clean>>
allVars == <<vars, pyVars>>

PyObjects == {PyService} \cup SessionPtrs \cup OperationPtrs

\* The program holds references to Python objects only, and an operation knows at
\* most one session (the parent that keeps it alive).
PyTypeOK ==
  /\ held \subseteq PyObjects
  /\ parent \in [OperationPtrs -> SessionPtrs \cup {Nobody}]
  /\ dying \in PyObjects \cup {Nobody}
  /\ clean \in BOOLEAN

PyInit ==
  /\ Init
  /\ held = {}
  /\ parent = [o \in OperationPtrs |-> Nobody]
  /\ dying = Nobody
  /\ clean = TRUE

-----------------------------------------------------------------------------
Alive(x) ==
  \/ x = PyService /\ service # NoConn
  \/ x \in SessionPtrs /\ session[x].exists
  \/ x \in OperationPtrs /\ operation[x].exists

\* Mutant of HasChild: an Operation does not refer to its Session.
HasChildWeak(x) ==
  x = PyService /\ \E s \in SessionPtrs : Alive(s)

\* Another object's parent is x.
HasChild(x) ==
  \/ x = PyService /\ \E s \in SessionPtrs : Alive(s)
  \/ \E o \in OperationPtrs : Alive(o) /\ parent[o] = x

Garbage == {x \in PyObjects : Alive(x) /\ x \notin held /\ ~HasChild(x)}

\* The program can name x: by a variable, or as the parent of what it can name.
SessionReachable(s) ==
  Alive(s) /\ (s \in held \/ \E o \in held \cap OperationPtrs : parent[o] = s)

ServiceReachable ==
  Alive(PyService) /\
    (PyService \in held \/ \E s \in SessionPtrs : SessionReachable(s))

OpenChild(s) == \E o \in OperationPtrs : parent[o] = s /\ operation[o].open_

\* Python code runs: nothing is being collected or waits to be.
InProgram == dying = Nobody /\ Garbage = {}

\* A constructor or method returned the new object x, or raised.
Returned(x, ok) ==
  /\ held' = IF ok THEN held \cup {x} ELSE held
  /\ clean' = (clean /\ ok)

-----------------------------------------------------------------------------
\* __cinit__ raises NotImplementedError for all others, and constructs nothing.
PyProtocols == {6, 7}

\* Service(...).
NewService ==
  /\ InProgram
  /\ service = NoConn
  /\ \E c \in Conns, v \in PyProtocols : Connect(c, v)
  /\ Returned(PyService, transport'[service'] = "open")
  /\ UNCHANGED <<parent, dying>>

\* Service.close().
ServiceClose ==
  /\ InProgram
  /\ ServiceReachable
  /\ CloseService
  /\ clean' = (/\ clean
               /\ transport'[service] = "closed"
               /\ \A s \in SessionPtrs : ~session[s].open_)
  /\ UNCHANGED <<held, parent, dying>>

\* Service.open_session().
PyOpenSession(s) ==
  /\ InProgram
  /\ ServiceReachable
  /\ ~session[s].exists
  /\ OpenSession(s)
  /\ Returned(s, session'[s].open_)
  /\ UNCHANGED <<parent, dying>>

\* Session.close().
PyCloseSession(s) ==
  /\ InProgram
  /\ SessionReachable(s)
  /\ CloseSession(s)
  /\ clean' = (clean /\ ~session'[s].open_ /\ ~OpenChild(s))
  /\ UNCHANGED <<held, parent, dying>>

\* Session.execute().
Execute(s, o) ==
  /\ InProgram
  /\ SessionReachable(s)
  /\ ~operation[o].exists
  /\ ExecuteStatement(s, o)
  /\ parent' = [parent EXCEPT ![o] = s]
  /\ Returned(o, operation'[o].open_)
  /\ UNCHANGED dying

\* Operation.close().
PyCloseOperation(o) ==
  /\ InProgram
  /\ o \in held
  /\ CloseOperation(o)
  /\ clean' = (clean /\ ~operation'[o].open_)
  /\ UNCHANGED <<held, parent, dying>>

\* The other methods of Operation.
PyQuery(o) ==
  /\ InProgram
  /\ o \in held
  /\ QueryOperation(o)
  /\ clean' = (clean /\ transport' = transport)
  /\ UNCHANGED <<held, parent, dying>>

\* A variable is deleted or goes out of scope.
Drop(x) ==
  /\ Running
  /\ InProgram
  /\ x \in held
  /\ held' = held \ {x}
  /\ UNCHANGED <<vars, parent, dying, clean>>

-----------------------------------------------------------------------------
\* Mutant of DeallocOperation: there is no __dealloc__.
DeallocOperationNoClose(o) ==
  /\ operation[o].exists
  /\ UNCHANGED <<vars, clean>>

\* __dealloc__ of the three types.
DeallocOperation(o) ==
  /\ CloseOperation(o)
  /\ clean' = (clean /\ ~operation'[o].open_)

DeallocSession(s) ==
  /\ CloseSession(s)
  /\ clean' = (clean /\ ~session'[s].open_)

DeallocService ==
  \/ CloseService /\ clean' = (clean /\ transport'[service] = "closed")
  \/ ~IsConnected /\ UNCHANGED <<vars, clean>>

\* Mutant of Dealloc: an exception keeps the object from being deleted.
DeallocGivesUp(x) ==
  /\ Running
  /\ dying = Nobody
  /\ x \in Garbage
  /\ \/ x \in OperationPtrs /\ DeallocOperation(x)
     \/ x \in SessionPtrs /\ DeallocSession(x)
     \/ x = PyService /\ DeallocService
  /\ dying' = IF x \in OperationPtrs /\ operation'[x].open_ THEN Nobody ELSE x
  /\ UNCHANGED <<held, parent>>

Dealloc(x) ==
  /\ Running
  /\ dying = Nobody
  /\ x \in Garbage
  /\ \/ x \in OperationPtrs /\ DeallocOperation(x)
     \/ x \in SessionPtrs /\ DeallocSession(x)
     \/ x = PyService /\ DeallocService
  /\ dying' = x
  /\ UNCHANGED <<held, parent>>

\* The unique_ptr deletes the C++ object, and parent is released.
Destroy ==
  /\ \/ dying \in OperationPtrs /\ DeleteOperation(dying)
     \/ dying \in SessionPtrs /\ DeleteSession(dying)
     \/ dying = PyService /\ DeleteService
  /\ dying' = Nobody
  /\ parent' = [o \in OperationPtrs |-> IF o = dying THEN Nobody ELSE parent[o]]
  /\ UNCHANGED <<held, clean>>

\* The server ends a session by itself, at any time.
PyServerDrop(h) ==
  /\ ServerDropSession(h)
  /\ clean' = FALSE
  /\ UNCHANGED <<held, parent, dying>>

Collect == Destroy \/ \E x \in PyObjects : Dealloc(x)

PyNext ==
  \/ NewService \/ ServiceClose
  \/ \E s \in SessionPtrs : PyOpenSession(s) \/ PyCloseSession(s)
  \/ \E s \in SessionPtrs, o \in OperationPtrs : Execute(s, o)
  \/ \E o \in OperationPtrs : PyCloseOperation(o) \/ PyQuery(o)
  \/ \E x \in PyObjects : Drop(x)
  \/ Collect
  \/ \E h \in SessionHandles : PyServerDrop(h)

PySpec == PyInit /\ [][PyNext]_allVars /\ WF_allVars(Collect)

-----------------------------------------------------------------------------
(***************************************************************************)
(* The parent references keep what a child needs: an Operation's Session   *)
(* and a Session's Service are never collected before it, so __dealloc__   *)
(* of the child still finds the connection it was opened over.             *)
(***************************************************************************)
ParentsOutliveChildren ==
  Running =>
    /\ \A o \in OperationPtrs : Alive(o) =>
         parent[o] \in SessionPtrs /\ Alive(parent[o])
           /\ session[parent[o]].conn = operation[o].conn
    /\ \A s \in SessionPtrs : Alive(s) => session[s].conn = service

(***************************************************************************)
(* No Python program calls through the null Thrift client that             *)
(* Service::Open leaves behind for an old protocol version.                *)
(***************************************************************************)
NoNullClient == process # "crashed"

(***************************************************************************)
(* As long as every call succeeds and nothing is closed by hand under its  *)
(* open children, dropping references in any order never trips the DCHECK  *)
(* of a destructor.                                                        *)
(***************************************************************************)
CleanNeverAborts == clean => process # "aborted"

(***************************************************************************)
(* "Will be done automatically on garbage collection": under the same      *)
(* condition everything alive on the server belongs to a Python object     *)
(* that is alive, in a release build as well.                              *)
(***************************************************************************)
CollectedIsClosed ==
  clean =>
    /\ \A h \in SessionHandles : srvSession[h].state = "live" =>
         \E s \in SessionPtrs : Alive(s) /\ session[s].handle = h
    /\ \A p \in OperationHandles : srvOp[p].state = "live" =>
         \E o \in OperationPtrs : Alive(o) /\ operation[o].handle = p

(***************************************************************************)
(* Whatever becomes garbage is collected, child before parent, even when   *)
(* closing it fails, unless a DCHECK ends the process.                     *)
(***************************************************************************)
GarbageIsCollected ==
  (Running /\ Garbage # {}) ~> (Garbage = {} \/ ~Running)
=============================================================================
