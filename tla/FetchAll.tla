------------------------------ MODULE FetchAll ------------------------------
(***************************************************************************)
(* Reading a whole result set: the loops around Operation::Fetch in        *)
(* Operation.fetchall_pandas (Python), which hands over one data frame at  *)
(* the end, and in Util::PrintResults (C++), which prints batch by batch.  *)
(*                                                                         *)
(* The cursor of the result set is on the server and only moves forward    *)
(* (every loop asks for FetchOrientation::NEXT).  An RPC is one step: it   *)
(* is answered, answered with an error status, or throws when the          *)
(* connection goes down, before or after the server executed it.  The      *)
(* program may call again after a failure.                                 *)
(***************************************************************************)
EXTENDS Integers, Sequences

CONSTANTS
  RowCounts,       \* sizes of result sets
  BatchSizes,      \* values of batchsize, and DEFAULT_MAX_ROWS
  Readers          \* subset of {"fetchall_pandas", "PrintResults"}

ASSUME FetchAssumption ==
  /\ RowCounts \subseteq Nat
  /\ BatchSizes \subseteq Nat \ {0}
  /\ Readers \subseteq {"fetchall_pandas", "PrintResults"}

VARIABLES
  numRows,    \* server: the result set is the rows 1 .. numRows
  column_kind, \* server: "none", "ok", or "unsupported" by ConvertColumnPandas
  cursor,     \* server: rows handed out so far
  connected,  \* the connection is up
  reader,     \* which of the loops the program uses
  pc,         \* where the current call is; "idle" between calls
  batchsize,  \* max_rows of the current call
  has_more_rows,
  cached_metadata, \* the schema property has been filled in
  pending,    \* rows fetched by the current call and not handed over yet
  outcome,    \* how the last call ended
  out,        \* history: all rows handed over, in order
  failed      \* history: some call has failed

serverVars == <<numRows, column_kind, cursor>>
callVars == <<pc, batchsize, has_more_rows, cached_metadata>>
resultVars == <<pending, outcome, out, failed>>
vars == <<numRows, column_kind, cursor, connected, reader, pc, batchsize,
          has_more_rows, cached_metadata, pending, outcome, out, failed>>

\* Rows pending and returned are rows of the result, and the cursor of the server
\* stays within it.
TypeOK ==
  /\ numRows \in RowCounts
  /\ column_kind \in {"none", "ok", "unsupported"}
  /\ cursor \in 0..numRows
  /\ connected \in BOOLEAN
  /\ reader \in Readers
  /\ pc \in {"idle", "fetch", "schema", "convert"}
  /\ batchsize \in BatchSizes
  /\ has_more_rows \in BOOLEAN
  /\ cached_metadata \in BOOLEAN
  /\ pending \in Seq(1..numRows)
  /\ outcome \in {"none", "returned", "failed"}
  /\ out \in Seq(1..numRows)
  /\ failed \in BOOLEAN

(***************************************************************************)
(* A statement without a result set has no columns and no rows.  Printing  *)
(* a column whose type PrintResults does not know is not modelled here.    *)
(***************************************************************************)
Init ==
  /\ numRows \in RowCounts
  /\ reader \in Readers
  /\ column_kind \in {"none", "ok", "unsupported"}
  /\ column_kind = "none" => numRows = 0
  /\ column_kind = "unsupported" => reader = "fetchall_pandas"
  /\ cursor = 0
  /\ connected = TRUE
  /\ pc = "idle"
  /\ batchsize \in BatchSizes
  /\ has_more_rows = FALSE
  /\ cached_metadata = FALSE
  /\ pending = <<>>
  /\ outcome = "none"
  /\ out = <<>>
  /\ failed = FALSE

-----------------------------------------------------------------------------
(***************************************************************************)
(* How a call ends.                                                        *)
(***************************************************************************)
\* An exception, or a message and a return: the rows not handed over are gone.
Fail ==
  /\ pc' = "idle"
  /\ outcome' = "failed"
  /\ failed' = TRUE
  /\ pending' = <<>>
  /\ UNCHANGED out

HandOver ==
  /\ out' = out \o pending
  /\ pending' = <<>>
  /\ UNCHANGED failed

Return ==
  /\ pc' = "idle"
  /\ outcome' = "returned"

-----------------------------------------------------------------------------
(***************************************************************************)
(* The server's side of FetchResults: between 1 and max rows while there   *)
(* are any (it blocks until some are ready), hasMoreRows while there are   *)
(* more; with the last rows it may not know yet that they are the last.    *)
(***************************************************************************)
Answer(k, more) ==
  /\ k \in 0..batchsize
  /\ k <= numRows - cursor
  /\ k = 0 => cursor = numRows
  /\ cursor + k < numRows => more
  /\ k = 0 => ~more

RowsOf(from, k) == [i \in 1..k |-> from + i]

\* Mutants of LoopAgain: a short batch taken for the last one; has_more_rows
\* never stored.
LoopAgainShort(k, more) == k = batchsize
LoopAgainAlways(k, more) == TRUE

LoopAgain(k, more) == more

\* Operation::Fetch returns OK.  fetchall_internal loops on; PrintResults asks
\* for the schema of every batch.
FetchOK ==
  /\ pc = "fetch"
  /\ connected
  /\ \E k \in 0..batchsize, more \in BOOLEAN :
       /\ Answer(k, more)
       /\ cursor' = cursor + k
       /\ pending' = pending \o RowsOf(cursor, k)
       /\ has_more_rows' = LoopAgain(k, more)
       /\ pc' = IF reader = "fetchall_pandas" /\ has_more_rows' THEN "fetch"
                                                                ELSE "schema"
  /\ UNCHANGED <<numRows, column_kind, connected, reader, batchsize, cached_metadata,
                 outcome, out, failed>>

\* Mutant of FetchThrows: the exception is swallowed and the loop goes on.
FetchThrowsSwallowed ==
  /\ pc = "fetch"
  /\ connected
  /\ connected' = FALSE
  /\ \/ UNCHANGED cursor
     \/ \E k \in 0..batchsize, more \in BOOLEAN :
          Answer(k, more) /\ cursor' = cursor + k
  /\ UNCHANGED <<numRows, column_kind, reader, callVars, resultVars>>

\* The connection goes down during Fetch; the server may have moved its cursor.
FetchThrows ==
  /\ pc = "fetch"
  /\ connected
  /\ connected' = FALSE
  /\ \/ UNCHANGED cursor
     \/ \E k \in 0..batchsize, more \in BOOLEAN :
          Answer(k, more) /\ cursor' = cursor + k
  /\ Fail
  /\ UNCHANGED <<numRows, column_kind, reader, batchsize, has_more_rows,
                 cached_metadata>>

\* Fetch is answered with an error status, or the connection was down already.
FetchError ==
  /\ pc = "fetch"
  /\ Fail
  /\ UNCHANGED <<serverVars, connected, reader, batchsize, has_more_rows,
                 cached_metadata>>

-----------------------------------------------------------------------------
\* fetchall_pandas(n) is called, or PrintResults(op), whose n is DEFAULT_MAX_ROWS.
Call(n) ==
  /\ pc = "idle"
  /\ pc' = "fetch"
  /\ batchsize' = n
  /\ has_more_rows' = TRUE
  /\ UNCHANGED <<serverVars, connected, reader, cached_metadata, resultVars>>

\* PrintResults prints the batch and goes on or returns; it also returns for a
\* result set without columns.
PrintBatch ==
  /\ pc = "schema"
  /\ reader = "PrintResults"
  /\ connected
  /\ HandOver
  /\ \/ (column_kind = "none" \/ ~has_more_rows) /\ Return
     \/ /\ column_kind # "none" /\ has_more_rows
        /\ pc' = "fetch"
        /\ UNCHANGED outcome
  /\ UNCHANGED <<serverVars, connected, reader, batchsize, has_more_rows,
                 cached_metadata>>

\* The schema property: the RPC is made once per Operation object.
Schema ==
  /\ pc = "schema"
  /\ reader = "fetchall_pandas"
  /\ cached_metadata \/ connected
  /\ cached_metadata' = TRUE
  /\ pc' = "convert"
  /\ UNCHANGED <<serverVars, connected, reader, batchsize, has_more_rows,
                 resultVars>>

\* GetResultSetMetadata fails, with or without the loss of the connection.
SchemaFails ==
  /\ pc = "schema"
  /\ reader = "fetchall_pandas" => ~cached_metadata
  /\ connected' \in {connected, FALSE}
  /\ Fail
  /\ UNCHANGED <<serverVars, reader, batchsize, has_more_rows, cached_metadata>>

\* Every column of the schema is converted and the frame is returned.
Convert ==
  /\ pc = "convert"
  /\ column_kind # "unsupported"
  /\ HandOver
  /\ Return
  /\ UNCHANGED <<serverVars, connected, reader, batchsize, has_more_rows,
                 cached_metadata>>

\* A column of a type that is not implemented, or an allocation that fails.
ConvertFails ==
  /\ pc = "convert"
  /\ column_kind # "none"
  /\ Fail
  /\ UNCHANGED <<serverVars, connected, reader, batchsize, has_more_rows,
                 cached_metadata>>

Next ==
  \/ \E n \in BatchSizes : Call(n)
  \/ FetchOK \/ FetchThrows \/ FetchError
  \/ PrintBatch \/ Schema \/ SchemaFails \/ Convert \/ ConvertFails

\* A call that has begun runs on; the server answers or the call fails.
Step ==
  FetchOK \/ FetchThrows \/ FetchError \/ PrintBatch \/ Schema \/ SchemaFails
    \/ Convert \/ ConvertFails

Spec == Init /\ [][Next]_vars /\ WF_vars(Step)

-----------------------------------------------------------------------------
(***************************************************************************)
(* No row is handed over twice and none out of order, over all calls of    *)
(* fetchall_pandas or PrintResults on one operation, whatever failed in    *)
(* between: a failed call drops its batches, a finished one keeps none.    *)
(***************************************************************************)
RowsOnceInOrder ==
  \A i, j \in 1..Len(out) : i < j => out[i] < out[j]

(***************************************************************************)
(* Rows are never lost silently: as long as no call on the operation has   *)
(* reported a failure, a call that returned has handed over, together with *)
(* the calls before it, the whole result set.                              *)
(***************************************************************************)
CompleteUnlessFailed ==
  (pc = "idle" /\ outcome = "returned" /\ ~failed) =>
    out = [i \in 1..numRows |-> i]

(***************************************************************************)
(* Once called, fetchall_pandas and PrintResults end: has_more_rows becomes *)
(* FALSE or some step of the call fails.                                   *)
(***************************************************************************)
CallEnds == pc # "idle" ~> pc = "idle"

(***************************************************************************)
(* The loops implement ResultStream: a row that was fetched counts as      *)
(* consumed when it is handed over, or when the failure of its call is     *)
(* reported.  A failed call can therefore consume rows, and the next call  *)
(* returns only the rest.                                                  *)
(***************************************************************************)
Stream == INSTANCE ResultStream WITH pos <- cursor - Len(pending)

ImplementsStream == Stream!Spec
=============================================================================
