------------------------------ MODULE MCBatch ------------------------------
(***************************************************************************)
(* What is done with the rows that were fetched: Python converts them,     *)
(* column by column (ConvertColumn), and Util::PrintResults makes a table  *)
(* of them (PrintTable).  Each behaviour is one of the two (part says      *)
(* which) while the variables of the other rest.                           *)
(*                                                                         *)
(* The tables have two columns of two rows, and integers of eight bits,    *)
(* the smallest among them.  The columns that are converted have integers  *)
(* of five bits and a sign, and floats of two bits: 3 is one, 7 is in the  *)
(* middle between two, and 11 and -27 are nearer to one than to the other. *)
(***************************************************************************)
EXTENDS ConvertColumn, PrintTable

MCDescs == [name : {1, 5}, type : {"BOOLEAN", "BIGINT", "STRING"}]
             \cup {[name |-> 2, type |-> "BINARY"]}
MCInts == {3, 7, 11, -27}
MCIntValues == {-128, -9, 0, 10, 127}

VARIABLE part

\* The conversion of a column without chunks, not started.
ConversionRests ==
  /\ kind = "integer" /\ column = <<>> /\ pc = "start" /\ have_null = FALSE
  /\ total_length = 0 /\ out = NoArray /\ chunk = 0 /\ j = 0 /\ i = 0
  /\ intern_table = {} /\ refs = [o \in Objects |-> 0]

PrintingRests ==
  /\ column_descs = <<>> /\ data = <<>> /\ print_pc = "rests" /\ col = 0 /\ row = 0
  /\ max_size = 0 /\ n = 0 /\ spaces = 0 /\ infos = <<>> /\ table = <<>>

BatchInit ==
  \/ part = "convert" /\ Init /\ PrintingRests
  \/ part = "print" /\ PrintInit /\ ConversionRests

BatchNext ==
  \/ part = "convert" /\ Next /\ UNCHANGED <<part, printVars>>
  \/ part = "print" /\ PrintNext /\ UNCHANGED <<part, vars>>

BatchSpec == BatchInit /\ [][BatchNext]_<<part, vars, printVars>>
=============================================================================
