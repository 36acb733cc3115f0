# A TLA+ verification of hs2client

hs2client is a C++ client for HiveServer2 and Impala (`src/hs2client`) with a
Cython binding that returns pandas data frames (`python/hs2client`). Its build
calls a copy of the linter `cpplint.py` (`build-support`), which is more than half
of the repository's code. This directory holds TLA+ models of the client and of
the linter, TLC configurations that check them on small instances, and TLAPS
proofs of the main properties for instances of any size.

## The system

| Part | Source | State | Model |
| --- | --- | --- | --- |
| `Service`: one connection, one Thrift client shared by everything opened through it | `service.cc` | transport, client pointer | `HS2Client` |
| `Session`: a server session | `session.cc` | `open_`, session handle | `HS2Client` |
| `Operation`: a running statement | `operation.cc`, `session.cc` | `open_`, operation handle, copy of the session handle | `HS2Client` |
| `TRY_RPC_OR_RETURN`, `RETURN_NOT_OK`: how a call fails | `thrift-internal.h` | - | `HS2Client` (`Delivered`, `Thrown`, `Fails`) |
| `DCHECK`: ends a debug build, nothing in a release build | `logging.h` | - | `HS2Client` (`Dies`, `NDEBUG`) |
| `Operation.wait`, `HasResultSet`: polling with back-off | `ext.pyx`, `operation.cc` | interval, total, timeout | `OperationWait` |
| `fetchall_pandas`, `PrintResults`: loops around `Fetch` | `ext.pyx`, `util.cc`, `operation.cc` | batches, `has_more_rows`, cached schema, the server's cursor | `FetchAll` |
| Conversion of columns to NumPy arrays | `converters.h`, `columnar-row-set.*` | array, loop counters, intern table, reference counts | `ConvertColumn` |
| DB-API parameter binding | `dbapi.py` | the text as replaced so far | `BindParameters` |
| Lifetimes of the Python objects | `ext.pyx` | variables, parent references, the object being collected | `PyClient` (extends `HS2Client`) |
| Receive timeouts (`SetRecvTimeout`) and the answers that come late | `service.cc`, `thrift-internal.h` | calls made, answers sent and taken | `LateAnswers` |
| Schema of a result set, column types, the data frame | `thrift-internal.cc`, `types.*`, `ext.pyx` | the C++ columns, the Python objects that point to them, the dictionary of columns | `ResultSchema` |
| Printing of a batch (`PrintResults`, `NumSpaces`) | `util.cc` | widths, the lines printed | `PrintTable` |
| `cpplint`: the run, filters, `CPPLINT.cfg`, `NOLINT`, counts | `cpplint.py` | the module-wide state | `LintRun` |
| `cpplint`: comments, strings, raw strings | `cpplint.py` | the lines as rewritten | `LintCleanse` |
| `cpplint`: blocks (`NestingState`) | `cpplint.py` | the stack of blocks, its checkpoints | `LintNesting` |
| `cpplint`: matching brackets | `cpplint.py` | position and stack of the scan | `LintExpressions` |
| `cpplint`: includes | `cpplint.py` | `_IncludeState` | `LintIncludes` |
| `cpplint`: names of files and guards | `cpplint.py` | the directory at hand | `LintNames` |
| `cpplint`: length of functions | `cpplint.py` | `_FunctionState` | `LintFunctions` |
| `cpplint`: header guards | `cpplint.py` | what the scan has found | `LintGuard` |
| `cpplint`: style checks of single lines; generated Thrift code, build scripts, abstract DB-API classes | | | not modelled |

The server is external. It is modelled as far as the client depends on it: which
handles are alive (closing a session frees its operations), the state of an
operation, and the cursor of its result set.

## Modules

### HS2Client: objects and handles

A program holds one `unique_ptr<Service>` and some `unique_ptr`s to Sessions and
Operations. Each C++ method is an action: `Connect`, `CloseService`,
`DeleteService`, `OpenSession`, `CloseSession`, `DeleteSession`,
`ExecuteStatement`, `CloseOperation`, `DeleteOperation`, and `QueryOperation` for
the calls that leave the objects alone (`GetState`, `GetLog`, `GetProfile`,
`GetResultSetMetadata`, `Fetch`, `Cancel`). `Connect`, `OpenSession` and
`ExecuteStatement` contain the destructor of the object that `reset` replaces,
and its `DCHECK`. The server can also end a session by itself
(`ServerDropSession`).

An RPC is one step. It is delivered and succeeds; it is delivered and refused; or it
throws. When it throws on a connection that was up, the server has executed it or has
not. A connection that threw is gone: no receive timeout is set, which is the default
of `Service` (`LateAnswers` is about the other case). `transport = "null"` is a
Service whose `Open` returned before it made a client (protocol versions below 6); a
call through it ends in `process = "crashed"`.

Members are kept by name (`open_`, `handle`, `session_handle`). `last` records
which of Open and Close was called last on the object and whether it returned OK.

Properties:

* `HandleOwnership`: an open Operation alone holds its handle, and the session
  handle it copied and the connection it uses are those the server issued the
  handle for, even after its Session was closed, replaced or deleted.
* `NoLeakOnIntactConnection`: in a running debug build, each handle that is alive
  on the server over a connection that is up is held by an open object. (In a
  release build `reset` of an open object leaks silently; the property is stated
  for debug builds only.)
* `OpenHandleIsLive`: `open_` is not stale while connection and session last.
* `CloseOKReleases`: a Close that returned OK is the truth about the server.

### OperationWait: Operation.wait()

The Python thread gives up the interpreter lock only in `time.sleep`, so one step is
what happens between two sleeps: `Wait(t)` up to the first sleep, `WakeFirst` and
`Wake` from the end of one sleep to the next or to the end of the call. Between them
the server moves the operation on (through any of its states, `UNKNOWN` included),
other threads cancel or close it, and the connection can be lost. Time is counted in
milliseconds. Without a timeout the sums are compared with nothing, and the model
stops counting.

* `ReturnsOnlyFinished`: a normal return means the operation reached FINISHED;
  `everFinished` is a history variable.
* `RaisesInTime`: "Operation timed out" comes only from a call with a timeout
  `t`, after more than `t`, and after at most `2 * Max(t, FirstInterval) +
  FirstInterval`.
* `TimeoutEndsWait`, `FinishedEndsWait`: a call with a timeout ends; every call
  ends when the operation stays FINISHED on a connection that stays up.

`wait()` and `execute_sync()` have no timeout by default. For an operation that
fails, is cancelled or is closed, `is_finished` stays false and such a call does
not end. No document says that it does, so this is recorded as a hazard.

### FetchAll and ResultStream: reading a result set

`FetchAll` models the loops of `fetchall_pandas` (which hands over one frame at
the end) and `PrintResults` (which hands over batch by batch). `pending` are the
rows a call has fetched and not handed over; `cursor` is the server's position.
`Call` begins a call; `FetchOK`, `FetchThrows`, `FetchError`, `Schema`,
`SchemaFails`, `PrintBatch`, `Convert` and `ConvertFails` are its steps. The
program calls again as often as it likes, also after a failure. The server
answers `FetchResults` as the comments of `operation.h` and `TCLIService.thrift`
say: it blocks until there are rows, sends between one row and `max_rows`, and
sets `hasMoreRows` while there are more. As in `operation-test.cc`, it may set it
with the last rows and clear it with an empty batch.

* `RowsOnceInOrder` (proved): over all calls on an operation, no row comes twice
  or out of order.
* `CompleteUnlessFailed`: as long as no call reported a failure, a call that
  returned has completed the result set.
* `CallEnds`: every call ends.
* `ImplementsStream`: `FetchAll` implements `ResultStream`, whose only steps are to
  deliver the next rows and to report a failure that gives up some rows. The
  refinement maps `pos` to `cursor - Len(pending)`: rows that were fetched and not
  handed over are not consumed yet. The abstract specification says plainly what
  a caller has to know: a failed `fetchall_pandas`, even one that failed only in
  the metadata call or in a conversion, consumes rows, and a retry returns the
  rest of the result set without them.

### PyClient: the Python objects over the C++ objects

`PyClient` extends `HS2Client`: a Python object owns its C++ object through a
`unique_ptr`, so each Python method is the C++ action together with what it does
to the program's variables (`held`) and the parent references (`parent`).
Collection takes two steps, because the C++ destructor runs after `__dealloc__`
whether or not the latter raised: `Dealloc` closes, `Destroy` deletes with the
DCHECK and drops the parent. No Python code runs while there is garbage
(`InProgram`). A constructor that raised leaves an object nobody holds, which is
garbage at once. There is one Python Service at a time. `clean` records that no
call has failed, the server dropped nothing, and nothing was closed by hand under
an open child.

* `ParentsOutliveChildren`: `__dealloc__` of a child finds its parents and its
  connection.
* `NoNullClient` (proved): the null Thrift client that C++ programs can reach is out of
  reach of Python programs. Two guards see to it, the versions `__cinit__` accepts
  and the status it checks, and either would be enough.
* `CleanNeverAborts`: while `clean`, no order of dropping objects trips a DCHECK.
* `CollectedIsClosed`: while `clean`, what is alive on the server belongs to a
  Python object, as the docstrings of `close` say ("Will be done automatically on
  garbage collection").
* `GarbageIsCollected`: whatever becomes garbage is collected, failures included.

### ConvertColumn: a column becomes an array

One step is one iteration of an inner loop of `converters.h`. The integer,
boolean, float and string converters share the loop; what differs is `Optimistic`
(a first pass that a null ends), `ArrayType`, `NullValue`, and how a cell is
stored. The null bitmap is a sequence of bytes. `GetBit` returns the set of
answers the read can give: the byte after the bitmap is the terminator of
`c_str()`, bytes beyond it can hold anything. `refs` counts the references the code
has taken.

The integers of a column with a null go into an array of doubles, through
`GetBit(nulls, j) ? NAN : col_data[j]`. `NAN` is a `float`, and so is the whole
expression: the integer is rounded to the 24 bits of a float before it is widened.
`ToFloat` is this rounding, to the nearest number with `FloatBits` bits and from the
middle to the even one.

* `ConvertedRight`: the array is the column, cell by cell. An integer in a column
  with a null is a number of float precision than which no other is nearer
  (`IsNearestFloat`, stated over all such numbers and without `ToFloat`).
* `RoomForTheRest`: in both passes the cells still to write are the rows still to
  read, so nothing is written outside the array.
* `RefsMatchCells`: a returned array owns one reference for each cell and no other
  reference is left behind.

### BindParameters: parameters become SQL text

A text is a sequence of tokens, cut where the searches of `dbapi.py` can tell it
apart: a token is a word and a number, the number of a marker such as `:n`. Which
numbers begin with the digits of which others, as `10` with those of `1`, is the
constant `Begins`; `ReplaceNumber` finds `:m` also at the beginning of such a `:n` and
leaves the digits behind it. A parameter is `None`, a string, which is quoted and
escaped, or a value of another type, which is replaced by what `str` makes of it: any
text of the constant `Printed`, with markers or without (a time prints as `10:11`).
One step is one literal, one replacement, or the end of one search. Joining and
replacing are in `Strings`.

* `ListBoundRight`, `DictBoundRight`: the result is that of replacing all markers
  at once (for lists: with one kind of marker, and parameters without markers).
* `LiteralsReadBack`: the five replacements of `_escape` escape every character
  once.

### LateAnswers: what comes after a receive timeout

All objects of a Service share one Thrift client. A call that times out returns an
error and leaves its request in the connection; the next call reads that answer.
`Send`, `Receive`, `ReceiveOther`, `ReceiveGarbled` and `TimeOut` are the steps of a
call, `ServerAnswers` those of the server. The client compares the method's name only
(`Receive`, `ReceiveOther`); behind an answer of another method, or after part of an
answer, it is out of step (`garbled`) and what it returns is left open.

* `AnswersLag`: a call returns the answer of the call made exactly as many calls
  earlier as calls had timed out. A client that saw no timeout gets its own answers;
  a client that did gets those of earlier calls, also of other operations.
* `CallReturns`: while the server answers, a call returns unless the client is out
  of step.
* `AnswersInOrder`, `SameMethod` (proved): no answer is handed out twice or out of
  order, and none is taken for that of another method.

### ResultSchema: type descriptors, schema objects and the data frame

`GetSchema` converts what the server describes (`TTypeDescToColumnType`) into C++
columns that the Python `Schema` owns; `GetColumn` and `GetType` make the objects
that point into it; `Drop` lets one go, and what nothing refers to is freed.
`FetchAll`, `ConvertColumn` and `MakeFrame` are the loop of `fetchall_pandas` over
the columns; a type that is not supported raises in the middle.

* `PointersAreGood`: what a held `ColumnDesc` or `ColumnType` points to is there.
* `CastsAreGood`: `GetDecimalType` and `GetCharacterType`, which cast by the
  identifier, meet an object of the class they cast to, also when the server left
  out the qualifiers.
* `FrameHoldsLast`, `FrameIsSupported` (proved): of several columns of one name the
  frame shows the last, under each of its places; no frame is made of a result set
  with an unsupported type, however often the program asks.

### PrintTable: the table of one batch

Measuring (`StartColumn`, `MeasureCell`, `MeasureOther`, one step for each call of
`NumSpaces`, `EndColumn`) and printing (`Header`, `Row`, `EndTable`) are separate
code, and are compared: `TableAligned` says that each printed cell of a column that
is not binary is as wide as its header. Of a text only the length is kept. The
negation of the smallest integer is undefined: the model takes the same number,
with which `NumSpaces` calls itself until the stack ends (`"crashed"`), or the right
one.

### LintRun: a run of the linter

The program from `ParseArguments` to its exit status: for each file the walk up the
directories (`NextDirectory`, `ConfigOption`, `EndConfig`), the reading, the reports
before, at and after the lines in the order of `ProcessFileData`, with the NOLINT
comment of a line parsed when `ProcessLine` comes to it. Which check reports which
category is left open. A category is a sequence, so that `startswith` is a prefix.

* `FiltersRestored`: between files the filters are those of the command line, on
  every return of `ProcessFile`.
* `InnermostDecides`: the innermost `CPPLINT.cfg` with a filter for a category decides
  about it, although files are read from the inside out and filters from left to
  right.
* `OwnNolintsOnly`: what is suppressed while a file is checked comes from its own
  comments, and those up to the line at hand are all in effect.
* `ExitStatusTells` (proved): the exit status is 1 exactly if an error was written.

### LintCleanse, LintNesting, LintExpressions: how a file is read

`LintCleanse` follows `ProcessFileData` over lines of symbols: copyright, multi-line
comments, then line by line raw strings, comments and literals, then the checks on
the whole file. `ElidedRight` compares the result with a scanner of the language, one
character at a time, that is written independently of the code. Excepted are files the
linter complains about and files the scanner finds odd: literals not closed on their
line, a backslash or `*/` in code, quotes or comment signs in comments, code after the end
of a multi-line comment, and a raw string that begins in another or is left open behind
another.

`LintNesting` is `NestingState.Update` and the checks made when blocks begin and end,
on lines of tokens. `StackIsOpenBraces`: the blocks on the stack are the braces open
in the lines a compiler keeps, each of the kind its head gives it, whatever
conditionals came before. `NamespaceEndRight`: the end of a namespace is reported
exactly when its length or comment calls for it.

`LintExpressions` is `CloseExpression` and `ReverseCloseExpression`, one character a
step; blanks, `=` and the word `operator` are told apart because the scans look for
`>=` between blanks, `<=`, `<<` and `operator` before a bracket. `BracketsMatch`:
whatever the scan guesses about `<` and `>`, it finds the bracket that matches.
`ReverseIsInverse`: the reverse scan leads back.

### LintGuard, LintIncludes, LintNames, LintFunctions: checks on whole files

* `LintGuard` (`CheckForHeaderGuard`): `SilentMeansNamed`, a header that passes has the
  right name in `#ifndef`, `#define` and the last `#endif`; `GuardedIsSilent` (proved), a
  header in the prescribed form passes.
* `LintIncludes` (`_IncludeState`, `CheckForIncludeWhatYouUse`): `CleanBlockIsOrdered`, a
  block of includes that passes is in the prescribed order; `MissingIsExact`, a header
  reported missing is missing, and in a header file each missing one is reported.
* `LintNames` (`FileInfo`, guards, `FilesBelongToSameModule`): `GuardIsProjectPath`, the
  guard depends on the path in the project only, wherever and with whatever tool it is
  checked out; `OwnHeaderIsOpened`, two checks that work on different names of a file's
  own header mean the same file.
* `LintFunctions` (`_FunctionState`): `LongFunctionShown`, a function too long for the
  verbosity is reported, at a level the verbosity lets through.

### Modules for model checking

Components that share no state are checked in one run: `MCBatch` extends
`ConvertColumn` and `PrintTable`; `MCLintChecks` extends `LintGuard`, `LintIncludes` and
`LintFunctions` and has an instance of `LintNames`; `MCLintText` has instances of
`LintCleanse`, `LintNesting` and `LintExpressions`. The variable `part` says of which one
a behaviour is, while the variables of the others rest. An invariant that speaks of an
instance holds under its `part`; the others are true of the variables at rest. The
modules that are extended together name their specifications and some of their state
after themselves (`PrintSpec`, `print_pc`, `GuardSpec`, `guard_line`, `IncludesSpec`,
`FunctionsSpec`, `BindSpec`), and so do those that are proved together (`WaitSpec`,
`LateSpec`, `SchemaSpec`).

## Runs

| Run | Module, configuration | Checks | Result |
| --- | --- | --- | --- |
| `objects` | `MCHS2Client`, `HS2Client.cfg` | `HandleOwnership`, `NoLeakOnIntactConnection`, `OpenHandleIsLive`, `CloseOKReleases` | passes, 464,212 states |
| `python` | `PyClient`, `PyClient.cfg` | `ParentsOutliveChildren`, `CleanNeverAborts`, `CollectedIsClosed`, `GarbageIsCollected` | passes, 224,229 states |
| `wait` | `OperationWait`, `OperationWait.cfg` | `ReturnsOnlyFinished`, `RaisesInTime`, `TimeoutEndsWait`, `FinishedEndsWait` | passes, 552 states |
| `fetch` | `FetchAll`, `FetchAll.cfg` | `CompleteUnlessFailed`, `CallEnds`, `ImplementsStream` | passes, 3,622 states |
| `late_answers` | `LateAnswers`, `LateAnswers.cfg` | `AnswersLag`, `CallReturns` | passes, 409,060 states |
| `result_schema` | `MCResultSchema`, `ResultSchema.cfg` | `PointersAreGood`, `CastsAreGood` | passes, 1,244,756 states |
| `batch` | `MCBatch`, `Batch.cfg` | `ConvertedRight`, `RoomForTheRest`, `RefsMatchCells`, `TableAligned` | passes, 1,288,451 states |
| `convert_trimmed` | `ConvertColumn`, `ConvertColumn_trimmed.cfg` | `IsNullIsExact` | violated |
| `bind` | `MCBindParameters`, `BindParameters.cfg` | `ListBoundRight`, `DictBoundRight`, `LiteralsReadBack` | passes, 1,724,149 states |
| `lint_run` | `MCLintRun`, `LintRun.cfg` | `FiltersRestored`, `InnermostDecides`, `OwnNolintsOnly` | passes, 1,057,762 states |
| `lint_text` | `MCLintText`, `LintText.cfg` | `ElidedRight`, `StackIsOpenBraces`, `NamespaceEndRight`, `BracketsMatch`, `ReverseIsInverse` | passes, 1,991,215 states |
| `lint_checks` | `MCLintChecks`, `LintChecks.cfg` | `SilentMeansNamed`, `CleanBlockIsOrdered`, `MissingIsExact`, `GuardIsProjectPath`, `OwnHeaderIsOpened`, `LongFunctionShown` | passes, 4,749,894 states |

### Bounds

`objects` is a debug build with two connections, session pointers, operation
pointers, session handles and operation handles. Two of each is what the properties
need to fail: two Operations that share a handle, an object replaced through its
pointer while another one lives, a Service replaced while its Sessions live. A handle
is never issued twice, so the numbers of handles bound the successful opens of a
behaviour. Connections, pointers and handles are symmetric: nothing distinguishes
them. `python` checks liveness, which excludes symmetry, and has one connection, one
operation pointer and two session pointers; handles outnumber the operation pointer,
so objects are collected and made again. Release builds, in which the destructors
check nothing, are left to the proofs, which hold for both values of `NDEBUG`.

`wait` uses timeouts below, at and above the first interval of 50, at the sum of two
sleeps (150) and just below the sum of three (350), and none. `fetch` uses result sets
of 0, 1, 3 and 5 rows and batches of up to 3, so that there are exact and short last
batches, empty batches and several calls per result set. `late_answers` has four calls
of two methods on two operations: two timeouts, then two answers that are late by two.
`result_schema` has up to three columns out of ten descriptions, with both names, all
classes of types, and types without their qualifiers.

`batch` scales the code's numbers down. The converters have bytes of 2 bits (8 in the
code), floats of 2 bits (24) and integers of 5 (63), so that chunks of 3 cells have bitmaps
of two bytes, 3 is exact, 7 and 11 are rounded, and -27 loses three bits; two chunks make a
null in a later chunk possible. The
table has two columns of two rows, and integers of 8 bits with the smallest among them.
`convert_trimmed` uses bytes of 8 bits and one chunk of up to 9 cells. `bind` has
statements of up to four tokens and up to two parameters: enough for two adjacent
markers with text around them, and for `:1` next to a marker whose number begins with it
(2 and 3 in this instance, as 10 and 11 do for 1). Parameters of other types print as
a number, or as a time whose second half is a marker.

`lint_run` has two files in a directory and in its subdirectory, seven contents of a
`CPPLINT.cfg` (filters, line length, excluded files, `set noparent`, an unreadable file,
bad values), one line with a NOLINT comment or none in each file, and one report: two
files are what it takes for state to leak from one to the next.

`lint_text` reads all files of one line of up to four symbols around literals, of three
lines of pieces of comments and of two lines of raw strings with two delimiters; all
files of four lines of namespaces and classes, of five lines of conditionals around
heads, and of four lines of assembly, sections and other heads, with a namespace long
from 3 lines (10 in the code) and a class from 2 (24); all texts of two lines of three
brackets or semicolons, and all lines of up to five or six characters with `=` and
blanks, and of up to five with `-`, `operator` and blanks. `lint_checks` has headers of
four lines of 18 kinds, files of five lines with includes of every class, a project
below `/h` with every combination of `.git` and `.svn` in its directories, and files of
five lines of all kinds with triggers of 1 and 2 lines (250 and 400 in the code), so
that functions longer than twice the trigger exist.

Deadlock is not checked where the program may stop or the modelled function returns;
`lint_run`, whose specification says how it stops, does check it.

### Fairness

`HS2Client` and `ResultSchema` have none; their properties are safety properties.
`OperationWait` assumes weak fairness of `WakeFirst` and `Wake`, because `time.sleep`
returns and so does the `GetOperationStatus` call that the same step makes: `operation.h`
says that of the methods only `Fetch` blocks, and a lost connection throws. Nothing else is
assumed of the server, and nothing of other threads or of the caller.
`FetchAll` assumes weak fairness of the steps of a call that has begun, because each RPC
is answered or throws; which of the two happens is left open. `LateAnswers` assumes that
the server goes on answering and that the client reads an answer that has come; timeouts,
and a client that is out of step, are left free. `PyClient` assumes weak fairness of
collection only: the interpreter runs `__dealloc__` when the last reference goes, and its
RPC is answered or throws. The other modules are sequential code; where their
specification has weak fairness it says that the code keeps running, and no run needs it.

### Where the code and its comments disagree

`convert_trimmed` is violated: `columnar-row-set.h` says that `IsNull` is true exactly for
nulls, and that null bitmaps can be short. Neither `IsNull` nor `GetBit` compares with the
size, so that the bit of a later row comes from behind the bitmap.

More disagreements came up while modelling. They are part of the models' behaviour, and
the properties above are stated so as to hold in spite of them:

* `Session::Close` frees the session's operations on the server and leaves the `open_` of
  their objects, which `operation.h` equates with a valid handle.
* The headers ask for `Close` before deletion; after a `Close` that failed the destructors
  end a debug build all the same.
* After a receive timeout `GetState` can return the state of another operation
  (`LateAnswers`).
* A question mark in a string parameter is taken for a marker, and the right number of
  parameters raises (`_replace_numeric_markers`).
* A null in an integer column rounds the other integers to 24 bits, as 16777217 to
  16777216, although the comment speaks of writing to doubles, which would hold 53.
* `PrintResults` measures no binary values, gives the name of a column of an unrecognised
  type to the next column, and does not end for the smallest integer.
* `cpplint`, run: a `linelength` outlives its file, and the outermost directory wins; a
  NOLINT comment does not suppress a report that another line's check makes on its line;
  a filter without sign raises, although the usage text has one.
* `cpplint`, comments and strings: code after the end of a multi-line comment can vanish
  with the lines up to the next comment; an unfinished comment is reported one line late;
  a comment after a string with `//` stays; a raw string before an unfinished one stays;
  bad characters in multi-line comments are not seen.
* `cpplint`, blocks and brackets: struct arguments at top level are pushed; a parenthesis
  opened on a line that also opens a block makes later classes plain blocks; the end of a
  class whose brace is on the next line is not found; `operator>` closes a `<`.
* `cpplint`, checks: an include repeated in an `#else` after a nested conditional is
  reported; `c++` in a path brings the whole path into the guard; a checkout at `/` loses a
  character, and with a `.svn` there the walk does not end; `public` or `internal` in the path
  of a `.cc` file leads to a wrong header; `map.cc` need not include `map.h` once it includes
  `<map>`; a long function is reported again at each later lone brace, and the lines of its
  head are counted; a guard with `#define` before `#ifndef` passes.

## Proofs

The theorems hold for all values of the constants under the named assumptions of each
module, which TLC evaluates in the runs:

* `ConstantsAssumption`, `PyObjectsAssumption`: null values are no connections or
  handles, and the names of Python objects are distinct;
* `WaitAssumption`: a positive first interval, natural timeouts; `FetchAssumption`:
  natural row counts, positive batch sizes; `CallsAssumption`: a natural bound;
* `SchemaAssumption`, `GuardAssumption`, `RunAssumption`, `PrintAssumption`,
  `ConvertColumnAssumption`: bounds are natural numbers, and columns, lines, filters,
  options and values have the shape the model gives them (integers of at most `IntBits`
  bits and their sign, a float of at least one bit; a byte has bits);
* `BindParametersAssumption`: the words `dbapi.py` knows are words, texts are made of
  tokens, and a number whose digits begin those of a longer one is the smaller;
* `FunctionsAssumption`: positive triggers, and a verbosity of at most 5, the highest
  level of a report; `IncludesAssumption`: no STL header is a third-party header or a
  `.cc` file, as `_THIRD_PARTY_HEADERS_PATTERN` asks for the suffix `.h`.

For a bound such as `MaxCalls` or `MaxLines` this means behaviours and files of any
length. Two theorems have a hypothesis on the constants besides: `ConversionIsRight` is
about servers that send whole bitmaps (`~TrimsBitmaps`; with short ones the property is
false, which is the run `convert_trimmed`), and `TableIsAligned` about columns whose type
`PrintResults` recognises (`RecognizedOnly`; it measures no others).

### The C++ and the Python objects: ClientProofs

The type invariant and the four safety properties of `HS2Client` follow from one
inductive invariant, `Inv`. None of the properties is inductive by itself. What is needed
is the relation between every object and the server, closed objects included because they
keep their handle: an object's handle was issued, under the object's connection and
session, and unless the object is open it is freed (`SessionInv`, `OperationInv`); no two
Operation objects hold the same handle (`DistinctHandles`); owners of issued handles are
issued (`ServerInv`). The steps are first shown to move handles and transports forward
only (`ServerForward`, `TransportForward`), and to be of a few kinds for each object
(`SessionStep`, `OperationStep`, `ServerStep`); each conjunct is then proved over those
kinds instead of over the eleven actions.

Python programs implement the C++ client (`PyImplementsClient`): each Python step is a
step of `HS2Client` or leaves its variables alone, so the properties of `HS2Client` hold
for Python programs (`PyHandles`). `PyNeverCrashes` rests on `NoNull`: no transport is
ever null. `ParentsKept` rests on `PyInv`: each existing Operation has an existing Session
of its connection, each Session has the Service (`Family`), and the object between its two
steps of collection has no children (`DyingIsChildless`), without which `Destroy` could
orphan a child. `CleanProgramsRun` and `CollectionCloses` need `CleanInv` on top of that:
while the program is clean, the object between its two steps is closed, and every handle
alive on the server is held by an object that is open, not only by one that exists.

### The methods of an operation: OperationProofs

* `wait()`: `ReturnsOnlyFinished` and `RaisesInTime`. The bound rests on the closed form of
  the back-off (`BackOff`): in the k-th sleep, k > 1, the interval is the sum of the
  sleeps before plus one first interval.
* Reading: `RowsOnceInOrder`, `CompleteUnlessFailed` and the refinement
  `ImplementsStream`. `FetchInv` says that `pending` is the last run of rows the server
  handed out, that `out` lies below it and has no gaps while nothing failed, and that the
  loops leave `Fetch` for good only at the end.
* Late answers: `AnswersLag`, `AnswersInOrder` and `SameMethod` from `LateInv`, whose heart
  is `Position`: a client at the start of an answer has taken one answer for each call
  that has returned, but for those that timed out. Without it nothing ties the next answer
  to the number of timeouts.
* The schema: the four properties of `ResultSchema` from `ColumnsInv` (cached columns are
  those the server described), `HeldInv` (a schema that is freed is held by nobody) and
  `LoopInv` (the dictionary holds, for each name up to the loop's column, the last column
  of that name).

### Rows, tables and texts: ConvertColumnProofs, PrintTableProofs, BindProofs

These loops compute something over data of any size, and their properties compare the
result with a definition by recursion. The library's induction theorems cannot be
instantiated by the installed provers, so `DataLemmas` states induction over sets
(`NatInd`: a set that holds 0 and with each number the next holds every number; from the
least element of a nonempty set, `LeastNat`), proves that functions defined by recursion
over an interval are what they say (`Recursion`), and derives what the proofs need about
texts: joining the parts of a sequence (`Concat`), replacing token by token, and finding
the first occurrence (`FirstIs`, `FirstInParts`).

* `ConvertColumn`, for any number of chunks of any length: `RoomForTheRest` from
  `Position`, which ties the place in the array to the lengths of the chunks before;
  `RefsMatchCells` from `References`, which accounts for each object's references by the
  cells of the array, the intern table and nothing else; `ConvertedRight` from both and
  the cells written so far, in the first pass as in the second. That the rounded integers
  are the nearest floats (`ToFloatIsNearest`), for any widths of the two, takes two
  facts: rounding picks the nearest multiple of the unit (`NearestMultiple`), and a number
  of float precision that is no multiple of the unit is a smaller one with a finer unit,
  which is no nearer (`RoundedIsNearestFloat`).
* `PrintTable`, for any number of rows and columns and integers of any width:
  `TableAligned`. While a column is measured, `max_size` is enough for the rows above
  (`Measuring`). Its heart is `NumSpaces`: with `n` left of a value `v` and `s` digits taken
  off, `n` is `v` divided by the s-th power of ten.
* `BindParameters`, for statements of any length and any number of parameters:
  `ListBoundRight`, `DictBoundRight` and `LiteralsReadBack`. The operation on its way is
  the concatenation of one part for each token of the given statement, the token or the
  literal that has replaced it (`TextWith`). As no literal holds a marker that is still to
  be replaced (`Safe`), the next marker found is the first of the statement's own
  (`BindInv`); for numbered markers the descending order keeps the ones that begin with
  the digits of another from being hit.

### The linter: LintRunProofs, LintCheckProofs

* `LintRun`, for any files, options and reports: `FiltersRestored` (the copy of the
  filters is intact while a file is processed, `FilterInv`), `ExitStatusTells` (the total
  is positive exactly if something was written, `ErrorInv`), `OwnNolintsOnly` (the comments
  above a line are parsed before the line is, `NolintInv`), and `InnermostDecides`. The
  last needs `WalkInv`: the options read are those of an initial part of the walk up the
  directories, the filters of each option come in front of those read before, and so the
  last filter that matches a category is that of the first option read that has one.
* `LintGuard`, for headers of any length: `SilentMeansNamed` and `GuardedIsSilent`.
  `ScanInv` says what the three line numbers mean for the lines behind the scan, `DoneInv`
  that the errors are the verdict on them.
* `LintFunctions`, for files of any length and any triggers: `LongFunctionShown` from
  `FunctionsInv`: while the line is inside a function, the state is that of this function
  and at least its lines so far are counted; behind it the report is there.
  `InsideFunction` shows that nothing inside starts or ends another count, and
  `LevelIsShown` that the logarithm that gives the level is not below the verbosity.
* `LintIncludes`, for files of any length and any headers: `CleanBlockIsOrdered` from
  `SectionIsReached` (the includes since the last directive have brought the section at
  least to their own place), and `MissingIsExact` from `ListedAreLines` and
  `LinesAreListed` (the lists hold include lines of the file, and without `#else` all
  those that count).

`HS2Client`, `OperationWait`, `FetchAll`, `PyClient`, `LateAnswers` and `LintGuard` also
have a theorem for their type invariant.

### Only model-checked

* Liveness (`TimeoutEndsWait`, `FinishedEndsWait`, `CallEnds`, `CallReturns`,
  `GarbageIsCollected`), which is outside what the prover handles.
* `ElidedRight`, `StackIsOpenBraces`, `NamespaceEndRight`, `GuardIsProjectPath` and
  `OwnHeaderIsOpened`: the code they are about rewrites a line, or walks up a path, until
  nothing is left to do, which `LintCleanse`, `LintNesting` and `LintNames` follow with
  recursive operators. The prover does not take modules that have these.
* `BracketsMatch` and `ReverseIsInverse`: the stack of the scan has to be related to a
  grammar of balanced texts, which is an induction over pairs of positions with a choice
  at each; for the reverse scan the angle brackets come in, about which the two
  directions guess differently.

## Not modelled

* The style checks of `cpplint.py` that look at one line at a time (spacing, casts,
  braces, names, C++11 features and the like). They keep no state between lines: what
  they do is their regular expressions, and a model would repeat those. `LintRun` has
  their reports, with any category at any line. Its usage text and the options
  `--output`, `--root`, `--linelength` and `--extensions` are left out of `LintRun`
  (`--root` is in `LintNames`). In `LintExpressions` braces, which are treated like square
  brackets, are left out.
* `SetConnTimeout` and `SetSendTimeout`, which only make a call throw, as the calls of
  `HS2Client` may; `ToString` and the texts of messages.
* More than one Python Service at a time, and two threads in one Python object except for
  `wait`.
* In `BindParameters` a stray `%`, or a positional `%s` with a dictionary.
* What a failed conversion leaves behind (`converters.h:254`) is in `ConvertColumn`, but
  no property speaks of it.
* An abstract specification of handle lifetimes above `HS2Client`; its four properties
  say what it would.
* Generated Thrift code and the Thrift runtime, modelled by their effect;
  `generate_error_codes.py`, which writes a table; `collect_coverage.py`, `setup.py` and
  `compat.py`, which keep no state; the abstract `Connection` and `Cursor` classes, whose
  methods only raise; the sample program and the test helpers, whose calls are behaviours
  of `HS2Client`.
