---------------------------- MODULE LintIncludes ----------------------------
(***************************************************************************)
(* What cpplint.py keeps and reports about the #include lines of a file:   *)
(* _IncludeState, CheckIncludeLine, the reset at preprocessor directives,  *)
(* and, at the end of the file, CheckForIncludeWhatYouUse and              *)
(* CheckHeaderFileIncluded.  A file is read line by line; a line is an     *)
(* include, a directive, a use of something an STL header declares, or     *)
(* blank.                                                                  *)
(***************************************************************************)
EXTENDS Integers, Sequences, FiniteSets, FiniteSetsExt

CONSTANTS
  Headers,      \* what can be included
  HeaderType,   \* _ClassifyInclude of each header, for this file
  Canon,        \* its place among the canonical paths, in alphabetical order
  ThirdParty,   \* headers _THIRD_PARTY_HEADERS_PATTERN matches
  ForeignCC,    \* .cc files of other packages
  NoDirectory,  \* "bar.h" without a directory
  OwnHeaders,   \* headers of the same module as the file
  StlHeaders,   \* headers a use can require
  MaxLines      \* bound: lines of the file

\* _THIRD_PARTY_HEADERS_PATTERN and foreign .cc files name no STL header.
ASSUME IncludesAssumption == StlHeaders \cap (ThirdParty \cup ForeignCC) = {}

VARIABLES
  lines,         \* the lines read so far
  include_list,  \* list of lists of <<header, line>>
  section,       \* _section
  last_header,   \* _last_header as a place in the alphabetical order; 0 is ''
  include_reports,       \* errors: [at: line, what: kind, first: line of the duplicate]
  ext,           \* the file's extension
  own,           \* its header file: readable, and what it includes
  include_done

includeVars == <<lines, include_list, section, last_header, include_reports, ext, own, include_done>>

INITIAL_SECTION == 0
MY_H_SECTION == 1
C_SECTION == 2
CPP_SECTION == 3
OTHER_H_SECTION == 4

If == {"if", "ifdef", "ifndef"}
Else == {"else", "elif"}

FileLine(kind, what) == [kind |-> kind, what |-> what]

Here == Len(lines) + 1

IncludeReport(what, first) == [at |-> Here, what |-> what, first |-> first]

IncludesInit ==
  /\ lines = <<>>
  /\ include_list = << <<>> >>
  /\ section = INITIAL_SECTION /\ last_header = 0
  /\ include_reports = {}
  /\ ext \in {"cc", "h"}
  /\ own \in [readable : BOOLEAN, includes : SUBSET StlHeaders]
  /\ include_done = FALSE

-----------------------------------------------------------------------------
\* Where h is in the k-th of the lists.
FoundIn(k, h) == {n \in DOMAIN include_list[k] : include_list[k][n][1] = h}

\* Line of the previous occurrence of h, or -1.
FindHeader(h) ==
  LET At == {k \in DOMAIN include_list : FoundIn(k, h) # {}}
  IN  IF At = {} THEN -1 ELSE include_list[Min(At)][Min(FoundIn(Min(At), h))][2]

\* Mutant of OutOfOrder: a C header may follow a C++ header.
OutOfOrderCpp(t) == t \in {"C", "CPP"} /\ section > CPP_SECTION

\* CheckNextIncludeOrder returns a message.
OutOfOrder(t) ==
  \/ t = "C" /\ section > C_SECTION
  \/ t = "CPP" /\ section > CPP_SECTION

NextSection(t) ==
  IF OutOfOrder(t) THEN section
  ELSE CASE t = "C" -> C_SECTION
         [] t = "CPP" -> CPP_SECTION
         [] t \in {"LIKELY", "POSSIBLE"} /\ section <= MY_H_SECTION -> MY_H_SECTION
         [] OTHER -> OTHER_H_SECTION

\* _last_header after CheckNextIncludeOrder.
LastHeader(t) ==
  IF OutOfOrder(t) \/ NextSection(t) # section THEN 0 ELSE last_header

IsInAlphabeticalOrder(last, h) ==
  ~ (last > Canon[h] /\ lines # <<>> /\ lines[Len(lines)].kind = "include")

\* Appends to the last list of include_list.
AddInclude(h) ==
  [include_list EXCEPT ![Len(include_list)] = Append(@, <<h, Here>>)]

Recorded(h) == FindHeader(h) = -1 /\ h \notin ForeignCC /\ h \notin ThirdParty

CheckIncludeLine(h) ==
  /\ include_reports' = include_reports
       \cup {IncludeReport("directory", 0) : x \in {h} \cap (NoDirectory \ ThirdParty)}
       \cup (IF FindHeader(h) >= 0 THEN {IncludeReport("duplicate", FindHeader(h))}
             ELSE IF h \in ForeignCC THEN {IncludeReport("cc", 0)} ELSE {})
       \cup (IF Recorded(h) /\ OutOfOrder(HeaderType[h]) THEN {IncludeReport("order", 0)} ELSE {})
       \cup (IF Recorded(h) /\ ~ IsInAlphabeticalOrder(LastHeader(HeaderType[h]), h)
             THEN {IncludeReport("alpha", 0)} ELSE {})
  /\ IF Recorded(h)
       THEN /\ include_list' = AddInclude(h)
            /\ section' = NextSection(HeaderType[h])
            /\ last_header' = Canon[h]
       ELSE UNCHANGED <<include_list, section, last_header>>

IncludeLine(h) ==
  /\ ~ include_done /\ Len(lines) < MaxLines
  /\ CheckIncludeLine(h)
  /\ lines' = Append(lines, FileLine("include", h))
  /\ UNCHANGED <<ext, own, include_done>>

OpenIfs == Len(SelectSeq(lines, LAMBDA x : x.kind = "directive" /\ x.what \in If))
             - Len(SelectSeq(lines, LAMBDA x : x = FileLine("directive", "endif")))

ResetLists(d) ==
  CASE d \in If -> Append(include_list, <<>>)
    [] d \in Else -> [include_list EXCEPT ![Len(include_list)] = <<>>]
    [] OTHER -> include_list

\* CheckLanguage on a conditional directive: ResetSection.
DirectiveLine(d) ==
  /\ ~ include_done /\ Len(lines) < MaxLines
  /\ d \in If \/ OpenIfs > 0
  /\ section' = INITIAL_SECTION /\ last_header' = 0
  /\ include_list' = ResetLists(d)
  /\ lines' = Append(lines, FileLine("directive", d))
  /\ UNCHANGED <<include_reports, ext, own, include_done>>

\* A line without either: "use" of something h declares, or "blank".
OtherLine(l) ==
  /\ ~ include_done /\ Len(lines) < MaxLines
  /\ lines' = Append(lines, l)
  /\ UNCHANGED <<include_list, section, last_header, include_reports, ext, own, include_done>>

-----------------------------------------------------------------------------
(***************************************************************************)
(* The end of the file.                                                    *)
(***************************************************************************)
\* The last line that uses each required header.
Required == {lines[i].what : i \in {j \in DOMAIN lines : lines[j].kind = "use"}}
RequiredAt(h) == Max({i \in DOMAIN lines : lines[i] = FileLine("use", h)})

Included == {h \in Headers : \E k \in DOMAIN include_list : FoundIn(k, h) # {}}

\* UpdateIncludeState could read a header of the module; only a .cc file has one.
HeaderFound == ext = "cc" /\ own.readable /\ Included \cap OwnHeaders # {}

\* Mutant of IncludeDict: the includes of the file's own header do not count.
IncludeDictOwn == Included

IncludeDict == IF HeaderFound THEN Included \cup own.includes ELSE Included

CheckForIncludeWhatYouUse ==
  IF ext = "cc" /\ ~ HeaderFound THEN {}
  ELSE {[at |-> RequiredAt(h), what |-> "missing", first |-> 0] :
          h \in Required \ IncludeDict}

FirstInclude ==
  LET Filled == {k \in DOMAIN include_list : include_list[k] # <<>>}
  IN  IF Filled = {} THEN 0 ELSE include_list[Min(Filled)][1][2]

\* Reports when the header file exists and no include names it.
CheckHeaderFileIncluded ==
  IF ext = "cc" /\ own.readable /\ Included \cap OwnHeaders = {}
    THEN {[at |-> FirstInclude, what |-> "own header", first |-> 0]}
    ELSE {}

EndOfFile ==
  /\ ~ include_done
  /\ include_done' = TRUE
  /\ include_reports' = include_reports \cup CheckForIncludeWhatYouUse \cup CheckHeaderFileIncluded
  /\ UNCHANGED <<lines, include_list, section, last_header, ext, own>>

IncludesDone == include_done /\ UNCHANGED includeVars

IncludesNext ==
  \/ \E h \in Headers : IncludeLine(h)
  \/ \E d \in {"if", "else", "endif"} : DirectiveLine(d)
  \/ \E h \in StlHeaders : OtherLine(FileLine("use", h))
  \/ OtherLine(FileLine("blank", "blank"))
  \/ EndOfFile
  \/ IncludesDone

IncludesSpec == IncludesInit /\ [][IncludesNext]_includeVars

-----------------------------------------------------------------------------
IncludesAt == {i \in DOMAIN lines : lines[i].kind = "include"}
DirectivesAt == {i \in DOMAIN lines : lines[i].kind = "directive"}
SameBlock(i, j) == \A k \in DirectivesAt : ~ (i < k /\ k < j)
Reported(i, what) == \E r \in include_reports : r.at = i /\ r.what = what
RecordedAt ==
  {i \in IncludesAt :
     lines[i].what \notin ThirdParty /\ ~ Reported(i, "duplicate") /\ ~ Reported(i, "cc")}

TypeAt(i) == HeaderType[lines[i].what]
Mine(i) == TypeAt(i) \in {"LIKELY", "POSSIBLE"}

(***************************************************************************)
(* CheckNextIncludeOrder lets a block of includes without a directive pass *)
(* only if it is in the order the comment of CheckIncludeLine gives: no C  *)
(* header after a C++ or another header, no C++ header after another one,  *)
(* and neither after a header of this file in its deprecated place, that   *)
(* is, after a system header.                                              *)
(***************************************************************************)
CleanBlockIsOrdered ==
  \A i, j \in RecordedAt :
    i < j /\ SameBlock(i, j) /\ ~ Reported(j, "order") =>
      /\ TypeAt(j) = "C" => TypeAt(i) \notin {"CPP", "OTHER"} \/ Reported(i, "order")
      /\ TypeAt(j) = "CPP" => TypeAt(i) # "OTHER"
      /\ TypeAt(j) \in {"C", "CPP"} /\ Mine(i) =>
           \A k \in RecordedAt :
             k < i /\ SameBlock(k, j) => TypeAt(k) \notin {"C", "CPP"}

ElseIn == \E i \in DirectivesAt : lines[i].what \in Else

(***************************************************************************)
(* CheckForIncludeWhatYouUse: in a file without #else or #elif a header    *)
(* that is reported missing is included neither by the file nor by the     *)
(* header it could read; and in a header file each use of something        *)
(* nobody includes is reported.                                            *)
(***************************************************************************)
MissingIsExact ==
  include_done =>
    \A h \in StlHeaders :
      /\ (\E r \in include_reports : r.what = "missing" /\ lines[r.at].what = h) /\ ~ ElseIn =>
           /\ \A i \in IncludesAt : lines[i].what # h
           /\ ext = "cc" => /\ own.readable /\ h \notin own.includes
                            /\ \E i \in IncludesAt : lines[i].what \in OwnHeaders
      /\ ext = "h" /\ h \in Required /\ (\A i \in IncludesAt : lines[i].what # h)
         => \E r \in include_reports : r.what = "missing" /\ lines[r.at].what = h

=============================================================================
