------------------------------ MODULE LintRun ------------------------------
(***************************************************************************)
(* A run of the lint tool the build calls, build-support/cpplint.py: the    *)
(* command line, the files one after the other, the CPPLINT.cfg files of   *)
(* the directories above each of them, and the module-wide state that all  *)
(* files share: filters, verbosity, line length, NOLINT suppressions and   *)
(* error counts.                                                           *)
(*                                                                         *)
(* A category or a prefix of one is a sequence of symbols, so that         *)
(* startswith is StartsWith: "build/include_alpha" is                      *)
(* <<"build", "include", "alpha">>.  Which check finds what is left open:  *)
(* any check may report any category with any confidence on a line that is *)
(* within its reach.                                                       *)
(***************************************************************************)
EXTENDS Integers, Sequences, FiniteSets, FiniteSetsExt

CONSTANTS
  Categories,     \* _ERROR_CATEGORIES
  Confidences,    \* confidence scores a check reports
  Verbosities,    \* values of --verbose
  Prefixes,       \* what a filter may name
  FilterLists,    \* values of --filter: sequences of filters
  Countings,      \* values of --counting, "" when it is absent
  Configs,        \* contents of a CPPLINT.cfg: sequences of options
  Dirs,           \* directories that may hold a CPPLINT.cfg
  Files,          \* files: [dirs: its directories, innermost first, ext: valid?]
  Nolints,        \* NOLINT comments a line may hold
  MaxFiles, MaxLine, MaxReports   \* bounds: files, lines of a file, reports

Filter(sign, prefix) == [sign |-> sign, prefix |-> prefix]

Option(name, fs, length, bases) ==
  [name |-> name, filters |-> fs, length |-> length, bases |-> bases]

DEFAULT_FILTERS == << Filter("-", <<"build", "include", "alpha">>) >>
DefaultLength == 80
NotANumber == -1

\* A filter with neither sign is one that AddFilters raises on.
FilterShape == [sign : {"+", "-", ""}, prefix : Prefixes]
OptionShape ==
  [name : {"filter", "linelength", "exclude_files", "set noparent", "IOError"},
   filters : Seq(FilterShape), length : Int, bases : SUBSET (Dirs \cup {"file"})]

ASSUME RunAssumption ==
  /\ MaxLine \in Nat
  /\ <<"build", "include", "alpha">> \in Prefixes
  /\ FilterLists \subseteq Seq(FilterShape)
  /\ Configs \subseteq Seq(OptionShape)
  /\ Files \subseteq [dirs : Seq(Dirs), ext : BOOLEAN]

VARIABLES
  pc,                 \* where the program stands
  todo, file,         \* files not started yet; the file being processed
  verbose_level, counting, filters, filters_backup,   \* _CppLintState
  error_count, errors_by_category,
  line_length,        \* _line_length
  error_suppressions, \* set of <<category, line>>; category <<>> is None
  cfg,                \* what the CPPLINT.cfg of each directory holds
  walk,               \* ProcessConfigOverrides: its loop variables
  text,               \* the NOLINT comment on each line of the file
  line,               \* the line ProcessLine is at
  reports,            \* how many reports the checks have tried
  given,              \* what the command line set: filters and line length
  written             \* ghost: errors written, with the comment on their line

state == <<verbose_level, counting, filters, filters_backup>>
counts == <<error_count, errors_by_category, written>>
vars == <<pc, todo, file, verbose_level, counting, filters, filters_backup,
          error_count, errors_by_category, line_length, error_suppressions,
          cfg, walk, text, line, reports, given, written>>

NolintCategory == <<"readability", "nolint">>
CommentCategory == <<"readability", "multiline">>
GuardCategory == <<"build", "guard">>
BracesCategory == <<"readability", "braces">>   \* and the two empty-body ones

\* The keys of errors_by_category: a category or its first part.
CountKeys == Categories \cup {<<c[1]>> : c \in Categories}

NoFile == [dirs |-> <<>>, ext |-> FALSE]
NoWalk == [level |-> 1, opts |-> <<>>, cfg_filters |-> <<>>, keep_looking |-> TRUE]
NoText == [l \in 0..(MaxLine + 1) |-> [next |-> FALSE, what |-> "none", cat |-> <<>>]]

Init ==
  /\ pc = "ParseArguments"
  /\ todo = <<>> /\ file = NoFile
  /\ verbose_level = 1 /\ counting = "total"
  /\ filters = DEFAULT_FILTERS /\ filters_backup = DEFAULT_FILTERS
  /\ error_count = 0 /\ errors_by_category = [k \in CountKeys |-> 0]
  /\ line_length = DefaultLength
  /\ error_suppressions = {}
  /\ cfg \in [Dirs -> Configs]
  /\ walk = NoWalk /\ text = NoText /\ line = 0 /\ reports = 0
  /\ given = [filters |-> DEFAULT_FILTERS, length |-> DefaultLength]
  /\ written = {}

-----------------------------------------------------------------------------
(***************************************************************************)
(* Filters.  AddFilters checks the whole list after it has appended, and   *)
(* raises ValueError on a filter with neither sign: nobody catches it.     *)
(***************************************************************************)
WellFormed(fs) == \A i \in DOMAIN fs : fs[i].sign \in {"+", "-"}

AddFilters(fs, more) == fs \o more

SetFilters(fs) == AddFilters(DEFAULT_FILTERS, fs)

StartsWith(cat, prefix) ==
  Len(prefix) <= Len(cat) /\ SubSeq(cat, 1, Len(prefix)) = prefix

\* The loop over the filters: is_filtered after the first n of them.
IsFiltered(cat) ==
  LET is_filtered[n \in 0..Len(filters)] ==
        IF n = 0 THEN FALSE
        ELSE IF StartsWith(cat, filters[n].prefix) THEN filters[n].sign = "-"
        ELSE is_filtered[n - 1]
  IN  is_filtered[Len(filters)]

IsErrorSuppressedByNolint(cat, l) ==
  <<cat, l>> \in error_suppressions \/ <<(<<>>), l>> \in error_suppressions

ShouldPrintError(cat, confidence, l) ==
  /\ ~ IsErrorSuppressedByNolint(cat, l)
  /\ confidence >= verbose_level
  /\ ~ IsFiltered(cat)

CountKey(cat) == IF counting = "detailed" THEN cat ELSE <<cat[1]>>

IncrementErrorCount(cat) ==
  /\ error_count' = error_count + 1
  /\ IF counting \in {"toplevel", "detailed"}
       THEN errors_by_category' = [errors_by_category EXCEPT ![CountKey(cat)] = @ + 1]
       ELSE UNCHANGED errors_by_category

Error(cat, confidence, l) ==
  IF ShouldPrintError(cat, confidence, l)
    THEN /\ IncrementErrorCount(cat)
         /\ written' = written \cup {<<cat, text[l]>>}
    ELSE UNCHANGED counts

\* What the NOLINT comment n of line l suppresses.
Suppresses(n, l) ==
  IF n.what \in {"all", "known"} THEN {<<n.cat, IF n.next THEN l + 1 ELSE l>>} ELSE {}

ParseNolintSuppressions(l) ==
  /\ error_suppressions' = error_suppressions \cup Suppresses(text[l], l)
  /\ IF text[l].what = "unknown" THEN Error(NolintCategory, 5, l) ELSE UNCHANGED counts

-----------------------------------------------------------------------------
(***************************************************************************)
(* main and ParseArguments.  Usage errors exit before anything is set and  *)
(* are left out; the files are linted in the order given.                  *)
(***************************************************************************)
ParseArguments ==
  /\ pc = "ParseArguments"
  /\ \E v \in Verbosities, fs \in FilterLists, c \in Countings,
        args \in UNION {[1..n -> Files] : n \in 1..MaxFiles} :
       /\ verbose_level' = v
       /\ filters' = SetFilters(fs)
       /\ counting' = IF WellFormed(SetFilters(fs)) THEN c ELSE counting
       /\ given' = [filters |-> SetFilters(fs), length |-> line_length]
       /\ todo' = args
       /\ pc' = IF WellFormed(SetFilters(fs)) THEN "main" ELSE "died"
  /\ UNCHANGED <<file, filters_backup, counts, line_length, error_suppressions,
                 cfg, walk, text, line, reports>>

\* sys.exit(error_count > 0) after the last file.
Exit ==
  /\ pc = "main"
  /\ todo = <<>>
  /\ pc' = IF error_count > 0 THEN "exit1" ELSE "exit0"
  /\ UNCHANGED <<todo, file, state, counts, line_length, error_suppressions, cfg,
                 walk, text, line, reports, given>>

\* ProcessFile, up to its call of ProcessConfigOverrides.
StartFile ==
  /\ pc = "main"
  /\ todo # <<>>
  /\ file' = Head(todo) /\ todo' = Tail(todo)
  /\ filters_backup' = filters
  /\ walk' = NoWalk
  /\ pc' = "Config"
  /\ UNCHANGED <<verbose_level, counting, filters, counts, line_length,
                 error_suppressions, cfg, text, line, reports, given>>

-----------------------------------------------------------------------------
(***************************************************************************)
(* ProcessConfigOverrides: the loop over the directories, innermost first, *)
(* one option at a time.  A directory without a CPPLINT.cfg is one whose   *)
(* cfg is empty; a file that cannot be opened holds the option "IOError".  *)
(***************************************************************************)
BaseName(level) == IF level = 1 THEN "file" ELSE file.dirs[level - 1]

NextDirectory ==
  /\ pc = "Config" /\ walk.opts = <<>>
  /\ walk.keep_looking /\ walk.level <= Len(file.dirs)
  /\ walk' = [walk EXCEPT !.opts = cfg[file.dirs[walk.level]], !.level = @ + 1]
  /\ UNCHANGED <<pc, todo, file, state, counts, line_length, error_suppressions,
                 cfg, text, line, reports, given>>

RestoreFilters == filters' = filters_backup

\* Mutant of GiveUpFile: the early returns of ProcessFile do not restore.
GiveUpFileNoRestore ==
  /\ pc' = "main"
  /\ UNCHANGED <<todo, file, state, counts, error_suppressions, cfg, text, line,
                 reports, given>>

\* An early return of ProcessFile.
GiveUpFile ==
  /\ RestoreFilters
  /\ pc' = "main"
  /\ UNCHANGED <<todo, file, verbose_level, counting, filters_backup, counts,
                 error_suppressions, cfg, text, line, reports, given>>

\* exclude_files is matched against the path component below the CPPLINT.cfg.
Excludes(o) == o.name = "exclude_files" /\ BaseName(walk.level - 1) \in o.bases

ConfigOption ==
  /\ pc = "Config" /\ walk.opts # <<>>
  /\ LET o == Head(walk.opts)
     IN  /\ walk' = [walk EXCEPT
              !.opts = Tail(@),
              !.keep_looking = @ /\ o.name \notin {"set noparent", "IOError"},
              !.cfg_filters = IF o.name = "filter" THEN Append(@, o.filters) ELSE @]
         /\ line_length' = IF o.name = "linelength" /\ o.length # NotANumber
                             THEN o.length ELSE line_length
         /\ IF Excludes(o)
              THEN GiveUpFile
              ELSE UNCHANGED <<pc, todo, file, state, counts, error_suppressions, cfg,
                               text, line, reports, given>>

\* Mutant of CfgFilters: applied in the order they were read.
CfgFiltersInOrder ==
  LET all[n \in 0..Len(walk.cfg_filters)] ==
        IF n = 0 THEN <<>> ELSE all[n - 1] \o walk.cfg_filters[n]
  IN  all[Len(walk.cfg_filters)]

\* "top-level directory config options having the least priority"
CfgFilters ==
  LET reversed[n \in 0..Len(walk.cfg_filters)] ==
        IF n = 0 THEN <<>> ELSE walk.cfg_filters[n] \o reversed[n - 1]
  IN  reversed[Len(walk.cfg_filters)]

EndConfig ==
  /\ pc = "Config" /\ walk.opts = <<>>
  /\ ~ walk.keep_looking \/ walk.level > Len(file.dirs)
  /\ filters' = AddFilters(filters, CfgFilters)
  /\ pc' = IF WellFormed(filters') THEN "Read" ELSE "died"
  /\ UNCHANGED <<todo, file, verbose_level, counting, filters_backup, counts,
                 line_length, error_suppressions, cfg, walk, text, line, reports, given>>

-----------------------------------------------------------------------------
(***************************************************************************)
(* The rest of ProcessFile, and ProcessFileData.                           *)
(***************************************************************************)
\* The file cannot be opened, or its extension is not one of _valid_extensions.
SkipFile ==
  /\ pc = "Read"
  /\ GiveUpFile
  /\ UNCHANGED <<line_length, walk>>

\* Mutant of ResetNolintSuppressions: the suppressions of the last file stay.
ResetNolintSuppressionsNever == UNCHANGED error_suppressions

ResetNolintSuppressions == error_suppressions' = {}

ReadFile ==
  /\ pc = "Read" /\ file.ext
  /\ text' \in {t \in [0..(MaxLine + 1) -> Nolints \cup {NoText[0]}] :
                  t[0] = NoText[0] /\ t[MaxLine + 1] = NoText[0]}
  /\ ResetNolintSuppressions
  /\ pc' = "Early" /\ reports' = 0
  /\ UNCHANGED <<todo, file, state, counts, line_length, cfg, walk, line, given>>

Report(cat, confidence, l) ==
  /\ reports < MaxReports /\ reports' = reports + 1
  /\ Error(cat, confidence, l)
  /\ UNCHANGED <<pc, todo, file, state, line_length, error_suppressions, cfg, walk,
                 text, line, given>>

\* CheckForCopyright and the missing guard report on line 0, a comment that does
\* not end is reported one line below the one that opens it.
EarlyReport ==
  /\ pc = "Early"
  /\ \E conf \in Confidences :
       \/ \E cat \in Categories : Report(cat, conf, 0)
       \/ \E l \in 1..MaxLine : Report(CommentCategory, conf, l + 1)

\* CheckForHeaderGuard parses the NOLINT comment of a line it is about to report.
GuardLine ==
  /\ pc = "Early" /\ reports < MaxReports
  /\ \E l \in 1..MaxLine : ParseNolintSuppressions(l) /\ line' = l
  /\ pc' = "Guard"
  /\ UNCHANGED <<todo, file, state, line_length, cfg, walk, text, reports, given>>

GuardReport ==
  /\ pc = "Guard"
  /\ \E conf \in Confidences : Error(GuardCategory, conf, line)
  /\ reports' = reports + 1
  /\ pc' = "Early"
  /\ UNCHANGED <<todo, file, state, line_length, error_suppressions, cfg, walk, text,
                 line, given>>

StartLines ==
  /\ pc = "Early"
  /\ line' = 0 /\ pc' = "Line"
  /\ UNCHANGED <<todo, file, state, counts, line_length, error_suppressions, cfg,
                 walk, text, reports, given>>

\* ProcessLine begins with the NOLINT comment of its line.
ProcessLine ==
  /\ pc = "Line"
  /\ ParseNolintSuppressions(line)
  /\ pc' = "Checks"
  /\ UNCHANGED <<todo, file, state, line_length, cfg, walk, text, line, reports, given>>

\* The checks of ProcessLine report on their line; those that follow a
\* parenthesis or a brace to its end report on the line where it ends.
CheckReport ==
  /\ pc = "Checks"
  /\ \E conf \in Confidences :
       \/ \E cat \in Categories : Report(cat, conf, line)
       \/ \E l \in (line + 1)..MaxLine : Report(BracesCategory, conf, l)

NextLine ==
  /\ pc = "Checks"
  /\ IF line <= MaxLine THEN line' = line + 1 /\ pc' = "Line"
                        ELSE line' = line /\ pc' = "Late"
  /\ UNCHANGED <<todo, file, state, counts, line_length, error_suppressions, cfg,
                 walk, text, reports, given>>

\* After the loop: blocks not closed, missing includes, bad characters, line ends.
LateReport ==
  /\ pc = "Late"
  /\ \E cat \in Categories, conf \in Confidences, l \in 0..MaxLine : Report(cat, conf, l)

EndFile ==
  /\ pc = "Late"
  /\ RestoreFilters
  /\ pc' = "main"
  /\ text' = NoText /\ line' = 0 /\ reports' = 0
  /\ UNCHANGED <<todo, file, verbose_level, counting, filters_backup, counts,
                 line_length, error_suppressions, cfg, walk, given>>

Stopped == pc \in {"exit0", "exit1", "died"} /\ UNCHANGED vars

Next ==
  \/ ParseArguments \/ StartFile \/ Exit
  \/ NextDirectory \/ ConfigOption \/ EndConfig
  \/ SkipFile \/ ReadFile \/ EarlyReport \/ GuardLine \/ GuardReport \/ StartLines
  \/ ProcessLine \/ CheckReport \/ NextLine \/ LateReport \/ EndFile
  \/ Stopped

\* One process that nothing blocks: it always takes its next step.
Spec == Init /\ [][Next]_vars /\ WF_vars(Next)

-----------------------------------------------------------------------------
Reporting == pc \in {"Early", "Guard", "Line", "Checks", "Late"}

(***************************************************************************)
(* ProcessFile backs the filters up and restores them on each of its       *)
(* returns: between two files, and when the program exits, the filters are *)
(* those of the command line, whatever the CPPLINT.cfg files held.         *)
(***************************************************************************)
FiltersRestored == pc \in {"main", "exit0", "exit1"} => filters = given.filters

\* The directories whose CPPLINT.cfg counts for the file, innermost first.
Ends(d) == \E i \in DOMAIN cfg[d] : cfg[d][i].name \in {"set noparent", "IOError"}

InEffect(i) ==
  /\ i \in DOMAIN file.dirs
  /\ \A j \in 1..(i - 1) : ~ Ends(file.dirs[j])

Matching(fs, cat) == {i \in DOMAIN fs : StartsWith(cat, fs[i].prefix)}

\* What the last matching filter of fs says.
Says(fs, cat) == fs[Max(Matching(fs, cat))].sign

\* The filter options for cat above the file, as pairs of directory and option.
OptionAt(p) == cfg[file.dirs[p[1]]][p[2]]
OptionPlaces == UNION {{d} \X DOMAIN cfg[file.dirs[d]] : d \in DOMAIN file.dirs}
FilterLines(cat) ==
  {p \in OptionPlaces :
     OptionAt(p).name = "filter" /\ Matching(OptionAt(p).filters, cat) # {}}

NotAfter(p, q) == p[1] < q[1] \/ (p[1] = q[1] /\ p[2] <= q[2])

(***************************************************************************)
(* While a file is checked, whether a category is printed is decided by    *)
(* the innermost CPPLINT.cfg in effect with a filter for it (within that   *)
(* file by its first such filter line, since the list is reversed), and by *)
(* the command line only when no CPPLINT.cfg has one.                      *)
(***************************************************************************)
InnermostDecides ==
  Reporting =>
    \A cat \in Categories :
      LET Deciding == {p \in FilterLines(cat) : InEffect(p[1])}
      IN  /\ \A p \in Deciding :
               (\A q \in Deciding : NotAfter(p, q)) =>
                 (IsFiltered(cat) <=> Says(OptionAt(p).filters, cat) = "-")
          /\ Deciding = {} /\ Matching(given.filters, cat) # {} =>
               (IsFiltered(cat) <=> Says(given.filters, cat) = "-")

\* What the comments of the file that is being checked suppress up to line n.
OwnSuppressions(n) == UNION {Suppresses(text[l], l) : l \in 0..n}

(***************************************************************************)
(* ResetNolintSuppressions starts each file afresh and ProcessLine parses  *)
(* a line before it checks it: when line n is checked, what is suppressed  *)
(* is what the comments of this file on the lines up to n say, and no      *)
(* comment of another file counts.  CheckForHeaderGuard may have added     *)
(* comments of this file from further down.                                *)
(***************************************************************************)
OwnNolintsOnly ==
  /\ pc \in {"Checks", "Late"} => OwnSuppressions(line) \subseteq error_suppressions
  /\ Reporting => error_suppressions \subseteq OwnSuppressions(MaxLine + 1)

(***************************************************************************)
(* The build reads the exit status: 0 means that no error of any of the    *)
(* files was written, 1 that at least one was.                             *)
(***************************************************************************)
ExitStatusTells ==
  /\ pc = "exit0" => written = {}
  /\ pc = "exit1" => written # {}

=============================================================================
