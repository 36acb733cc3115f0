--------------------------- MODULE LintRunProofs ---------------------------
(***************************************************************************)
(* A run of the linter over any number of files with any CPPLINT.cfg       *)
(* files, filters, comments and reports: the filters of the command line   *)
(* come back, the exit status tells whether an error was written, only the *)
(* comments of the file that is checked suppress anything in it, and the   *)
(* innermost filter decides.                                               *)
(*                                                                         *)
(* The last of these needs an account of the walk up the directories: the  *)
(* options read so far are those of an initial part of the walk, and the   *)
(* filters collected from them, put in order, decide every category as the *)
(* first option read that has a filter for it.                             *)
(***************************************************************************)
EXTENDS LintRun, DataLemmas

InFile == {"Config", "Read", "Early", "Guard", "Line", "Checks", "Late"}

\* ProcessFile keeps the filters of the command line aside while it is in a file.
FilterInv ==
  /\ FiltersRestored
  /\ pc \in InFile => filters_backup = given.filters

\* The total is positive exactly when something was written.
ErrorInv ==
  /\ error_count \in Nat
  /\ error_count > 0 <=> written # {}
  /\ ExitStatusTells

\* Before a line is parsed, the comments of the lines above it are.
NolintInv ==
  /\ line \in 0..(MaxLine + 1)
  /\ pc = "Line" => OwnSuppressions(line - 1) \subseteq error_suppressions
  /\ OwnNolintsOnly

\* Exactly the steps that write nothing, and the ones that report.
LEMMA ErrorCounts ==
  ASSUME NEW cat, NEW confidence, NEW l, ErrorInv, Error(cat, confidence, l)
  PROVE  error_count' \in Nat /\ (error_count' > 0 <=> written' # {})
<1>1. CASE ShouldPrintError(cat, confidence, l)
  <2>1. /\ error_count' = error_count + 1
        /\ written' = written \cup {<<cat, text[l]>>}
    BY <1>1, Zenon DEF Error, IncrementErrorCount
  <2>2. error_count' \in Nat /\ error_count' > 0
    BY <2>1 DEF ErrorInv
  <2>3. written' # {}
    BY <2>1, Zenon
  <2>. QED BY <2>2, <2>3, Zenon
<1>2. CASE ~ ShouldPrintError(cat, confidence, l)
  BY <1>2, Zenon DEF Error, counts, ErrorInv
<1>. QED BY <1>1, <1>2, Zenon

\* A report changes nothing but the counts.
LEMMA ReportFrame ==
  ASSUME NEW cat, NEW confidence, NEW l, Report(cat, confidence, l)
  PROVE  UNCHANGED <<pc, filters, filters_backup, given, error_suppressions, text, line>>
BY Zenon DEF Report, state

\* Between two files, and at the end, the filters are those of the command line.
LEMMA FilterInvStep == FilterInv /\ [Next]_vars => FilterInv'
<1> SUFFICES ASSUME FilterInv, [Next]_vars PROVE FilterInv'
  BY Zenon
<1> USE DEF FilterInv, FiltersRestored, InFile
<1>1. CASE ParseArguments
  BY <1>1 DEF ParseArguments
<1>2. CASE StartFile
  BY <1>2, Zenon DEF StartFile
<1>3. CASE Exit
  BY <1>3, Zenon DEF Exit, state
<1>4. CASE NextDirectory
  BY <1>4, Zenon DEF NextDirectory, state
<1>5. CASE ConfigOption
  BY <1>5, Zenon DEF ConfigOption, GiveUpFile, RestoreFilters, state
<1>6. CASE EndConfig
  BY <1>6, Zenon DEF EndConfig
<1>7. CASE SkipFile
  BY <1>7, Zenon DEF SkipFile, GiveUpFile, RestoreFilters
<1>8. CASE ReadFile
  BY <1>8, Zenon DEF ReadFile, state
<1>9. CASE EarlyReport \/ CheckReport \/ LateReport
  BY <1>9, ReportFrame, Zenon DEF EarlyReport, CheckReport, LateReport
<1>10. CASE GuardLine
  BY <1>10, Zenon DEF GuardLine, state
<1>11. CASE GuardReport
  BY <1>11, Zenon DEF GuardReport, state
<1>12. CASE StartLines
  BY <1>12, Zenon DEF StartLines, state
<1>13. CASE ProcessLine
  BY <1>13, Zenon DEF ProcessLine, state
<1>14. CASE NextLine
  BY <1>14, Zenon DEF NextLine, state
<1>15. CASE EndFile
  BY <1>15, Zenon DEF EndFile, RestoreFilters
<1>16. CASE Stopped \/ UNCHANGED vars
  BY <1>16, Zenon DEF Stopped, vars
<1>. QED
  BY <1>1, <1>2, <1>3, <1>4, <1>5, <1>6, <1>7, <1>8, <1>9, <1>10, <1>11, <1>12,
     <1>13, <1>14, <1>15, <1>16 DEF Next

\* The total never loses an error that was written.
LEMMA ErrorInvStep == ErrorInv /\ [Next]_vars => ErrorInv'
<1> SUFFICES ASSUME ErrorInv, [Next]_vars PROVE ErrorInv'
  BY Zenon
<1>a. ASSUME NEW cat, NEW conf, NEW l, Error(cat, conf, l), pc' \notin {"exit0", "exit1"}
      PROVE  ErrorInv'
  BY <1>a, ErrorCounts, Zenon DEF ErrorInv, ExitStatusTells
<1>b. ASSUME UNCHANGED counts, pc' \notin {"exit0", "exit1"}
      PROVE  ErrorInv'
  BY <1>b, Zenon DEF ErrorInv, ExitStatusTells, counts
<1>1. CASE ParseArguments
  BY <1>1, <1>b, Zenon DEF ParseArguments, counts
<1>2. CASE StartFile
  BY <1>2, <1>b, Zenon DEF StartFile
<1>3. CASE Exit
  BY <1>3, Zenon DEF Exit, counts, ErrorInv, ExitStatusTells
<1>4. CASE NextDirectory
  BY <1>4, <1>b, Zenon DEF NextDirectory
<1>5. CASE ConfigOption
  BY <1>5, <1>b, Zenon DEF ConfigOption, GiveUpFile
<1>6. CASE EndConfig
  BY <1>6, <1>b, Zenon DEF EndConfig
<1>7. CASE SkipFile
  BY <1>7, <1>b, Zenon DEF SkipFile, GiveUpFile
<1>8. CASE ReadFile
  BY <1>8, <1>b, Zenon DEF ReadFile
<1>9. CASE EarlyReport \/ CheckReport \/ LateReport
  <2>1. PICK cat, conf, l : Report(cat, conf, l)
    BY <1>9, Zenon DEF EarlyReport, CheckReport, LateReport
  <2>2. pc \notin {"exit0", "exit1"}
    BY <1>9, Zenon DEF EarlyReport, CheckReport, LateReport
  <2>. QED BY <2>1, <2>2, <1>a, ReportFrame, Zenon DEF Report
<1>10. CASE GuardLine
  <2>1. PICK l \in 1..MaxLine : ParseNolintSuppressions(l)
    BY <1>10, Zenon DEF GuardLine
  <2>2. UNCHANGED counts \/ Error(NolintCategory, 5, l)
    BY <2>1, Zenon DEF ParseNolintSuppressions
  <2>. QED BY <1>10, <2>2, <1>a, <1>b, Zenon DEF GuardLine
<1>11. CASE GuardReport
  BY <1>11, <1>a, Zenon DEF GuardReport
<1>12. CASE StartLines
  BY <1>12, <1>b, Zenon DEF StartLines
<1>13. CASE ProcessLine
  <2>1. UNCHANGED counts \/ Error(NolintCategory, 5, line)
    BY <1>13, Zenon DEF ProcessLine, ParseNolintSuppressions
  <2>. QED BY <1>13, <2>1, <1>a, <1>b, Zenon DEF ProcessLine
<1>14. CASE NextLine
  BY <1>14, <1>b, Zenon DEF NextLine
<1>15. CASE EndFile
  BY <1>15, <1>b, Zenon DEF EndFile
<1>16. CASE Stopped \/ UNCHANGED vars
  BY <1>16, Zenon DEF Stopped, vars, ErrorInv, ExitStatusTells
<1>. QED
  BY <1>1, <1>2, <1>3, <1>4, <1>5, <1>6, <1>7, <1>8, <1>9, <1>10, <1>11, <1>12,
     <1>13, <1>14, <1>15, <1>16, ZenonT(30) DEF Next

\* A step that leaves the text and the suppressions alone, and goes to a state of the
\* file in which no more is said about them.
LEMMA NolintFrame ==
  ASSUME NolintInv, UNCHANGED <<text, error_suppressions, line>>,
         Reporting' => Reporting,
         pc' = "Line" => pc = "Line",
         pc' \in {"Checks", "Late"} => pc \in {"Checks", "Late"}
  PROVE  NolintInv'
BY DEF NolintInv, OwnNolintsOnly, OwnSuppressions

\* The lines of a file are parsed one after the other.
LEMMA OneMoreLine ==
  ASSUME NEW n \in Nat
  PROVE  OwnSuppressions(n) = OwnSuppressions(n - 1) \cup Suppresses(text[n], n)
<1>1. 0..n = 0..(n - 1) \cup {n}
  OBVIOUS
<1>. QED BY <1>1, Zenon DEF OwnSuppressions

\* Only comments of this file, and all of those above, are in force.
LEMMA NolintInvStep == NolintInv /\ [Next]_vars => NolintInv'
<1> SUFFICES ASSUME NolintInv, [Next]_vars PROVE NolintInv'
  BY Zenon
<1>1. CASE ParseArguments
  BY <1>1, NolintFrame, Zenon DEF ParseArguments, Reporting
<1>2. CASE StartFile
  BY <1>2, NolintFrame, Zenon DEF StartFile, Reporting
<1>3. CASE Exit
  BY <1>3, NolintFrame, Zenon DEF Exit, Reporting
<1>4. CASE NextDirectory
  BY <1>4, NolintFrame, Zenon DEF NextDirectory, Reporting
<1>5. CASE ConfigOption
  BY <1>5, NolintFrame, Zenon DEF ConfigOption, GiveUpFile, Reporting
<1>6. CASE EndConfig
  BY <1>6, NolintFrame, Zenon DEF EndConfig, Reporting
<1>7. CASE SkipFile
  BY <1>7, NolintFrame, Zenon DEF SkipFile, GiveUpFile, Reporting
<1>8. CASE ReadFile
  BY <1>8, Zenon DEF ReadFile, ResetNolintSuppressions, NolintInv, OwnNolintsOnly
<1>9. CASE EarlyReport \/ CheckReport \/ LateReport
  <2>1. UNCHANGED <<pc, error_suppressions, text, line>>
    BY <1>9, ReportFrame, Zenon DEF EarlyReport, CheckReport, LateReport
  <2>. QED BY <2>1, NolintFrame, Zenon DEF Reporting
<1>10. CASE GuardLine
  <2>1. PICK l \in 1..MaxLine : ParseNolintSuppressions(l) /\ line' = l
    BY <1>10, Zenon DEF GuardLine
  <2>2. Suppresses(text[l], l) \subseteq OwnSuppressions(MaxLine + 1)
    <3>1. l \in 0..(MaxLine + 1)
      BY RunAssumption
    <3>. QED BY <3>1, Zenon DEF OwnSuppressions
  <2>3. error_suppressions \subseteq OwnSuppressions(MaxLine + 1)
    BY <1>10, Zenon DEF GuardLine, NolintInv, OwnNolintsOnly, Reporting
  <2>4. error_suppressions' \subseteq OwnSuppressions(MaxLine + 1)
    BY <2>1, <2>2, <2>3, Zenon DEF ParseNolintSuppressions
  <2>5. OwnSuppressions(MaxLine + 1)' = OwnSuppressions(MaxLine + 1)
    BY <1>10, Zenon DEF GuardLine, OwnSuppressions
  <2>6. line' \in 0..(MaxLine + 1)
    BY <2>1, RunAssumption
  <2>7. pc' = "Guard"
    BY <1>10, Zenon DEF GuardLine
  <2>. QED BY <2>4, <2>5, <2>6, <2>7, Zenon DEF NolintInv, OwnNolintsOnly
<1>11. CASE GuardReport
  BY <1>11, NolintFrame, Zenon DEF GuardReport, Reporting
<1>12. CASE StartLines
  <2>1. /\ line' = 0 /\ pc' = "Line" /\ pc = "Early"
        /\ UNCHANGED <<error_suppressions, text>>
    BY <1>12, Zenon DEF StartLines
  <2>2. 0..(line' - 1) = {} /\ line' \in 0..(MaxLine + 1)
    BY <2>1, RunAssumption
  <2>3. OwnSuppressions(line - 1)' = {}
    BY <2>2, Zenon DEF OwnSuppressions
  <2>4. (error_suppressions \subseteq OwnSuppressions(MaxLine + 1))'
    BY <2>1, Zenon DEF NolintInv, OwnNolintsOnly, Reporting, OwnSuppressions
  <2>. QED BY <2>1, <2>2, <2>3, <2>4, Zenon DEF NolintInv, OwnNolintsOnly
<1>13. CASE ProcessLine
  <2>1. /\ pc = "Line" /\ pc' = "Checks" /\ UNCHANGED <<text, line>>
        /\ error_suppressions' = error_suppressions \cup Suppresses(text[line], line)
    BY <1>13, Zenon DEF ProcessLine, ParseNolintSuppressions
  <2>2. line \in 0..(MaxLine + 1) /\ line \in Nat
    BY RunAssumption DEF NolintInv
  <2>3. OwnSuppressions(line - 1) \subseteq error_suppressions
    BY <2>1, Zenon DEF NolintInv
  <2>4. OwnSuppressions(line) \subseteq error_suppressions'
    BY <2>1, <2>2, <2>3, OneMoreLine, Zenon
  <2>5. Suppresses(text[line], line) \subseteq OwnSuppressions(MaxLine + 1)
    BY <2>2, Zenon DEF OwnSuppressions
  <2>6. error_suppressions' \subseteq OwnSuppressions(MaxLine + 1)
    BY <2>1, <2>5, Zenon DEF NolintInv, OwnNolintsOnly, Reporting
  <2>7. /\ OwnSuppressions(MaxLine + 1)' = OwnSuppressions(MaxLine + 1)
        /\ OwnSuppressions(line)' = OwnSuppressions(line)
    BY <2>1, Zenon DEF OwnSuppressions
  <2>. QED BY <2>1, <2>2, <2>4, <2>6, <2>7, Zenon DEF NolintInv, OwnNolintsOnly
<1>14. CASE NextLine
  <2>1. pc = "Checks" /\ UNCHANGED <<text, error_suppressions>>
    BY <1>14, Zenon DEF NextLine
  <2>2. CASE line <= MaxLine
    <3>1. line' = line + 1 /\ pc' = "Line"
      BY <1>14, <2>2, Zenon DEF NextLine
    <3>2. line' \in 0..(MaxLine + 1) /\ line' - 1 = line
      BY <2>2, <3>1, RunAssumption DEF NolintInv
    <3>3. OwnSuppressions(line - 1)' = OwnSuppressions(line)
      BY <3>2, <2>1, Zenon DEF OwnSuppressions
    <3>4. OwnSuppressions(MaxLine + 1)' = OwnSuppressions(MaxLine + 1)
      BY <2>1, Zenon DEF OwnSuppressions
    <3>. QED BY <2>1, <3>1, <3>2, <3>3, <3>4 DEF NolintInv, OwnNolintsOnly, Reporting
  <2>3. CASE ~ (line <= MaxLine)
    <3>1. line' = line /\ pc' = "Late"
      BY <1>14, <2>3, Zenon DEF NextLine
    <3>. QED BY <3>1, <2>1, NolintFrame, Zenon DEF Reporting
  <2>. QED BY <2>2, <2>3, Zenon
<1>15. CASE EndFile
  <2>1. line' = 0 /\ pc' = "main"
    BY <1>15, Zenon DEF EndFile
  <2>. QED BY <2>1, RunAssumption DEF NolintInv, OwnNolintsOnly, Reporting
<1>16. CASE Stopped \/ UNCHANGED vars
  <2>1. UNCHANGED <<pc, text, error_suppressions, line>>
    BY <1>16, Zenon DEF Stopped, vars
  <2>. QED BY <2>1, NolintFrame, Zenon DEF Reporting
<1>. QED
  BY <1>1, <1>2, <1>3, <1>4, <1>5, <1>6, <1>7, <1>8, <1>9, <1>10, <1>11, <1>12,
     <1>13, <1>14, <1>15, <1>16, Zenon DEF Next

-----------------------------------------------------------------------------
(***************************************************************************)
(* ProcessFile restores the filters on each of its returns.                *)
(***************************************************************************)
THEOREM FiltersComeBack == Spec => []FiltersRestored
<1>1. Init => FilterInv
  BY Zenon DEF Init, FilterInv, FiltersRestored, InFile
<1>2. FilterInv => FiltersRestored
  BY Zenon DEF FilterInv
<1>. QED BY <1>1, <1>2, FilterInvStep, PTL DEF Spec

(***************************************************************************)
(* sys.exit(error_count > 0): no file resets the total, and no report is   *)
(* counted without being written.                                          *)
(***************************************************************************)
THEOREM ExitStatusIsRight == Spec => []ExitStatusTells
<1>1. Init => ErrorInv
  BY DEF Init, ErrorInv, ExitStatusTells
<1>2. ErrorInv => ExitStatusTells
  BY Zenon DEF ErrorInv
<1>. QED BY <1>1, <1>2, ErrorInvStep, PTL DEF Spec

(***************************************************************************)
(* ResetNolintSuppressions and ParseNolintSuppressions: the comments of    *)
(* one file never reach another.                                           *)
(***************************************************************************)
THEOREM NolintsStayInTheirFile == Spec => []OwnNolintsOnly
<1>1. Init => NolintInv
  BY RunAssumption DEF Init, NolintInv, OwnNolintsOnly, Reporting
<1>2. NolintInv => OwnNolintsOnly
  BY Zenon DEF NolintInv
<1>. QED BY <1>1, <1>2, NolintInvStep, PTL DEF Spec


-----------------------------------------------------------------------------
(***************************************************************************)
(* The last filter of a list that matches a category decides.              *)
(***************************************************************************)
NoMatch(fs, cat) == \A k \in 1..Len(fs) : ~ StartsWith(cat, fs[k].prefix)

LastOf(fs, cat, f) ==
  \E k \in 1..Len(fs) :
    /\ fs[k] = f /\ StartsWith(cat, f.prefix)
    /\ \A m \in 1..Len(fs) : m > k => ~ StartsWith(cat, fs[m].prefix)

\* Of two lists, the second one decides if it matches at all.
LEMMA LastOfBoth ==
  ASSUME NEW V, NEW a \in Seq(V), NEW b \in Seq(V), NEW cat, NEW f
  PROVE  /\ LastOf(b, cat, f) => LastOf(a \o b, cat, f)
         /\ LastOf(a, cat, f) /\ NoMatch(b, cat) => LastOf(a \o b, cat, f)
         /\ NoMatch(a, cat) /\ NoMatch(b, cat) => NoMatch(a \o b, cat)
<1> DEFINE c == a \o b
<1>1. /\ c \in Seq(V) /\ Len(c) = Len(a) + Len(b) /\ Len(a) \in Nat /\ Len(b) \in Nat
      /\ \A k \in 1..Len(c) : c[k] = IF k <= Len(a) THEN a[k] ELSE b[k - Len(a)]
  BY SeqBoth, SeqLen
<1> HIDE DEF c
<1>2. \A k \in 1..Len(a) : k \in 1..Len(c) /\ c[k] = a[k]
  BY <1>1
<1>3. ASSUME NEW k \in 1..Len(b) PROVE k + Len(a) \in 1..Len(c) /\ c[k + Len(a)] = b[k]
  <2>1. k + Len(a) \in 1..Len(c) /\ ~ (k + Len(a) <= Len(a)) /\ (k + Len(a)) - Len(a) = k
    BY <1>1
  <2> QED BY <1>1, <2>1, Zenon
<1>4. \A m \in 1..Len(c) : m > Len(a) => m - Len(a) \in 1..Len(b) /\ c[m] = b[m - Len(a)]
  BY <1>1
<1>5. ASSUME LastOf(b, cat, f) PROVE LastOf(c, cat, f)
  <2>1. PICK k \in 1..Len(b) :
          /\ b[k] = f /\ StartsWith(cat, f.prefix)
          /\ \A m \in 1..Len(b) : m > k => ~ StartsWith(cat, b[m].prefix)
    BY <1>5, Zenon DEF LastOf
  <2>2. ASSUME NEW m \in 1..Len(c), m > k + Len(a) PROVE ~ StartsWith(cat, c[m].prefix)
    <3>1. m > Len(a) /\ m - Len(a) > k
      BY <1>1, <2>2
    <3>2. m - Len(a) \in 1..Len(b) /\ c[m] = b[m - Len(a)]
      BY <1>4, <3>1, Zenon
    <3> QED BY <2>1, <3>1, <3>2, Zenon
  <2> QED BY <1>3, <2>1, <2>2, Zenon DEF LastOf
<1>6. ASSUME LastOf(a, cat, f), NoMatch(b, cat) PROVE LastOf(c, cat, f)
  <2>1. PICK k \in 1..Len(a) :
          /\ a[k] = f /\ StartsWith(cat, f.prefix)
          /\ \A m \in 1..Len(a) : m > k => ~ StartsWith(cat, a[m].prefix)
    BY <1>6, Zenon DEF LastOf
  <2>2. ASSUME NEW m \in 1..Len(c), m > k PROVE ~ StartsWith(cat, c[m].prefix)
    <3>1. CASE m <= Len(a)
      BY <1>1, <2>1, <2>2, <3>1
    <3>2. CASE m > Len(a)
      BY <1>4, <1>6, <3>2, Zenon DEF NoMatch
    <3> QED BY <1>1, <3>1, <3>2
  <2> QED BY <1>2, <2>1, <2>2, Zenon DEF LastOf
<1>7. ASSUME NoMatch(a, cat), NoMatch(b, cat), NEW m \in 1..Len(c)
      PROVE  ~ StartsWith(cat, c[m].prefix)
  <2>1. CASE m <= Len(a)
    BY <1>1, <1>7, <2>1 DEF NoMatch
  <2>2. CASE m > Len(a)
    BY <1>4, <1>7, <2>2, Zenon DEF NoMatch
  <2> QED BY <1>1, <2>1, <2>2
<1> QED BY <1>5, <1>6, <1>7, Zenon DEF c, NoMatch

\* A list matches a category nowhere or there is a last match; it is what Says finds.
LEMMA LastOfIs ==
  ASSUME NEW V, NEW fs \in Seq(V), NEW cat
  PROVE  /\ Matching(fs, cat) = {} <=> NoMatch(fs, cat)
         /\ NoMatch(fs, cat) \/ \E f \in V : LastOf(fs, cat, f)
         /\ \A f : LastOf(fs, cat, f) => Says(fs, cat) = f.sign
<1> DEFINE n == Len(fs)
           M == Matching(fs, cat)
<1>0. n \in Nat /\ DOMAIN fs = 1..n /\ \A k \in 1..n : fs[k] \in V
  BY SeqLen, Zenon
<1>1. \A k : k \in M <=> k \in 1..n /\ StartsWith(cat, fs[k].prefix)
  BY <1>0, Zenon DEF Matching
<1>2. M = {} <=> NoMatch(fs, cat)
  BY <1>1, Zenon DEF NoMatch
<1> HIDE DEF M
<1>3. ASSUME M # {} PROVE \E f \in V : LastOf(fs, cat, f)
  <2> DEFINE T == {n - k : k \in M}
  <2>1. T \in SUBSET Nat /\ T # {}
    BY <1>0, <1>1, <1>3
  <2>2. PICK x \in T : \A y \in T : x <= y
    <3> HIDE DEF T
    <3> QED BY <2>1, LeastNat, Zenon
  <2>3. PICK k \in M : x = n - k
    BY Zenon
  <2>4. ASSUME NEW m \in M PROVE m <= k
    <3>1. n - m \in T /\ k \in 1..n /\ m \in 1..n
      BY <1>1, Zenon
    <3>2. n - k <= n - m
      BY <2>2, <2>3, <3>1, Zenon
    <3> QED BY <1>0, <3>1, <3>2
  <2>5. \A m \in 1..n : m > k => ~ StartsWith(cat, fs[m].prefix)
    BY <1>0, <1>1, <2>4
  <2> QED BY <1>0, <1>1, <2>5, Zenon DEF LastOf
<1>4. ASSUME NEW f, LastOf(fs, cat, f) PROVE Says(fs, cat) = f.sign
  <2>1. PICK k \in 1..n :
          /\ fs[k] = f /\ StartsWith(cat, f.prefix)
          /\ \A m \in 1..n : m > k => ~ StartsWith(cat, fs[m].prefix)
    BY <1>4, Zenon DEF LastOf
  <2>2. k \in M /\ \A m \in M : m \in Nat /\ k >= m
    BY <1>0, <1>1, <2>1
  <2>3. Max(M) = k
    <3>1. \A x \in M : (\A m \in M : x >= m) => x = k
      BY <2>2
    <3>2. \E x \in M : \A m \in M : x >= m
      BY <2>2, Zenon
    <3>3. Max(M) \in M /\ \A m \in M : Max(M) >= m
      BY <3>2, Zenon DEF Max
    <3> QED BY <3>1, <3>3, Zenon
  <2> QED BY <2>1, <2>3, Zenon DEF Says, M
<1> QED BY <1>2, <1>3, <1>4, Zenon DEF M

\* The loop of _ShouldPrintError: is_filtered ends with what the last match says.
LEMMA IsFilteredIs ==
  ASSUME NEW V, filters \in Seq(V), NEW cat, NEW f, LastOf(filters, cat, f)
  PROVE  IsFiltered(cat) <=> f.sign = "-"
<1> DEFINE n == Len(filters)
           Step(g, c) == IF c = 0 THEN FALSE
                         ELSE IF StartsWith(cat, filters[c].prefix) THEN filters[c].sign = "-"
                         ELSE g[c - 1]
           P(g) == g = [c \in 0..n |-> Step(g, c)]
           D(c, k) == /\ StartsWith(cat, filters[k].prefix) /\ filters[k].sign = "-"
                      /\ \A m \in 1..c : m > k => ~ StartsWith(cat, filters[m].prefix)
           w == [c \in 0..n |-> \E k \in 1..c : D(c, k)]
           J == CHOOSE g : P(g)
<1>0. n \in Nat
  BY SeqLen, Zenon
<1>1. ASSUME NEW c \in 0..n PROVE w[c] = Step(w, c)
  <2>1. w[c] = \E k \in 1..c : D(c, k)
    BY Zenon
  <2>2. CASE c = 0
    BY <2>2
  <2>3. CASE c # 0 /\ StartsWith(cat, filters[c].prefix)
    <3>1. \A k \in 1..c : D(c, k) <=> k = c /\ filters[c].sign = "-"
      BY <1>0, <2>3
    <3>2. c \in 1..c
      BY <1>0, <2>3
    <3>3. (\E k \in 1..c : D(c, k)) <=> filters[c].sign = "-"
      <4> HIDE DEF D
      <4> QED BY <3>1, <3>2, Zenon
    <3>4. Step(w, c) = (filters[c].sign = "-")
      BY <2>3, Zenon
    <3> HIDE DEF D, w, Step
    <3> QED BY <2>1, <3>3, <3>4, Zenon
  <2>4. CASE c # 0 /\ ~ StartsWith(cat, filters[c].prefix)
    <3>1. c - 1 \in 0..n /\ \A k : k \in 1..c <=> k \in 1..(c - 1) \/ k = c
      BY <1>0, <2>4
    <3>2. \A k \in 1..(c - 1) : D(c, k) <=> D(c - 1, k)
      BY <1>0, <2>4, <3>1, Zenon
    <3>3. ~ D(c, c)
      BY <2>4, Zenon
    <3>4. (\E k \in 1..c : D(c, k)) <=> \E k \in 1..(c - 1) : D(c - 1, k)
      <4> HIDE DEF D
      <4> QED BY <3>1, <3>2, <3>3, Zenon
    <3>5. w[c - 1] = \E k \in 1..(c - 1) : D(c - 1, k)
      BY <3>1, Zenon
    <3>6. Step(w, c) = w[c - 1]
      BY <2>4, Zenon
    <3> HIDE DEF D, w, Step
    <3> QED BY <2>1, <3>4, <3>5, <3>6, Zenon
  <2> QED BY <2>2, <2>3, <2>4, Zenon
<1>2. P(w)
  <2>1. w = [c \in 0..n |-> w[c]]
    BY Zenon
  <2>2. [c \in 0..n |-> w[c]] = [c \in 0..n |-> Step(w, c)]
    <3> HIDE DEF w, Step
    <3> QED BY <1>1, Zenon
  <2> QED BY <2>1, <2>2, Zenon
<1>3. P(J)
  <2> HIDE DEF P
  <2> QED BY <1>2, Zenon
<1>4. IsFiltered(cat) = J[n]
  BY Zenon DEF IsFiltered
<1> HIDE DEF J, w
<1>5. \A c \in 0..n : J[c] = Step(J, c)
  BY <1>3, Zenon
<1> DEFINE E == {c \in Nat : c \in 0..n => J[c] = w[c]}
<1>6. 0 \in E
  BY <1>0, <1>1, <1>5, Zenon
<1>7. ASSUME NEW c \in Nat, c \in E PROVE c + 1 \in E
  <2> SUFFICES ASSUME c + 1 \in 0..n PROVE J[c + 1] = w[c + 1]
    OBVIOUS
  <2>1. c \in 0..n /\ c + 1 # 0 /\ (c + 1) - 1 = c
    BY <1>0
  <2>2. J[c] = w[c]
    BY <1>7, <2>1, Zenon
  <2> QED BY <1>1, <1>5, <2>1, <2>2, Zenon
<1>8. n \in E
  <2> HIDE DEF E
  <2> QED BY <1>0, <1>6, <1>7, NatInd
<1>9. J[n] = w[n] /\ n \in 0..n
  BY <1>0, <1>8
<1>10. w[n] = \E k \in 1..n : D(n, k)
  BY <1>9, Zenon DEF w
<1>11. PICK k \in 1..n :
         /\ filters[k] = f /\ StartsWith(cat, f.prefix)
         /\ \A m \in 1..n : m > k => ~ StartsWith(cat, filters[m].prefix)
  BY Zenon DEF LastOf
<1>12. (\E m \in 1..n : D(n, m)) <=> f.sign = "-"
  <2>1. ASSUME NEW m \in 1..n, D(n, m) PROVE m = k
    BY <1>0, <1>11, <2>1
  <2>2. f.sign = "-" => D(n, k)
    BY <1>11, Zenon
  <2>3. D(n, k) => f.sign = "-"
    BY <1>11, Zenon
  <2> HIDE DEF D
  <2> QED BY <2>1, <2>2, <2>3, Zenon
<1> HIDE DEF D
<1> QED BY <1>4, <1>9, <1>10, <1>12, Zenon

\* The first of the lists that match decides.
FirstOf(lists, cat, f) ==
  \E j \in 1..Len(lists) :
    /\ LastOf(lists[j], cat, f)
    /\ \A m \in 1..(j - 1) : NoMatch(lists[m], cat)

\* Sequences joined the last one first, by a recursive function: it is what it says.
LEMMA ReversedIs ==
  ASSUME NEW V, NEW s \in Seq(Seq(V))
  PROVE  LET J == CHOOSE g : g = [c \in 0..Len(s) |-> IF c = 0 THEN <<>> ELSE s[c] \o g[c - 1]]
         IN  J[0] = <<>> /\ \A c \in 1..Len(s) : J[c] = s[c] \o J[c - 1]
<1> DEFINE len == Len(s)
           X == Seq(V)
           P(g) == g = [c \in 0..len |-> IF c = 0 THEN <<>> ELSE s[c] \o g[c - 1]]
           J == CHOOSE g : P(g)
           step == [c \in 1..len |-> [x \in X |-> s[c] \o x]]
<1>1. len \in Nat /\ <<>> \in X /\ \A c \in 1..len : s[c] \in X
  OBVIOUS
<1>2. step \in [1..len -> [X -> X]]
  BY <1>1
<1>3. PICK f \in [0..len -> X] : f[0] = <<>> /\ \A c \in 1..len : f[c] = step[c][f[c - 1]]
  <2> HIDE DEF step, len, X
  <2>1. HasSteps(X, <<>>, len, step)
    BY <1>1, <1>2, Recursion, Zenon
  <2> QED BY <2>1, Zenon DEF HasSteps
<1>4. ASSUME NEW c \in 1..len PROVE f[c] = s[c] \o f[c - 1]
  <2>0. c - 1 \in 0..len
    BY <1>1
  <2>1. f[c - 1] \in X
    BY <2>0, Zenon
  <2>2. step[c][f[c - 1]] = s[c] \o f[c - 1]
    BY <2>1, Zenon
  <2> QED BY <1>3, <2>2, Zenon
<1>5. P(f)
  <2>1. ASSUME NEW c \in 0..len PROVE f[c] = IF c = 0 THEN <<>> ELSE s[c] \o f[c - 1]
    <3>1. c = 0 \/ c \in 1..len
      BY <1>1
    <3>2. 0 \notin 1..len
      OBVIOUS
    <3> QED BY <1>3, <1>4, <3>1, <3>2, Zenon
  <2> QED BY <2>1, Zenon
<1>6. P(J)
  <2> HIDE DEF P
  <2> QED BY <1>5, Zenon
<1> HIDE DEF J
<1>7. \A c \in 0..len : J[c] = IF c = 0 THEN <<>> ELSE s[c] \o J[c - 1]
  BY <1>6, Zenon
<1>8. 0 \in 0..len /\ \A c \in 1..len : c \in 0..len /\ c # 0
  BY <1>1
<1>9. J[0] = <<>> /\ \A c \in 1..len : J[c] = s[c] \o J[c - 1]
  BY <1>7, <1>8, Zenon
<1> QED BY <1>9, Zenon DEF J

\* ProcessConfigOverrides adds the lists in reverse: the one it read first comes last.
LEMMA CfgFiltersAre ==
  ASSUME NEW V, walk.cfg_filters \in Seq(Seq(V)), NEW cat
  PROVE  /\ CfgFilters \in Seq(V)
         /\ (\A j \in 1..Len(walk.cfg_filters) : NoMatch(walk.cfg_filters[j], cat))
              => NoMatch(CfgFilters, cat)
         /\ \A f : FirstOf(walk.cfg_filters, cat, f) => LastOf(CfgFilters, cat, f)
<1> DEFINE s == walk.cfg_filters
           len == Len(s)
           X == Seq(V)
           J == CHOOSE g : g = [c \in 0..len |-> IF c = 0 THEN <<>> ELSE s[c] \o g[c - 1]]
<1>1. len \in Nat /\ <<>> \in X /\ \A c \in 1..len : s[c] \in X
  OBVIOUS
<1>7. CfgFilters = J[len]
  BY Zenon DEF CfgFilters
<1>8. J[0] = <<>> /\ \A c \in 1..len : J[c] = s[c] \o J[c - 1]
  BY ReversedIs, Zenon
<1> HIDE DEF J
<1> DEFINE Q(c) == /\ J[c] \in X
                   /\ (\A j \in 1..c : NoMatch(s[j], cat)) => NoMatch(J[c], cat)
                   /\ \A g, j : /\ j \in 1..c /\ LastOf(s[j], cat, g)
                                /\ \A m \in 1..(j - 1) : NoMatch(s[m], cat)
                                => LastOf(J[c], cat, g)
           E == {c \in Nat : c \in 0..len => Q(c)}
<1>9. 0 \in E
  <2>1. NoMatch(<<>>, cat)
    BY DEF NoMatch
  <2>2. J[0] \in X /\ NoMatch(J[0], cat) /\ 1..0 = {}
    BY <1>1, <1>8, <2>1
  <2> HIDE DEF J, X, s
  <2>3. Q(0)
    BY <2>2, Zenon
  <2> HIDE DEF Q
  <2> QED BY <2>3, Zenon
<1>10. ASSUME NEW c \in Nat, c \in E PROVE c + 1 \in E
  <2> SUFFICES ASSUME c + 1 \in 0..len PROVE Q(c + 1)
    OBVIOUS
  <2> DEFINE a == s[c + 1]
             b == J[c]
  <2>1. Q(c) /\ a \in Seq(V) /\ b \in Seq(V) /\ J[c + 1] = a \o b
    <3>1. c + 1 \in 1..len /\ c \in 0..len /\ (c + 1) - 1 = c
      BY <1>1
    <3> QED BY <1>1, <1>8, <1>10, <3>1, Zenon
  <2> HIDE DEF a, b
  <2>2. /\ a \o b \in Seq(V)
        /\ \A g : LastOf(b, cat, g) => LastOf(a \o b, cat, g)
        /\ \A g : LastOf(a, cat, g) /\ NoMatch(b, cat) => LastOf(a \o b, cat, g)
        /\ NoMatch(a, cat) /\ NoMatch(b, cat) => NoMatch(a \o b, cat)
    BY <2>1, LastOfBoth, SeqBoth, Zenon
  <2>3. ASSUME \A j \in 1..(c + 1) : NoMatch(s[j], cat) PROVE NoMatch(J[c + 1], cat)
    <3>1. c + 1 \in 1..(c + 1) /\ \A j \in 1..c : j \in 1..(c + 1)
      OBVIOUS
    <3>2. NoMatch(a, cat) /\ NoMatch(b, cat)
      BY <2>1, <2>3, <3>1, Zenon DEF a, b
    <3> QED BY <2>1, <2>2, <3>2, Zenon
  <2>4. ASSUME NEW g, NEW j, j \in 1..(c + 1), LastOf(s[j], cat, g),
               \A m \in 1..(j - 1) : NoMatch(s[m], cat)
        PROVE  LastOf(J[c + 1], cat, g)
    <3>1. CASE j \in 1..c
      BY <2>1, <2>2, <2>4, <3>1, Zenon DEF b
    <3>2. CASE j = c + 1
      <4>1. NoMatch(b, cat)
        <5>1. 1..(j - 1) = 1..c
          BY <3>2
        <5> QED BY <2>1, <2>4, <5>1, Zenon DEF b
      <4> QED BY <2>1, <2>2, <2>4, <3>2, <4>1 DEF a
    <3> QED BY <2>4, <3>1, <3>2
  <2> QED BY <2>1, <2>2, <2>3, <2>4
<1>11. len \in E
  <2> HIDE DEF E
  <2> QED BY <1>1, <1>9, <1>10, NatInd, Zenon
<1>12. Q(len)
  <2>1. len \in 0..len
    BY <1>1
  <2> HIDE DEF Q, len
  <2> QED BY <1>11, <2>1, Zenon
<1> QED BY <1>7, <1>12, Zenon DEF FirstOf

-----------------------------------------------------------------------------
(***************************************************************************)
(* ProcessConfigOverrides has read the options of the directories before   *)
(* the one it is in, and of that one those that are no longer in opts.     *)
(***************************************************************************)
OptionsAbove(d) == cfg[file.dirs[d]]

ReadTo == IF walk.level = 1 THEN 0 ELSE Len(OptionsAbove(walk.level - 1)) - Len(walk.opts)

IsRead(p) == p[1] < walk.level - 1 \/ (p[1] = walk.level - 1 /\ p[2] <= ReadTo)

EndsWalk(o) == o.name \in {"set noparent", "IOError"}

WalkTyped ==
  /\ file \in [dirs : Seq(Dirs), ext : BOOLEAN]
  /\ cfg \in [Dirs -> Seq(OptionShape)]
  /\ walk \in [level : Nat, opts : Seq(OptionShape), cfg_filters : Seq(Seq(FilterShape)),
               keep_looking : BOOLEAN]
  /\ walk.level \in 1..(Len(file.dirs) + 1)

OptsLeft ==
  /\ walk.level = 1 => walk.opts = <<>>
  /\ walk.level > 1 =>
       /\ Len(walk.opts) <= Len(OptionsAbove(walk.level - 1))
       /\ \A k \in 1..Len(walk.opts) : walk.opts[k] = OptionsAbove(walk.level - 1)[ReadTo + k]

\* The walk goes on unless an option that was read ends it.
LooksOn ==
  /\ walk.keep_looking <=> \A p \in OptionPlaces : IsRead(p) => ~ EndsWalk(OptionAt(p))
  /\ walk.level > 1 => InEffect(walk.level - 1)

\* The list read first among those that match cat is from the innermost place.
FirstReadDecides(cat) ==
  \/ /\ \A p \in FilterLines(cat) : ~ IsRead(p)
     /\ \A j \in 1..Len(walk.cfg_filters) : NoMatch(walk.cfg_filters[j], cat)
  \/ \E p \in FilterLines(cat), j \in 1..Len(walk.cfg_filters) :
       /\ IsRead(p) /\ \A q \in FilterLines(cat) : IsRead(q) => NotAfter(p, q)
       /\ walk.cfg_filters[j] = OptionAt(p).filters
       /\ \A m \in 1..(j - 1) : NoMatch(walk.cfg_filters[m], cat)

WalkInv == WalkTyped /\ OptsLeft /\ LooksOn /\ \A cat \in Categories : FirstReadDecides(cat)

\* The places of options are pairs of numbers.
LEMMA PlacesAre ==
  ASSUME WalkTyped
  PROVE  /\ \A p \in OptionPlaces :
              /\ p = <<p[1], p[2]>> /\ p[1] \in 1..Len(file.dirs)
              /\ p[2] \in 1..Len(OptionsAbove(p[1])) /\ OptionAt(p) = OptionsAbove(p[1])[p[2]]
              /\ OptionAt(p) \in OptionShape
         /\ \A d \in 1..Len(file.dirs) :
              /\ OptionsAbove(d) \in Seq(OptionShape) /\ file.dirs[d] \in Dirs
              /\ \A k \in 1..Len(OptionsAbove(d)) : <<d, k>> \in OptionPlaces
<1>1. Len(file.dirs) \in Nat /\ DOMAIN file.dirs = 1..Len(file.dirs)
      /\ \A d \in 1..Len(file.dirs) : file.dirs[d] \in Dirs
  BY DEF WalkTyped
<1>2. \A d \in 1..Len(file.dirs) : OptionsAbove(d) \in Seq(OptionShape)
  BY <1>1, Zenon DEF WalkTyped, OptionsAbove
<1>3. \A d \in 1..Len(file.dirs) : DOMAIN OptionsAbove(d) = 1..Len(OptionsAbove(d))
  BY <1>2
<1>4. ASSUME NEW p \in OptionPlaces
      PROVE  /\ p = <<p[1], p[2]>> /\ p[1] \in 1..Len(file.dirs)
             /\ p[2] \in 1..Len(OptionsAbove(p[1])) /\ OptionAt(p) = OptionsAbove(p[1])[p[2]]
             /\ OptionAt(p) \in OptionShape
  <2>0. PICK d \in DOMAIN file.dirs : p \in {d} \X DOMAIN OptionsAbove(d)
    BY Zenon DEF OptionPlaces, OptionsAbove
  <2>1. d \in 1..Len(file.dirs) /\ DOMAIN OptionsAbove(d) = 1..Len(OptionsAbove(d))
    BY <1>1, <1>3, Zenon
  <2>2. p = <<p[1], p[2]>> /\ p[1] = d /\ p[2] \in 1..Len(OptionsAbove(d))
    <3> DEFINE D == 1..Len(OptionsAbove(d))
    <3>1. p \in {d} \X D
      BY <2>0, <2>1, Zenon
    <3> HIDE DEF D
    <3>2. p = <<p[1], p[2]>> /\ p[1] = d /\ p[2] \in D
      BY <3>1
    <3> QED BY <3>2, Zenon DEF D
  <2>3. OptionAt(p) = OptionsAbove(p[1])[p[2]]
    BY Zenon DEF OptionAt, OptionsAbove
  <2> QED BY <1>2, <2>2, <2>3
<1>5. ASSUME NEW d \in 1..Len(file.dirs), NEW k \in 1..Len(OptionsAbove(d))
      PROVE  <<d, k>> \in OptionPlaces
  BY <1>1, <1>3 DEF OptionPlaces, OptionsAbove
<1> QED BY <1>1, <1>2, <1>4, <1>5

\* Before the walk nothing is read.
LEMMA WalkStart ==
  /\ file \in [dirs : Seq(Dirs), ext : BOOLEAN] /\ cfg \in [Dirs -> Seq(OptionShape)]
  /\ walk = NoWalk
  => WalkInv
<1> SUFFICES ASSUME file \in [dirs : Seq(Dirs), ext : BOOLEAN],
                    cfg \in [Dirs -> Seq(OptionShape)], walk = NoWalk
             PROVE  WalkInv
  BY Zenon
<1>1. WalkTyped
  BY DEF WalkTyped, NoWalk
<1>2. walk.level = 1 /\ walk.opts = <<>> /\ walk.cfg_filters = <<>> /\ walk.keep_looking = TRUE
  BY Zenon DEF NoWalk
<1>3. \A p \in OptionPlaces : ~ IsRead(p)
  BY <1>1, <1>2, PlacesAre DEF IsRead
<1>4. \A cat : FilterLines(cat) \subseteq OptionPlaces
  BY Zenon DEF FilterLines
<1>5. OptsLeft /\ LooksOn
  BY <1>2, <1>3 DEF OptsLeft, LooksOn
<1>6. ASSUME NEW cat \in Categories PROVE FirstReadDecides(cat)
  BY <1>2, <1>3, <1>4 DEF FirstReadDecides
<1> QED BY <1>1, <1>5, <1>6, Zenon DEF WalkInv

\* The filters that every list of filters starts with.
LEMMA DefaultFilters == DEFAULT_FILTERS \in Seq(FilterShape)
<1>1. ASSUME NEW S, NEW x \in S PROVE <<x>> \in Seq(S)
  OBVIOUS
<1>2. Filter("-", <<"build", "include", "alpha">>) \in FilterShape
  <2>1. PICK p \in Prefixes : p = <<"build", "include", "alpha">>
    BY RunAssumption, Zenon
  <2>2. Filter("-", p) \in FilterShape
    BY Zenon DEF Filter, FilterShape
  <2> QED BY <2>1, <2>2, Zenon
<1> QED BY <1>1, <1>2, Zenon DEF DEFAULT_FILTERS

\* The walk, the file and the CPPLINT.cfg files are all that the invariant is about.
LEMMA WalkFrame ==
  ASSUME WalkInv, UNCHANGED <<file, cfg, walk>>
  PROVE  WalkInv'
<1>1. /\ file' = file /\ walk' = walk /\ cfg' = cfg
  BY Zenon
<1>2. /\ \A d : OptionsAbove(d)' = OptionsAbove(d)
      /\ \A p : OptionAt(p)' = OptionAt(p)
      /\ OptionPlaces' = OptionPlaces
      /\ \A d : InEffect(d)' <=> InEffect(d)
  BY <1>1, Zenon DEF OptionsAbove, OptionAt, OptionPlaces, InEffect, Ends
<1>3. ReadTo' = ReadTo
  BY <1>1, <1>2, Zenon DEF ReadTo, OptionsAbove
<1>4. \A p : IsRead(p)' <=> IsRead(p)
  BY <1>1, <1>3, Zenon DEF IsRead
<1>5. \A cat : FilterLines(cat)' = FilterLines(cat)
  BY <1>2, Zenon DEF FilterLines
<1>6. WalkTyped'
  BY <1>1, Zenon DEF WalkInv, WalkTyped
<1>7. OptsLeft'
  BY <1>1, <1>3, Zenon DEF WalkInv, OptsLeft, OptionsAbove
<1>8. LooksOn'
  BY <1>1, <1>2, <1>4, Zenon DEF WalkInv, LooksOn, EndsWalk
<1>9. ASSUME NEW cat \in Categories PROVE FirstReadDecides(cat)'
  BY <1>1, <1>2, <1>4, <1>5, Zenon DEF WalkInv, FirstReadDecides
<1> QED BY <1>6, <1>7, <1>8, <1>9, Zenon DEF WalkInv

\* The next directory: its options are all still to be read.
LEMMA WalkDirectory ==
  ASSUME WalkInv, UNCHANGED <<file, cfg>>, walk.opts = <<>>, walk.keep_looking,
         walk.level <= Len(file.dirs),
         walk' = [walk EXCEPT !.opts = cfg[file.dirs[walk.level]], !.level = @ + 1]
  PROVE  WalkInv'
<1> DEFINE l == walk.level
<1>0. WalkTyped /\ OptsLeft /\ LooksOn
  BY Zenon DEF WalkInv
<1>1. /\ l \in 1..Len(file.dirs) /\ l \in Nat /\ OptionsAbove(l) \in Seq(OptionShape)
      /\ Len(file.dirs) \in Nat /\ Len(OptionsAbove(l)) \in Nat
  BY <1>0, PlacesAre DEF WalkTyped
<1>2. /\ walk'.level = l + 1 /\ walk'.opts = OptionsAbove(l)
      /\ walk'.cfg_filters = walk.cfg_filters /\ walk'.keep_looking = walk.keep_looking
      /\ walk' \in [level : Nat, opts : Seq(OptionShape), cfg_filters : Seq(Seq(FilterShape)),
                    keep_looking : BOOLEAN]
  <2> DEFINE A == Seq(OptionShape)
             B == Seq(Seq(FilterShape))
  <2>1. /\ walk \in [level : Nat, opts : A, cfg_filters : B, keep_looking : BOOLEAN]
        /\ OptionsAbove(l) \in A /\ l + 1 \in Nat
        /\ walk' = [walk EXCEPT !.opts = OptionsAbove(l), !.level = l + 1]
    BY <1>0, <1>1 DEF WalkTyped, OptionsAbove
  <2> HIDE DEF A, B
  <2>2. /\ walk'.level = l + 1 /\ walk'.opts = OptionsAbove(l)
        /\ walk'.cfg_filters = walk.cfg_filters /\ walk'.keep_looking = walk.keep_looking
        /\ walk' \in [level : Nat, opts : A, cfg_filters : B, keep_looking : BOOLEAN]
    BY <2>1, Zenon
  <2> QED BY <2>2, Zenon DEF A, B
<1>3. /\ \A d : OptionsAbove(d)' = OptionsAbove(d)
      /\ \A p : OptionAt(p)' = OptionAt(p)
      /\ OptionPlaces' = OptionPlaces
      /\ \A d : InEffect(d)' <=> InEffect(d)
  BY Zenon DEF OptionsAbove, OptionAt, OptionPlaces, InEffect, Ends
<1>4. ReadTo' = 0
  <2>1. ReadTo' = IF walk'.level = 1 THEN 0
                  ELSE Len(cfg[file.dirs[walk'.level - 1]]) - Len(walk'.opts)
    BY DEF ReadTo, OptionsAbove
  <2>2. walk'.level - 1 = l /\ walk'.level # 1
    BY <1>1, <1>2
  <2> QED BY <1>1, <1>2, <2>1, <2>2 DEF OptionsAbove
<1>5. l > 1 => ReadTo = Len(OptionsAbove(l - 1))
  <2>1. l > 1 => l - 1 \in 1..Len(file.dirs)
    BY <1>1
  <2>2. l > 1 => Len(OptionsAbove(l - 1)) \in Nat
    BY <2>1, <1>0, PlacesAre
  <2> QED BY <1>1, <2>2 DEF ReadTo
<1>6. ASSUME NEW p \in OptionPlaces PROVE IsRead(p)' <=> IsRead(p)
  <2>1. p[1] \in 1..Len(file.dirs) /\ p[2] \in 1..Len(OptionsAbove(p[1]))
        /\ Len(OptionsAbove(p[1])) \in Nat
    BY <1>0, PlacesAre
  <2>2. IsRead(p)' <=> p[1] < (l + 1) - 1 \/ (p[1] = (l + 1) - 1 /\ p[2] <= 0)
    BY <1>2, <1>4, Zenon DEF IsRead
  <2>3. IsRead(p)' <=> p[1] < l
    BY <1>1, <2>1, <2>2
  <2>4. IsRead(p) <=> p[1] < l - 1 \/ (p[1] = l - 1 /\ p[2] <= ReadTo)
    BY Zenon DEF IsRead
  <2>5. CASE p[1] = l - 1
    <3>1. p[2] <= ReadTo
      BY <1>1, <1>5, <2>1, <2>5
    <3> QED BY <1>1, <2>1, <2>3, <2>4, <2>5, <3>1
  <2>6. CASE p[1] # l - 1
    BY <1>1, <2>1, <2>3, <2>4, <2>6
  <2> QED BY <2>5, <2>6, Zenon
<1>7. \A cat : FilterLines(cat)' = FilterLines(cat) /\ FilterLines(cat) \subseteq OptionPlaces
  BY <1>3, Zenon DEF FilterLines
<1>8. WalkTyped'
  <2>1. walk'.level \in 1..(Len(file.dirs) + 1)
    BY <1>1, <1>2
  <2>2. file' = file /\ cfg' = cfg
    BY Zenon
  <2> QED BY <1>0, <1>2, <2>1, <2>2, Zenon DEF WalkTyped
<1>9. OptsLeft'
  <2>1. walk'.level - 1 = l /\ walk'.level # 1
    BY <1>1, <1>2
  <2>2. \A k \in 1..Len(OptionsAbove(l)) : OptionsAbove(l)[k] = OptionsAbove(l)[0 + k]
    BY <1>1
  <2>3. OptionsAbove(walk.level - 1)' = OptionsAbove(l)
    BY <2>1, Zenon DEF OptionsAbove
  <2> QED BY <1>1, <1>2, <1>4, <2>1, <2>2, <2>3 DEF OptsLeft
<1>10. LooksOn'
  <2>1. walk'.keep_looking <=> \A p \in OptionPlaces : IsRead(p)' => ~ EndsWalk(OptionAt(p))
    BY <1>0, <1>2, <1>6, Zenon DEF LooksOn
  <2>2. InEffect(l)
    <3>1. DOMAIN file.dirs = 1..Len(file.dirs)
      BY <1>0 DEF WalkTyped
    <3>2. ASSUME NEW j \in 1..(l - 1) PROVE ~ Ends(file.dirs[j])
      <4>1. j \in 1..Len(file.dirs) /\ l > 1 /\ (j < l - 1 \/ j = l - 1)
        BY <1>1
      <4>2. CASE j < l - 1
        <5>1. j \in 1..((l - 1) - 1)
          BY <1>1, <4>2
        <5> QED BY <1>0, <4>1, <5>1, Zenon DEF LooksOn, InEffect
      <4>3. CASE j = l - 1
        <5>1. ASSUME NEW k \in 1..Len(OptionsAbove(j)) PROVE ~ EndsWalk(OptionsAbove(j)[k])
          <6>1. <<j, k>> \in OptionPlaces /\ OptionAt(<<j, k>>) = OptionsAbove(j)[k]
            BY <1>0, <4>1, PlacesAre, Zenon DEF OptionAt, OptionsAbove
          <6>2. IsRead(<<j, k>>)
            BY <1>1, <1>5, <4>1, <4>3 DEF IsRead
          <6> QED BY <1>0, <6>1, <6>2, Zenon DEF LooksOn
        <5>2. DOMAIN OptionsAbove(j) = 1..Len(OptionsAbove(j))
          BY <1>0, <4>1, PlacesAre
        <5> QED BY <5>1, <5>2, Zenon DEF Ends, EndsWalk, OptionsAbove
      <4> QED BY <4>1, <4>2, <4>3, Zenon
    <3> QED BY <1>1, <3>1, <3>2, Zenon DEF InEffect
  <2>3. walk'.level - 1 = l
    BY <1>1, <1>2
  <2> QED BY <1>3, <2>1, <2>2, <2>3, ZenonT(40) DEF LooksOn, EndsWalk, InEffect, Ends
<1>11. ASSUME NEW cat \in Categories PROVE FirstReadDecides(cat)'
  <2>1. FirstReadDecides(cat)
    BY Zenon DEF WalkInv
  <2>2. \A p \in FilterLines(cat) : IsRead(p)' <=> IsRead(p)
    BY <1>6, <1>7, Zenon
  <2> QED BY <1>2, <1>3, <1>7, <2>1, <2>2 DEF FirstReadDecides
<1> QED BY <1>8, <1>9, <1>10, <1>11, Zenon DEF WalkInv

OptionStep ==
  LET o == Head(walk.opts)
  IN  walk' = [walk EXCEPT
        !.opts = Tail(@),
        !.keep_looking = @ /\ o.name \notin {"set noparent", "IOError"},
        !.cfg_filters = IF o.name = "filter" THEN Append(@, o.filters) ELSE @]

\* The next option of the directory: its place comes after all those read before.
LEMMA WalkOption ==
  ASSUME WalkInv, UNCHANGED <<file, cfg>>, walk.opts # <<>>, OptionStep
  PROVE  WalkInv'
<1> DEFINE d == walk.level - 1
           o == Head(walk.opts)
           n == ReadTo
           all == OptionsAbove(d)
<1>0. WalkTyped /\ OptsLeft /\ LooksOn
  BY Zenon DEF WalkInv
<1>1. /\ walk.opts \in Seq(OptionShape) /\ o \in OptionShape /\ Tail(walk.opts) \in Seq(OptionShape)
      /\ Len(walk.opts) \in Nat \ {0} /\ Len(Tail(walk.opts)) = Len(walk.opts) - 1
      /\ o = walk.opts[1]
      /\ \A k \in 1..(Len(walk.opts) - 1) : Tail(walk.opts)[k] = walk.opts[k + 1]
  BY <1>0 DEF WalkTyped
<1>2. /\ d \in 1..Len(file.dirs) /\ walk.level \in Nat /\ walk.level > 1
      /\ Len(file.dirs) \in Nat
  BY <1>0 DEF WalkTyped, OptsLeft
<1>3. /\ all \in Seq(OptionShape) /\ Len(all) \in Nat
      /\ n = Len(all) - Len(walk.opts) /\ Len(walk.opts) <= Len(all)
      /\ \A k \in 1..Len(walk.opts) : walk.opts[k] = all[n + k]
  <2>1. all \in Seq(OptionShape)
    BY <1>0, <1>2, PlacesAre, Zenon
  <2>2. Len(all) \in Nat
    <3> HIDE DEF all
    <3> QED BY <2>1
  <2>3. n = Len(all) - Len(walk.opts)
    <3>1. walk.level # 1
      BY <1>2
    <3> QED BY <3>1, Zenon DEF ReadTo
  <2>4. Len(walk.opts) <= Len(all) /\ \A k \in 1..Len(walk.opts) : walk.opts[k] = all[n + k]
    BY <1>0, <1>2, Zenon DEF OptsLeft
  <2> QED BY <2>1, <2>2, <2>3, <2>4, Zenon
<1>4. n \in Nat /\ n + 1 \in 1..Len(all) /\ all[n + 1] = o
  <2> HIDE DEF n, all, o
  <2>1. n \in Nat /\ n + 1 \in 1..Len(all) /\ 1 \in 1..Len(walk.opts)
    BY <1>1, <1>3
  <2> QED BY <1>1, <1>3, <2>1, Zenon
<1>p. PICK pn : pn = <<d, n + 1>>
  BY Zenon
<1>5. pn \in OptionPlaces /\ OptionAt(pn) = o
  BY <1>0, <1>2, <1>4, <1>p, PlacesAre, Zenon DEF OptionAt, OptionsAbove
<1>6. /\ walk'.level = walk.level /\ walk'.opts = Tail(walk.opts)
      /\ walk'.keep_looking = (walk.keep_looking /\ ~ EndsWalk(o))
      /\ walk'.cfg_filters = IF o.name = "filter" THEN Append(walk.cfg_filters, o.filters)
                             ELSE walk.cfg_filters
      /\ walk' \in [level : Nat, opts : Seq(OptionShape), cfg_filters : Seq(Seq(FilterShape)),
                    keep_looking : BOOLEAN]
  <2> DEFINE A == Seq(OptionShape)
             C == Seq(FilterShape)
             B == Seq(C)
             k == walk.keep_looking /\ ~ EndsWalk(o)
             f == IF o.name = "filter" THEN Append(walk.cfg_filters, o.filters)
                  ELSE walk.cfg_filters
  <2>1. /\ walk \in [level : Nat, opts : A, cfg_filters : B, keep_looking : BOOLEAN]
        /\ Tail(walk.opts) \in A /\ o.filters \in C
    BY <1>0, <1>1, Zenon DEF WalkTyped, OptionShape
  <2>2. walk' = [walk EXCEPT !.opts = Tail(walk.opts), !.keep_looking = k, !.cfg_filters = f]
    BY Zenon DEF EndsWalk, OptionStep
  <2>3. k \in BOOLEAN
    BY Zenon
  <2>4. f \in B
    <3> HIDE DEF C
    <3> QED BY <2>1
  <2> HIDE DEF A, B, C, k, f
  <2>5. /\ walk'.level = walk.level /\ walk'.opts = Tail(walk.opts)
        /\ walk'.keep_looking = k /\ walk'.cfg_filters = f
        /\ walk' \in [level : Nat, opts : A, cfg_filters : B, keep_looking : BOOLEAN]
    BY <2>1, <2>2, <2>3, <2>4, Zenon
  <2> QED BY <2>5, Zenon DEF A, B, C, k, f
<1>7. /\ \A e : OptionsAbove(e)' = OptionsAbove(e)
      /\ \A p : OptionAt(p)' = OptionAt(p)
      /\ OptionPlaces' = OptionPlaces
      /\ \A e : InEffect(e)' <=> InEffect(e)
  BY Zenon DEF OptionsAbove, OptionAt, OptionPlaces, InEffect, Ends
<1>8. ReadTo' = n + 1
  <2>1. ReadTo' = IF walk'.level = 1 THEN 0
                  ELSE Len(cfg[file.dirs[walk'.level - 1]]) - Len(walk'.opts)
    BY Zenon DEF ReadTo, OptionsAbove
  <2>2. ReadTo' = Len(all) - Len(walk'.opts)
    <3>1. walk'.level # 1 /\ walk'.level - 1 = d
      BY <1>2, <1>6
    <3> QED BY <2>1, <3>1, Zenon DEF OptionsAbove
  <2>3. Len(walk'.opts) = Len(walk.opts) - 1
    BY <1>1, <1>6, Zenon
  <2> HIDE DEF n, all
  <2> QED BY <1>1, <1>3, <2>2, <2>3
<1>9. ASSUME NEW p \in OptionPlaces PROVE IsRead(p)' <=> IsRead(p) \/ p = pn
  <2>1. p = <<p[1], p[2]>> /\ p[1] \in Nat /\ p[2] \in Nat
    BY <1>0, PlacesAre
  <2>2. IsRead(p)' <=> p[1] < d \/ (p[1] = d /\ p[2] <= n + 1)
    BY <1>6, <1>8, Zenon DEF IsRead
  <2>3. IsRead(p) <=> p[1] < d \/ (p[1] = d /\ p[2] <= n)
    BY Zenon DEF IsRead
  <2>4. p = pn <=> p[1] = d /\ p[2] = n + 1
    BY <1>p, <2>1
  <2>5. p[2] <= n + 1 <=> p[2] <= n \/ p[2] = n + 1
    BY <1>4, <2>1
  <2> QED BY <2>2, <2>3, <2>4, <2>5, Zenon
<1>10. ~ IsRead(pn) /\ \A p \in OptionPlaces : IsRead(p) => NotAfter(p, pn)
  <2>1. \A p \in OptionPlaces : p[1] \in Nat /\ p[2] \in Nat
    BY <1>0, PlacesAre
  <2> QED BY <1>2, <1>4, <1>p, <2>1 DEF IsRead, NotAfter
<1>11. \A cat : FilterLines(cat)' = FilterLines(cat) /\ FilterLines(cat) \subseteq OptionPlaces
  BY <1>7, Zenon DEF FilterLines
<1>12. WalkTyped'
  <2>1. walk'.level \in 1..(Len(file.dirs) + 1)
    <3>1. walk.level \in 1..(Len(file.dirs) + 1)
      BY <1>0, Zenon DEF WalkTyped
    <3> QED BY <1>6, <3>1, Zenon
  <2>2. file' = file /\ cfg' = cfg
    BY Zenon
  <2> QED BY <1>0, <1>6, <2>1, <2>2, Zenon DEF WalkTyped
<1>13. OptsLeft'
  <2>1. OptionsAbove(walk.level - 1)' = all
    BY <1>6, Zenon DEF OptionsAbove
  <2>2. ASSUME NEW k \in 1..(Len(walk.opts) - 1) PROVE Tail(walk.opts)[k] = all[(n + 1) + k]
    <3>1. k + 1 \in 1..Len(walk.opts) /\ n + (k + 1) = (n + 1) + k
      BY <1>1, <1>4
    <3> QED BY <1>1, <1>3, <3>1, Zenon
  <2>3. /\ Len(walk'.opts) = Len(walk.opts) - 1 /\ walk'.level > 1 /\ walk'.level # 1
        /\ \A k \in 1..Len(walk'.opts) : walk'.opts[k] = all[(n + 1) + k]
    BY <1>1, <1>2, <1>6, <2>2
  <2>4. Len(walk'.opts) <= Len(all)
    <3> HIDE DEF n, all
    <3> QED BY <1>1, <1>3, <2>3
  <2> HIDE DEF n, all
  <2> QED BY <1>8, <2>1, <2>3, <2>4, Zenon DEF OptsLeft
<1>14. LooksOn'
  <2>1. (\A p \in OptionPlaces : IsRead(p)' => ~ EndsWalk(OptionAt(p)))
        <=> (\A p \in OptionPlaces : IsRead(p) => ~ EndsWalk(OptionAt(p))) /\ ~ EndsWalk(o)
    BY <1>5, <1>9, Zenon
  <2>2. walk'.keep_looking <=> \A p \in OptionPlaces : IsRead(p)' => ~ EndsWalk(OptionAt(p))
    BY <1>0, <1>6, <2>1, Zenon DEF LooksOn
  <2>3. InEffect(d)
    BY <1>0, <1>2, Zenon DEF LooksOn
  <2>4. InEffect(walk.level - 1)'
    BY <1>6, <2>3, Zenon DEF InEffect, Ends
  <2>5. \A p : EndsWalk(OptionAt(p))' <=> EndsWalk(OptionAt(p))
    BY <1>7, Zenon DEF EndsWalk
  <2> QED BY <1>7, <2>2, <2>4, <2>5, Zenon DEF LooksOn
<1>15. ASSUME NEW cat \in Categories PROVE FirstReadDecides(cat)'
  <2> DEFINE F == FilterLines(cat)
             s == walk.cfg_filters
             t == walk'.cfg_filters
  <2>1. FirstReadDecides(cat)
    BY Zenon DEF WalkInv
  <2>2. \A p \in F : p \in OptionPlaces /\ (IsRead(p)' <=> IsRead(p) \/ p = pn)
    BY <1>9, <1>11, Zenon
  <2>3. s \in Seq(Seq(FilterShape)) /\ o.filters \in Seq(FilterShape)
    BY <1>0, <1>1, Zenon DEF WalkTyped, OptionShape
  <2>4. pn \in F <=> o.name = "filter" /\ ~ NoMatch(o.filters, cat)
    <3>1. Matching(o.filters, cat) = {} <=> NoMatch(o.filters, cat)
      BY <2>3, LastOfIs, Zenon
    <3> QED BY <1>5, <3>1, Zenon DEF FilterLines
  <2>5. /\ Len(s) \in Nat /\ Len(t) \in Nat /\ Len(s) <= Len(t)
        /\ \A j \in 1..Len(s) : j \in 1..Len(t) /\ t[j] = s[j]
        /\ \A j \in 1..Len(t) : j \in 1..Len(s)
                                \/ (o.name = "filter" /\ j = Len(s) + 1 /\ t[j] = o.filters)
        /\ o.name = "filter" => Len(s) + 1 \in 1..Len(t) /\ t[Len(s) + 1] = o.filters
    <3> DEFINE C == Seq(FilterShape)
    <3>1. s \in Seq(C) /\ o.filters \in C
      BY <2>3, Zenon
    <3>2. t = IF o.name = "filter" THEN Append(s, o.filters) ELSE s
      BY <1>6, Zenon
    <3> HIDE DEF C, s, t, o
    <3>3. CASE o.name = "filter"
      BY <3>1, <3>2, <3>3
    <3>4. CASE o.name # "filter"
      BY <3>1, <3>2, <3>4
    <3> QED BY <3>3, <3>4, Zenon
  <2> HIDE DEF F, s, t
  <2>6. FirstReadDecides(cat)' <=>
          \/ /\ \A p \in F : ~ IsRead(p)'
             /\ \A j \in 1..Len(t) : NoMatch(t[j], cat)
          \/ \E p \in F, j \in 1..Len(t) :
               /\ IsRead(p)' /\ \A q \in F : IsRead(q)' => NotAfter(p, q)
               /\ t[j] = OptionAt(p).filters
               /\ \A m \in 1..(j - 1) : NoMatch(t[m], cat)
    BY <1>7, <1>11, Zenon DEF FirstReadDecides, F, t
  <2>7. CASE /\ \A p \in F : ~ IsRead(p)
             /\ \A j \in 1..Len(s) : NoMatch(s[j], cat)
    <3>1. CASE pn \in F
      <4>1. o.name = "filter" /\ Len(s) + 1 \in 1..Len(t) /\ t[Len(s) + 1] = OptionAt(pn).filters
        BY <1>5, <2>4, <2>5, <3>1
      <4>2. \A m \in 1..((Len(s) + 1) - 1) : NoMatch(t[m], cat)
        BY <2>5, <2>7
      <4>3. IsRead(pn)' /\ \A q \in F : IsRead(q)' => NotAfter(pn, q)
        <5>1. NotAfter(pn, pn)
          BY <1>2, <1>4, <1>p DEF NotAfter
        <5> QED BY <2>2, <2>7, <3>1, <5>1, Zenon
      <4> QED BY <2>6, <3>1, <4>1, <4>2, <4>3, Zenon
    <3>2. CASE pn \notin F
      <4>1. \A p \in F : ~ IsRead(p)'
        BY <2>2, <2>7, <3>2
      <4>2. \A j \in 1..Len(t) : NoMatch(t[j], cat)
        BY <2>4, <2>5, <2>7, <3>2
      <4> QED BY <2>6, <4>1, <4>2
    <3> QED BY <3>1, <3>2, Zenon
  <2>8. CASE \E p \in F, j \in 1..Len(s) :
               /\ IsRead(p) /\ \A q \in F : IsRead(q) => NotAfter(p, q)
               /\ s[j] = OptionAt(p).filters
               /\ \A m \in 1..(j - 1) : NoMatch(s[m], cat)
    <3>1. PICK p \in F, j \in 1..Len(s) :
               /\ IsRead(p) /\ \A q \in F : IsRead(q) => NotAfter(p, q)
               /\ s[j] = OptionAt(p).filters
               /\ \A m \in 1..(j - 1) : NoMatch(s[m], cat)
      BY <2>8, Zenon
    <3>2. IsRead(p)' /\ \A q \in F : IsRead(q)' => NotAfter(p, q)
      BY <1>10, <2>2, <3>1
    <3>3. j \in 1..Len(t) /\ t[j] = OptionAt(p).filters
      BY <2>5, <3>1, Zenon
    <3>4. \A m \in 1..(j - 1) : NoMatch(t[m], cat)
      <4>1. \A m \in 1..(j - 1) : m \in 1..Len(s)
        BY <2>5
      <4> QED BY <2>5, <3>1, <4>1
    <3> QED BY <2>6, <3>2, <3>3, <3>4, Zenon
  <2> QED BY <2>1, <2>7, <2>8 DEF FirstReadDecides, F, s
<1> QED BY <1>12, <1>13, <1>14, <1>15, Zenon DEF WalkInv

\* After the walk: the filters in force are those of the command line and of the walk.
WalkOver ==
  /\ walk.opts = <<>>
  /\ ~ walk.keep_looking \/ walk.level > Len(file.dirs)

FiltersInForce ==
  /\ pc = "Config" => filters = given.filters
  /\ pc = "Read" \/ Reporting => WalkOver /\ filters = given.filters \o CfgFilters

DecideInv ==
  /\ todo \in Seq(Files) /\ given.filters \in Seq(FilterShape)
  /\ WalkInv /\ FiltersInForce

\* What has been read when the walk is over are the options in effect.
LEMMA ReadIsInEffect ==
  ASSUME WalkInv, WalkOver, NEW p \in OptionPlaces
  PROVE  IsRead(p) <=> InEffect(p[1])
<1> DEFINE l == walk.level
<1>0. WalkTyped /\ OptsLeft /\ LooksOn
  BY Zenon DEF WalkInv
<1>1. /\ p[1] \in 1..Len(file.dirs) /\ p[2] \in 1..Len(OptionsAbove(p[1]))
      /\ Len(file.dirs) \in Nat /\ l \in 1..(Len(file.dirs) + 1)
      /\ DOMAIN file.dirs = 1..Len(file.dirs)
      /\ \A d \in 1..Len(file.dirs) : Len(OptionsAbove(d)) \in Nat
  BY <1>0, PlacesAre DEF WalkTyped
<1>2. l > 1 => ReadTo = Len(OptionsAbove(l - 1))
  <2>1. l > 1 => l - 1 \in 1..Len(file.dirs)
    BY <1>1
  <2>2. Len(walk.opts) = 0
    BY DEF WalkOver
  <2> QED BY <1>1, <2>1, <2>2 DEF ReadTo
<1>3. IsRead(p) <=> p[1] <= l - 1
  <2>1. CASE p[1] = l - 1
    <3>1. p[2] <= ReadTo
      BY <1>1, <1>2, <2>1
    <3> QED BY <1>1, <2>1, <3>1 DEF IsRead
  <2>2. CASE p[1] # l - 1
    BY <1>1, <2>2 DEF IsRead
  <2> QED BY <2>1, <2>2, Zenon
<1>4. CASE p[1] <= l - 1
  <2>1. l > 1 /\ InEffect(l - 1)
    BY <1>0, <1>1, <1>4 DEF LooksOn
  <2>2. \A j \in 1..(p[1] - 1) : j \in 1..((l - 1) - 1)
    BY <1>1, <1>4
  <2> QED BY <1>1, <1>3, <1>4, <2>1, <2>2, Zenon DEF InEffect
<1>5. CASE ~ (p[1] <= l - 1)
  <2>1. l <= Len(file.dirs)
    BY <1>1, <1>5
  <2>2. ~ walk.keep_looking
    BY <1>1, <2>1 DEF WalkOver
  <2>3. PICK q \in OptionPlaces : IsRead(q) /\ EndsWalk(OptionAt(q))
    BY <1>0, <2>2, Zenon DEF LooksOn
  <2>4. /\ q[1] \in 1..Len(file.dirs) /\ q[2] \in 1..Len(OptionsAbove(q[1]))
        /\ OptionAt(q) = OptionsAbove(q[1])[q[2]]
        /\ DOMAIN OptionsAbove(q[1]) = 1..Len(OptionsAbove(q[1]))
    BY <1>0, PlacesAre
  <2>5. Ends(file.dirs[q[1]])
    BY <2>3, <2>4, Zenon DEF Ends, EndsWalk, OptionsAbove
  <2>6. q[1] \in 1..(p[1] - 1)
    BY <1>1, <1>5, <2>3, <2>4 DEF IsRead
  <2> QED BY <1>3, <1>5, <2>5, <2>6 DEF InEffect
<1> QED BY <1>4, <1>5, Zenon

\* With the filters in force, the innermost list that matches decides.
LEMMA DecideIsRight ==
  ASSUME DecideInv
  PROVE  InnermostDecides
<1> SUFFICES ASSUME Reporting, NEW cat \in Categories
             PROVE  LET Deciding == {p \in FilterLines(cat) : InEffect(p[1])}
                    IN  /\ \A p \in Deciding :
                             (\A q \in Deciding : NotAfter(p, q)) =>
                               (IsFiltered(cat) <=> Says(OptionAt(p).filters, cat) = "-")
                        /\ Deciding = {} /\ Matching(given.filters, cat) # {} =>
                             (IsFiltered(cat) <=> Says(given.filters, cat) = "-")
  BY Zenon DEF InnermostDecides
<1> DEFINE s == walk.cfg_filters
           g == given.filters
           D == {p \in FilterLines(cat) : InEffect(p[1])}
<1>1. /\ WalkInv /\ WalkTyped /\ WalkOver /\ filters = g \o CfgFilters
      /\ FirstReadDecides(cat) /\ g \in Seq(FilterShape)
  BY Zenon DEF DecideInv, FiltersInForce, WalkInv
<1>2. \A p \in FilterLines(cat) : p \in OptionPlaces /\ (IsRead(p) <=> p \in D)
  BY <1>1, ReadIsInEffect, Zenon DEF FilterLines
<1>3. s \in Seq(Seq(FilterShape))
  BY <1>1, Zenon DEF WalkTyped
<1>4. /\ CfgFilters \in Seq(FilterShape)
      /\ (\A j \in 1..Len(s) : NoMatch(s[j], cat)) => NoMatch(CfgFilters, cat)
      /\ \A f : FirstOf(s, cat, f) => LastOf(CfgFilters, cat, f)
  BY <1>3, CfgFiltersAre, Zenon
<1>5. filters \in Seq(FilterShape)
  BY <1>1, <1>4, SeqBoth
<1>6. \A f : LastOf(CfgFilters, cat, f) => LastOf(filters, cat, f)
  BY <1>1, <1>4, LastOfBoth, Zenon
<1>7. \A f : LastOf(g, cat, f) /\ NoMatch(CfgFilters, cat) => LastOf(filters, cat, f)
  BY <1>1, <1>4, LastOfBoth
<1>8. \A f : LastOf(filters, cat, f) => (IsFiltered(cat) <=> f.sign = "-")
  BY <1>5, IsFilteredIs, Zenon
<1>9. ASSUME NEW p \in D, \A q \in D : NotAfter(p, q)
      PROVE  IsFiltered(cat) <=> Says(OptionAt(p).filters, cat) = "-"
  <2> DEFINE L == OptionAt(p).filters
  <2>1. p \in OptionPlaces /\ p \in FilterLines(cat) /\ IsRead(p) /\ L \in Seq(FilterShape)
        /\ Matching(L, cat) # {}
    <3>1. OptionAt(p) \in OptionShape
      BY <1>1, <1>2, PlacesAre, Zenon
    <3> QED BY <1>2, <3>1, Zenon DEF OptionShape, FilterLines
  <2>2. PICK q \in FilterLines(cat), j \in 1..Len(s) :
               /\ IsRead(q) /\ \A r \in FilterLines(cat) : IsRead(r) => NotAfter(q, r)
               /\ s[j] = OptionAt(q).filters
               /\ \A m \in 1..(j - 1) : NoMatch(s[m], cat)
    BY <1>1, <2>1, Zenon DEF FirstReadDecides
  <2>3. q = p
    <3>1. NotAfter(p, q) /\ NotAfter(q, p)
      BY <1>2, <1>9, <2>1, <2>2
    <3>2. /\ p = <<p[1], p[2]>> /\ p[1] \in Int /\ p[2] \in Int
          /\ q = <<q[1], q[2]>> /\ q[1] \in Int /\ q[2] \in Int
      BY <1>1, <1>2, <2>1, PlacesAre
    <3>3. p[1] = q[1] /\ p[2] = q[2]
      BY <3>1, <3>2 DEF NotAfter
    <3> QED BY <3>2, <3>3, Zenon
  <2>4. PICK f \in FilterShape : LastOf(L, cat, f)
    BY <2>1, LastOfIs, Zenon
  <2>5. Says(L, cat) = f.sign
    BY <2>1, <2>4, LastOfIs, Zenon
  <2>6. FirstOf(s, cat, f)
    BY <2>2, <2>3, <2>4, Zenon DEF FirstOf
  <2> QED BY <1>4, <1>6, <1>8, <2>5, <2>6, Zenon
<1>10. ASSUME D = {}, Matching(g, cat) # {}
       PROVE  IsFiltered(cat) <=> Says(g, cat) = "-"
  <2>1. \A p \in FilterLines(cat) : ~ IsRead(p)
    BY <1>2, <1>10, Zenon
  <2>2. \A j \in 1..Len(s) : NoMatch(s[j], cat)
    BY <1>1, <2>1, Zenon DEF FirstReadDecides
  <2>3. PICK f \in FilterShape : LastOf(g, cat, f)
    BY <1>1, <1>10, LastOfIs, Zenon
  <2>4. Says(g, cat) = f.sign
    BY <1>1, <2>3, LastOfIs, Zenon
  <2> QED BY <1>4, <1>7, <1>8, <2>2, <2>3, <2>4, Zenon
<1> HIDE DEF D
<1>11. /\ \A p \in D : (\A q \in D : NotAfter(p, q)) =>
                          (IsFiltered(cat) <=> Says(OptionAt(p).filters, cat) = "-")
       /\ D = {} /\ Matching(given.filters, cat) # {} =>
            (IsFiltered(cat) <=> Says(given.filters, cat) = "-")
  BY <1>9, <1>10, Zenon
<1> QED BY <1>11, Zenon DEF D

\* A step outside the walk that leaves the filters alone.
LEMMA DecideFrame ==
  ASSUME DecideInv, UNCHANGED <<todo, file, cfg, walk, filters, given>>,
         pc' = "Config" => pc = "Config",
         pc' = "Read" \/ Reporting' => pc = "Read" \/ Reporting
  PROVE  DecideInv'
<1>1. WalkInv'
  BY WalkFrame, Zenon DEF DecideInv
<1>2. CfgFilters' = CfgFilters
  BY Zenon DEF CfgFilters
<1>3. WalkOver' <=> WalkOver
  BY Zenon DEF WalkOver
<1>4. FiltersInForce'
  BY <1>2, <1>3, Zenon DEF DecideInv, FiltersInForce
<1> QED BY <1>1, <1>4, Zenon DEF DecideInv

LEMMA DecideStart == Init => DecideInv
<1> SUFFICES ASSUME Init PROVE DecideInv
  BY Zenon
<1>1. /\ file \in [dirs : Seq(Dirs), ext : BOOLEAN] /\ walk = NoWalk /\ todo \in Seq(Files)
  BY DEF Init, NoFile
<1>2. cfg \in [Dirs -> Seq(OptionShape)]
  BY RunAssumption, Zenon DEF Init
<1>3. WalkInv
  BY <1>1, <1>2, WalkStart
<1>4. given.filters \in Seq(FilterShape)
  BY DefaultFilters, Zenon DEF Init
<1>5. FiltersInForce
  BY Zenon DEF Init, FiltersInForce, Reporting
<1> QED BY <1>1, <1>3, <1>4, <1>5 DEF DecideInv

LEMMA DecideStep == DecideInv /\ FilterInv /\ [Next]_vars => DecideInv'
<1> SUFFICES ASSUME DecideInv, FilterInv, [Next]_vars PROVE DecideInv'
  BY Zenon
<1>0. WalkInv /\ FiltersInForce /\ todo \in Seq(Files) /\ given.filters \in Seq(FilterShape)
  BY Zenon DEF DecideInv
<1>1. CASE ParseArguments
  <2>1. PICK fs \in FilterLists, args \in UNION {[1..n -> Files] : n \in 1..MaxFiles} :
          given'.filters = SetFilters(fs) /\ todo' = args
    <3>1. PICK v \in Verbosities, fs \in FilterLists, c \in Countings,
               args \in UNION {[1..n -> Files] : n \in 1..MaxFiles} :
            /\ given' = [filters |-> SetFilters(fs), length |-> line_length]
            /\ todo' = args
      BY <1>1, Zenon DEF ParseArguments
    <3>2. given'.filters = SetFilters(fs)
      BY <3>1, Zenon
    <3> QED BY <3>1, <3>2, Zenon
  <2>2. SetFilters(fs) \in Seq(FilterShape)
    <3>1. DEFAULT_FILTERS \in Seq(FilterShape) /\ fs \in Seq(FilterShape)
      BY RunAssumption, DefaultFilters, Zenon
    <3> QED BY <3>1, SeqBoth, Zenon DEF SetFilters, AddFilters
  <2>3. args \in Seq(Files)
    <3>1. PICK n \in 1..MaxFiles : args \in [1..n -> Files]
      BY Zenon
    <3>2. n \in Nat
      OBVIOUS
    <3> QED BY <3>1, <3>2
  <2>4. WalkInv'
    BY <1>0, <1>1, WalkFrame, Zenon DEF ParseArguments
  <2>5. pc' \in {"main", "died"}
    BY <1>1, Zenon DEF ParseArguments
  <2>6. FiltersInForce'
    BY <2>5, Zenon DEF FiltersInForce, Reporting
  <2> QED BY <2>1, <2>2, <2>3, <2>4, <2>6 DEF DecideInv
<1>2. CASE StartFile
  <2>1. /\ file' = Head(todo) /\ todo' = Tail(todo) /\ todo # <<>> /\ walk' = NoWalk
        /\ filters' = filters /\ given' = given /\ pc' = "Config" /\ pc = "main" /\ cfg' = cfg
    BY <1>2, Zenon DEF StartFile
  <2>2. file' \in Files /\ todo' \in Seq(Files)
    BY <1>0, <2>1
  <2>3. file' \in [dirs : Seq(Dirs), ext : BOOLEAN] /\ cfg' \in [Dirs -> Seq(OptionShape)]
    BY <1>0, <2>1, <2>2, RunAssumption, Zenon DEF WalkInv, WalkTyped
  <2>4. WalkInv'
    <3>1. (file \in [dirs : Seq(Dirs), ext : BOOLEAN] /\ cfg \in [Dirs -> Seq(OptionShape)]
           /\ walk = NoWalk)'
      BY <2>1, <2>3, Zenon
    <3> QED BY <3>1, WalkStart, PTL
  <2>5. FiltersInForce'
    BY <2>1, Zenon DEF FilterInv, FiltersRestored, FiltersInForce, Reporting
  <2> QED BY <1>0, <2>1, <2>2, <2>4, <2>5 DEF DecideInv
<1>3. CASE Exit
  BY <1>3, DecideFrame, Zenon DEF Exit, state, Reporting
<1>4. CASE NextDirectory
  <2>1. WalkInv'
    BY <1>0, <1>4, WalkDirectory, Zenon DEF NextDirectory
  <2>2. pc = "Config" /\ UNCHANGED <<pc, todo, filters, given>>
    BY <1>4, Zenon DEF NextDirectory, state
  <2> QED BY <1>0, <2>1, <2>2, Zenon DEF DecideInv, FiltersInForce, Reporting
<1>5. CASE ConfigOption
  <2>1. WalkInv'
    <3>1. OptionStep /\ UNCHANGED <<file, cfg>> /\ walk.opts # <<>>
      BY <1>5, Zenon DEF ConfigOption, OptionStep, GiveUpFile
    <3> QED BY <1>0, <3>1, WalkOption
  <2>2. /\ pc = "Config" /\ UNCHANGED <<todo, given>>
        /\ pc' = "main" \/ (UNCHANGED <<pc, filters>>)
    BY <1>5, Zenon DEF ConfigOption, GiveUpFile, state
  <2> QED BY <1>0, <2>1, <2>2, Zenon DEF DecideInv, FiltersInForce, Reporting
<1>6. CASE EndConfig
  <2>1. /\ WalkOver /\ filters' = filters \o CfgFilters /\ pc = "Config"
        /\ pc' \in {"Read", "died"} /\ UNCHANGED <<todo, file, cfg, walk, given>>
    BY <1>6, Zenon DEF EndConfig, WalkOver, AddFilters
  <2>2. WalkInv' /\ WalkOver' /\ CfgFilters' = CfgFilters
    <3>1. CfgFilters' = CfgFilters
      BY <2>1, Zenon DEF CfgFilters
    <3> QED BY <1>0, <2>1, <3>1, WalkFrame DEF WalkOver
  <2>3. filters' = given'.filters \o CfgFilters'
    BY <1>0, <2>1, <2>2, Zenon DEF FiltersInForce
  <2>4. FiltersInForce'
    BY <2>1, <2>2, <2>3, Zenon DEF FiltersInForce, Reporting
  <2> QED BY <1>0, <2>1, <2>2, <2>4 DEF DecideInv
<1>7. CASE SkipFile
  <2>1. pc' = "main" /\ UNCHANGED <<todo, file, cfg, walk, given>>
    BY <1>7, Zenon DEF SkipFile, GiveUpFile
  <2> QED BY <1>0, <2>1, WalkFrame, Zenon DEF DecideInv, FiltersInForce, Reporting
<1>8. CASE ReadFile
  BY <1>8, DecideFrame, Zenon DEF ReadFile, state, Reporting
<1>9. CASE EarlyReport \/ CheckReport \/ LateReport
  <2>1. PICK cat, conf, l : Report(cat, conf, l)
    BY <1>9, Zenon DEF EarlyReport, CheckReport, LateReport
  <2>2. UNCHANGED <<pc, todo, file, cfg, walk, filters, given>>
    BY <2>1, Zenon DEF Report, state
  <2> QED BY <2>2, DecideFrame, Zenon DEF Reporting
<1>10. CASE GuardLine
  BY <1>10, DecideFrame, Zenon DEF GuardLine, state, Reporting
<1>11. CASE GuardReport
  BY <1>11, DecideFrame, Zenon DEF GuardReport, state, Reporting
<1>12. CASE StartLines
  BY <1>12, DecideFrame, Zenon DEF StartLines, state, Reporting
<1>13. CASE ProcessLine
  BY <1>13, DecideFrame, Zenon DEF ProcessLine, state, Reporting
<1>14. CASE NextLine
  BY <1>14, DecideFrame DEF NextLine, state, Reporting
<1>15. CASE EndFile
  <2>1. pc' = "main" /\ UNCHANGED <<todo, file, cfg, walk, given>>
    BY <1>15, Zenon DEF EndFile
  <2> QED BY <1>0, <2>1, WalkFrame, Zenon DEF DecideInv, FiltersInForce, Reporting
<1>16. CASE Stopped \/ UNCHANGED vars
  BY <1>16, DecideFrame, Zenon DEF Stopped, vars, Reporting
<1>. QED
  BY <1>1, <1>2, <1>3, <1>4, <1>5, <1>6, <1>7, <1>8, <1>9, <1>10, <1>11, <1>12,
     <1>13, <1>14, <1>15, <1>16, ZenonT(30) DEF Next

(***************************************************************************)
(* ProcessConfigOverrides: for any directories and any CPPLINT.cfg files,  *)
(* the innermost filter for a category decides whether it is printed, and  *)
(* the command line only where no CPPLINT.cfg has one.                     *)
(***************************************************************************)
THEOREM InnermostIsRight == Spec => []InnermostDecides
<1>1. Init => FilterInv
  BY Zenon DEF Init, FilterInv, FiltersRestored, InFile
<1>2. DecideInv => InnermostDecides
  BY DecideIsRight, Zenon
<1>. QED BY <1>1, <1>2, FilterInvStep, DecideStart, DecideStep, PTL DEF Spec
=============================================================================
