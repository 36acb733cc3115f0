-------------------------- MODULE LintCheckProofs --------------------------
(***************************************************************************)
(* Checks of the linter on a whole file, for files of any length: the      *)
(* header guard, the length of functions and the includes.                 *)
(*                                                                         *)
(* The properties speak of the whole file, the scans of one line at a      *)
(* time.  Each invariant says what the state means for the lines behind    *)
(* the scan: ScanInv what the three line numbers of the guard are,         *)
(* FunctionsInv how much of the function around the line has been counted, *)
(* IncludesInv how far the includes since the last directive have brought  *)
(* the section, and which lines the lists hold.                            *)
(***************************************************************************)
EXTENDS LintGuard, LintFunctions, LintIncludes, DataLemmas, FiniteSetTheorems

NamedAt(k, directive) == raw_lines[k].directive = directive /\ raw_lines[k].name # "none"

IsFirstNamed(found, directive) ==
  /\ found \in 0 .. guard_line - 1
  /\ found # 0 => NamedAt(found, directive)
  /\ \A k \in 1 .. guard_line - 1 : NamedAt(k, directive) => found # 0 /\ found <= k

IsLastEndif ==
  /\ endif \in 0 .. guard_line - 1
  /\ endif # 0 => raw_lines[endif].directive = "#endif"
  /\ \A k \in 1 .. guard_line - 1 : raw_lines[k].directive = "#endif" => k <= endif

NoGuard == ifndef = None \/ define = None \/ raw_lines[ifndef].name # raw_lines[define].name

Verdict == IF NoGuard THEN {<<None, 5>>} ELSE NameErrors \cup EndifErrors

SomeSilencer == \E k \in DOMAIN raw_lines : raw_lines[k].nolint = "guard"

ScanInv ==
  /\ raw_lines \in Seq(LineShape)
  /\ guard_line \in 1 .. Len(raw_lines) + 1
  /\ IsFirstNamed(ifndef, "#ifndef") /\ IsFirstNamed(define, "#define") /\ IsLastEndif

DoneInv ==
  /\ guard_done \in BOOLEAN
  /\ ~ guard_done => guard_errors = {}
  /\ guard_done => \/ guard_errors = {} /\ SomeSilencer
                   \/ guard_line = Len(raw_lines) + 1 /\ guard_errors = Verdict

GuardInv == ScanInv /\ DoneInv

\* Nothing is found before the scan.
LEMMA GuardInvInit == GuardInit => GuardInv
<1> SUFFICES ASSUME GuardInit PROVE GuardInv
  BY Zenon
<1>1. PICK n \in 1 .. MaxHeader : raw_lines \in [1 .. n -> GuardLines]
  BY Zenon DEF GuardInit
<1>2. raw_lines \in Seq(LineShape)
  BY <1>1, GuardAssumption
<1>3. Len(raw_lines) \in Nat
  BY <1>2
<1>4. guard_line = 1 /\ ifndef = 0 /\ define = 0 /\ endif = 0 /\ guard_errors = {} /\ guard_done = FALSE
  BY Zenon DEF GuardInit, None
<1>5. ScanInv
  BY <1>2, <1>3, <1>4 DEF ScanInv, IsFirstNamed, IsLastEndif
<1>6. DoneInv
  BY <1>4, Zenon DEF DoneInv
<1> QED BY <1>5, <1>6, Zenon DEF GuardInv

\* The line under the scan is the first with its directive, or leaves what was found.
LEMMA FoundIsFirst ==
  ASSUME ScanInv, NEW found, NEW directive, IsFirstNamed(found, directive),
         guard_line <= Len(raw_lines), guard_line' = guard_line + 1, UNCHANGED raw_lines,
         NEW next, next = Found(found, directive)
  PROVE  /\ next \in 0 .. guard_line' - 1
         /\ next # 0 => NamedAt(next, directive)
         /\ \A k \in 1 .. guard_line' - 1 : NamedAt(k, directive) => next # 0 /\ next <= k
<1>1. guard_line \in Nat /\ guard_line >= 1 /\ found \in Nat
  BY DEF ScanInv, IsFirstNamed
<1>2. CASE found = 0 /\ NamedAt(guard_line, directive)
  BY <1>1, <1>2 DEF Found, NamedAt, IsFirstNamed, None
<1>3. CASE ~ (found = 0 /\ NamedAt(guard_line, directive))
  BY <1>1, <1>3 DEF Found, NamedAt, IsFirstNamed, None
<1> QED BY <1>2, <1>3, Zenon

\* One line of the scan.
LEMMA ScanLineInv == ScanInv /\ ScanLine => ScanInv'
<1> SUFFICES ASSUME ScanInv, ScanLine PROVE ScanInv'
  BY Zenon
<1>1. guard_line <= Len(raw_lines) /\ guard_line' = guard_line + 1 /\ raw_lines' = raw_lines
  BY Zenon DEF ScanLine
<1>2. guard_line' \in 1 .. Len(raw_lines') + 1 /\ raw_lines' \in Seq(LineShape)
  BY <1>1 DEF ScanInv
<1>3. IsFirstNamed(ifndef, "#ifndef")'
  <2>1. ifndef' = Found(ifndef, "#ifndef") /\ IsFirstNamed(ifndef, "#ifndef")
    BY Zenon DEF ScanLine, ScanInv
  <2> QED BY <1>1, <2>1, FoundIsFirst DEF IsFirstNamed, NamedAt
<1>4. IsFirstNamed(define, "#define")'
  <2>1. define' = Found(define, "#define") /\ IsFirstNamed(define, "#define")
    BY Zenon DEF ScanLine, ScanInv
  <2> QED BY <1>1, <2>1, FoundIsFirst DEF IsFirstNamed, NamedAt
<1>5. IsLastEndif'
  <2>1. guard_line \in Nat /\ guard_line >= 1
    BY DEF ScanInv
  <2>2. endif' = IF raw_lines[guard_line].directive = "#endif" THEN guard_line ELSE endif
    BY Zenon DEF ScanLine
  <2> QED BY <1>1, <2>1, <2>2 DEF ScanInv, IsLastEndif
<1> QED BY <1>2, <1>3, <1>4, <1>5 DEF ScanInv

\* Every step preserves the invariant.
LEMMA GuardInvNext == GuardInv /\ [GuardNext]_guardVars => GuardInv'
<1> SUFFICES ASSUME GuardInv, [GuardNext]_guardVars PROVE GuardInv'
  BY Zenon
<1> USE DEF GuardInv
<1>1. CASE Silenced
  <2>1. UNCHANGED <<raw_lines, guard_line, ifndef, define, endif, guard_errors>> /\ guard_done' = TRUE /\ guard_done = FALSE
    BY <1>1, Zenon DEF Silenced, DoneInv
  <2>2. ScanInv'
    BY <2>1, Zenon DEF ScanInv, IsFirstNamed, IsLastEndif, NamedAt
  <2>3. SomeSilencer'
    BY <1>1, <2>1, Zenon DEF Silenced, SomeSilencer
  <2> QED BY <2>1, <2>2, <2>3, Zenon DEF DoneInv
<1>2. CASE ScanLine
  <2>1. guard_done' = FALSE /\ guard_errors' = {}
    BY <1>2, Zenon DEF ScanLine, DoneInv
  <2> QED BY <1>2, <2>1, ScanLineInv, Zenon DEF DoneInv
<1>3. CASE Judge
  <2>1. /\ UNCHANGED <<raw_lines, guard_line, ifndef, define, endif>> /\ guard_done' = TRUE
        /\ guard_line > Len(raw_lines) /\ guard_errors' = Verdict
    BY <1>3, Zenon DEF Judge, Verdict, NoGuard
  <2>2. ScanInv'
    BY <2>1, Zenon DEF ScanInv, IsFirstNamed, IsLastEndif, NamedAt
  <2>3. guard_line' = Len(raw_lines') + 1
    BY <2>1 DEF ScanInv
  <2>4. guard_errors' = Verdict'
    BY <2>1 DEF Verdict, NoGuard, NameErrors, EndifErrors, GuardError, AcceptedComments, IsSingle
  <2> QED BY <2>1, <2>2, <2>3, <2>4 DEF DoneInv
<1>4. CASE UNCHANGED guardVars
  <2>1. ScanInv'
    BY <1>4, Zenon DEF guardVars, ScanInv, IsFirstNamed, IsLastEndif, NamedAt
  <2>2. Verdict' = Verdict /\ SomeSilencer' = SomeSilencer
    BY <1>4 DEF guardVars, Verdict, NoGuard, NameErrors, EndifErrors, GuardError, AcceptedComments,
                IsSingle, SomeSilencer
  <2> QED BY <1>4, <2>1, <2>2, Zenon DEF guardVars, DoneInv
<1> QED BY <1>1, <1>2, <1>3, <1>4, Zenon DEF GuardNext

\* The invariant, for headers of any lines and any length.
THEOREM GuardInvCorrect == GuardSpec => []GuardInv
BY GuardInvInit, GuardInvNext, PTL DEF GuardSpec

-----------------------------------------------------------------------------
(* What follows from it.                                                   *)

\* The first and the last line are found where they are.
LEMMA GuardedFound ==
  ASSUME ScanInv, guard_line = Len(raw_lines) + 1, Len(raw_lines) >= 3,
         NamedAt(1, "#ifndef"), NamedAt(2, "#define"),
         raw_lines[Len(raw_lines)].directive = "#endif"
  PROVE  ifndef = 1 /\ define = 2 /\ endif = Len(raw_lines)
<1>1. Len(raw_lines) \in Nat
  BY DEF ScanInv
<1>2. ifndef = 1
  BY <1>1 DEF ScanInv, IsFirstNamed
<1>3. define = 2
  <2>1. ~ NamedAt(1, "#define")
    BY Zenon DEF NamedAt
  <2> QED BY <1>1, <2>1 DEF ScanInv, IsFirstNamed
<1>4. endif = Len(raw_lines)
  BY <1>1 DEF ScanInv, IsLastEndif
<1> QED BY <1>2, <1>3, <1>4, Zenon

\* A header in the form that CheckForHeaderGuard asks for is not reported, whatever
\* stands between its guard and its end.
THEOREM GuardedHeadersPass == GuardSpec => []GuardedIsSilent
<1>1. GuardInv => GuardedIsSilent
  <2> SUFFICES ASSUME GuardInv, guard_done, Len(raw_lines) >= 3,
                      raw_lines[1].directive = "#ifndef", raw_lines[1].name = "right",
                      raw_lines[2].directive = "#define", raw_lines[2].name = "right",
                      raw_lines[Len(raw_lines)].directive = "#endif",
                      raw_lines[Len(raw_lines)].name = "right",
                      raw_lines[Len(raw_lines)].comment = "//",
                      guard_line = Len(raw_lines) + 1, guard_errors = Verdict
               PROVE  guard_errors = {}
    BY Zenon DEF GuardedIsSilent, GuardInv, DoneInv
  <2>1. ifndef = 1 /\ define = 2 /\ endif = Len(raw_lines)
    BY GuardedFound, Zenon DEF GuardInv, NamedAt
  <2>2. ~ NoGuard
    BY <2>1 DEF NoGuard, None
  <2>3. NameErrors = {}
    BY <2>1, Zenon DEF NameErrors
  <2>4. EndifErrors = {}
    BY <2>1 DEF EndifErrors, AcceptedComments, None
  <2> QED BY <2>2, <2>3, <2>4, Zenon DEF Verdict
<1> QED BY <1>1, GuardInvCorrect, PTL

\* A header that passes, with no NOLINT in it, has its right name in an #ifndef, in a
\* #define and in the comment of its last #endif.
THEOREM PassingHeadersAreNamed == GuardSpec => []SilentMeansNamed
<1>1. GuardInv => SilentMeansNamed
  <2> SUFFICES ASSUME GuardInv, guard_done, \A e \in guard_errors : e[2] = 0,
                      \A k \in DOMAIN raw_lines : Plain(raw_lines[k])
               PROVE  /\ \A d \in {"#ifndef", "#define"} :
                           \E k \in DOMAIN raw_lines : raw_lines[k].directive = d
                                        /\ raw_lines[k].name \in {"right", "right_"}
                      /\ LET ends == {k \in DOMAIN raw_lines : raw_lines[k].directive = "#endif"}
                         IN ends # {} /\ raw_lines[Max(ends)].name \in {"right", "right_"}
    BY Zenon DEF SilentMeansNamed
  <2>1. Len(raw_lines) \in Nat /\ DOMAIN raw_lines = 1 .. Len(raw_lines)
    BY DEF GuardInv, ScanInv
  <2>2. guard_line = Len(raw_lines) + 1 /\ guard_errors = Verdict
    BY Zenon DEF GuardInv, DoneInv, SomeSilencer, Plain
  <2>3. ~ NoGuard
    <3>1. <<None, 5>>[2] # 0
      OBVIOUS
    <3> QED BY <2>2, <3>1, Zenon DEF Verdict
  <2>4. /\ ifndef \in DOMAIN raw_lines /\ raw_lines[ifndef].directive = "#ifndef"
        /\ define \in DOMAIN raw_lines /\ raw_lines[define].directive = "#define"
    BY <2>1, <2>2, <2>3 DEF NoGuard, None, GuardInv, ScanInv, IsFirstNamed, NamedAt
  <2>5. raw_lines[ifndef].name \in {"right", "right_"}
    <3> SUFFICES ASSUME raw_lines[ifndef].name \notin {"right", "right_"} PROVE FALSE
      BY Zenon
    <3>1. NameErrors = {<<ifndef, 5>>}
      BY <2>4, Zenon DEF NameErrors, GuardError, Plain
    <3>2. <<ifndef, 5>> \in guard_errors /\ <<ifndef, 5>>[2] = 5
      BY <2>2, <2>3, <3>1 DEF Verdict
    <3> QED BY <3>2
  <2>6. raw_lines[define].name = raw_lines[ifndef].name
    BY <2>3, Zenon DEF NoGuard
  <2>7. endif \in DOMAIN raw_lines /\ raw_lines[endif].name \in {"right", "right_"}
    <3>0. endif \in 0 .. Len(raw_lines)
      BY <2>1, <2>2 DEF GuardInv, ScanInv, IsLastEndif
    <3> SUFFICES ASSUME ~ (endif # None /\ raw_lines[endif].name \in {"right", "right_"})
                 PROVE  FALSE
      BY <2>1, <3>0 DEF None
    <3>1. EndifErrors = {<<endif, 5>>}
      BY <2>1, <3>0 DEF EndifErrors, GuardError, Plain, None
    <3>2. <<endif, 5>> \in guard_errors /\ <<endif, 5>>[2] = 5
      BY <2>2, <2>3, <3>1, Zenon DEF Verdict
    <3> QED BY <3>2
  <2> DEFINE ends == {k \in DOMAIN raw_lines : raw_lines[k].directive = "#endif"}
  <2>9. endif \in ends /\ \A k \in ends : endif >= k
    BY <2>1, <2>2, <2>7 DEF GuardInv, ScanInv, IsLastEndif
  <2>10. Max(ends) = endif
    <3>1. Max(ends) \in ends /\ \A k \in ends : Max(ends) >= k
      BY <2>9, Zenon DEF Max
    <3>2. endif >= Max(ends) /\ Max(ends) >= endif
      BY <2>9, <3>1, Zenon
    <3>3. Max(ends) \in Nat /\ endif \in Nat
      BY <2>1, <2>9, <3>1
    <3> HIDE DEF ends
    <3> QED BY <3>2, <3>3
  <2> QED BY <2>4, <2>5, <2>6, <2>7, <2>9, <2>10
<1> QED BY <1>1, GuardInvCorrect, PTL

\* What the scan has found lies behind it, and guard_errors are about lines of the header.
THEOREM GuardTypes == GuardSpec => []GuardTypeOK
<1>1. GuardInv => GuardTypeOK
  <2> SUFFICES ASSUME GuardInv PROVE GuardTypeOK
    BY Zenon
  <2>1. /\ Len(raw_lines) \in Nat /\ guard_line \in 1 .. Len(raw_lines) + 1
        /\ {ifndef, define, endif} \subseteq 0 .. guard_line - 1
    BY DEF GuardInv, ScanInv, IsFirstNamed, IsLastEndif
  <2>2. \A line \in {None, ifndef, endif}, level \in {0, 5} :
           GuardError(line, level) \subseteq (0 .. Len(raw_lines)) \X {0, 5}
    BY <2>1 DEF GuardError, None
  <2>3. NameErrors \subseteq (0 .. Len(raw_lines)) \X {0, 5}
    BY <2>2, Zenon DEF NameErrors
  <2>4. EndifErrors \subseteq (0 .. Len(raw_lines)) \X {0, 5}
    BY <2>2, Zenon DEF EndifErrors
  <2>5. Verdict \subseteq (0 .. Len(raw_lines)) \X {0, 5}
    BY <2>1, <2>3, <2>4 DEF Verdict, None
  <2>6. guard_errors \subseteq (0 .. Len(raw_lines)) \X {0, 5} /\ guard_done \in BOOLEAN
    BY <2>5, Zenon DEF GuardInv, DoneInv
  <2> QED BY <2>1, <2>6, Zenon DEF GuardTypeOK
<1> QED BY <1>1, GuardInvCorrect, PTL

-----------------------------------------------------------------------------
\* e is reported, at a level that is shown.
Shown(e) == \E r \in length_errors : r.line = e /\ r.level >= verbose

\* What the state says of the function from i to e while the line is in it, and after.
FunctionSeen(i, b, e) ==
    /\ linenum \in i + 1 .. e =>
         /\ in_a_function
         /\ current_function = IF clean_lines[i] = "test" THEN "test" ELSE "function"
         /\ lines_in_function >= Cardinality(BodyLines(b, linenum))
    /\ linenum > e /\ Cardinality(BodyLines(b, e)) > TriggerOf(i) => Shown(e)

FunctionsInv ==
    /\ clean_lines \in Seq(Kinds) /\ verbose \in 0 .. MaxVerbose
    /\ linenum \in Nat /\ lines_in_function \in Nat
    /\ \A i, b, e \in 1 .. Len(clean_lines) : IsFunction(i, b, e) => FunctionSeen(i, b, e)

\* The powers of two, and that a power is more than its exponent.
LEMMA TwoToIs ==
  /\ \A v \in 0 .. MaxVerbose : TwoTo[v] \in Nat /\ v < TwoTo[v]
<1> DEFINE top == MaxCode + MaxVerbose
<1>0. top \in Nat /\ MaxVerbose \in Nat /\ MaxVerbose <= top
  BY FunctionsAssumption
<1> DEFINE step == [k \in 1 .. top |-> [x \in Nat |-> 2 * x]]
           P(f) == f = [e \in 0 .. top |-> IF e = 0 THEN 1 ELSE 2 * f[e - 1]]
<1>1. step \in [1 .. top -> [Nat -> Nat]]
  OBVIOUS
<1>2. PICK f \in [0 .. top -> Nat] :
         f[0] = 1 /\ \A k \in 1 .. top : f[k] = step[k][f[k - 1]]
  <2> DEFINE X == Nat
             one == 1
  <2>1. one \in X /\ step \in [1 .. top -> [X -> X]]
    BY <1>1, Zenon
  <2> HIDE DEF step, one, X, top
  <2>2. \E f \in [0 .. top -> X] :
           f[0] = one /\ \A k \in 1 .. top : f[k] = step[k][f[k - 1]]
    <3>1. HasSteps(X, one, top, step)
      BY <1>0, <2>1, Recursion, Zenon
    <3> QED BY <3>1, Zenon DEF HasSteps
  <2> QED BY <2>2, Zenon DEF one, X
<1>3. ASSUME NEW k \in 1 .. top PROVE f[k] = 2 * f[k - 1]
  <2>1. f[k - 1] \in Nat /\ step[k] = [x \in Nat |-> 2 * x]
    BY <1>0, <1>2
  <2> QED BY <1>2, <2>1, Zenon
<1>4. P(f)
  <2>1. \A e \in 0 .. top : f[e] = IF e = 0 THEN 1 ELSE 2 * f[e - 1]
    BY <1>0, <1>2, <1>3
  <2> QED BY <2>1, Zenon
<1>5. TwoTo = CHOOSE g : P(g)
  BY Zenon DEF TwoTo
<1>6. P(TwoTo)
  <2> HIDE DEF P
  <2> QED BY <1>4, <1>5, Zenon
<1> HIDE DEF TwoTo, top
<1>7. \A e \in 0 .. top : TwoTo[e] = IF e = 0 THEN 1 ELSE 2 * TwoTo[e - 1]
  BY <1>6, Zenon
<1> DEFINE S == {m \in Nat : m <= top => TwoTo[m] \in Nat /\ m < TwoTo[m]}
<1>8. 0 \in S
  BY <1>0, <1>7
<1>9. ASSUME NEW m \in Nat, m \in S PROVE m + 1 \in S
  <2> SUFFICES ASSUME m + 1 <= top PROVE TwoTo[m + 1] \in Nat /\ m + 1 < TwoTo[m + 1]
    OBVIOUS
  <2>1. m <= top /\ m + 1 \in 0 .. top /\ m + 1 # 0 /\ (m + 1) - 1 = m
    BY <1>0
  <2>2. TwoTo[m + 1] = 2 * TwoTo[m]
    <3>1. TwoTo[m + 1] = 2 * TwoTo[(m + 1) - 1]
      BY <1>7, <2>1, Zenon
    <3> QED BY <2>1, <3>1, Zenon
  <2>3. TwoTo[m] \in Nat /\ m < TwoTo[m]
    BY <1>9, <2>1, Zenon
  <2> QED BY <2>2, <2>3
<1>10. Nat \subseteq S
  <2> HIDE DEF S
  <2> QED BY <1>8, <1>9, NatInd, Zenon
<1> QED BY <1>0, <1>10

\* A set of numbers up to n that is not empty has a greatest one.
LEMMA GreatestNat ==
  ASSUME NEW n \in Nat, NEW T \in SUBSET (0 .. n), T # {}
  PROVE  Max(T) \in T /\ \A y \in T : Max(T) >= y
<1> DEFINE U == {n - y : y \in T}
<1>1. U \in SUBSET Nat /\ U # {}
  <2>1. \A y \in T : n - y \in Nat
    OBVIOUS
  <2>2. PICK y : y \in T
    BY Zenon
  <2>3. n - y \in U
    BY <2>2, Zenon
  <2>4. ASSUME NEW u \in U PROVE u \in Nat
    BY <2>1, Zenon
  <2> QED BY <2>3, <2>4, Zenon
<1>2. PICK x \in U : \A y \in U : x <= y
  BY <1>1, LeastNat, Zenon
<1>3. PICK t \in T : x = n - t
  BY <1>2, Zenon
<1>4. ASSUME NEW y \in T PROVE t >= y
  <2>1. n - y \in U
    BY Zenon
  <2>2. x <= n - y
    BY <1>2, <2>1, Zenon
  <2> QED BY <1>3, <2>2
<1>5. \E z \in T : \A y \in T : z >= y
  BY <1>4, Zenon
<1> QED BY <1>5, Zenon DEF Max

LEMMA LeastIs ==
  ASSUME NEW T \in SUBSET Nat, T # {}
  PROVE  Min(T) \in T /\ \A y \in T : Min(T) <= y
<1>1. \E x \in T : \A y \in T : x <= y
  BY LeastNat, Zenon
<1> QED BY <1>1, Zenon DEF Min

\* The level of an error that is reported is one that is shown.
LEMMA LevelIsShown ==
  ASSUME NEW size \in Nat, NEW base \in Nat \ {0}, NEW v \in 0 .. MaxVerbose,
         size > base * TwoTo[v]
  PROVE  Min({5, Log2(size \div base)}) >= v
<1>0. v \in Nat /\ v <= 5 /\ TwoTo[v] \in Nat /\ v < TwoTo[v]
  BY TwoToIs, FunctionsAssumption
<1> DEFINE n == size \div base
<1>1. n \in Nat /\ n >= TwoTo[v]
  <2>1. PICK p \in Nat : p = TwoTo[v]
    BY <1>0, Zenon
  <2>2. size > base * p
    BY <2>1, Zenon
  <2>3. size \div base >= p /\ size \div base \in Nat
    BY <2>2
  <2> QED BY <2>1, <2>3, Zenon
<1> HIDE DEF n
<1> DEFINE T == {k \in 0 .. n : TwoTo[k] <= n}
<1>2. T \in SUBSET (0 .. n) /\ v \in T
  BY <1>0, <1>1
<1>3. Log2(n) = Max(T)
  BY Zenon DEF Log2
<1> HIDE DEF T
<1>4. Log2(n) \in 0 .. n /\ Log2(n) >= v
  BY <1>1, <1>2, <1>3, GreatestNat, Zenon
<1>5. {5, Log2(n)} \in SUBSET Nat /\ {5, Log2(n)} # {}
  BY <1>1, <1>4
<1>6. Min({5, Log2(n)}) \in {5, Log2(n)}
  BY <1>5, LeastIs, Zenon
<1> QED BY <1>0, <1>4, <1>6 DEF n

\* Between its head and its end, a function has no other head and no other end.
LEMMA InsideFunction ==
  ASSUME FunctionsInv, NEW i \in 1 .. Len(clean_lines), NEW b \in 1 .. Len(clean_lines),
         NEW e \in 1 .. Len(clean_lines), IsFunction(i, b, e)
  PROVE  /\ i <= b /\ b < e
         /\ \A k \in i + 1 .. e - 1 : clean_lines[k] \notin Heads \cup {"close"}
<1>0. Len(clean_lines) \in Nat
  BY DEF FunctionsInv
<1>1. Decisive(i) # {} /\ b = Min(Decisive(i)) /\ clean_lines[b] \in {"open", "test", "brace"}
  BY Zenon DEF IsFunction, BodyStart
<1>2. Decisive(i) \in SUBSET Nat
  BY <1>0 DEF Decisive
<1>3. b \in Decisive(i) /\ \A y \in Decisive(i) : b <= y
  BY <1>1, <1>2, LeastIs, Zenon
<1>4. i <= b /\ b < e
  BY <1>3 DEF Decisive, IsFunction
<1>5. ASSUME NEW k \in i + 1 .. b PROVE clean_lines[k] \notin Heads \cup {"close"}
  <2>1. clean_lines[k] \notin Heads
    BY Zenon DEF IsFunction
  <2>2. CASE k = b
    BY <1>1, <2>1, <2>2
  <2>3. CASE k < b
    <3>1. k \notin Decisive(i)
      BY <1>3, <2>3, <1>2
    <3>2. clean_lines[k] \in {"head", "macro", "text", "blank"}
      BY <3>1, <1>0 DEF Decisive
    <3> QED BY <3>2, <2>1, Zenon
  <2> QED BY <2>2, <2>3
<1>6. ASSUME NEW k \in b + 1 .. e - 1 PROVE clean_lines[k] \notin Heads \cup {"close"}
  BY Zenon DEF IsFunction
<1> QED BY <1>4, <1>5, <1>6

\* One more line of a body adds at most one to it.
LEMMA OneMoreBodyLine ==
  ASSUME NEW b \in Nat, NEW n \in Nat
  PROVE  /\ Cardinality(BodyLines(b, n)) \in Nat
         /\ Cardinality(BodyLines(b, n + 1)) <= Cardinality(BodyLines(b, n)) + 1
         /\ clean_lines[n] = "blank" => BodyLines(b, n + 1) = BodyLines(b, n)
         /\ n <= b + 1 => Cardinality(BodyLines(b, n)) = 0
<1>1. IsFiniteSet(BodyLines(b, n)) /\ Cardinality(BodyLines(b, n)) \in Nat
  <2>1. IsFiniteSet(b + 1 .. n - 1)
    BY FS_Interval
  <2>2. BodyLines(b, n) \subseteq b + 1 .. n - 1
    BY Zenon DEF BodyLines
  <2>3. IsFiniteSet(BodyLines(b, n))
    BY <2>1, <2>2, FS_Subset
  <2> QED BY <2>3, FS_CardinalityType, Zenon
<1>2. \/ BodyLines(b, n + 1) = BodyLines(b, n)
      \/ BodyLines(b, n + 1) = BodyLines(b, n) \cup {n}
  <2>1. CASE n > b
    <3>1. b + 1 .. (n + 1) - 1 = (b + 1 .. n - 1) \cup {n}
      BY <2>1
    <3> QED BY <3>1, Zenon DEF BodyLines
  <2>2. CASE ~ (n > b)
    <3>1. b + 1 .. (n + 1) - 1 = b + 1 .. n - 1
      BY <2>2
    <3> QED BY <3>1, Zenon DEF BodyLines
  <2> QED BY <2>1, <2>2, Zenon
<1>3. Cardinality(BodyLines(b, n) \cup {n}) <= Cardinality(BodyLines(b, n)) + 1
  <2>1. n \notin BodyLines(b, n)
    BY DEF BodyLines
  <2>2. Cardinality(BodyLines(b, n) \cup {n}) = Cardinality(BodyLines(b, n)) + 1
    BY <1>1, <2>1, FS_AddElement, Zenon
  <2> QED BY <1>1, <2>2
<1>4. Cardinality(BodyLines(b, n + 1)) <= Cardinality(BodyLines(b, n)) + 1
  BY <1>1, <1>2, <1>3
<1>5. ASSUME clean_lines[n] = "blank" PROVE BodyLines(b, n + 1) = BodyLines(b, n)
  <2>1. n \notin BodyLines(b, n + 1)
    BY <1>5, Zenon DEF BodyLines
  <2> QED BY <1>2, <2>1, Zenon
<1>6. ASSUME n <= b + 1 PROVE Cardinality(BodyLines(b, n)) = 0
  <2>1. BodyLines(b, n) = {}
    BY <1>6 DEF BodyLines
  <2> QED BY <2>1, FS_EmptySet, Zenon
<1> QED BY <1>1, <1>4, <1>5, <1>6

\* A line does not change which lines are a function, nor how long it is.
LEMMA FunctionsSame ==
  ASSUME UNCHANGED <<clean_lines, verbose>>
  PROVE  /\ \A i, b, e : IsFunction(i, b, e)' <=> IsFunction(i, b, e)
         /\ \A b, e : BodyLines(b, e)' = BodyLines(b, e)
         /\ \A i : TriggerOf(i)' = TriggerOf(i)
<1>1. clean_lines' = clean_lines /\ verbose' = verbose
  BY Zenon
<1>2. \A i : BodyStart(i)' = BodyStart(i)
  BY <1>1, Zenon DEF BodyStart, Decisive
<1>3. \A i, b, e : IsFunction(i, b, e)' <=> IsFunction(i, b, e)
  BY <1>1, <1>2, Zenon DEF IsFunction
<1>4. \A b, e : BodyLines(b, e)' = BodyLines(b, e)
  BY <1>1, Zenon DEF BodyLines
<1>5. \A i : TriggerOf(i)' = TriggerOf(i)
  BY <1>1, Zenon DEF TriggerOf
<1> QED BY <1>3, <1>4, <1>5

\* A line of the file, in or behind a function.
LEMMA OneMoreLineSeen ==
  ASSUME FunctionsInv, CheckForFunctionLengths,
         NEW i \in 1 .. Len(clean_lines), NEW b \in 1 .. Len(clean_lines),
         NEW e \in 1 .. Len(clean_lines), IsFunction(i, b, e)
  PROVE  FunctionSeen(i, b, e)'
<1>0. /\ Len(clean_lines) \in Nat /\ linenum \in Nat /\ lines_in_function \in Nat
      /\ linenum' = linenum + 1 /\ clean_lines' = clean_lines /\ verbose' = verbose
      /\ FunctionSeen(i, b, e) /\ verbose \in 0 .. MaxVerbose
  BY DEF FunctionsInv, CheckForFunctionLengths
<1>1. /\ i <= b /\ b < e
      /\ \A k \in i + 1 .. e - 1 : clean_lines[k] \notin Heads \cup {"close"}
  BY InsideFunction, Zenon
<1>2. /\ BodyLines(b, linenum)' = BodyLines(b, linenum + 1)
      /\ BodyLines(b, e)' = BodyLines(b, e) /\ TriggerOf(i)' = TriggerOf(i)
  BY <1>0, FunctionsSame, Zenon
<1>3. /\ Cardinality(BodyLines(b, linenum)) \in Nat
      /\ Cardinality(BodyLines(b, linenum + 1)) <= Cardinality(BodyLines(b, linenum)) + 1
      /\ clean_lines[linenum] = "blank" => BodyLines(b, linenum + 1) = BodyLines(b, linenum)
      /\ linenum + 1 <= b + 1 => Cardinality(BodyLines(b, linenum + 1)) = 0
      /\ Cardinality(BodyLines(b, linenum + 1)) \in Nat
  <2>1. b \in Nat /\ linenum + 1 \in Nat
    BY <1>0
  <2> QED BY <1>0, <2>1, OneMoreBodyLine, Zenon
<1>4. CASE linenum < i
  BY <1>0, <1>1, <1>4 DEF FunctionSeen
<1>5. CASE linenum = i
  <2>1. clean_lines[linenum] \in Heads /\ BodyStart(linenum) # 0
    BY <1>5, Zenon DEF IsFunction
  <2>2. Begin(IF clean_lines[linenum] = "test" THEN "test" ELSE "function")
    <3>1. StartFunction
      BY <2>1, Zenon DEF CheckForFunctionLengths, EndFunction, CountLine, SkipLine, Heads
    <3> QED BY <2>1, <3>1, Zenon DEF StartFunction
  <2>3. linenum' <= e
    BY <1>0, <1>1, <1>5
  <2> QED BY <1>0, <1>1, <1>2, <1>3, <1>5, <2>2, <2>3 DEF FunctionSeen, Begin
<1>6. CASE linenum \in i + 1 .. e - 1
  <2>1. clean_lines[linenum] \notin Heads \cup {"close"}
    BY <1>1, <1>6, Zenon
  <2>2. /\ in_a_function /\ lines_in_function >= Cardinality(BodyLines(b, linenum))
        /\ current_function = IF clean_lines[i] = "test" THEN "test" ELSE "function"
    BY <1>0, <1>1, <1>6 DEF FunctionSeen
  <2>3. CountLine \/ SkipLine
    BY <2>1, Zenon DEF CheckForFunctionLengths, StartFunction, EndFunction
  <2>4. CASE CountLine
    <3>1. in_a_function' /\ lines_in_function' = lines_in_function + 1
          /\ current_function' = current_function
      BY <2>2, <2>4, Zenon DEF CountLine, Count
    <3>2. lines_in_function' >= Cardinality(BodyLines(b, linenum + 1)) /\ ~ (linenum' > e)
      BY <1>0, <1>3, <1>6, <2>2, <3>1
    <3> QED BY <1>0, <1>2, <2>2, <3>1, <3>2, Zenon DEF FunctionSeen
  <2>5. CASE SkipLine
    <3>1. in_a_function' /\ lines_in_function' = lines_in_function
          /\ current_function' = current_function /\ clean_lines[linenum] = "blank"
      BY <2>2, <2>5, Zenon DEF SkipLine
    <3>2. lines_in_function' >= Cardinality(BodyLines(b, linenum + 1))
      BY <1>3, <2>2, <3>1, Zenon
    <3>3. ~ (linenum' > e)
      BY <1>0, <1>6
    <3> QED BY <1>0, <1>2, <2>2, <3>1, <3>2, <3>3, Zenon DEF FunctionSeen
  <2> QED BY <2>3, <2>4, <2>5
<1>7. CASE linenum = e
  <2> SUFFICES ASSUME Cardinality(BodyLines(b, e)) > TriggerOf(i)
               PROVE  Shown(e)'
    BY <1>0, <1>1, <1>2, <1>7 DEF FunctionSeen
  <2>1. Check
    BY <1>7, Zenon DEF IsFunction, CheckForFunctionLengths, StartFunction, EndFunction, CountLine,
                SkipLine, Heads
  <2>2. /\ lines_in_function >= Cardinality(BodyLines(b, e))
        /\ current_function = IF clean_lines[i] = "test" THEN "test" ELSE "function"
    BY <1>0, <1>1, <1>7 DEF FunctionSeen
  <2>3. TriggerOf(i) = BaseTrigger * TwoTo[verbose] /\ BaseTrigger \in Nat \ {0}
    BY <2>2, FunctionsAssumption, Zenon DEF TriggerOf, BaseTrigger
  <2>4. TwoTo[verbose] \in Nat
    BY <1>0, TwoToIs, Zenon
  <2>5. lines_in_function > BaseTrigger * TwoTo[verbose]
    BY <1>0, <1>3, <1>7, <2>2, <2>3, <2>4
  <2>6. ErrorLevel >= verbose
    BY <1>0, <2>3, <2>5, LevelIsShown, Zenon DEF ErrorLevel
  <2>7. [line |-> linenum, level |-> ErrorLevel, count |-> lines_in_function] \in length_errors'
    BY <2>1, <2>5, Zenon DEF Check
  <2> QED BY <1>0, <1>7, <2>6, <2>7 DEF Shown
<1>8. CASE linenum > e
  <2>1. length_errors \subseteq length_errors'
    BY Zenon DEF CheckForFunctionLengths, StartFunction, EndFunction, CountLine, SkipLine, Check
  <2>2. Shown(e) => Shown(e)'
    BY <1>0, <2>1, Zenon DEF Shown
  <2> QED BY <1>0, <1>1, <1>2, <1>8, <2>2 DEF FunctionSeen
<1> QED BY <1>0, <1>1, <1>4, <1>5, <1>6, <1>7, <1>8

\* The state of the count after each line.
LEMMA FunctionsStep == FunctionsInv /\ [CheckForFunctionLengths]_functionVars => FunctionsInv'
<1> SUFFICES ASSUME FunctionsInv, [CheckForFunctionLengths]_functionVars PROVE FunctionsInv'
  BY Zenon
<1>1. CASE CheckForFunctionLengths
  <2>1. /\ clean_lines' \in Seq(Kinds) /\ verbose' \in 0 .. MaxVerbose
        /\ linenum' \in Nat /\ clean_lines' = clean_lines /\ verbose' = verbose
    BY <1>1 DEF FunctionsInv, CheckForFunctionLengths
  <2>2. lines_in_function' \in Nat
    BY <1>1 DEF FunctionsInv, CheckForFunctionLengths, StartFunction, EndFunction, CountLine,
                SkipLine, Begin, Count, End
  <2>3. ASSUME NEW i \in 1 .. Len(clean_lines), NEW b \in 1 .. Len(clean_lines),
               NEW e \in 1 .. Len(clean_lines), IsFunction(i, b, e)'
        PROVE  FunctionSeen(i, b, e)'
    BY <1>1, <2>1, <2>3, FunctionsSame, OneMoreLineSeen
  <2> QED BY <2>1, <2>2, <2>3 DEF FunctionsInv
<1>2. CASE UNCHANGED functionVars
  <2>1. /\ clean_lines' = clean_lines /\ verbose' = verbose /\ linenum' = linenum
        /\ in_a_function' = in_a_function /\ lines_in_function' = lines_in_function
        /\ current_function' = current_function /\ length_errors' = length_errors
    BY <1>2, Zenon DEF functionVars
  <2>2. \A i, b, e : FunctionSeen(i, b, e)' <=> FunctionSeen(i, b, e)
    BY <2>1, FunctionsSame DEF FunctionSeen, Shown
  <2> QED BY <2>1, <2>2, FunctionsSame DEF FunctionsInv
<1> QED BY <1>1, <1>2, Zenon

(***************************************************************************)
(* CheckForFunctionLengths: for files of any length and any triggers, each *)
(* function that is too long is reported at a level that is shown.         *)
(***************************************************************************)
THEOREM LongFunctionsAreShown == FunctionsSpec => []LongFunctionShown
<1>1. FunctionsInit => FunctionsInv
  <2> SUFFICES ASSUME FunctionsInit PROVE FunctionsInv
    BY Zenon
  <2>1. clean_lines \in Seq(Kinds)
    <3>1. PICK n \in 1 .. MaxCode : clean_lines \in [1 .. n -> Kinds]
      BY Zenon DEF FunctionsInit
    <3>2. n \in Nat
      OBVIOUS
    <3> QED BY <3>1, <3>2
  <2>2. linenum = 1 /\ lines_in_function = 0 /\ verbose \in 0 .. MaxVerbose
    BY Zenon DEF FunctionsInit
  <2>3. Len(clean_lines) \in Nat
    BY <2>1
  <2>4. \A i, b, e \in 1 .. Len(clean_lines) : FunctionSeen(i, b, e)
    BY <2>2, <2>3 DEF FunctionSeen
  <2> QED BY <2>1, <2>2, <2>4, Zenon DEF FunctionsInv
<1>2. FunctionsInv => LongFunctionShown
  BY DEF FunctionsInv, FunctionSeen, LongFunctionShown, Shown
<1> QED BY <1>1, <1>2, FunctionsStep, PTL DEF FunctionsSpec

-----------------------------------------------------------------------------
\* The lists of include_list hold x, a pair of a header and its line.
Listed(x) == \E k \in DOMAIN include_list : \E m \in DOMAIN include_list[k] : include_list[k][m] = x

\* What the reports tell of line i.
About == {"order", "duplicate", "cc"}

\* An include that was added to the list, with no directive after it.
InBlock(i) == i \in RecordedAt /\ \A k \in DirectivesAt : k <= i

FileShape == [kind : {"include", "directive", "use", "blank"},
              what : Headers \cup StlHeaders \cup {"if", "else", "endif", "blank"}]

IncludesTypeOK ==
  /\ lines \in Seq(FileShape)
  /\ include_list \in Seq(Seq(Headers \X Nat)) /\ Len(include_list) >= 1
  /\ section \in 0 .. 4
  /\ \A i \in DOMAIN lines : lines[i].kind = "include" => lines[i].what \in Headers
  /\ \A r \in include_reports : r.what \in About => r.at \in DOMAIN lines

(***************************************************************************)
(* section is where the includes since the last directive have brought it. *)
(***************************************************************************)
SectionIsReached ==
  \A i \in RecordedAt :
    InBlock(i) =>
      /\ TypeAt(i) = "C" => section >= C_SECTION
      /\ TypeAt(i) = "CPP" => section >= CPP_SECTION
      /\ TypeAt(i) = "OTHER" => section = OTHER_H_SECTION
      /\ Mine(i) /\ (\E k \in RecordedAt : k < i /\ SameBlock(k, i) /\ TypeAt(k) \in {"C", "CPP"})
           => section = OTHER_H_SECTION

-----------------------------------------------------------------------------
\* A list gets one more pair; the others stay.
LEMMA AddedIsListed ==
  ASSUME IncludesTypeOK, NEW h \in Headers, include_list' = AddInclude(h)
  PROVE  /\ include_list' \in Seq(Seq(Headers \X Nat)) /\ Len(include_list') >= 1
         /\ \A x : Listed(x)' <=> Listed(x) \/ x = <<h, Here>>
<1> DEFINE n == Len(include_list)
           E == Headers \X Nat
           S == Seq(E)
<1>0. <<h, Here>> \in E /\ include_list \in Seq(S) /\ n \in Nat /\ n >= 1
  BY DEF IncludesTypeOK, Here
<1>1. include_list[n] \in Seq(E)
  BY <1>0
<1> HIDE DEF E
<1>2. PICK l : l = include_list[n]
  BY Zenon
<1>3. l \in Seq(E) /\ Len(l) \in Nat
  BY <1>1, <1>2
<1>4. PICK p : p = Append(l, <<h, Here>>)
  BY Zenon
<1>5. /\ p \in S /\ DOMAIN p = 1 .. Len(l) + 1 /\ DOMAIN l = 1 .. Len(l)
      /\ p[Len(l) + 1] = <<h, Here>> /\ \A m \in 1 .. Len(l) : p[m] = l[m]
  BY <1>0, <1>3, <1>4
<1> HIDE DEF S
<1>6. include_list' = [include_list EXCEPT ![n] = p]
  BY <1>2, <1>4 DEF AddInclude
<1>7. /\ include_list' \in Seq(S) /\ Len(include_list') = n
      /\ DOMAIN include_list' = 1 .. n /\ DOMAIN include_list = 1 .. n
      /\ include_list'[n] = p /\ \A k \in 1 .. n - 1 : include_list'[k] = include_list[k]
  BY <1>0, <1>5, <1>6
<1>8. ASSUME NEW x PROVE Listed(x)' <=> Listed(x) \/ x = <<h, Here>>
  <2>1. ASSUME Listed(x)' PROVE Listed(x) \/ x = <<h, Here>>
    <3>1. PICK k \in 1 .. n : \E m \in DOMAIN include_list'[k] : include_list'[k][m] = x
      BY <2>1, <1>7 DEF Listed
    <3>2. CASE k = n
      <4>1. PICK m \in 1 .. Len(l) + 1 : p[m] = x
        BY <3>1, <3>2, <1>5, <1>7
      <4>2. CASE m = Len(l) + 1
        BY <4>1, <4>2, <1>5, Zenon
      <4>3. CASE m # Len(l) + 1
        <5>1. m \in 1 .. Len(l)
          BY <4>3, <1>3
        <5>2. n \in DOMAIN include_list /\ m \in DOMAIN include_list[n] /\ include_list[n][m] = x
          BY <5>1, <4>1, <1>0, <1>2, <1>5, <1>7
        <5> QED BY <5>2, Zenon DEF Listed
      <4> QED BY <4>2, <4>3, Zenon
    <3>3. CASE k # n
      <4>0. k \in 1 .. n - 1
        BY <3>3, <1>0
      <4>1. include_list'[k] = include_list[k]
        BY <4>0, <1>7
      <4> QED BY <4>1, <3>1, <1>7, Zenon DEF Listed
    <3> QED BY <3>2, <3>3, Zenon
  <2>2. ASSUME Listed(x) PROVE Listed(x)'
    <3>1. PICK k \in 1 .. n : \E m \in DOMAIN include_list[k] : include_list[k][m] = x
      BY <2>2, <1>7, Zenon DEF Listed
    <3>2. CASE k = n
      <4>1. PICK m \in 1 .. Len(l) : l[m] = x
        BY <3>1, <3>2, <1>2, <1>5, ZenonT(30)
      <4>2. m \in DOMAIN p /\ p[m] = x
        BY <4>1, <1>3, <1>5
      <4> QED BY <4>2, <3>2, <1>7, Zenon DEF Listed
    <3>3. CASE k # n
      <4>0. k \in 1 .. n - 1
        BY <3>3, <1>0
      <4>1. include_list'[k] = include_list[k]
        BY <4>0, <1>7, Zenon
      <4> QED BY <4>1, <3>1, <1>7, Zenon DEF Listed
    <3> QED BY <3>2, <3>3
  <2>3. ASSUME x = <<h, Here>> PROVE Listed(x)'
    <3>1. n \in 1 .. n /\ Len(l) + 1 \in DOMAIN p
      BY <1>0, <1>3, <1>5
    <3> QED BY <3>1, <2>3, <1>5, <1>7, ZenonT(30) DEF Listed
  <2> QED BY <2>1, <2>2, <2>3, Zenon
<1> QED BY <1>0, <1>7, <1>8, Zenon DEF S, E

\* A directive forgets nothing but, at #else, what the last list holds.
LEMMA ResetForgets ==
  ASSUME IncludesTypeOK, NEW d \in {"if", "else", "endif"}, include_list' = ResetLists(d)
  PROVE  /\ include_list' \in Seq(Seq(Headers \X Nat)) /\ Len(include_list') >= 1
         /\ \A x : Listed(x)' => Listed(x)
         /\ d # "else" => \A x : Listed(x) => Listed(x)'
<1> DEFINE n == Len(include_list)
           E == Headers \X Nat
           S == Seq(E)
<1>0. <<>> \in S /\ include_list \in Seq(S) /\ n \in Nat /\ n >= 1
  BY DEF IncludesTypeOK
<1> HIDE DEF S
<1>1. DOMAIN include_list = 1 .. n
  BY <1>0
<1>2. CASE d = "if"
  <2>1. include_list' = Append(include_list, <<>>)
    BY <1>2, Zenon DEF ResetLists, If, Else
  <2>2. /\ include_list' \in Seq(S) /\ Len(include_list') = n + 1
        /\ DOMAIN include_list' = 1 .. n + 1 /\ include_list'[n + 1] = <<>>
        /\ \A k \in 1 .. n : include_list'[k] = include_list[k]
    BY <1>0, <2>1
  <2>3. ASSUME NEW x PROVE Listed(x)' <=> Listed(x)
    <3>1. ASSUME Listed(x)' PROVE Listed(x)
      <4>1. PICK k \in 1 .. n + 1 : \E m \in DOMAIN include_list'[k] : include_list'[k][m] = x
        BY <3>1, <2>2, Zenon DEF Listed
      <4>2. k # n + 1
        BY <4>1, <2>2
      <4>3. k \in 1 .. n
        BY <4>2, <1>0
      <4> QED BY <4>1, <4>3, <2>2, <1>1, Zenon DEF Listed
    <3>2. ASSUME Listed(x) PROVE Listed(x)'
      <4>1. PICK k \in 1 .. n : \E m \in DOMAIN include_list[k] : include_list[k][m] = x
        BY <3>2, <1>1, Zenon DEF Listed
      <4>2. k \in 1 .. n + 1
        BY <1>0
      <4> QED BY <4>1, <4>2, <2>2, Zenon DEF Listed
    <3> QED BY <3>1, <3>2, Zenon
  <2>4. Len(include_list') >= 1
    BY <1>0, <2>2
  <2> QED BY <1>0, <2>2, <2>3, <2>4, Zenon DEF S
<1>3. CASE d = "else"
  <2>1. include_list' = [include_list EXCEPT ![n] = <<>>]
    BY <1>3, Zenon DEF ResetLists, If, Else
  <2>2. /\ include_list' \in Seq(S) /\ Len(include_list') = n
        /\ DOMAIN include_list' = 1 .. n /\ include_list'[n] = <<>>
        /\ \A k \in 1 .. n : k # n => include_list'[k] = include_list[k]
    BY <1>0, <2>1
  <2>3. ASSUME NEW x, Listed(x)' PROVE Listed(x)
    <3>1. PICK k \in 1 .. n : \E m \in DOMAIN include_list'[k] : include_list'[k][m] = x
      BY <2>3, <2>2, Zenon DEF Listed
    <3>2. k # n
      <4>0. include_list'[n] = <<>>
        BY <2>2, Zenon
      <4>1. DOMAIN include_list'[n] = {}
        BY <4>0
      <4> QED BY <3>1, <4>1, Zenon
    <3> QED BY <3>1, <3>2, <2>2, <1>1, Zenon DEF Listed
  <2> QED BY <1>0, <1>3, <2>2, <2>3 DEF S
<1>4. CASE d = "endif"
  <2>1. include_list' = include_list
    BY <1>4, Zenon DEF ResetLists, If, Else
  <2> QED BY <2>1, <1>0, Zenon DEF S, Listed
<1> QED BY <1>2, <1>3, <1>4

\* FindHeader finds what is listed, and gives a line for it.
LEMMA FindHeaderFinds ==
  ASSUME IncludesTypeOK, NEW h
  PROVE  /\ FindHeader(h) \in Nat \cup {-1}
         /\ FindHeader(h) # -1 <=> \E n : Listed(<<h, n>>)
         /\ (\E k \in DOMAIN include_list : FoundIn(k, h) # {}) <=> \E n : Listed(<<h, n>>)
<1> DEFINE At == {k \in DOMAIN include_list : FoundIn(k, h) # {}}
           E == Headers \X Nat
           S == Seq(E)
<1>0. include_list \in Seq(S) /\ DOMAIN include_list \subseteq Nat
  BY DEF IncludesTypeOK
<1>1. \A k \in DOMAIN include_list : include_list[k] \in Seq(E)
  BY <1>0
<1> HIDE DEF S, E
<1>2. \A k \in DOMAIN include_list : FoundIn(k, h) \in SUBSET Nat
  BY <1>1 DEF FoundIn
<1>3. \A k \in DOMAIN include_list : \A m \in DOMAIN include_list[k] : include_list[k][m] \in E
  BY <1>1
<1>4. \A x \in E : x = <<x[1], x[2]>> /\ x[2] \in Nat
  BY DEF E
<1>5. (At # {}) <=> \E n : Listed(<<h, n>>)
  <2>1. ASSUME At # {} PROVE \E n : Listed(<<h, n>>)
    <3>1. PICK k \in DOMAIN include_list : \E m \in DOMAIN include_list[k] : include_list[k][m][1] = h
      BY <2>1, Zenon DEF FoundIn
    <3>2. PICK m \in DOMAIN include_list[k] : include_list[k][m][1] = h
      BY <3>1, Zenon
    <3>3. include_list[k][m] = <<h, include_list[k][m][2]>>
      BY <3>2, <1>3, <1>4
    <3> QED BY <3>3, Zenon DEF Listed
  <2>2. ASSUME NEW n, Listed(<<h, n>>) PROVE At # {}
    <3>1. PICK k \in DOMAIN include_list : \E m \in DOMAIN include_list[k] : include_list[k][m] = <<h, n>>
      BY <2>2, Zenon DEF Listed
    <3>2. PICK m \in DOMAIN include_list[k] : include_list[k][m] = <<h, n>>
      BY <3>1, Zenon
    <3>3. m \in FoundIn(k, h)
      BY <3>2 DEF FoundIn
    <3> QED BY <3>3, Zenon
  <2> QED BY <2>1, <2>2, Zenon
<1>6. CASE At = {}
  <2>1. FindHeader(h) = -1
    BY <1>6, Zenon DEF FindHeader
  <2> QED BY <2>1, <1>5, <1>6, Zenon
<1>7. CASE At # {}
  <2> DEFINE k == Min(At)
             m == Min(FoundIn(k, h))
  <2>1. FindHeader(h) = include_list[k][m][2]
    BY <1>7, Zenon DEF FindHeader
  <2>2. k \in At
    <3>1. At \in SUBSET Nat
      BY <1>0, Zenon
    <3> QED BY <3>1, <1>7, LeastIs
  <2>3. m \in FoundIn(k, h)
    BY <2>2, <1>2, LeastIs
  <2>4. m \in DOMAIN include_list[k]
    BY <2>3, Zenon DEF FoundIn
  <2> HIDE DEF m, k
  <2>5. include_list[k][m] \in E
    BY <2>2, <2>4, <1>3
  <2>6. FindHeader(h) \in Nat
    BY <2>1, <2>5, <1>4
  <2>7. FindHeader(h) # -1
    BY <2>6
  <2>8. \E n : Listed(<<h, n>>)
    BY <1>5, <1>7, Zenon
  <2>9. \E x \in DOMAIN include_list : FoundIn(x, h) # {}
    BY <1>7, Zenon
  <2> QED BY <2>6, <2>7, <2>8, <2>9
<1> QED BY <1>6, <1>7, Zenon

-----------------------------------------------------------------------------
\* The pairs in the lists are include lines of the file.
ListedAreLines == \A h, n : Listed(<<h, n>>) => n \in DOMAIN lines /\ lines[n] = FileLine("include", h)

\* Without #else no include that was recorded is forgotten.
LinesAreListed ==
  ~ ElseIn =>
    \A i \in IncludesAt : lines[i].what \notin ThirdParty \cup ForeignCC => \E n : Listed(<<lines[i].what, n>>)

IncludesInv ==
  /\ IncludesTypeOK
  /\ CleanBlockIsOrdered /\ SectionIsReached
  /\ ListedAreLines /\ LinesAreListed
  /\ ~ include_done => \A r \in include_reports : r.what # "missing"
  /\ MissingIsExact

\* One more line, and reports about it alone.
LEMMA OneMoreFileLine ==
  ASSUME IncludesTypeOK, NEW l \in FileShape, lines' = Append(lines, l),
         include_reports \subseteq include_reports',
         \A r \in include_reports' : r \in include_reports \/ r.at = Here
  PROVE  /\ Len(lines) \in Nat /\ Here = Len(lines) + 1
         /\ lines' \in Seq(FileShape) /\ DOMAIN lines' = 1 .. Here /\ DOMAIN lines = 1 .. Len(lines)
         /\ \A i \in 1 .. Len(lines) : lines'[i] = lines[i] /\ TypeAt(i)' = TypeAt(i)
         /\ lines'[Here] = l
         /\ \A i \in 1 .. Len(lines) : (i \in RecordedAt)' <=> i \in RecordedAt
         /\ \A i \in 1 .. Len(lines) : Reported(i, "order")' <=> Reported(i, "order")
         /\ \A i \in 1 .. Len(lines) : (i \in DirectivesAt)' <=> i \in DirectivesAt
         /\ RecordedAt \subseteq 1 .. Len(lines) /\ RecordedAt' \subseteq 1 .. Here
         /\ DirectivesAt \subseteq 1 .. Len(lines) /\ DirectivesAt' \subseteq 1 .. Here
<1>1. Len(lines) \in Nat /\ Here = Len(lines) + 1 /\ DOMAIN lines = 1 .. Len(lines)
  BY DEF IncludesTypeOK, Here
<1>2. /\ lines' \in Seq(FileShape) /\ DOMAIN lines' = 1 .. Here /\ lines'[Here] = l
      /\ \A i \in 1 .. Len(lines) : lines'[i] = lines[i]
  <2>1. lines \in Seq(FileShape)
    BY Zenon DEF IncludesTypeOK
  <2> HIDE DEF FileShape
  <2> QED BY <1>1, <2>1
<1>3. \A i \in 1 .. Len(lines) : TypeAt(i)' = TypeAt(i)
  BY <1>2, Zenon DEF TypeAt
<1>4. \A i \in 1 .. Len(lines) : \A what \in About : Reported(i, what)' <=> Reported(i, what)
  <2> SUFFICES ASSUME NEW i \in 1 .. Len(lines), NEW what \in About
               PROVE  Reported(i, what)' <=> Reported(i, what)
    BY Zenon
  <2>1. i # Here
    BY <1>1
  <2> QED BY <2>1, Zenon DEF Reported
<1>5. \A i \in 1 .. Len(lines) : (i \in RecordedAt)' <=> i \in RecordedAt
  <2> SUFFICES ASSUME NEW i \in 1 .. Len(lines) PROVE (i \in RecordedAt)' <=> i \in RecordedAt
    BY Zenon
  <2>1. /\ Reported(i, "duplicate")' <=> Reported(i, "duplicate")
        /\ Reported(i, "cc")' <=> Reported(i, "cc")
    BY <1>4, Zenon DEF About
  <2>2. (i \in IncludesAt)' <=> i \in IncludesAt
    BY <1>1, <1>2 DEF IncludesAt
  <2>3. lines'[i] = lines[i]
    BY <1>2, Zenon
  <2> QED BY <2>1, <2>2, <2>3, Zenon DEF RecordedAt
<1>6. \A i \in 1 .. Len(lines) : Reported(i, "order")' <=> Reported(i, "order")
  BY <1>4, Zenon DEF About
<1>7. \A i \in 1 .. Len(lines) : (i \in DirectivesAt)' <=> i \in DirectivesAt
  BY <1>1, <1>2 DEF DirectivesAt
<1>8. /\ RecordedAt \subseteq 1 .. Len(lines) /\ RecordedAt' \subseteq 1 .. Here
      /\ DirectivesAt \subseteq 1 .. Len(lines) /\ DirectivesAt' \subseteq 1 .. Here
  BY <1>1, <1>2, Zenon DEF RecordedAt, DirectivesAt, IncludesAt
<1> QED BY <1>1, <1>2, <1>3, <1>5, <1>6, <1>7, <1>8, ZenonT(30)

\* The directives between two lines are the same after one more line.
LEMMA OneMoreSameBlock ==
  ASSUME IncludesTypeOK, NEW l \in FileShape, lines' = Append(lines, l),
         include_reports \subseteq include_reports',
         \A r \in include_reports' : r \in include_reports \/ r.at = Here,
         NEW i \in 1 .. Here, NEW j \in 1 .. Here
  PROVE  SameBlock(i, j)' <=> SameBlock(i, j)
<1>1. /\ Len(lines) \in Nat /\ Here = Len(lines) + 1
      /\ \A k \in 1 .. Len(lines) : (k \in DirectivesAt)' <=> k \in DirectivesAt
      /\ DirectivesAt \subseteq 1 .. Len(lines) /\ DirectivesAt' \subseteq 1 .. Here
  BY OneMoreFileLine, Zenon
<1>2. ASSUME SameBlock(i, j), NEW k \in DirectivesAt', i < k, k < j PROVE FALSE
  <2>1. k \in 1 .. Len(lines)
    BY <1>1, <1>2
  <2> QED BY <1>1, <1>2, <2>1 DEF SameBlock
<1>3. ASSUME SameBlock(i, j)', NEW k \in DirectivesAt, i < k, k < j PROVE FALSE
  BY <1>1, <1>3 DEF SameBlock
<1>4. SameBlock(i, j)' <=> \A k \in DirectivesAt' : ~ (i < k /\ k < j)
  BY Zenon DEF SameBlock
<1>5. SameBlock(i, j) <=> \A k \in DirectivesAt : ~ (i < k /\ k < j)
  BY Zenon DEF SameBlock
<1> QED BY <1>2, <1>3, <1>4, <1>5

\* A line that is no include, and reports nothing, leaves the order as it was.
LEMMA OrderStays ==
  ASSUME IncludesInv, NEW l \in FileShape, lines' = Append(lines, l), l.kind # "include",
         include_reports' = include_reports,
         l.kind # "directive" => section' = section
  PROVE  CleanBlockIsOrdered' /\ SectionIsReached'
<1>1. /\ Len(lines) \in Nat /\ Here = Len(lines) + 1
      /\ \A i \in 1 .. Len(lines) : TypeAt(i)' = TypeAt(i)
      /\ \A i \in 1 .. Len(lines) : (i \in RecordedAt)' <=> i \in RecordedAt
      /\ \A i \in 1 .. Len(lines) : Reported(i, "order")' <=> Reported(i, "order")
      /\ \A i \in 1 .. Len(lines) : (i \in DirectivesAt)' <=> i \in DirectivesAt
      /\ RecordedAt \subseteq 1 .. Len(lines) /\ RecordedAt' \subseteq 1 .. Here
      /\ DirectivesAt \subseteq 1 .. Len(lines) /\ DirectivesAt' \subseteq 1 .. Here
      /\ DOMAIN lines' = 1 .. Here /\ lines'[Here] = l
  BY OneMoreFileLine, Zenon DEF IncludesInv
<1>2. RecordedAt' = RecordedAt
  <2>1. Here \notin RecordedAt'
    BY <1>1, Zenon DEF RecordedAt, IncludesAt
  <2>2. RecordedAt' \subseteq 1 .. Len(lines)
    BY <1>1, <2>1
  <2> QED BY <1>1, <2>2, Zenon
<1>3. \A i, j \in 1 .. Len(lines) : SameBlock(i, j)' <=> SameBlock(i, j)
  <2>1. 1 .. Len(lines) \subseteq 1 .. Here
    BY <1>1
  <2> QED BY <2>1, OneMoreSameBlock, Zenon DEF IncludesInv
<1>4. \A i \in RecordedAt : /\ i \in 1 .. Len(lines) /\ TypeAt(i)' = TypeAt(i) /\ (Mine(i)' <=> Mine(i))
                            /\ Reported(i, "order")' <=> Reported(i, "order")
  BY <1>1, Zenon DEF Mine
<1>5. CleanBlockIsOrdered
  BY Zenon DEF IncludesInv
<1>6. CleanBlockIsOrdered'
  <2> SUFFICES ASSUME NEW i \in RecordedAt, NEW j \in RecordedAt, i < j, SameBlock(i, j), ~ Reported(j, "order")
               PROVE  /\ TypeAt(j) = "C" => TypeAt(i) \notin {"CPP", "OTHER"} \/ Reported(i, "order")'
                      /\ TypeAt(j) = "CPP" => TypeAt(i) # "OTHER"
                      /\ TypeAt(j) \in {"C", "CPP"} /\ Mine(i) =>
                           \A k \in RecordedAt : k < i /\ SameBlock(k, j)' => TypeAt(k) \notin {"C", "CPP"}
    BY <1>2, <1>3, <1>4 DEF CleanBlockIsOrdered
  <2> QED BY <1>3, <1>4, <1>5, ZenonT(30) DEF CleanBlockIsOrdered
<1>7. SectionIsReached'
  <2> SUFFICES ASSUME NEW i \in RecordedAt', InBlock(i)'
               PROVE  /\ TypeAt(i)' = "C" => section' >= C_SECTION
                      /\ TypeAt(i)' = "CPP" => section' >= CPP_SECTION
                      /\ TypeAt(i)' = "OTHER" => section' = OTHER_H_SECTION
                      /\ Mine(i)' /\ (\E k \in RecordedAt' : k < i /\ SameBlock(k, i)' /\ TypeAt(k)' \in {"C", "CPP"})
                           => section' = OTHER_H_SECTION
    BY Zenon DEF SectionIsReached, C_SECTION, CPP_SECTION, OTHER_H_SECTION
  <2>1. i \in RecordedAt /\ i \in 1 .. Len(lines)
    BY <1>2, <1>4, Zenon
  <2>2. \A k \in DirectivesAt' : k <= i
    BY Zenon DEF InBlock
  <2>3. Here \notin DirectivesAt'
    BY <1>1, <2>1, <2>2
  <2>4. section' = section
    BY <1>1, <2>3 DEF DirectivesAt
  <2>5. InBlock(i)
    BY <1>1, <2>1, <2>2, Zenon DEF InBlock
  <2>6. /\ TypeAt(i) = "C" => section >= C_SECTION
        /\ TypeAt(i) = "CPP" => section >= CPP_SECTION
        /\ TypeAt(i) = "OTHER" => section = OTHER_H_SECTION
        /\ Mine(i) /\ (\E k \in RecordedAt : k < i /\ SameBlock(k, i) /\ TypeAt(k) \in {"C", "CPP"})
             => section = OTHER_H_SECTION
    BY <2>1, <2>5, Zenon DEF IncludesInv, SectionIsReached
  <2>7. ASSUME NEW k \in RecordedAt', SameBlock(k, i)' PROVE k \in RecordedAt /\ SameBlock(k, i) /\ TypeAt(k)' = TypeAt(k)
    BY <1>2, <1>3, <1>4, <2>1, <2>7, ZenonT(30)
  <2>8. TypeAt(i)' = TypeAt(i) /\ (Mine(i)' <=> Mine(i))
    BY <1>4, <2>1, Zenon
  <2> QED BY <2>4, <2>6, <2>7, <2>8, Zenon
<1> QED BY <1>6, <1>7

\* An include adds reports about its own line: which ones, for the ones the order is about.
LEMMA IncludeReports ==
  ASSUME IncludesInv, NEW h \in Headers, IncludeLine(h), NEW n, n = Here
  PROVE  /\ FileLine("include", h) \in FileShape
         /\ include_reports \subseteq include_reports'
         /\ \A r \in include_reports' : r \in include_reports \/ r.at = Here
         /\ \A r \in include_reports' : r \in include_reports \/ r.what # "missing"
         /\ n \in RecordedAt' <=> Recorded(h)
         /\ Recorded(h) => (Reported(n, "order")' <=> OutOfOrder(HeaderType[h]))
         /\ ~ Recorded(h) /\ h \notin ThirdParty \cup ForeignCC => FindHeader(h) # -1
<1> DEFINE l == FileLine("include", h)
           D == {IncludeReport("directory", 0) : x \in {h} \cap (NoDirectory \ ThirdParty)}
           C == IF FindHeader(h) >= 0 THEN {IncludeReport("duplicate", FindHeader(h))}
                ELSE IF h \in ForeignCC THEN {IncludeReport("cc", 0)} ELSE {}
           O == IF Recorded(h) /\ OutOfOrder(HeaderType[h]) THEN {IncludeReport("order", 0)} ELSE {}
           A == IF Recorded(h) /\ ~ IsInAlphabeticalOrder(LastHeader(HeaderType[h]), h)
                THEN {IncludeReport("alpha", 0)} ELSE {}
<1>1. include_reports' = ((include_reports \cup D) \cup C) \cup O \cup A
  BY Zenon DEF IncludeLine, CheckIncludeLine
<1>2. /\ l \in FileShape /\ l.kind = "include" /\ l.what = h
      /\ lines' = Append(lines, l)
  BY Zenon DEF IncludeLine, FileLine, FileShape
<1>3. /\ \A r \in D : r.at = Here /\ r.what = "directory"
      /\ \A r \in C : r.at = Here /\ r.what \in {"duplicate", "cc"}
      /\ \A r \in O : r.at = Here /\ r.what = "order"
      /\ \A r \in A : r.at = Here /\ r.what = "alpha"
  BY DEF IncludeReport
<1>4. FindHeader(h) >= 0 => \E r \in C : r.what = "duplicate"
  BY Zenon DEF IncludeReport
<1>5. ~ (FindHeader(h) >= 0) /\ h \in ForeignCC => \E r \in C : r.what = "cc"
  BY Zenon DEF IncludeReport
<1>6. OutOfOrder(HeaderType[h]) /\ Recorded(h) => \E r \in O : r.what = "order"
  BY Zenon DEF IncludeReport
<1>7. Recorded(h) => C = {}
  BY DEF Recorded
<1>8. Recorded(h) /\ ~ OutOfOrder(HeaderType[h]) => O = {}
  BY Zenon
<1> HIDE DEF D, C, O, A, l
<1>9. /\ include_reports \subseteq include_reports'
      /\ \A r \in include_reports' : r \in include_reports \/ r.at = Here
      /\ \A r \in include_reports' : r \in include_reports \/ r.what # "missing"
  BY <1>1, <1>3, Zenon
<1>10. /\ Len(lines) \in Nat /\ Here = Len(lines) + 1 /\ DOMAIN lines' = 1 .. Here
       /\ lines'[Here] = l /\ DOMAIN lines = 1 .. Len(lines)
  BY <1>2, <1>9, OneMoreFileLine, Zenon DEF IncludesInv
<1>11. \A r \in include_reports : r.what \in About => r.at # Here
  BY <1>10 DEF IncludesInv, IncludesTypeOK
<1>12. n \in RecordedAt' <=>
         h \notin ThirdParty /\ ~ Reported(n, "duplicate")' /\ ~ Reported(n, "cc")'
  <2>1. n \in IncludesAt'
    BY <1>2, <1>10 DEF IncludesAt
  <2>2. lines'[n].what = h
    BY <1>2, <1>10, Zenon
  <2> QED BY <2>1, <2>2, Zenon DEF RecordedAt
<1>13. \A what \in About : Reported(n, what)' <=> \E r \in C \cup O : r.what = what
  BY <1>1, <1>3, <1>11 DEF Reported, About
<1>14. FindHeader(h) \in Nat \cup {-1}
  BY FindHeaderFinds, Zenon DEF IncludesInv
<1>15. ASSUME Recorded(h) PROVE n \in RecordedAt'
  <2>1. h \notin ThirdParty
    BY <1>15, ZenonT(30) DEF Recorded
  <2>2. ~ Reported(n, "duplicate")' /\ ~ Reported(n, "cc")'
    BY <1>3, <1>7, <1>13, <1>15, ZenonT(30) DEF About
  <2> QED BY <1>12, <2>1, <2>2
<1>16. ASSUME ~ Recorded(h), n \in RecordedAt' PROVE FALSE
  <2>1. h \notin ThirdParty /\ ~ Reported(n, "duplicate")' /\ ~ Reported(n, "cc")'
    BY <1>12, <1>16
  <2>2. ~ (FindHeader(h) >= 0)
    BY <1>4, <1>13, <2>1 DEF About
  <2>3. h \notin ForeignCC
    BY <1>5, <1>13, <2>1, <2>2, ZenonT(30) DEF About
  <2> QED BY <1>14, <1>16, <2>1, <2>2, <2>3 DEF Recorded
<1>17. ASSUME Recorded(h) PROVE Reported(n, "order")' <=> OutOfOrder(HeaderType[h])
  BY <1>3, <1>6, <1>7, <1>8, <1>13, <1>17, ZenonT(30) DEF About
<1>18. ~ Recorded(h) /\ h \notin ThirdParty \cup ForeignCC => FindHeader(h) # -1
  BY Zenon DEF Recorded
<1> QED BY <1>2, <1>9, <1>15, <1>16, <1>17, <1>18, ZenonT(30) DEF l

\* An include in the order passes, and section moves with it.
LEMMA OrderIsChecked ==
  ASSUME IncludesInv, NEW h \in Headers, IncludeLine(h)
  PROVE  CleanBlockIsOrdered' /\ SectionIsReached'
<1> DEFINE l == FileLine("include", h)
           t == HeaderType[h]
<1>0. PICK n : n = Here
  BY Zenon
<1>1. /\ l \in FileShape /\ lines' = Append(lines, l)
      /\ include_reports \subseteq include_reports'
      /\ \A r \in include_reports' : r \in include_reports \/ r.at = Here
      /\ n \in RecordedAt' <=> Recorded(h)
      /\ Recorded(h) => (Reported(n, "order")' <=> OutOfOrder(t))
  <2>1. lines' = Append(lines, l)
    BY Zenon DEF IncludeLine
  <2> QED BY <1>0, <2>1, IncludeReports, Zenon
<1>2. /\ Len(lines) \in Nat /\ n = Len(lines) + 1
      /\ \A i \in 1 .. Len(lines) : TypeAt(i)' = TypeAt(i)
      /\ \A i \in 1 .. Len(lines) : (i \in RecordedAt)' <=> i \in RecordedAt
      /\ \A i \in 1 .. Len(lines) : Reported(i, "order")' <=> Reported(i, "order")
      /\ \A i \in 1 .. Len(lines) : (i \in DirectivesAt)' <=> i \in DirectivesAt
      /\ RecordedAt \subseteq 1 .. Len(lines) /\ RecordedAt' \subseteq 1 .. n
      /\ DirectivesAt \subseteq 1 .. Len(lines) /\ DirectivesAt' \subseteq 1 .. n
      /\ lines'[n] = l
  BY <1>0, <1>1, OneMoreFileLine, Zenon DEF IncludesInv
<1>a. lines'[n] = l
  BY <1>2, Zenon
<1>b. l.kind = "include" /\ l.what = h
  BY Zenon DEF FileLine
<1>3. TypeAt(n)' = t
  BY <1>a, <1>b, Zenon DEF TypeAt
<1>4. DirectivesAt' = DirectivesAt
  <2>1. n \notin DirectivesAt'
    <3>1. lines'[n].kind # "directive"
      BY <1>a, <1>b
    <3> QED BY <3>1, Zenon DEF DirectivesAt
  <2>2. DirectivesAt' \subseteq 1 .. Len(lines)
    BY <1>2, <2>1
  <2> QED BY <1>2, <2>2, Zenon
<1>5. \A i, j : SameBlock(i, j)' <=> SameBlock(i, j)
  BY <1>4, Zenon DEF SameBlock
<1>6. \A i \in RecordedAt' : i = n \/ (i \in RecordedAt /\ i \in 1 .. Len(lines))
  <2> TAKE i \in RecordedAt'
  <2>1. i \in 1 .. n
    BY <1>2
  <2>2. CASE i # n
    <3>1. i \in 1 .. Len(lines)
      BY <1>2, <2>1, <2>2
    <3> QED BY <1>2, <3>1
  <2> QED BY <2>2
<1>7. \A i \in RecordedAt : /\ i \in 1 .. Len(lines) /\ i < n /\ TypeAt(i)' = TypeAt(i) /\ (Mine(i)' <=> Mine(i))
                            /\ Reported(i, "order")' <=> Reported(i, "order")
  BY <1>2 DEF Mine
<1>8. \A i \in RecordedAt : SameBlock(i, n) <=> InBlock(i)
  BY <1>2 DEF SameBlock, InBlock
<1>9. \A i \in RecordedAt : InBlock(i) =>
        /\ TypeAt(i) = "C" => section >= C_SECTION
        /\ TypeAt(i) = "CPP" => section >= CPP_SECTION
        /\ TypeAt(i) = "OTHER" => section = OTHER_H_SECTION
        /\ Mine(i) /\ (\E k \in RecordedAt : k < i /\ SameBlock(k, i) /\ TypeAt(k) \in {"C", "CPP"})
             => section = OTHER_H_SECTION
  BY Zenon DEF IncludesInv, SectionIsReached
<1>10. section \in 0 .. 4
  BY Zenon DEF IncludesInv, IncludesTypeOK
<1>11. CleanBlockIsOrdered'
  <2> SUFFICES ASSUME NEW i \in RecordedAt', NEW j \in RecordedAt', i < j, SameBlock(i, j), ~ Reported(j, "order")'
               PROVE  /\ TypeAt(j)' = "C" => TypeAt(i)' \notin {"CPP", "OTHER"} \/ Reported(i, "order")'
                      /\ TypeAt(j)' = "CPP" => TypeAt(i)' # "OTHER"
                      /\ TypeAt(j)' \in {"C", "CPP"} /\ Mine(i)' =>
                           \A k \in RecordedAt' : k < i /\ SameBlock(k, j) => TypeAt(k)' \notin {"C", "CPP"}
    BY <1>5 DEF CleanBlockIsOrdered
  <2>1. i # n /\ i \in RecordedAt
    BY <1>2, <1>6
  <2>2. ASSUME NEW k \in RecordedAt', k < i PROVE k \in RecordedAt
    BY <1>2, <1>6, <2>1, <2>2
  <2>3. CASE j = n
    <3>1. ~ OutOfOrder(t) /\ InBlock(i)
      BY <1>1, <1>8, <2>1, <2>3, ZenonT(30)
    <3>2. /\ t = "C" => section <= C_SECTION
          /\ t = "CPP" => section <= CPP_SECTION
      BY <3>1, <1>10 DEF OutOfOrder, C_SECTION, CPP_SECTION
    <3>3. /\ TypeAt(i) = "CPP" => section >= CPP_SECTION
          /\ TypeAt(i) = "OTHER" => section = OTHER_H_SECTION
          /\ Mine(i) /\ (\E k \in RecordedAt : k < i /\ SameBlock(k, i) /\ TypeAt(k) \in {"C", "CPP"})
               => section = OTHER_H_SECTION
      BY <1>9, <2>1, <3>1, ZenonT(30)
    <3>4. ASSUME NEW k \in RecordedAt, k < i, SameBlock(k, n) PROVE SameBlock(k, i)
      BY <1>2, <1>7, <2>1, <3>4 DEF SameBlock
    <3>5. TypeAt(i)' = TypeAt(i) /\ (Mine(i)' <=> Mine(i)) /\ TypeAt(j)' = t
      BY <1>3, <1>7, <2>1, <2>3, ZenonT(30)
    <3>6. ASSUME t \in {"C", "CPP"}, Mine(i), NEW k \in RecordedAt', k < i, SameBlock(k, n)
          PROVE  TypeAt(k)' \notin {"C", "CPP"}
      <4>1. k \in RecordedAt /\ SameBlock(k, i)
        BY <2>2, <3>4, <3>6, ZenonT(30)
      <4>2. section # OTHER_H_SECTION
        BY <3>2, <3>6, <1>10 DEF OTHER_H_SECTION, C_SECTION, CPP_SECTION
      <4>3. TypeAt(k)' = TypeAt(k)
        BY <4>1, <1>7, Zenon
      <4> QED BY <3>3, <3>6, <4>1, <4>2, <4>3, ZenonT(30)
    <3> QED BY <2>3, <3>2, <3>3, <3>5, <3>6, <1>10 DEF OTHER_H_SECTION, C_SECTION, CPP_SECTION
  <2>4. CASE j # n
    <3>1. j \in RecordedAt /\ ~ Reported(j, "order")
      BY <1>6, <1>7, <2>4, Zenon
    <3>2. /\ TypeAt(j) = "C" => TypeAt(i) \notin {"CPP", "OTHER"} \/ Reported(i, "order")
          /\ TypeAt(j) = "CPP" => TypeAt(i) # "OTHER"
          /\ TypeAt(j) \in {"C", "CPP"} /\ Mine(i) =>
               \A k \in RecordedAt : k < i /\ SameBlock(k, j) => TypeAt(k) \notin {"C", "CPP"}
      BY <2>1, <3>1, Zenon DEF IncludesInv, CleanBlockIsOrdered
    <3>3. \A k \in RecordedAt : TypeAt(k)' = TypeAt(k)
      BY <1>7
    <3> QED BY <1>7, <2>1, <2>2, <3>1, <3>2, <3>3, ZenonT(30)
  <2> QED BY <2>3, <2>4
<1>12. CASE ~ Recorded(h)
  <2>1. section' = section
    BY <1>12, Zenon DEF IncludeLine, CheckIncludeLine
  <2>2. RecordedAt' = RecordedAt
    BY <1>1, <1>2, <1>6, <1>12, ZenonT(30)
  <2>3. \A i : InBlock(i)' <=> InBlock(i)
    BY <1>4, <2>2, Zenon DEF InBlock
  <2>4. SectionIsReached'
    BY <1>5, <1>7, <1>9, <2>1, <2>2, <2>3, ZenonT(30) DEF SectionIsReached, C_SECTION, CPP_SECTION, OTHER_H_SECTION
  <2> QED BY <1>11, <2>4
<1>13. CASE Recorded(h)
  <2>1. section' = NextSection(t)
    BY <1>13 DEF IncludeLine, CheckIncludeLine
  <2>2. /\ section' >= section /\ section' \in 0 .. 4
        /\ t = "C" => section' >= C_SECTION
        /\ t = "CPP" => section' >= CPP_SECTION
        /\ t = "OTHER" => section' = OTHER_H_SECTION
        /\ t \in {"LIKELY", "POSSIBLE"} /\ section >= C_SECTION => section' = OTHER_H_SECTION
    BY <1>10, <2>1 DEF NextSection, OutOfOrder, C_SECTION, CPP_SECTION, OTHER_H_SECTION, MY_H_SECTION
  <2> SUFFICES ASSUME NEW i \in RecordedAt', InBlock(i)'
               PROVE  /\ TypeAt(i)' = "C" => section' >= C_SECTION
                      /\ TypeAt(i)' = "CPP" => section' >= CPP_SECTION
                      /\ TypeAt(i)' = "OTHER" => section' = OTHER_H_SECTION
                      /\ Mine(i)' /\ (\E k \in RecordedAt' : k < i /\ SameBlock(k, i)' /\ TypeAt(k)' \in {"C", "CPP"})
                           => section' = OTHER_H_SECTION
    BY <1>11 DEF SectionIsReached, C_SECTION, CPP_SECTION, OTHER_H_SECTION
  <2>3. ASSUME NEW k \in RecordedAt', k < i, SameBlock(k, i)', TypeAt(k)' \in {"C", "CPP"}
        PROVE  k \in RecordedAt /\ SameBlock(k, i) /\ TypeAt(k) \in {"C", "CPP"}
    <3>1. k # n
      BY <1>2, <2>3
    <3> QED BY <1>5, <1>6, <1>7, <2>3, <3>1, ZenonT(30)
  <2>4. CASE i = n
    <3>1. ASSUME NEW k \in RecordedAt', k < i, SameBlock(k, i)', TypeAt(k)' \in {"C", "CPP"}
          PROVE  section >= C_SECTION
      <4>1. k \in RecordedAt /\ InBlock(k) /\ TypeAt(k) \in {"C", "CPP"}
        BY <1>8, <2>3, <2>4, <3>1, ZenonT(30)
      <4> QED BY <1>9, <1>10, <4>1 DEF C_SECTION, CPP_SECTION
    <3>2. Mine(i)' => t \in {"LIKELY", "POSSIBLE"}
      BY <1>3, <2>4 DEF Mine
    <3> QED BY <1>3, <2>2, <2>4, <3>1, <3>2, ZenonT(30)
  <2>5. CASE i # n
    <3>1. i \in RecordedAt /\ InBlock(i)
      BY <1>4, <1>6, <2>5 DEF InBlock
    <3>2. section = OTHER_H_SECTION => section' = OTHER_H_SECTION
      BY <1>10, <2>2 DEF OTHER_H_SECTION
    <3>3. TypeAt(i)' = TypeAt(i) /\ (Mine(i)' <=> Mine(i))
      BY <1>7, <3>1
    <3>4. /\ TypeAt(i) = "C" => section >= C_SECTION
          /\ TypeAt(i) = "CPP" => section >= CPP_SECTION
          /\ TypeAt(i) = "OTHER" => section = OTHER_H_SECTION
          /\ Mine(i) /\ (\E k \in RecordedAt : k < i /\ SameBlock(k, i) /\ TypeAt(k) \in {"C", "CPP"})
               => section = OTHER_H_SECTION
      BY <1>9, <3>1
    <3>5. /\ section >= C_SECTION => section' >= C_SECTION
          /\ section >= CPP_SECTION => section' >= CPP_SECTION
      BY <1>10, <2>2 DEF C_SECTION, CPP_SECTION
    <3> QED BY <2>3, <3>2, <3>3, <3>4, <3>5, ZenonT(30)
  <2> QED BY <2>4, <2>5, Zenon
<1> QED BY <1>12, <1>13

-----------------------------------------------------------------------------
\* An include is listed, or was; the lists hold include lines of the file.
LEMMA IncludeIsListed ==
  ASSUME IncludesInv, NEW h \in Headers, IncludeLine(h)
  PROVE  IncludesTypeOK' /\ ListedAreLines' /\ LinesAreListed'
<1> DEFINE l == FileLine("include", h)
<1>0. PICK n : n = Here
  BY Zenon
<1>1. /\ l \in FileShape /\ lines' = Append(lines, l)
      /\ include_reports \subseteq include_reports'
      /\ \A r \in include_reports' : r \in include_reports \/ r.at = Here
      /\ ~ Recorded(h) /\ h \notin ThirdParty \cup ForeignCC => FindHeader(h) # -1
  <2>1. lines' = Append(lines, l)
    BY Zenon DEF IncludeLine
  <2> QED BY <1>0, <2>1, IncludeReports, ZenonT(30)
<1>2. /\ Len(lines) \in Nat /\ n = Len(lines) + 1 /\ lines' \in Seq(FileShape)
      /\ DOMAIN lines' = 1 .. n /\ DOMAIN lines = 1 .. Len(lines)
      /\ \A i \in 1 .. Len(lines) : lines'[i] = lines[i]
      /\ lines'[n] = l
  BY <1>0, <1>1, OneMoreFileLine, ZenonT(30) DEF IncludesInv
<1>3. l.kind = "include" /\ l.what = h
  BY Zenon DEF FileLine
<1>4. /\ include_list' \in Seq(Seq(Headers \X Nat)) /\ Len(include_list') >= 1
      /\ \A x : Listed(x)' => Listed(x) \/ x = <<h, n>>
      /\ \A x : Listed(x) => Listed(x)'
      /\ Recorded(h) => Listed(<<h, n>>)'
  <2>1. CASE Recorded(h)
    <3>1. include_list' = AddInclude(h)
      BY <2>1, ZenonT(30) DEF IncludeLine, CheckIncludeLine
    <3> QED BY <1>0, <3>1, AddedIsListed DEF IncludesInv
  <2>2. CASE ~ Recorded(h)
    <3>1. include_list' = include_list
      BY <2>2, Zenon DEF IncludeLine, CheckIncludeLine
    <3> QED BY <2>2, <3>1 DEF IncludesInv, IncludesTypeOK, Listed
  <2> QED BY <2>1, <2>2, Zenon
<1>5. section' \in 0 .. 4
  <2>1. section \in 0 .. 4
    BY Zenon DEF IncludesInv, IncludesTypeOK
  <2>2. section' = section \/ section' = NextSection(HeaderType[h])
    BY Zenon DEF IncludeLine, CheckIncludeLine
  <2>3. NextSection(HeaderType[h]) \in {section, C_SECTION, CPP_SECTION, MY_H_SECTION, OTHER_H_SECTION}
    BY Zenon DEF NextSection
  <2>4. \A x \in {C_SECTION, CPP_SECTION, MY_H_SECTION, OTHER_H_SECTION} : x \in 0 .. 4
    BY DEF C_SECTION, CPP_SECTION, MY_H_SECTION, OTHER_H_SECTION
  <2> QED BY <2>1, <2>2, <2>3, <2>4, Zenon
<1>6. \A i \in DOMAIN lines' : i = n \/ (i \in DOMAIN lines /\ lines'[i] = lines[i])
  BY <1>2
<1>7. IncludesTypeOK'
  <2>1. \A i \in DOMAIN lines' : lines'[i].kind = "include" => lines'[i].what \in Headers
    <3>1. \A i \in DOMAIN lines : lines[i].kind = "include" => lines[i].what \in Headers
      BY ZenonT(30) DEF IncludesInv, IncludesTypeOK
    <3> QED BY <1>2, <1>3, <1>6, <3>1, Zenon
  <2>2. \A r \in include_reports' : r.what \in About => r.at \in DOMAIN lines'
    <3>1. \A r \in include_reports : r.what \in About => r.at \in DOMAIN lines
      BY Zenon DEF IncludesInv, IncludesTypeOK, About
    <3>2. n \in DOMAIN lines' /\ \A i \in DOMAIN lines : i \in DOMAIN lines'
      BY <1>2
    <3> QED BY <1>0, <1>1, <3>1, <3>2, Zenon
  <2> QED BY <1>2, <1>4, <1>5, <2>1, <2>2, ZenonT(30) DEF IncludesTypeOK, About
<1>8. ListedAreLines'
  <2> SUFFICES ASSUME NEW g, NEW m, Listed(<<g, m>>)'
               PROVE  m \in DOMAIN lines' /\ lines'[m] = FileLine("include", g)
    BY Zenon DEF ListedAreLines, FileLine
  <2>1. CASE Listed(<<g, m>>)
    <3>1. m \in DOMAIN lines /\ lines[m] = FileLine("include", g)
      BY <2>1, ZenonT(30) DEF IncludesInv, ListedAreLines
    <3>2. \A i \in DOMAIN lines : i \in DOMAIN lines' /\ lines'[i] = lines[i]
      BY <1>2
    <3> QED BY <3>1, <3>2, Zenon
  <2>2. CASE <<g, m>> = <<h, n>>
    <3>1. g = h /\ m = n
      BY <2>2, Zenon
    <3>2. n \in DOMAIN lines'
      BY <1>2
    <3> QED BY <3>1, <3>2, <1>2, Zenon
  <2> QED BY <1>4, <2>1, <2>2, Zenon
<1>9. LinesAreListed'
  <2> SUFFICES ASSUME ~ ElseIn', NEW i \in IncludesAt', NEW w, w = lines'[i].what,
                      w \notin ThirdParty \cup ForeignCC
               PROVE  \E m : Listed(<<w, m>>)'
    BY Zenon DEF LinesAreListed
  <2>1. i \in DOMAIN lines' /\ lines'[i].kind = "include"
    BY Zenon DEF IncludesAt
  <2>2. CASE i = n
    <3>1. w = h
      BY <1>2, <1>3, <2>2
    <3>2. CASE Recorded(h)
      BY <1>4, <3>1, <3>2, Zenon
    <3>3. CASE ~ Recorded(h)
      <4>1. FindHeader(h) # -1
        BY <1>1, <3>1, <3>3, Zenon
      <4>2. \E m : Listed(<<h, m>>)
        BY <4>1, FindHeaderFinds, Zenon DEF IncludesInv
      <4> QED BY <1>4, <3>1, <4>2, Zenon
    <3> QED BY <3>2, <3>3, Zenon
  <2>3. CASE i # n
    <3>1. i \in DOMAIN lines /\ lines'[i] = lines[i]
      BY <1>6, <2>1, <2>3, Zenon
    <3>2. ~ ElseIn
      BY <1>2 DEF ElseIn, DirectivesAt
    <3>3. i \in IncludesAt
      BY <2>1, <3>1, Zenon DEF IncludesAt
    <3>4. \E m : Listed(<<w, m>>)
      BY <3>1, <3>2, <3>3, Zenon DEF IncludesInv, LinesAreListed
    <3> QED BY <1>4, <3>4, ZenonT(30)
  <2> QED BY <2>2, <2>3, Zenon
<1> QED BY <1>7, <1>8, <1>9

\* Of the other lines, #else alone forgets includes.
LEMMA OtherLinesList ==
  ASSUME IncludesInv, NEW l \in FileShape, lines' = Append(lines, l), l.kind # "include",
         include_reports' = include_reports, section' \in 0 .. 4,
         include_list' \in Seq(Seq(Headers \X Nat)), Len(include_list') >= 1,
         \A x : Listed(x)' => Listed(x),
         ~ (l.kind = "directive" /\ l.what \in Else) => \A x : Listed(x) => Listed(x)'
  PROVE  IncludesTypeOK' /\ ListedAreLines' /\ LinesAreListed'
<1>0. PICK n : n = Here
  BY ZenonT(30)
<1>1. /\ Len(lines) \in Nat /\ n = Len(lines) + 1 /\ lines' \in Seq(FileShape)
      /\ DOMAIN lines' = 1 .. n /\ DOMAIN lines = 1 .. Len(lines)
      /\ \A i \in 1 .. Len(lines) : lines'[i] = lines[i]
      /\ lines'[n] = l
  BY <1>0, OneMoreFileLine, Zenon DEF IncludesInv
<1>2. \A i \in DOMAIN lines' : i = n \/ (i \in DOMAIN lines /\ lines'[i] = lines[i])
  BY <1>1
<1>3. IncludesTypeOK'
  <2>1. \A i \in DOMAIN lines' : lines'[i].kind = "include" => lines'[i].what \in Headers
    BY <1>1, <1>2, ZenonT(30) DEF IncludesInv, IncludesTypeOK
  <2>2. \A r \in include_reports' : r.what \in About => r.at \in DOMAIN lines'
    BY <1>1 DEF IncludesInv, IncludesTypeOK
  <2> QED BY <1>1, <2>1, <2>2, Zenon DEF IncludesTypeOK, About
<1>4. ListedAreLines'
  <2> SUFFICES ASSUME NEW g, NEW m, Listed(<<g, m>>)'
               PROVE  m \in DOMAIN lines' /\ lines'[m] = FileLine("include", g)
    BY Zenon DEF ListedAreLines, FileLine
  <2>1. m \in DOMAIN lines /\ lines[m] = FileLine("include", g)
    BY Zenon DEF IncludesInv, ListedAreLines
  <2> QED BY <2>1, <1>1
<1>5. LinesAreListed'
  <2> SUFFICES ASSUME ~ ElseIn', NEW i \in IncludesAt', NEW w, w = lines'[i].what,
                      w \notin ThirdParty \cup ForeignCC
               PROVE  \E m : Listed(<<w, m>>)'
    BY Zenon DEF LinesAreListed
  <2>1. i \in DOMAIN lines' /\ lines'[i].kind = "include"
    BY Zenon DEF IncludesAt
  <2>2. i \in DOMAIN lines /\ lines'[i] = lines[i]
    BY <1>1, <1>2, <2>1
  <2>3. ~ ElseIn /\ ~ (l.kind = "directive" /\ l.what \in Else)
    <3>1. \A k \in DOMAIN lines' : ~ (lines'[k].kind = "directive" /\ lines'[k].what \in Else)
      BY Zenon DEF ElseIn, DirectivesAt, Else
    <3>2. n \in DOMAIN lines'
      BY <1>1
    <3>3. \A k \in DOMAIN lines : k \in DOMAIN lines' /\ lines'[k] = lines[k]
      BY <1>1
    <3>4. ~ ElseIn
      BY <3>1, <3>3, Zenon DEF ElseIn, DirectivesAt
    <3> QED BY <3>1, <3>2, <3>4, <1>1, Zenon
  <2>4. i \in IncludesAt
    BY <2>1, <2>2 DEF IncludesAt
  <2>5. \E m : Listed(<<w, m>>)
    BY <2>2, <2>3, <2>4, Zenon DEF IncludesInv, LinesAreListed
  <2> QED BY <2>2, <2>3, <2>5, Zenon
<1> QED BY <1>3, <1>4, <1>5, Zenon

-----------------------------------------------------------------------------
\* RequiredAt is a line that uses the header.
LEMMA RequiredAtUses ==
  ASSUME IncludesTypeOK, NEW h \in Required
  PROVE  RequiredAt(h) \in DOMAIN lines /\ lines[RequiredAt(h)] = FileLine("use", h)
<1> DEFINE T == {i \in DOMAIN lines : lines[i] = FileLine("use", h)}
<1>1. Len(lines) \in Nat /\ DOMAIN lines = 1 .. Len(lines) /\ lines \in Seq(FileShape)
  BY DEF IncludesTypeOK
<1>2. PICK j \in DOMAIN lines : lines[j].kind = "use" /\ lines[j].what = h
  BY Zenon DEF Required
<1>3. lines[j] \in FileShape
  BY <1>1
<1>4. lines[j] = FileLine("use", h)
  BY <1>2, <1>3, Zenon DEF FileShape, FileLine
<1>5. T \in SUBSET (0 .. Len(lines)) /\ T # {}
  BY <1>1, <1>2, <1>4
<1>6. Max(T) \in T
  BY <1>1, <1>5, GreatestNat, Zenon
<1> QED BY <1>6, Zenon DEF RequiredAt

\* The headers that include_list has, and the lines of the file.
LEMMA IncludedAreLines ==
  ASSUME IncludesInv
  PROVE  /\ \A h \in Included : \E i \in IncludesAt : lines[i].what = h
         /\ ~ ElseIn => \A i \in IncludesAt : lines[i].what \in ThirdParty \cup ForeignCC \cup Included
<1>1. ASSUME NEW h \in Included PROVE \E i \in IncludesAt : lines[i].what = h
  <2>1. PICK n : Listed(<<h, n>>)
    BY FindHeaderFinds, Zenon DEF Included, IncludesInv
  <2>2. n \in DOMAIN lines /\ lines[n] = FileLine("include", h)
    BY <2>1, Zenon DEF IncludesInv, ListedAreLines
  <2> QED BY <2>2 DEF IncludesAt, FileLine
<1>2. ASSUME ~ ElseIn, NEW i \in IncludesAt, lines[i].what \notin ThirdParty \cup ForeignCC
      PROVE  lines[i].what \in Included
  <2>1. \E n : Listed(<<lines[i].what, n>>)
    BY <1>2, Zenon DEF IncludesInv, LinesAreListed
  <2>2. lines[i].what \in Headers
    BY Zenon DEF IncludesInv, IncludesTypeOK, IncludesAt
  <2> QED BY <2>1, <2>2, FindHeaderFinds, Zenon DEF Included, IncludesInv
<1> QED BY <1>1, <1>2, Zenon

\* What the reports at the end of the file are.
LEMMA EndReports ==
  /\ \A r \in CheckForIncludeWhatYouUse : r.what = "missing"
  /\ \A r \in CheckHeaderFileIncluded : r.what = "own header"
<1>1. ASSUME NEW r \in CheckForIncludeWhatYouUse PROVE r.what = "missing"
  <2>1. \E h : r = [at |-> RequiredAt(h), what |-> "missing", first |-> 0]
    BY Zenon DEF CheckForIncludeWhatYouUse
  <2> QED BY <2>1
<1>2. ASSUME NEW r \in CheckHeaderFileIncluded PROVE r.what = "own header"
  <2>1. r = [at |-> FirstInclude, what |-> "own header", first |-> 0]
    BY ZenonT(30) DEF CheckHeaderFileIncluded
  <2> QED BY <2>1, Zenon
<1> QED BY <1>1, <1>2, Zenon

\* The end of the file reports the missing includes, and those only.
LEMMA EndIsExact ==
  ASSUME IncludesInv, EndOfFile
  PROVE  MissingIsExact'
<1>1. /\ ~ include_done /\ lines' = lines /\ ext' = ext /\ own' = own /\ include_list' = include_list
      /\ include_reports' = (include_reports \cup CheckForIncludeWhatYouUse) \cup CheckHeaderFileIncluded
  BY Zenon DEF EndOfFile
<1>2. \A r \in include_reports : r.what # "missing"
  BY <1>1, Zenon DEF IncludesInv
<1>3. \A r \in CheckHeaderFileIncluded : r.what # "missing"
  BY EndReports, Zenon
<1>4. \A r \in CheckForIncludeWhatYouUse :
        \E h \in Required \ IncludeDict :
          ~ (ext = "cc" /\ ~ HeaderFound) /\ r = [at |-> RequiredAt(h), what |-> "missing", first |-> 0]
  BY Zenon DEF CheckForIncludeWhatYouUse
<1>5. ASSUME NEW h \in Required PROVE lines[RequiredAt(h)].what = h
  <2>1. lines[RequiredAt(h)] = FileLine("use", h)
    BY RequiredAtUses, Zenon DEF IncludesInv
  <2> QED BY <2>1 DEF FileLine
<1>6. (ElseIn' <=> ElseIn) /\ IncludesAt' = IncludesAt /\ Required' = Required
  BY <1>1, Zenon DEF ElseIn, DirectivesAt, IncludesAt, Required
<1>7. ASSUME NEW h \in StlHeaders, NEW r \in include_reports', r.what = "missing", lines[r.at].what = h, ~ ElseIn
      PROVE  /\ \A i \in IncludesAt : lines[i].what # h
             /\ ext = "cc" => /\ own.readable /\ h \notin own.includes
                              /\ \E i \in IncludesAt : lines[i].what \in OwnHeaders
  <2>1. r \in CheckForIncludeWhatYouUse
    BY <1>1, <1>2, <1>3, <1>7, Zenon
  <2>2. PICK g \in Required \ IncludeDict :
          ~ (ext = "cc" /\ ~ HeaderFound) /\ r = [at |-> RequiredAt(g), what |-> "missing", first |-> 0]
    BY <1>4, <2>1, ZenonT(30)
  <2>3. g = h
    BY <1>5, <1>7, <2>2, ZenonT(30)
  <2>4. h \notin Included
    BY <2>2, <2>3 DEF IncludeDict
  <2>5. \A i \in IncludesAt : lines[i].what # h
    BY <1>7, <2>4, IncludedAreLines, IncludesAssumption, Zenon
  <2>6. ASSUME ext = "cc"
        PROVE  /\ own.readable /\ h \notin own.includes
               /\ \E i \in IncludesAt : lines[i].what \in OwnHeaders
    <3>1. HeaderFound /\ h \notin own.includes
      BY <2>2, <2>3, <2>6 DEF IncludeDict
    <3>2. own.readable /\ \E g1 \in Included : g1 \in OwnHeaders
      BY <3>1, Zenon DEF HeaderFound
    <3> QED BY <3>1, <3>2, IncludedAreLines, Zenon
  <2> QED BY <2>5, <2>6
<1>8. ASSUME NEW h \in StlHeaders, ext = "h", h \in Required, \A i \in IncludesAt : lines[i].what # h
      PROVE  \E r \in include_reports' : r.what = "missing" /\ lines[r.at].what = h
  <2>1. ext # "cc"
    BY <1>8, Zenon
  <2>2. h \notin IncludeDict
    BY <1>8, <2>1, IncludedAreLines, Zenon DEF IncludeDict, HeaderFound
  <2>3. [at |-> RequiredAt(h), what |-> "missing", first |-> 0] \in CheckForIncludeWhatYouUse
    BY <1>8, <2>1, <2>2, Zenon DEF CheckForIncludeWhatYouUse
  <2> QED BY <1>1, <1>5, <1>8, <2>3
<1> QED BY <1>1, <1>6, <1>7, <1>8, ZenonT(30) DEF MissingIsExact

\* Each step keeps the invariant.
LEMMA IncludesStep == IncludesInv /\ [IncludesNext]_includeVars => IncludesInv'
<1> SUFFICES ASSUME IncludesInv, [IncludesNext]_includeVars PROVE IncludesInv'
  BY Zenon
<1>1. ASSUME NEW h \in Headers, IncludeLine(h) PROVE IncludesInv'
  <2>1. ~ include_done /\ ~ include_done'
    BY <1>1, Zenon DEF IncludeLine
  <2>2. \A r \in include_reports' : r \in include_reports \/ r.what # "missing"
    BY <1>1, IncludeReports, Zenon
  <2>3. \A r \in include_reports' : r.what # "missing"
    BY <2>1, <2>2, Zenon DEF IncludesInv
  <2>4. MissingIsExact'
    BY <2>1, Zenon DEF MissingIsExact
  <2> QED BY <1>1, <2>3, <2>4, OrderIsChecked, IncludeIsListed DEF IncludesInv
<1>2. ASSUME NEW d \in {"if", "else", "endif"}, DirectiveLine(d) PROVE IncludesInv'
  <2> DEFINE l == FileLine("directive", d)
  <2>1. /\ ~ include_done /\ ~ include_done' /\ include_reports' = include_reports
        /\ lines' = Append(lines, l) /\ section' = 0 /\ include_list' = ResetLists(d)
    BY <1>2, Zenon DEF DirectiveLine, INITIAL_SECTION
  <2>2. l \in FileShape /\ l.kind = "directive" /\ l.what = d
    BY Zenon DEF FileLine, FileShape
  <2>3. /\ include_list' \in Seq(Seq(Headers \X Nat)) /\ Len(include_list') >= 1
        /\ \A x : Listed(x)' => Listed(x)
        /\ d # "else" => \A x : Listed(x) => Listed(x)'
    BY <2>1, ResetForgets DEF IncludesInv
  <2> HIDE DEF l
  <2>4. ~ (l.kind = "directive" /\ l.what \in Else) => \A x : Listed(x) => Listed(x)'
    BY <2>2, <2>3, Zenon DEF Else
  <2>5. l.kind # "include" /\ section' \in 0 .. 4
    BY <2>1, <2>2
  <2>6. CleanBlockIsOrdered' /\ SectionIsReached'
    BY <2>1, <2>2, OrderStays, Zenon
  <2>7. IncludesTypeOK' /\ ListedAreLines' /\ LinesAreListed'
    BY <2>1, <2>2, <2>3, <2>4, <2>5, OtherLinesList, ZenonT(30)
  <2>8. MissingIsExact' /\ \A r \in include_reports' : r.what # "missing"
    BY <2>1, Zenon DEF MissingIsExact, IncludesInv
  <2> QED BY <2>6, <2>7, <2>8 DEF IncludesInv
<1>3. ASSUME NEW l \in FileShape, l.kind \notin {"include", "directive"}, OtherLine(l) PROVE IncludesInv'
  <2>1. /\ ~ include_done /\ ~ include_done' /\ include_reports' = include_reports
        /\ lines' = Append(lines, l) /\ section' = section /\ include_list' = include_list
    BY <1>3, Zenon DEF OtherLine
  <2>2. /\ include_list' \in Seq(Seq(Headers \X Nat)) /\ Len(include_list') >= 1
        /\ section' \in 0 .. 4 /\ \A x : Listed(x)' <=> Listed(x)
    BY <2>1, Zenon DEF Listed, IncludesInv, IncludesTypeOK
  <2>3. CleanBlockIsOrdered' /\ SectionIsReached'
    BY <1>3, <2>1, OrderStays
  <2>4. IncludesTypeOK' /\ ListedAreLines' /\ LinesAreListed'
    BY <1>3, <2>1, <2>2, OtherLinesList
  <2>5. MissingIsExact' /\ \A r \in include_reports' : r.what # "missing"
    BY <2>1, Zenon DEF MissingIsExact, IncludesInv
  <2> QED BY <2>3, <2>4, <2>5 DEF IncludesInv
<1>4. CASE EndOfFile
  <2>1. /\ include_done' /\ lines' = lines /\ section' = section /\ include_list' = include_list
        /\ include_reports' = (include_reports \cup CheckForIncludeWhatYouUse) \cup CheckHeaderFileIncluded
    BY <1>4, Zenon DEF EndOfFile
  <2>2. \A r \in CheckForIncludeWhatYouUse \cup CheckHeaderFileIncluded : r.what \notin About
    BY EndReports, Zenon DEF About
  <2>3. \A i : \A what \in About : Reported(i, what)' <=> Reported(i, what)
    BY <2>1, <2>2 DEF Reported
  <2>4. \A i : /\ Reported(i, "order")' <=> Reported(i, "order")
               /\ Reported(i, "duplicate")' <=> Reported(i, "duplicate")
               /\ Reported(i, "cc")' <=> Reported(i, "cc")
    BY <2>3 DEF About
  <2>5. IncludesAt' = IncludesAt /\ DirectivesAt' = DirectivesAt /\ (ElseIn' <=> ElseIn)
    BY <2>1 DEF IncludesAt, DirectivesAt, ElseIn
  <2>6. RecordedAt' = RecordedAt
    BY <2>1, <2>4, <2>5, ZenonT(30) DEF RecordedAt
  <2>7. \A i : TypeAt(i)' = TypeAt(i) /\ (Mine(i)' <=> Mine(i)) /\ (InBlock(i)' <=> InBlock(i))
    BY <2>1, <2>5, <2>6 DEF TypeAt, Mine, InBlock
  <2>8. \A i, j : SameBlock(i, j)' <=> SameBlock(i, j)
    BY <2>5, ZenonT(30) DEF SameBlock
  <2>9. CleanBlockIsOrdered' /\ SectionIsReached'
    BY <2>1, <2>4, <2>6, <2>7, <2>8, ZenonT(30)
       DEF IncludesInv, CleanBlockIsOrdered, SectionIsReached, C_SECTION, CPP_SECTION, OTHER_H_SECTION
  <2>10. IncludesTypeOK'
    BY <2>1, <2>2, Zenon DEF IncludesInv, IncludesTypeOK, About
  <2>11. \A x : Listed(x)' <=> Listed(x)
    BY <2>1, Zenon DEF Listed
  <2>12. ListedAreLines' /\ LinesAreListed'
    BY <2>1, <2>5, <2>11, ZenonT(30) DEF IncludesInv, ListedAreLines, LinesAreListed, FileLine
  <2> QED BY <1>4, <2>1, <2>9, <2>10, <2>12, EndIsExact, ZenonT(30) DEF IncludesInv
<1>5. CASE UNCHANGED includeVars
  <2>1. /\ lines' = lines /\ section' = section /\ include_list' = include_list
        /\ include_reports' = include_reports /\ include_done' = include_done
        /\ ext' = ext /\ own' = own
    BY <1>5, Zenon DEF includeVars
  <2>2. /\ IncludesAt' = IncludesAt /\ DirectivesAt' = DirectivesAt /\ (ElseIn' <=> ElseIn)
        /\ Required' = Required /\ \A x : Listed(x)' <=> Listed(x)
    BY <2>1, Zenon DEF IncludesAt, DirectivesAt, ElseIn, Required, Listed
  <2>3. \A i, what : Reported(i, what)' <=> Reported(i, what)
    BY <2>1, Zenon DEF Reported
  <2>4. RecordedAt' = RecordedAt
    BY <2>1, <2>2, <2>3, ZenonT(30) DEF RecordedAt
  <2>5. \A i : TypeAt(i)' = TypeAt(i) /\ (Mine(i)' <=> Mine(i)) /\ (InBlock(i)' <=> InBlock(i))
    BY <2>1, <2>2, <2>4 DEF TypeAt, Mine, InBlock
  <2>6. \A i, j : SameBlock(i, j)' <=> SameBlock(i, j)
    BY <2>2, ZenonT(30) DEF SameBlock
  <2>7. CleanBlockIsOrdered' /\ SectionIsReached'
    BY <2>1, <2>3, <2>4, <2>5, <2>6, ZenonT(30)
       DEF IncludesInv, CleanBlockIsOrdered, SectionIsReached, C_SECTION, CPP_SECTION, OTHER_H_SECTION
  <2>8. IncludesTypeOK'
    BY <2>1, Zenon DEF IncludesInv, IncludesTypeOK, About
  <2>9. ListedAreLines' /\ LinesAreListed'
    BY <2>1, <2>2, ZenonT(30) DEF IncludesInv, ListedAreLines, LinesAreListed, FileLine
  <2>10. MissingIsExact'
    BY <2>1, <2>2 DEF IncludesInv, MissingIsExact
  <2> QED BY <2>1, <2>7, <2>8, <2>9, <2>10, ZenonT(30) DEF IncludesInv
<1>6. CASE IncludesNext
  <2>1. ASSUME NEW h \in StlHeaders, OtherLine(FileLine("use", h)) PROVE IncludesInv'
    <3>1. FileLine("use", h) \in FileShape /\ FileLine("use", h).kind \notin {"include", "directive"}
      BY Zenon DEF FileLine, FileShape
    <3> QED BY <1>3, <2>1, <3>1
  <2>2. CASE OtherLine(FileLine("blank", "blank"))
    <3>1. FileLine("blank", "blank") \in FileShape /\ FileLine("blank", "blank").kind \notin {"include", "directive"}
      BY Zenon DEF FileLine, FileShape
    <3> QED BY <1>3, <2>2, <3>1
  <2>3. CASE IncludesDone
    BY <1>5, <2>3 DEF IncludesDone
  <2> QED BY <1>1, <1>2, <1>4, <1>6, <2>1, <2>2, <2>3, ZenonT(30) DEF IncludesNext
<1> QED BY <1>5, <1>6, Zenon

LEMMA IncludesStart == IncludesInit => IncludesInv
<1> SUFFICES ASSUME IncludesInit PROVE IncludesInv
  BY Zenon
<1>1. /\ lines = <<>> /\ include_list = << <<>> >> /\ section = 0 /\ include_reports = {}
      /\ include_done = FALSE
  BY Zenon DEF IncludesInit, INITIAL_SECTION
<1>2. lines \in Seq(FileShape) /\ DOMAIN lines = {}
  BY <1>1
<1>3. include_list \in Seq(Seq(Headers \X Nat)) /\ Len(include_list) >= 1
  <2> DEFINE S == Seq(Headers \X Nat)
  <2>1. <<>> \in S
    OBVIOUS
  <2> HIDE DEF S
  <2>2. include_list \in Seq(S) /\ Len(include_list) = 1
    BY <1>1, <2>1
  <2> QED BY <2>2 DEF S
<1>4. IncludesTypeOK
  BY <1>1, <1>2, <1>3 DEF IncludesTypeOK
<1>5. RecordedAt = {} /\ IncludesAt = {}
  BY <1>2 DEF RecordedAt, IncludesAt
<1>6. CleanBlockIsOrdered /\ SectionIsReached /\ LinesAreListed
  BY <1>5 DEF CleanBlockIsOrdered, SectionIsReached, LinesAreListed
<1>7. ListedAreLines
  <2>1. \A k \in DOMAIN include_list : DOMAIN include_list[k] = {}
    BY <1>1
  <2> QED BY <2>1, Zenon DEF ListedAreLines, Listed
<1> QED BY <1>1, <1>4, <1>6, <1>7 DEF IncludesInv, MissingIsExact

LEMMA IncludesInvariant == IncludesSpec => []IncludesInv
<1> QED BY IncludesStart, IncludesStep, PTL DEF IncludesSpec

(***************************************************************************)
(* CheckNextIncludeOrder: in files of any length, over any headers of any  *)
(* classes, a block that passes is in the documented order.                *)
(***************************************************************************)
THEOREM BlocksAreOrdered == IncludesSpec => []CleanBlockIsOrdered
<1>1. IncludesInv => CleanBlockIsOrdered
  BY DEF IncludesInv
<1> QED BY <1>1, IncludesInvariant, PTL

(***************************************************************************)
(* CheckForIncludeWhatYouUse: for files of any length, what it reports as  *)
(* missing is missing, and in a header file all that is.                   *)
(***************************************************************************)
THEOREM MissingIsRight == IncludesSpec => []MissingIsExact
<1>1. IncludesInv => MissingIsExact
  BY Zenon DEF IncludesInv
<1> QED BY <1>1, IncludesInvariant, PTL
=============================================================================
