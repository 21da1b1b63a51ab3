------------------------------ MODULE ToolProofs ------------------------------
(***************************************************************************)
(* Proofs about RepositoryTools, for every set of jobs and modes, every    *)
(* content of the working tree and every number of edits.                  *)
(***************************************************************************)
EXTENDS ToolInvariant, SequenceTheorems, TLAPS

-------------------------------------------------------------------------------
(* Programs: sequences of phases put together from pieces *)

Names == {"contract", "minimum", "copy", "require", "resolve", "list", "vet", "test", "gomod",
          "releasetools", "workflow", "modules", "graph", "tools", "toolgraph", "goimports",
          "gofumpt", "tidy", "export", "vendor", "leave", "golangci-lint", "nilaway", "gosec",
          "govulncheck", "profile", "gatetest", "coverage", "offlinetest", "offlinebuild",
          "rehearsal", "plan", "first", "second", "compare", "validate"}

Elems(s) == {s[i] : i \in 1..Len(s)}

\* Wherever p is in s, q is at a place before it.
Before(s, q, p) == \A i \in 1..Len(s) : s[i] = p => \E k \in 1..(i - 1) : s[k] = q

LEMMA ConcatElems ==
  ASSUME NEW s \in Seq(Names), NEW t \in Seq(Names)
  PROVE  /\ s \o t \in Seq(Names)
         /\ Elems(s \o t) = Elems(s) \cup Elems(t)
<1>1. /\ s \o t \in Seq(Names) /\ Len(s \o t) = Len(s) + Len(t)
      /\ \A i \in 1..(Len(s) + Len(t)) :
           (s \o t)[i] = IF i <= Len(s) THEN s[i] ELSE t[i - Len(s)]
  BY ConcatProperties
<1>2. Len(s) \in Nat /\ Len(t) \in Nat
  BY LenProperties
<1>3. ASSUME NEW x \in Elems(s \o t) PROVE x \in Elems(s) \cup Elems(t)
  <2>1. PICK i \in 1..(Len(s) + Len(t)) : x = (s \o t)[i]
    BY <1>1 DEF Elems
  <2>2. CASE i <= Len(s)
    BY <1>1, <1>2, <2>1, <2>2 DEF Elems
  <2>3. CASE ~(i <= Len(s))
    <3>1. i - Len(s) \in 1..Len(t) /\ x = t[i - Len(s)]
      BY <1>1, <1>2, <2>1, <2>3
    <3> QED
      BY <3>1 DEF Elems
  <2> QED
    BY <2>2, <2>3
<1>4. ASSUME NEW x \in Elems(s) PROVE x \in Elems(s \o t)
  <2>1. PICK i \in 1..Len(s) : x = s[i]
    BY DEF Elems
  <2>2. i \in 1..(Len(s) + Len(t)) /\ x = (s \o t)[i]
    BY <1>1, <1>2, <2>1
  <2> QED
    BY <1>1, <2>2 DEF Elems
<1>5. ASSUME NEW x \in Elems(t) PROVE x \in Elems(s \o t)
  <2>1. PICK i \in 1..Len(t) : x = t[i]
    BY DEF Elems
  <2>2. Len(s) + i \in 1..(Len(s) + Len(t)) /\ x = (s \o t)[Len(s) + i]
    BY <1>1, <1>2, <2>1
  <2> QED
    BY <1>1, <2>2 DEF Elems
<1> QED
  BY <1>1, <1>3, <1>4, <1>5

LEMMA ConcatBefore ==
  ASSUME NEW s \in Seq(Names), NEW t \in Seq(Names), NEW q, NEW p,
         Before(s, q, p), q \in Elems(s) \/ Before(t, q, p)
  PROVE  Before(s \o t, q, p)
<1>1. /\ Len(s \o t) = Len(s) + Len(t)
      /\ \A i \in 1..(Len(s) + Len(t)) :
           (s \o t)[i] = IF i <= Len(s) THEN s[i] ELSE t[i - Len(s)]
  BY ConcatProperties
<1>2. Len(s) \in Nat /\ Len(t) \in Nat
  BY LenProperties
<1> SUFFICES ASSUME NEW i \in 1..(Len(s) + Len(t)), (s \o t)[i] = p
             PROVE  \E k \in 1..(i - 1) : (s \o t)[k] = q
  BY <1>1 DEF Before
<1>3. CASE i <= Len(s)
  <2>1. i \in 1..Len(s) /\ s[i] = p
    BY <1>1, <1>2, <1>3
  <2>2. PICK k \in 1..(i - 1) : s[k] = q
    BY <2>1 DEF Before
  <2>3. k \in 1..(Len(s) + Len(t)) /\ k <= Len(s)
    BY <1>2, <1>3, <2>2
  <2> QED
    BY <1>1, <2>2, <2>3
<1>4. CASE ~(i <= Len(s)) /\ q \in Elems(s)
  <2>1. PICK k \in 1..Len(s) : s[k] = q
    BY <1>4 DEF Elems
  <2>2. k \in 1..(i - 1) /\ k \in 1..(Len(s) + Len(t)) /\ k <= Len(s)
    BY <1>2, <1>4, <2>1
  <2> QED
    BY <1>1, <2>1, <2>2
<1>5. CASE ~(i <= Len(s)) /\ Before(t, q, p)
  <2>1. i - Len(s) \in 1..Len(t) /\ t[i - Len(s)] = p
    BY <1>1, <1>2, <1>5
  <2>2. PICK k \in 1..(i - Len(s) - 1) : t[k] = q
    BY <1>5, <2>1 DEF Before
  <2>3. /\ Len(s) + k \in 1..(i - 1) /\ Len(s) + k \in 1..(Len(s) + Len(t))
        /\ ~(Len(s) + k <= Len(s)) /\ (Len(s) + k) - Len(s) = k
    BY <1>2, <2>1, <2>2
  <2>4. (s \o t)[Len(s) + k] = q
    BY <1>1, <2>2, <2>3
  <2> QED
    BY <2>3, <2>4
<1> QED
  BY <1>3, <1>4, <1>5

\* What is not in a piece has everything before it there.
LEMMA AbsentBefore ==
  ASSUME NEW s, NEW q, NEW p, p \notin Elems(s)
  PROVE  Before(s, q, p)
BY DEF Before, Elems

\* The pieces of the gate's programs.
LEMMA Pieces ==
  /\ Identity \in Seq(Names) /\ Elems(Identity) = {"gomod", "releasetools", "workflow"}
  /\ Prepare \in Seq(Names) /\ Elems(Prepare) = {"modules", "graph", "tools", "toolgraph"}
  /\ Formatting \in Seq(Names) /\ Elems(Formatting) = Formatters
  /\ CheckModules \in Seq(Names)
  /\ Elems(CheckModules) = {"tidy", "export", "vendor", "leave"}
  /\ <<"vet">> \in Seq(Names) /\ Elems(<<"vet">>) = {"vet"}
  /\ LintAndSecurity \in Seq(Names) /\ Elems(LintAndSecurity) = Analyzers
  /\ TestsAndCoverage \in Seq(Names)
  /\ Elems(TestsAndCoverage) = {"profile", "test", "gatetest", "coverage", "leave"}
  /\ Offline \in Seq(Names) /\ Elems(Offline) = {"offlinetest", "offlinebuild"}
  /\ Rehearsal \in Seq(Names)
  /\ Before(CheckModules, "export", "vendor")
  /\ Before(TestsAndCoverage, "test", "coverage")
<1>1. Identity \in Seq(Names) /\ Elems(Identity) = {"gomod", "releasetools", "workflow"}
  BY DEF Identity, Elems, Names
<1>2. Prepare \in Seq(Names) /\ Elems(Prepare) = {"modules", "graph", "tools", "toolgraph"}
  BY DEF Prepare, Elems, Names
<1>3. Formatting \in Seq(Names) /\ Elems(Formatting) = Formatters
  BY DEF Formatting, Elems, Formatters, Names
<1>4. /\ CheckModules \in Seq(Names)
      /\ Elems(CheckModules) = {"tidy", "export", "vendor", "leave"}
  BY DEF CheckModules, Elems, Names
<1>5. <<"vet">> \in Seq(Names) /\ Elems(<<"vet">>) = {"vet"}
  BY DEF Elems, Names
<1>6. LintAndSecurity \in Seq(Names) /\ Elems(LintAndSecurity) = Analyzers
  BY DEF LintAndSecurity, Elems, Analyzers, Names
<1>7. /\ TestsAndCoverage \in Seq(Names)
      /\ Elems(TestsAndCoverage) = {"profile", "test", "gatetest", "coverage", "leave"}
  BY DEF TestsAndCoverage, Elems, Names
<1>8. Offline \in Seq(Names) /\ Elems(Offline) = {"offlinetest", "offlinebuild"}
  BY DEF Offline, Elems, Names
<1>9. Rehearsal \in Seq(Names)
  BY DEF Rehearsal, Names
<1>10. Before(CheckModules, "export", "vendor")
  BY DEF Before, CheckModules
<1>11. Before(TestsAndCoverage, "test", "coverage")
  BY DEF Before, TestsAndCoverage
<1> QED
  BY <1>1, <1>2, <1>3, <1>4, <1>5, <1>6, <1>7, <1>8, <1>9, <1>10, <1>11

\* What a phase of the gate relies on, and what provides it.
Relies == {<<"modules", "tidy">>, <<"graph", "tidy">>, <<"modules", "export">>}
            \cup {"tools"} \X (Formatters \cup Analyzers)

\* "check" and "verify": their phases, and what comes before what.
CheckSet == {"gomod", "releasetools", "workflow", "modules", "graph", "tools", "toolgraph",
             "tidy", "export", "vendor", "leave", "vet"} \cup Formatters
VerifySet == CheckSet \cup Analyzers
               \cup {"profile", "test", "gatetest", "coverage", "offlinetest", "offlinebuild"}

LEMMA CheckProgram ==
  /\ Program("check") \in Seq(Names) /\ Elems(Program("check")) = CheckSet
  /\ \A r \in Relies : Before(Program("check"), r[1], r[2])
  /\ Before(Program("check"), "export", "vendor")
<1> DEFINE base == Identity \o Prepare
           formatted == base \o Formatting
           compared == formatted \o CheckModules
           vet == <<"vet">>
<1>1. /\ base = Identity \o Prepare /\ formatted = base \o Formatting
      /\ compared = formatted \o CheckModules /\ Program("check") = compared \o vet
      /\ vet \in Seq(Names) /\ Elems(vet) = {"vet"}
  BY Pieces DEF Program, GateProgram, Lines
<1> HIDE DEF base, formatted, compared, vet
<1>2. /\ base \in Seq(Names)
      /\ Elems(base) = {"gomod", "releasetools", "workflow", "modules", "graph", "tools",
                        "toolgraph"}
  <2>1. Identity \in Seq(Names) /\ Prepare \in Seq(Names)
    BY Pieces
  <2>2. /\ Identity \o Prepare \in Seq(Names)
        /\ Elems(Identity \o Prepare) = Elems(Identity) \cup Elems(Prepare)
    BY <2>1, ConcatElems
  <2> QED
    BY <1>1, <2>2, Pieces
<1>3. formatted \in Seq(Names) /\ Elems(formatted) = Elems(base) \cup Formatters
  BY <1>1, <1>2, Pieces, ConcatElems
<1>4. /\ compared \in Seq(Names)
      /\ Elems(compared) = Elems(formatted) \cup {"tidy", "export", "vendor", "leave"}
  <2>1. CheckModules \in Seq(Names)
    BY Pieces
  <2>2. /\ formatted \o CheckModules \in Seq(Names)
        /\ Elems(formatted \o CheckModules) = Elems(formatted) \cup Elems(CheckModules)
    BY <1>3, <2>1, ConcatElems
  <2> QED
    BY <1>1, <2>2, Pieces
<1>5. /\ Program("check") \in Seq(Names)
      /\ Elems(Program("check")) = Elems(compared) \cup {"vet"}
  <2>1. /\ compared \o vet \in Seq(Names)
        /\ Elems(compared \o vet) = Elems(compared) \cup Elems(vet)
    BY <1>1, <1>4, ConcatElems
  <2> QED
    BY <1>1, <2>1
<1>6. ASSUME NEW q \in Elems(base), NEW p, p \notin Elems(base)
      PROVE  Before(Program("check"), q, p)
  <2>1. Before(base, q, p)
    BY <1>6, AbsentBefore
  <2>2. Before(formatted, q, p)
    BY <1>1, <1>2, <1>6, <2>1, Pieces, ConcatBefore
  <2>3. Before(compared, q, p)
    BY <1>1, <1>3, <1>6, <2>2, Pieces, ConcatBefore
  <2>4. q \in Elems(compared)
    BY <1>3, <1>4, <1>6
  <2> QED
    BY <1>1, <1>4, <2>3, <2>4, ConcatBefore
<1>7. Before(Program("check"), "export", "vendor")
  <2>1. Before(formatted, "export", "vendor")
    BY <1>2, <1>3, AbsentBefore DEF Formatters
  <2>2. Before(compared, "export", "vendor")
    BY <1>1, <1>3, <2>1, Pieces, ConcatBefore
  <2> QED
    BY <1>1, <1>4, <2>2, ConcatBefore
<1>8. ASSUME NEW r \in Relies PROVE r[1] \in Elems(base) /\ r[2] \notin Elems(base)
  BY <1>2 DEF Relies, Formatters, Analyzers
<1>9. \A r \in Relies : Before(Program("check"), r[1], r[2])
  BY <1>6, <1>8
<1>10. Elems(Program("check")) = CheckSet
  BY <1>2, <1>3, <1>4, <1>5 DEF CheckSet
<1> QED
  BY <1>5, <1>7, <1>9, <1>10

LEMMA VerifyProgram ==
  /\ Program("verify") \in Seq(Names) /\ Elems(Program("verify")) = VerifySet
  /\ \A r \in Relies : Before(Program("verify"), r[1], r[2])
  /\ Before(Program("verify"), "export", "vendor")
  /\ Before(Program("verify"), "test", "coverage")
<1> DEFINE checks == Program("check")
           linted == checks \o LintAndSecurity
           tested == linted \o TestsAndCoverage
<1>1. /\ linted = checks \o LintAndSecurity /\ tested = linted \o TestsAndCoverage
      /\ Program("verify") = tested \o Offline
  BY DEF Program, GateProgram, Lines
<1>2. checks \in Seq(Names) /\ Elems(checks) = CheckSet
  BY CheckProgram
<1>3. /\ \A r \in Relies : Before(checks, r[1], r[2])
      /\ Before(checks, "export", "vendor")
  BY CheckProgram
<1> HIDE DEF checks, linted, tested
<1>4. linted \in Seq(Names) /\ Elems(linted) = CheckSet \cup Analyzers
  BY <1>1, <1>2, Pieces, ConcatElems
<1>5. /\ tested \in Seq(Names)
      /\ Elems(tested) = Elems(linted)
                           \cup {"profile", "test", "gatetest", "coverage", "leave"}
  <2>1. TestsAndCoverage \in Seq(Names)
    BY Pieces
  <2>2. /\ linted \o TestsAndCoverage \in Seq(Names)
        /\ Elems(linted \o TestsAndCoverage) = Elems(linted) \cup Elems(TestsAndCoverage)
    BY <1>4, <2>1, ConcatElems
  <2> QED
    BY <1>1, <2>2, Pieces
<1>6. /\ Program("verify") \in Seq(Names)
      /\ Elems(Program("verify")) = Elems(tested) \cup {"offlinetest", "offlinebuild"}
  <2>1. Offline \in Seq(Names)
    BY Pieces
  <2>2. /\ tested \o Offline \in Seq(Names)
        /\ Elems(tested \o Offline) = Elems(tested) \cup Elems(Offline)
    BY <1>5, <2>1, ConcatElems
  <2> QED
    BY <1>1, <2>2, Pieces
<1>7. ASSUME NEW q \in CheckSet, NEW p, Before(checks, q, p)
      PROVE  Before(Program("verify"), q, p)
  <2>1. Before(linted, q, p)
    BY <1>1, <1>2, <1>7, Pieces, ConcatBefore
  <2>2. Before(tested, q, p)
    BY <1>1, <1>4, <1>7, <2>1, Pieces, ConcatBefore
  <2>3. q \in Elems(tested)
    BY <1>4, <1>5, <1>7
  <2>4. Before(tested \o Offline, q, p)
    <3>1. Offline \in Seq(Names)
      BY Pieces
    <3> QED
      BY <1>5, <2>2, <2>3, <3>1, ConcatBefore
  <2> QED
    BY <1>1, <2>4
<1>8. Before(Program("verify"), "test", "coverage")
  <2>1. Before(linted, "test", "coverage")
    BY <1>4, AbsentBefore DEF CheckSet, Formatters, Analyzers
  <2>2. Before(tested, "test", "coverage")
    BY <1>1, <1>4, <2>1, Pieces, ConcatBefore
  <2>3. Before(tested \o Offline, "test", "coverage")
    <3>1. Offline \in Seq(Names) /\ "coverage" \notin Elems(Offline)
      BY Pieces
    <3>2. Before(Offline, "test", "coverage")
      BY <3>1, AbsentBefore
    <3> QED
      BY <1>5, <2>2, <3>1, <3>2, ConcatBefore
  <2> QED
    BY <1>1, <2>3
<1>9. ASSUME NEW r \in Relies PROVE r[1] \in CheckSet
  BY DEF Relies, CheckSet
<1>10. "export" \in CheckSet
  BY DEF CheckSet
<1>11. \A r \in Relies : Before(Program("verify"), r[1], r[2])
  BY <1>3, <1>7, <1>9
<1>12. Before(Program("verify"), "export", "vendor")
  BY <1>3, <1>7, <1>10
<1>13. Elems(Program("verify")) = VerifySet
  <2>1. Elems(Program("verify"))
          = ((CheckSet \cup Analyzers) \cup {"profile", "test", "gatetest", "coverage", "leave"})
              \cup {"offlinetest", "offlinebuild"}
    BY <1>4, <1>5, <1>6
  <2>2. "leave" \in CheckSet
    BY DEF CheckSet
  <2> QED
    BY <2>1, <2>2 DEF VerifySet
<1> QED
  BY <1>6, <1>8, <1>11, <1>12, <1>13

\* The program of both modes that rehearse a release.
LEMMA ReleasingProgram ==
  ASSUME NEW m \in Releasing
  PROVE  /\ Program(m) \in Seq(Names) /\ Len(Program(m)) = 10
         /\ Program(m)[1] = "gomod" /\ Program(m)[2] = "releasetools"
         /\ Program(m)[3] = "workflow" /\ Program(m)[4] = "rehearsal"
         /\ Program(m)[5] = "plan" /\ Program(m)[6] = "first" /\ Program(m)[7] = "second"
         /\ Program(m)[8] = "compare" /\ Program(m)[9] = "validate"
         /\ Program(m)[10] = "leave"
<1> DEFINE s == Identity
           t == Rehearsal
           p == Program(m)
<1>1. p = s \o t
  BY DEF Program, GateProgram, Lines, Releasing
<1>2. Len(s) = 3 /\ s[1] = "gomod" /\ s[2] = "releasetools" /\ s[3] = "workflow"
  BY DEF Identity
<1>3. /\ Len(t) = 7 /\ t[1] = "rehearsal" /\ t[2] = "plan" /\ t[3] = "first"
      /\ t[4] = "second" /\ t[5] = "compare" /\ t[6] = "validate" /\ t[7] = "leave"
  BY DEF Rehearsal
<1>4. s \in Seq(Names) /\ t \in Seq(Names)
  BY Pieces
<1> HIDE DEF s, t, p
<1>5. /\ p \in Seq(Names) /\ Len(p) = 10
      /\ \A i \in 1..10 : p[i] = IF i <= 3 THEN s[i] ELSE t[i - 3]
  <2>1. /\ s \o t \in Seq(Names) /\ Len(s \o t) = Len(s) + Len(t)
        /\ \A i \in 1..(Len(s) + Len(t)) :
             (s \o t)[i] = IF i <= Len(s) THEN s[i] ELSE t[i - Len(s)]
    BY <1>4, ConcatProperties
  <2>2. Len(s) + Len(t) = 10
    BY <1>2, <1>3
  <2> QED
    BY <1>1, <1>2, <2>1, <2>2
<1>6. p[1] = s[1] /\ p[2] = s[2] /\ p[3] = s[3]
  BY <1>5
<1>7. /\ p[4] = t[1] /\ p[5] = t[2] /\ p[6] = t[3] /\ p[7] = t[4] /\ p[8] = t[5]
      /\ p[9] = t[6] /\ p[10] = t[7]
  BY <1>5
<1>8. /\ p \in Seq(Names) /\ Len(p) = 10
      /\ p[1] = "gomod" /\ p[2] = "releasetools" /\ p[3] = "workflow" /\ p[4] = "rehearsal"
      /\ p[5] = "plan" /\ p[6] = "first" /\ p[7] = "second" /\ p[8] = "compare"
      /\ p[9] = "validate" /\ p[10] = "leave"
  BY <1>2, <1>3, <1>5, <1>6, <1>7
<1> QED
  BY <1>8 DEF p

LEMMA LineProgram ==
  ASSUME NEW m \in Lines
  PROVE  /\ Program(m) \in Seq(Names) /\ Len(Program(m)) = 8
         /\ Program(m)[1] = "contract" /\ Program(m)[2] = "minimum"
         /\ Program(m)[3] = "copy" /\ Program(m)[4] = "require"
         /\ Program(m)[5] = "resolve" /\ Program(m)[6] = "list" /\ Program(m)[7] = "vet"
         /\ Program(m)[8] = "test"
BY DEF Program, CompatProgram, Names

LEMMA FormatProgram ==
  /\ Program("fmt") \in Seq(Names) /\ Len(Program("fmt")) = 2
  /\ Program("fmt")[1] = "goimports" /\ Program("fmt")[2] = "gofumpt"
BY DEF Program, GateProgram, Formatting, Lines, Names

LEMMA ProgramType ==
  ASSUME NEW m \in AllModes
  PROVE  Program(m) \in Seq(Names) /\ Len(Program(m)) \in Nat
<1>1. Program(m) \in Seq(Names)
  BY CheckProgram, VerifyProgram, ReleasingProgram, LineProgram, FormatProgram
  DEF AllModes, Releasing, Lines
<1> QED
  BY <1>1, LenProperties
-------------------------------------------------------------------------------
(* The invariant as a part about the checkout and one part for every job *)

FileNames == {"mod", "sum", "vendor", "coverage", "rehearsal"}

World ==
  /\ {tree.gomod, head.gomod} \subseteq {content.gomod : content \in Trees}
  /\ litter \subseteq Jobs \X FileNames
  /\ failed \cup disturbed \cup hit \subseteq Jobs
  /\ ShapeInv

\* Of one job: it is in its program, and what it has returned is right.
TypeInv(j) ==
  /\ mode[j] \in Modes[j] \cup {Null}
  /\ j \in Running => at[j] \in 1..End(j)
  /\ reported[j] \subseteq Files(j)
  /\ j \in failed \cup disturbed \cup hit => mode[j] # Null
PassedInv(j) ==
  Returned(j, "passed") /\ Undisturbed(j) /\ mode[j] \in Lines \cup {"fmt", "check", "verify"}
    => Meets(mode[j], seen[j])
FailedInv(j) ==
  Returned(j, "failed") /\ Undisturbed(j) /\ j \notin hit
      /\ mode[j] \in Lines \cup {"check", "verify"}
    => ~Meets(mode[j], seen[j])
LeftInv(j) ==
  result[j] \in {"passed", "failed"} =>
    /\ Files(j) \subseteq reported[j]
    /\ result[j] = "passed" => reported[j] \subseteq {"vendor", "rehearsal"}

JobInv(j) ==
  /\ TypeInv(j) /\ ResultInv(j) /\ WarningInv(j) /\ GateInv(j) /\ LineInv(j)
  /\ RehearsalInv(j) /\ DeservedInv(j) /\ PassedInv(j) /\ FailedInv(j) /\ LeftInv(j)

JobsInv == \A j \in Jobs : JobInv(j)

LEMMA WorldAndJobs == IInv <=> World /\ JobsInv
<1>1. TypeOK /\ ShapeInv <=> World /\ \A j \in Jobs : TypeInv(j)
  BY DEF TypeOK, World, TypeInv, FileNames, Running
<1>2. /\ PassedMeansVerified <=> \A j \in Jobs : PassedInv(j)
      /\ FailureIsDeserved <=> \A j \in Jobs : FailedInv(j)
      /\ LeftoversReported <=> \A j \in Jobs : LeftInv(j)
  BY DEF PassedMeansVerified, FailureIsDeserved, LeftoversReported, PassedInv, FailedInv,
         LeftInv
<1> QED
  BY <1>1, <1>2 DEF IInv, JobInv, JobsInv

LEMMA Parts == IInv <=> World /\ \A j \in Jobs : JobInv(j)
BY WorldAndJobs DEF JobsInv

\* A job that is in the middle of its program has a mode and a place.
LEMMA Place ==
  ASSUME IInv, NEW j \in Running
  PROVE  /\ j \in Jobs /\ mode[j] \in AllModes /\ mode[j] # Null /\ result[j] = "none"
         /\ Program(mode[j]) \in Seq(Names) /\ Len(Program(mode[j])) \in Nat
         /\ End(j) = Len(Program(mode[j])) + 1
         /\ at[j] \in Nat /\ 1 <= at[j] /\ at[j] <= End(j)
         /\ at[j] # End(j) => Phase(j) = Program(mode[j])[at[j]]
         /\ at[j] = End(j) => Phase(j) = "leave"
<1>1. j \in Jobs /\ mode[j] # Null /\ result[j] = "none"
  BY DEF Running
<1>2. mode[j] \in Modes[j] /\ at[j] \in 1..End(j)
  BY <1>1 DEF IInv, TypeOK
<1>3. mode[j] \in AllModes
  BY <1>1, <1>2, ModesAssumption
<1>4. Program(mode[j]) \in Seq(Names) /\ Len(Program(mode[j])) \in Nat
  BY <1>3, ProgramType
<1> QED
  BY <1>1, <1>2, <1>3, <1>4 DEF End, Phase

-------------------------------------------------------------------------------
(* What one job does leaves the others as they are *)

\* k has not moved, and the tree is the same or k is among the disturbed.
Same(k) ==
  /\ mode'[k] = mode[k] /\ at'[k] = at[k] /\ reported'[k] = reported[k]
  /\ result'[k] = result[k] /\ seen'[k] = seen[k] /\ Files(k)' = Files(k)
  /\ k \in failed' <=> k \in failed
  /\ k \in hit' <=> k \in hit
  /\ k \in disturbed => k \in disturbed'
  /\ k \in disturbed' => k \in disturbed \/ k \in Running
  /\ contract'[k] = contract[k] /\ modfile'[k] = modfile[k]
  /\ candidate'[k] = candidate[k] /\ measured'[k] = measured[k]
  /\ planned'[k] = planned[k] /\ rendered'[k] = rendered[k]
  /\ tree' = tree \/ (k \in Running => k \in disturbed')

LEMMA Kept ==
  ASSUME NEW k \in Jobs, JobInv(k), Same(k), cache \subseteq cache',
         faults \in Nat, faults' \in Nat, faults <= faults'
  PROVE  JobInv(k)'
<1>1. k \in Running' <=> k \in Running
  BY DEF Same, Running
<1>2. End(k)' = End(k)
  BY DEF Same, End
<1>3. TypeInv(k)'
  BY <1>1, <1>2 DEF JobInv, TypeInv, Same, Running
<1>4. ResultInv(k)' /\ WarningInv(k)'
  BY <1>2 DEF JobInv, ResultInv, WarningInv, Same
<1>5. /\ Sound(k)' => Sound(k) /\ tree' = tree
      /\ AtFault(k)' => AtFault(k) /\ tree' = tree
  BY <1>1 DEF Sound, AtFault, Steady, Same
<1>6. GateInv(k)'
  <2> SUFFICES ASSUME Sound(k)', mode[k] \notin Lines
               PROVE  \A phase \in Done(k)' : Told(k, phase)'
    BY DEF GateInv, Same
  <2>1. Sound(k) /\ tree' = tree
    BY <1>5
  <2>2. Done(k)' = Done(k)
    BY DEF Done, Same
  <2>3. ASSUME NEW phase \in Done(k) PROVE Told(k, phase)'
    <3>1. Told(k, phase)
      BY <2>1, <2>3 DEF JobInv, GateInv
    <3> QED
      BY <2>1, <3>1 DEF Told, Fetched, Same, canonicalModule, releaseToolAuthorized
  <2> QED
    BY <2>2, <2>3
<1>7. LineInv(k)'
  BY <1>5 DEF JobInv, LineInv, Same
<1>8. RehearsalInv(k)'
  <2> SUFFICES ASSUME k \notin failed, mode[k] \in Releasing, result[k] \in {"none", "passed"}
               PROVE  RehearsalInv(k)'
    BY DEF RehearsalInv, Same
  <2>1. RehearsalInv(k)
    BY DEF JobInv
  <2>2. /\ faults >= 1 => faults' >= 1
        /\ faults >= 2 => faults' >= 2
    OBVIOUS
  <2> QED
    BY <2>1, <2>2 DEF RehearsalInv, Same
<1>9. DeservedInv(k)'
  BY <1>5 DEF JobInv, DeservedInv, Same
<1>10. PassedInv(k)' /\ FailedInv(k)' /\ LeftInv(k)'
  BY DEF JobInv, PassedInv, FailedInv, LeftInv, Returned, Undisturbed, Same
<1> QED
  BY <1>3, <1>4, <1>6, <1>7, <1>8, <1>9, <1>10 DEF JobInv
-------------------------------------------------------------------------------
(* The job that moves: it goes to the next phase, or leaves with an error *)

\* What a step of a job that is not over keeps of it.
Goes(j) ==
  /\ mode'[j] = mode[j] /\ result'[j] = result[j] /\ tree' = tree
  /\ j \in disturbed' <=> j \in disturbed
  /\ j \in hit => j \in hit'
  /\ reported'[j] \subseteq Files(j)'

LEMMA Erred ==
  ASSUME IInv, NEW j \in Running, Goes(j), j \in failed', at'[j] \in 1..End(j),
         \/ j \in hit'
         \/ Sound(j) /\ mode[j] \in Lines \cup {"check", "verify"} => ~Meets(mode[j], tree)
  PROVE  JobInv(j)'
<1> USE DEF Goes
<1>1. j \in Jobs /\ mode[j] # Null /\ result[j] = "none"
  BY Place
<1>2. JobInv(j)
  BY <1>1, Parts
<1>3. TypeInv(j)'
  BY <1>1, <1>2 DEF JobInv, TypeInv, End
<1>4. ResultInv(j)' /\ WarningInv(j)' /\ PassedInv(j)' /\ FailedInv(j)' /\ LeftInv(j)'
  BY <1>1 DEF ResultInv, WarningInv, PassedInv, FailedInv, LeftInv, Returned
<1>5. GateInv(j)' /\ LineInv(j)' /\ RehearsalInv(j)'
  BY DEF GateInv, LineInv, RehearsalInv, Sound
<1>6. DeservedInv(j)'
  <2> SUFFICES ASSUME AtFault(j)', mode[j] \in Lines \cup {"check", "verify"}
               PROVE  ~Meets(mode[j], tree)
    BY DEF DeservedInv, Meets, Checked, Declared
  <2>1. Steady(j) /\ j \notin hit /\ j \notin hit'
    BY DEF AtFault, Steady, Running
  <2>2. CASE j \in failed
    BY <1>2, <2>1, <2>2 DEF JobInv, DeservedInv, AtFault
  <2>3. CASE j \notin failed
    BY <2>1, <2>3 DEF Sound
  <2> QED
    BY <2>2, <2>3
<1> QED
  BY <1>3, <1>4, <1>5, <1>6 DEF JobInv

LEMMA DoneGrows ==
  ASSUME IInv, NEW j \in Running, at[j] # End(j), at'[j] = at[j] + 1, mode'[j] = mode[j]
  PROVE  Done(j)' = Done(j) \cup {Phase(j)}
<1>1. at[j] \in Nat /\ 1 <= at[j] /\ Phase(j) = Program(mode[j])[at[j]]
  BY Place
<1>2. 1..(at'[j] - 1) = 1..(at[j] - 1) \cup {at[j]}
  BY <1>1
<1> QED
  BY <1>1, <1>2 DEF Done

LEMMA Advanced ==
  ASSUME IInv, NEW j \in Running, Goes(j), at[j] # End(j), at'[j] = at[j] + 1,
         j \in failed' <=> j \in failed, reported'[j] = reported[j],
         cache \subseteq cache', candidate'[j] \in {candidate[j], tree.gomod.deps},
         measured'[j] \in {measured[j], tree.coverage},
         Sound(j) /\ mode[j] \notin Lines => \A phase : phase = Phase(j) => Told(j, phase)',
         LineInv(j)', RehearsalInv(j)'
  PROVE  JobInv(j)'
<1> USE DEF Goes
<1>1. /\ j \in Jobs /\ mode[j] # Null /\ result[j] = "none"
      /\ at[j] \in Nat /\ 1 <= at[j] /\ at[j] <= End(j) /\ End(j) \in Nat
  BY Place
<1>2. JobInv(j)
  BY <1>1, Parts
<1>3. TypeInv(j)'
  <2>1. End(j)' = End(j) /\ at'[j] \in 1..End(j)
    BY <1>1 DEF End
  <2> QED
    BY <1>1, <1>2, <2>1 DEF JobInv, TypeInv
<1>4. ResultInv(j)' /\ WarningInv(j)' /\ PassedInv(j)' /\ FailedInv(j)' /\ LeftInv(j)'
  BY <1>1, <1>2 DEF JobInv, ResultInv, WarningInv, PassedInv, FailedInv, LeftInv, Returned
<1>5. GateInv(j)'
  <2> SUFFICES ASSUME Sound(j)', mode[j] \notin Lines
               PROVE  \A phase \in Done(j)' : Told(j, phase)'
    BY DEF GateInv
  <2>1. Sound(j)
    BY DEF Sound, Steady, Running
  <2>2. ASSUME NEW phase \in Done(j) PROVE Told(j, phase)'
    <3>1. Told(j, phase)
      BY <1>2, <2>1, <2>2 DEF JobInv, GateInv
    <3> QED
      BY <3>1 DEF Told, Fetched, canonicalModule, releaseToolAuthorized
  <2> QED
    BY <2>1, <2>2, DoneGrows
<1>6. DeservedInv(j)'
  BY <1>2 DEF JobInv, DeservedInv, AtFault, Steady, Running
<1> QED
  BY <1>3, <1>4, <1>5, <1>6 DEF JobInv

\* The phases of the lines and of the gate are not each other's.
LEMMA GatePhase ==
  ASSUME IInv, NEW j \in Running,
         Phase(j) \notin {"contract", "minimum", "copy", "require", "resolve", "list", "vet",
                          "test", "leave"}
  PROVE  mode[j] \notin Lines /\ at[j] # End(j)
<1>1. SUFFICES ASSUME mode[j] \in Lines PROVE FALSE
  BY Place
<1> DEFINE program == Program(mode[j])
<1>2. /\ Len(program) = 8 /\ program[1] = "contract" /\ program[2] = "minimum"
      /\ program[3] = "copy" /\ program[4] = "require" /\ program[5] = "resolve"
      /\ program[6] = "list" /\ program[7] = "vet" /\ program[8] = "test"
  BY <1>1, LineProgram
<1>3. at[j] \in Nat /\ 1 <= at[j] /\ at[j] <= Len(program) + 1 /\ at[j] # End(j)
      /\ End(j) = Len(program) + 1 /\ Phase(j) = program[at[j]]
  BY Place
<1> HIDE DEF program
<1>4. at[j] \in 1..8
  BY <1>2, <1>3
<1> QED
  BY <1>2, <1>3, <1>4

\* A rehearsal learns nothing about its commit and its outputs in other phases.
LEMMA RehearsalIdle ==
  ASSUME IInv, NEW j \in Running, Goes(j), at[j] # End(j), at'[j] = at[j] + 1,
         Phase(j) \notin {"plan", "first", "second", "compare"},
         j \in failed' <=> j \in failed, planned'[j] = planned[j], rendered'[j] = rendered[j],
         faults' \in Nat, faults <= faults'
  PROVE  RehearsalInv(j)'
<1> USE DEF Goes
<1>1. SUFFICES ASSUME j \notin failed, mode[j] \in Releasing PROVE RehearsalInv(j)'
  BY DEF RehearsalInv
<1> DEFINE program == Program(mode[j])
<1>2. /\ at[j] \in 1..10 /\ j \in Jobs /\ result[j] = "none" /\ Phase(j) = program[at[j]]
  BY <1>1, Place, ReleasingProgram
<1>3. at[j] \in 1..4 \cup 9..10
  <2>1. /\ program[5] = "plan" /\ program[6] = "first" /\ program[7] = "second"
        /\ program[8] = "compare"
    BY <1>1, ReleasingProgram
  <2> HIDE DEF program
  <2> QED
    BY <1>2, <2>1
<1>4. RehearsalInv(j)
  BY <1>2, Parts DEF JobInv
<1>5. CASE at[j] \in 1..4
  BY <1>1, <1>2, <1>4, <1>5 DEF RehearsalInv
<1>6. CASE at[j] \in 9..10
  <2>1. faults \in Nat
    BY DEF IInv, ShapeInv
  <2> QED
    BY <1>1, <1>2, <1>4, <1>6, <2>1 DEF RehearsalInv
<1> QED
  BY <1>3, <1>5, <1>6

\* What the phases before it have done for a phase of the gate.
LEMMA Provided ==
  ASSUME IInv, NEW j \in Running, Sound(j), mode[j] \notin Lines, at[j] # End(j)
  PROVE  /\ mode[j] \in {"check", "verify"} => Needs(Phase(j)) \subseteq cache
         /\ Phase(j) = "vendor" => candidate[j] = tree.gomod.deps
         /\ Phase(j) = "coverage" => measured[j] = tree.coverage
         /\ mode[j] = "check" => Phase(j) \in CheckSet
         /\ mode[j] = "verify" => Phase(j) \in VerifySet
<1> DEFINE program == Program(mode[j])
<1>1. /\ j \in Jobs /\ mode[j] \in AllModes /\ Len(program) \in Nat
      /\ at[j] \in 1..Len(program) /\ Phase(j) = program[at[j]]
  BY Place
<1>2. ASSUME NEW phase \in Done(j) PROVE Told(j, phase)
  BY <1>1, <1>2, Parts DEF JobInv, GateInv
<1>3. ASSUME NEW q, Before(program, q, Phase(j)) PROVE q \in Done(j)
  <2>1. PICK k \in 1..(at[j] - 1) : program[k] = q
    BY <1>1, <1>3 DEF Before
  <2> QED
    BY <2>1 DEF Done
<1>4. Phase(j) \in Elems(program)
  BY <1>1 DEF Elems
<1>5. mode[j] = "check" => Phase(j) \in CheckSet
  BY <1>4, CheckProgram
<1>6. mode[j] = "verify" => Phase(j) \in VerifySet
  BY <1>4, VerifyProgram
<1> HIDE DEF program
<1>7. ASSUME mode[j] \in {"check", "verify"}, NEW group, <<group, Phase(j)>> \in Relies
      PROVE  Fetched(group) \in cache
  <2>1. Before(program, group, Phase(j))
    <3>1. \A r \in Relies : Before(program, r[1], r[2])
      BY <1>7, CheckProgram, VerifyProgram DEF program
    <3> QED
      BY <1>7, <3>1
  <2>2. group \in Done(j)
    BY <1>3, <2>1
  <2>3. group \in {"modules", "graph", "tools"}
    BY <1>7 DEF Relies
  <2> QED
    BY <1>2, <2>2, <2>3 DEF Told
<1>8. ASSUME mode[j] \in {"check", "verify"} PROVE Needs(Phase(j)) \subseteq cache
  <2>1. CASE Phase(j) \in Formatters \cup Analyzers
    <3>1. <<"tools", Phase(j)>> \in Relies
      BY <2>1 DEF Relies
    <3> QED
      BY <1>7, <1>8, <2>1, <3>1 DEF Needs, Formatters, Analyzers
  <2>2. CASE Phase(j) = "tidy"
    <3>1. <<"modules", Phase(j)>> \in Relies /\ <<"graph", Phase(j)>> \in Relies
      BY <2>2 DEF Relies
    <3> QED
      BY <1>7, <1>8, <2>2, <3>1 DEF Needs, Formatters, Analyzers
  <2>3. CASE Phase(j) = "export"
    <3>1. <<"modules", Phase(j)>> \in Relies
      BY <2>3 DEF Relies
    <3> QED
      BY <1>7, <1>8, <2>3, <3>1 DEF Needs, Formatters, Analyzers
  <2> QED
    BY <2>1, <2>2, <2>3 DEF Needs
<1>9. ASSUME Phase(j) \in {"vendor", "coverage"} PROVE mode[j] \in {"check", "verify"}
  <2>1. mode[j] # "fmt"
    BY <1>1, <1>9, FormatProgram DEF program
  <2>2. mode[j] \notin Releasing
    <3>1. SUFFICES ASSUME mode[j] \in Releasing PROVE FALSE
      OBVIOUS
    <3>2. /\ Len(program) = 10 /\ program[1] = "gomod" /\ program[2] = "releasetools"
          /\ program[3] = "workflow" /\ program[4] = "rehearsal" /\ program[5] = "plan"
          /\ program[6] = "first" /\ program[7] = "second" /\ program[8] = "compare"
          /\ program[9] = "validate" /\ program[10] = "leave"
      BY <3>1, ReleasingProgram DEF program
    <3> QED
      BY <1>1, <1>9, <3>2
  <2> QED
    BY <1>1, <2>1, <2>2 DEF AllModes, Lines, Releasing
<1>10. ASSUME Phase(j) = "vendor" PROVE candidate[j] = tree.gomod.deps
  <2>1. Before(program, "export", Phase(j))
    BY <1>9, <1>10, CheckProgram, VerifyProgram DEF program
  <2> QED
    BY <1>2, <1>3, <2>1 DEF Told
<1>11. ASSUME Phase(j) = "coverage" PROVE measured[j] = tree.coverage
  <2>1. mode[j] = "verify"
    BY <1>5, <1>9, <1>11 DEF CheckSet, Formatters
  <2>2. Before(program, "test", Phase(j))
    BY <1>11, <2>1, VerifyProgram DEF program
  <2> QED
    BY <1>2, <1>3, <2>2 DEF Told
<1> QED
  BY <1>5, <1>6, <1>8, <1>10, <1>11
-------------------------------------------------------------------------------
(* The checkout and the other jobs after a step of j *)

LEMMA FilesSame == ASSUME UNCHANGED litter PROVE \A k \in Jobs : Files(k)' = Files(k)
BY DEF Files

LEMMA FilesMade ==
  ASSUME NEW j \in Jobs, NEW file, litter' = litter \cup {<<j, file>>}
  PROVE  /\ Files(j)' = Files(j) \cup {file}
         /\ \A k \in Jobs \ {j} : Files(k)' = Files(k)
<1>1. /\ {f \in litter' : f[1] = j} = {f \in litter : f[1] = j} \cup {<<j, file>>}
      /\ \A k \in Jobs \ {j} : {f \in litter' : f[1] = k} = {f \in litter : f[1] = k}
  OBVIOUS
<1>2. <<j, file>>[2] = file
  OBVIOUS
<1> QED
  BY <1>1, <1>2 DEF Files

LEMMA FilesRemoved ==
  ASSUME litter \subseteq Jobs \X FileNames, NEW j \in Jobs, NEW file,
         litter' = litter \ {<<j, file>>}
  PROVE  /\ Files(j)' = Files(j) \ {file}
         /\ \A k \in Jobs \ {j} : Files(k)' = Files(k)
<1>1. ASSUME NEW f \in litter, f[1] = j, f[2] = file PROVE f = <<j, file>>
  BY <1>1
<1> QED
  BY <1>1 DEF Files

Around(j) ==
  /\ World'
  /\ \A k \in Jobs \ {j} : Same(k)
  /\ cache \subseteq cache' /\ faults' \in Nat /\ faults <= faults'

LEMMA JobMoves ==
  ASSUME IInv, NEW j \in Jobs, Around(j), JobInv(j)'
  PROVE  IInv'
<1>1. \A k \in Jobs \ {j} : JobInv(k)'
  <2>1. World /\ \A k \in Jobs : JobInv(k)
    BY Parts
  <2> QED
    BY <2>1, Kept DEF Around, World, ShapeInv
<1>2. World' /\ JobsInv'
  BY <1>1 DEF Around, JobsInv
<1>3. IInv' <=> World' /\ JobsInv'
  BY WorldAndJobs, PTL
<1> QED
  BY <1>2, <1>3

\* A phase passes or fails, and perhaps meets a fault; j may make a file and
\* name it, and know something new.
Works(j) ==
  /\ UNCHANGED <<repository, mode, result, seen, disturbed>>
  /\ \E n : Goto(j, n)
  /\ failed' \in {failed, failed \cup {j}}
  /\ \/ UNCHANGED litter
     \/ \E file \in FileNames : litter' = litter \cup {<<j, file>>}
  /\ \E F : reported' = [reported EXCEPT ![j] = F]
  /\ \/ UNCHANGED <<hit, faults>>
     \/ Fault(j)
  /\ \E c : contract' = [contract EXCEPT ![j] = c]
  /\ \E c : modfile' = [modfile EXCEPT ![j] = c]
  /\ \E c : candidate' = [candidate EXCEPT ![j] = c]
  /\ \E c : measured' = [measured EXCEPT ![j] = c]
  /\ \E c : planned' = [planned EXCEPT ![j] = c]
  /\ \E c : rendered' = [rendered EXCEPT ![j] = c]
  /\ cache \subseteq cache'

LEMMA WorkAround ==
  ASSUME IInv, NEW j \in Jobs, Works(j)
  PROVE  Around(j)
<1>1. World
  BY Parts
<1>2. /\ PerJob(mode) /\ PerJob(at) /\ PerJob(reported) /\ PerJob(result) /\ PerJob(seen)
      /\ PerJob(contract) /\ PerJob(modfile)
      /\ PerJob(candidate) /\ PerJob(measured) /\ PerJob(planned) /\ PerJob(rendered)
      /\ tree \in Contents /\ head \in Contents /\ edits \in Nat /\ faults \in Nat
  BY <1>1 DEF World, ShapeInv
<1>3. faults' \in Nat /\ faults <= faults' /\ hit' \in {hit, hit \cup {j}}
  BY <1>2 DEF Works, Fault
<1>4. \A k \in Jobs \ {j} : Files(k)' = Files(k)
  BY FilesSame, FilesMade DEF Works
<1>5. ASSUME NEW k \in Jobs \ {j} PROVE Same(k)
  <2>1. /\ mode'[k] = mode[k] /\ result'[k] = result[k] /\ seen'[k] = seen[k]
        /\ tree' = tree /\ disturbed' = disturbed /\ at'[k] = at[k]
    BY <1>2 DEF Works, Goto, PerJob, repository
  <2>2. reported'[k] = reported[k] /\ contract'[k] = contract[k] /\ modfile'[k] = modfile[k]
    BY <1>2 DEF Works, PerJob
  <2>3. /\ candidate'[k] = candidate[k] /\ measured'[k] = measured[k]
        /\ planned'[k] = planned[k] /\ rendered'[k] = rendered[k]
    BY <1>2 DEF Works, PerJob
  <2>4. (k \in failed' <=> k \in failed) /\ (k \in hit' <=> k \in hit)
    BY <1>3 DEF Works
  <2> QED
    BY <1>4, <2>1, <2>2, <2>3, <2>4 DEF Same
<1>6. ShapeInv'
  <2>1. PerJob(mode)' /\ PerJob(at)' /\ PerJob(result)' /\ PerJob(seen)'
    BY <1>2 DEF Works, Goto, PerJob
  <2>2. PerJob(reported)' /\ PerJob(contract)' /\ PerJob(modfile)'
    BY <1>2 DEF Works, PerJob
  <2>3. PerJob(candidate)' /\ PerJob(measured)' /\ PerJob(planned)' /\ PerJob(rendered)'
    BY <1>2 DEF Works, PerJob
  <2> QED
    BY <1>2, <1>3, <2>1, <2>2, <2>3 DEF ShapeInv, Works, repository
<1>7. World'
  <2>1. litter' \subseteq Jobs \X FileNames
    BY <1>1 DEF World, Works
  <2> QED
    BY <1>1, <1>3, <1>6, <2>1 DEF World, Works, repository
<1> QED
  BY <1>3, <1>5, <1>7 DEF Around, Works
Passes(j) == at[j] # End(j) /\ Goto(j, at[j] + 1) /\ failed' = failed
Errs(j) == Goto(j, End(j)) /\ failed' = failed \cup {j}

LEMMA WorkGoes ==
  ASSUME IInv, NEW j \in Running, Works(j), reported'[j] \subseteq Files(j)'
  PROVE  Goes(j) /\ j \in Jobs /\ Around(j)
<1>1. j \in Jobs
  BY Place
<1>2. hit' \in {hit, hit \cup {j}}
  BY DEF Works, Fault
<1>3. Goes(j)
  BY <1>2 DEF Goes, Works, repository
<1> QED
  BY <1>1, <1>3, WorkAround

LEMMA WorkErrs ==
  ASSUME IInv, NEW j \in Running, Works(j), Errs(j), reported'[j] \subseteq Files(j)',
         \/ j \in hit'
         \/ Sound(j) /\ mode[j] \in Lines \cup {"check", "verify"} => ~Meets(mode[j], tree)
  PROVE  IInv'
<1>1. Goes(j) /\ j \in Jobs /\ Around(j)
  BY WorkGoes
<1>2. at'[j] = End(j) /\ j \in failed'
  BY <1>1 DEF Errs, Goto, IInv, ShapeInv, PerJob
<1>3. at'[j] \in 1..End(j)
  BY <1>2, Place
<1>4. JobInv(j)'
  BY <1>1, <1>2, <1>3, Erred
<1> QED
  BY <1>1, <1>4, JobMoves

LEMMA WorkPasses ==
  ASSUME IInv, NEW j \in Running, Works(j), Passes(j), UNCHANGED reported,
         candidate'[j] \in {candidate[j], tree.gomod.deps},
         measured'[j] \in {measured[j], tree.coverage},
         Sound(j) /\ mode[j] \notin Lines => \A phase : phase = Phase(j) => Told(j, phase)',
         LineInv(j)', RehearsalInv(j)'
  PROVE  IInv'
<1>1. j \in Jobs
  BY Place
<1>2. Files(j) \subseteq Files(j)'
  BY <1>1, FilesSame, FilesMade DEF Works
<1>3. reported'[j] \subseteq Files(j)'
  BY <1>1, <1>2 DEF IInv, TypeOK
<1>4. Goes(j) /\ Around(j)
  BY <1>3, WorkGoes
<1>5. at'[j] = at[j] + 1 /\ at[j] # End(j) /\ (j \in failed' <=> j \in failed)
  BY <1>1 DEF Passes, Goto, IInv, ShapeInv, PerJob
<1>6. cache \subseteq cache' /\ reported'[j] = reported[j]
  BY DEF Works
<1>7. JobInv(j)'
  BY <1>4, <1>5, <1>6, Advanced
<1> QED
  BY <1>1, <1>4, <1>7, JobMoves

\* The judgement of a phase.
LEMMA Judged ==
  ASSUME IInv, NEW j \in Running, NEW phase, NEW ok, phase # "leave", Judge(j, phase, ok)
  PROVE  /\ Phase(j) = phase /\ at[j] # End(j)
         /\ ok => Passes(j)
         /\ ~ok => Errs(j)
         /\ UNCHANGED <<tree, head, edits, litter, reported, mode, result, seen, disturbed,
                        hit, faults>>
<1>1. Phase(j) = phase
  BY DEF Judge
<1>2. at[j] # End(j)
  BY <1>1, Place
<1> QED
  BY <1>1, <1>2 DEF Judge, PassIf, Passes, Errs, Quiet, repository

\* j may learn something of its vendor tree or coverage, and nothing else.
Learns(j) ==
  /\ UNCHANGED compat
  /\ cache \subseteq cache'
  /\ \E c : candidate' = [candidate EXCEPT ![j] = c]
  /\ \E c : measured' = [measured EXCEPT ![j] = c]
  /\ UNCHANGED <<planned, rendered>>

LEMMA Unlearned ==
  ASSUME IInv, NEW j \in Jobs, UNCHANGED compat, UNCHANGED gate
  PROVE  Learns(j) /\ candidate'[j] = candidate[j] /\ measured'[j] = measured[j]
<1>1. PerJob(candidate) /\ PerJob(measured)
  BY DEF IInv, ShapeInv
<1>2. /\ candidate' = [candidate EXCEPT ![j] = candidate[j]]
      /\ measured' = [measured EXCEPT ![j] = measured[j]]
  BY <1>1 DEF PerJob, gate, found
<1> QED
  BY <1>2 DEF Learns, gate, found

LEMMA WorkJudged ==
  ASSUME IInv, NEW j \in Jobs, Learns(j), UNCHANGED <<tree, head, edits>>,
         UNCHANGED <<litter, reported, mode, result, seen, disturbed, hit, faults>>,
         Passes(j) \/ Errs(j)
  PROVE  Works(j)
<1>1. /\ \E n : Goto(j, n)
      /\ failed' \in {failed, failed \cup {j}}
  BY DEF Passes, Errs
<1>2. /\ PerJob(reported) /\ PerJob(contract) /\ PerJob(modfile)
      /\ PerJob(planned) /\ PerJob(rendered)
  BY DEF IInv, ShapeInv
<1>3. reported' = [reported EXCEPT ![j] = reported[j]]
  BY <1>2 DEF PerJob
<1>4. contract' = [contract EXCEPT ![j] = contract[j]]
  BY <1>2 DEF PerJob, Learns, compat
<1>5. modfile' = [modfile EXCEPT ![j] = modfile[j]]
  BY <1>2 DEF PerJob, Learns, compat
<1>6. planned' = [planned EXCEPT ![j] = planned[j]]
  BY <1>2 DEF PerJob, Learns
<1>7. rendered' = [rendered EXCEPT ![j] = rendered[j]]
  BY <1>2 DEF PerJob, Learns
<1> QED
  BY <1>1, <1>3, <1>4, <1>5, <1>6, <1>7 DEF Works, Learns, repository

\* A phase of the gate that judges the tree, outside a rehearsal's own phases.
LEMMA GateJudged ==
  ASSUME IInv, NEW j \in Running, NEW phase, NEW ok, Judge(j, phase, ok), Learns(j),
         phase \notin {"plan", "first", "second", "compare", "leave"}, mode[j] \notin Lines,
         candidate'[j] \in {candidate[j], tree.gomod.deps},
         measured'[j] \in {measured[j], tree.coverage},
         Sound(j) /\ ok => \A p : p = phase => Told(j, p)',
         Sound(j) /\ mode[j] \in {"check", "verify"} /\ ~ok => ~Meets(mode[j], tree)
  PROVE  IInv'
<1>1. /\ Phase(j) = phase /\ at[j] # End(j)
      /\ ok => Passes(j)
      /\ ~ok => Errs(j)
      /\ UNCHANGED <<tree, head, edits>>
      /\ UNCHANGED <<litter, reported, mode, result, seen, disturbed, hit, faults>>
  BY Judged
<1>2. j \in Jobs
  BY Place
<1>3. Works(j)
  BY <1>1, <1>2, WorkJudged
<1>4. reported'[j] \subseteq Files(j)'
  BY <1>1, <1>2, FilesSame DEF IInv, TypeOK
<1>5. CASE ~ok
  BY <1>1, <1>3, <1>4, <1>5, WorkErrs
<1>6. CASE ok
  <2>1. Goes(j) /\ Around(j)
    BY <1>3, <1>4, WorkGoes
  <2>2. /\ Passes(j) /\ at'[j] = at[j] + 1 /\ (j \in failed' <=> j \in failed)
        /\ planned'[j] = planned[j] /\ rendered'[j] = rendered[j]
    BY <1>1, <1>2, <1>6 DEF Passes, Goto, IInv, ShapeInv, PerJob, Learns
  <2>3. RehearsalInv(j)'
    BY <1>1, <2>1, <2>2, RehearsalIdle DEF Around
  <2>4. LineInv(j)'
    BY <1>1 DEF LineInv
  <2> QED
    BY <1>1, <1>3, <1>6, <2>2, <2>3, <2>4, WorkPasses
<1> QED
  BY <1>5, <1>6
-------------------------------------------------------------------------------
(* The phases of the gate *)

LEMMA IdentityKeeps ==
  ASSUME IInv, NEW j \in Running, CheckIdentity(j) \/ CheckWorkflow(j), UNCHANGED compat
  PROVE  IInv'
<1>1. UNCHANGED gate
  BY DEF CheckIdentity, CheckWorkflow
<1>2. Learns(j) /\ candidate'[j] = candidate[j] /\ measured'[j] = measured[j]
  BY <1>1, Place, Unlearned
<1>3. CASE Judge(j, "gomod", canonicalModule(tree.gomod))
  <2>1. Phase(j) = "gomod" /\ UNCHANGED tree
    BY <1>3, Judged
  <2>2. canonicalModule(tree.gomod) => \A p : p = "gomod" => Told(j, p)'
    BY <2>1 DEF Told, Formatters, Analyzers
  <2>3. mode[j] \in {"check", "verify"} /\ ~canonicalModule(tree.gomod) => ~Meets(mode[j], tree)
    BY DEF Meets, Lines, Checked, Declared, canonicalModule
  <2>4. mode[j] \notin Lines
    BY <2>1, GatePhase
  <2> QED
    BY <1>2, <1>3, <2>2, <2>3, <2>4, GateJudged
<1>4. CASE Judge(j, "releasetools", releaseToolAuthorized(tree.gomod))
  <2>1. Phase(j) = "releasetools" /\ UNCHANGED tree
    BY <1>4, Judged
  <2>2. releaseToolAuthorized(tree.gomod) => \A p : p = "releasetools" => Told(j, p)'
    BY <2>1 DEF Told, Formatters, Analyzers, releaseToolAuthorized
  <2>3. mode[j] \in {"check", "verify"} /\ ~releaseToolAuthorized(tree.gomod)
          => ~Meets(mode[j], tree)
    BY DEF Meets, Lines, Checked, Declared, releaseToolAuthorized
  <2>4. mode[j] \notin Lines
    BY <2>1, GatePhase
  <2> QED
    BY <1>2, <1>4, <2>2, <2>3, <2>4, GateJudged
<1>5. CASE CheckWorkflow(j)
  <2>1. Phase(j) = "workflow" /\ UNCHANGED tree /\ Judge(j, "workflow", "workflow" \in tree.ok)
    BY <1>5, Judged DEF CheckWorkflow
  <2>2. "workflow" \in tree.ok => \A p : p = "workflow" => Told(j, p)'
    BY <2>1 DEF Told, Formatters, Analyzers
  <2>3. mode[j] \in {"check", "verify"} /\ ~("workflow" \in tree.ok) => ~Meets(mode[j], tree)
    BY DEF Meets, Lines, Checked
  <2>4. mode[j] \notin Lines
    BY <2>1, GatePhase
  <2> QED
    BY <1>2, <2>1, <2>2, <2>3, <2>4, GateJudged
<1> QED
  BY <1>3, <1>4, <1>5 DEF CheckIdentity
LEMMA FetchKeeps ==
  ASSUME IInv, NEW j \in Running, Fetch(j), UNCHANGED compat
  PROVE  IInv'
<1>1. cache' = cache \cup {Fetched(Phase(j))} /\ UNCHANGED found /\ j \in Jobs
  BY Place DEF Fetch
<1>2. Learns(j) /\ candidate'[j] = candidate[j] /\ measured'[j] = measured[j]
  <2>1. PerJob(candidate) /\ PerJob(measured)
    BY DEF IInv, ShapeInv
  <2>2. /\ candidate' = [candidate EXCEPT ![j] = candidate[j]]
        /\ measured' = [measured EXCEPT ![j] = measured[j]]
    BY <1>1, <2>1 DEF PerJob, found
  <2> QED
    BY <1>1, <2>2 DEF Learns, found
<1>3. ASSUME NEW phase \in {"modules", "graph", "tools", "toolgraph"},
             Phase(j) = phase, UNCHANGED tree,
             phase = "toolgraph" => "toolgraph" \in tree.ok
      PROVE  \A p : p = phase => Told(j, p)'
  <2>1. Fetched(phase)' = Fetched(phase)
    BY <1>3 DEF Fetched
  <2>2. Fetched(phase)' \in cache'
    BY <1>1, <1>3, <2>1
  <2> QED
    BY <1>3, <2>2 DEF Told, Formatters, Analyzers
<1>4. ASSUME NEW group \in {"modules", "tools"}, Judge(j, group, TRUE) PROVE IInv'
  <2>1. Phase(j) = group /\ UNCHANGED tree
    BY <1>4, Judged
  <2>2. \A p : p = group => Told(j, p)'
    BY <1>3, <1>4, <2>1
  <2>3. mode[j] \notin Lines
    BY <1>4, <2>1, GatePhase
  <2> QED
    BY <1>2, <1>4, <2>2, <2>3, GateJudged
<1>5. CASE Judge(j, "graph", "tidy" \in tree.ok)
  <2>1. Phase(j) = "graph" /\ UNCHANGED tree
    BY <1>5, Judged
  <2>2. \A p : p = "graph" => Told(j, p)'
    BY <1>3, <2>1
  <2>3. mode[j] \in {"check", "verify"} /\ ~("tidy" \in tree.ok) => ~Meets(mode[j], tree)
    BY DEF Meets, Lines, Checked
  <2>4. mode[j] \notin Lines
    BY <2>1, GatePhase
  <2> QED
    BY <1>2, <1>5, <2>2, <2>3, <2>4, GateJudged
<1>6. CASE Judge(j, "toolgraph", "toolgraph" \in tree.ok)
  <2>1. Phase(j) = "toolgraph" /\ UNCHANGED tree
    BY <1>6, Judged
  <2>2. "toolgraph" \in tree.ok => \A p : p = "toolgraph" => Told(j, p)'
    BY <1>3, <2>1
  <2>3. mode[j] \in {"check", "verify"} /\ ~("toolgraph" \in tree.ok)
          => ~Meets(mode[j], tree)
    BY DEF Meets, Lines, Checked
  <2>4. mode[j] \notin Lines
    BY <2>1, GatePhase
  <2> QED
    BY <1>2, <1>6, <2>2, <2>3, <2>4, GateJudged
<1> QED
  BY <1>4, <1>5, <1>6 DEF Fetch

\* In "check" and "verify" no command lacks a module; and one that builds is refused
\* only when vendor/modules.txt lists other requirements.
LEMMA NeverUnready ==
  ASSUME IInv, NEW j \in Running, Sound(j), mode[j] \in {"check", "verify"}, at[j] # End(j),
         ~Ready(j)
  PROVE  Phase(j) \notin Formatters \cup {"tidy", "export"} /\ ~Meets(mode[j], tree)
<1>1. Needs(Phase(j)) \subseteq cache
  BY Provided DEF Lines
<1>2. Phase(j) \notin Formatters \cup {"tidy", "export"} /\ tree.listed # tree.gomod.deps
  BY <1>1 DEF Ready, Consistent
<1> QED
  BY <1>2 DEF Meets, Checked, Lines

\* A command of the gate that reads the tree in its phase, ready and content with it.
LEMMA CommandKeeps ==
  ASSUME IInv, NEW j \in Running, mode[j] \notin Lines, UNCHANGED compat, UNCHANGED gate,
         NEW phase \in Formatters \cup Analyzers
                         \cup {"tidy", "vet", "gatetest", "offlinetest", "offlinebuild"},
         Judge(j, phase, Ready(j) /\ phase \in tree.ok)
  PROVE  IInv'
<1>1. Learns(j) /\ candidate'[j] = candidate[j] /\ measured'[j] = measured[j]
  BY Place, Unlearned
<1>2. phase \notin {"plan", "first", "second", "compare", "leave", "test", "vendor",
                    "coverage", "modules", "graph", "tools", "toolgraph", "export",
                    "gomod", "releasetools"}
  BY DEF Formatters, Analyzers
<1>3. Phase(j) = phase /\ UNCHANGED tree /\ at[j] # End(j)
  BY <1>2, Judged
<1>4. phase \in tree.ok => \A p : p = phase => Told(j, p)'
  BY <1>2, <1>3 DEF Told
<1>5. ASSUME Sound(j), mode[j] \in {"check", "verify"}, ~(Ready(j) /\ phase \in tree.ok)
      PROVE  ~Meets(mode[j], tree)
  <2>1. CASE ~Ready(j)
    BY <1>3, <1>5, <2>1, NeverUnready
  <2>2. CASE mode[j] = "check" /\ phase \notin tree.ok
    <3>1. phase \in CheckSet
      BY <1>3, <1>5, <2>2, Provided
    <3>2. phase \in {"goimports", "gofumpt", "tidy", "vet"}
      BY <3>1 DEF CheckSet, Formatters, Analyzers
    <3> QED
      BY <2>2, <3>2 DEF Meets, Checked, Lines
  <2>3. CASE mode[j] = "verify" /\ phase \notin tree.ok
    BY <2>3 DEF Meets, Checked, Lines, Formatters
  <2> QED
    BY <1>5, <2>1, <2>2, <2>3
<1> QED
  BY <1>1, <1>2, <1>4, <1>5, GateJudged
LEMMA CommandsKeep ==
  ASSUME IInv, NEW j \in Running, CheckFormat(j) \/ Tidy(j) \/ Command(j), UNCHANGED compat
  PROVE  IInv'
<1>1. CASE CheckFormat(j)
  <2>1. PICK tool \in Formatters : Judge(j, tool, Ready(j) /\ tool \in tree.ok)
    BY <1>1 DEF CheckFormat
  <2>2. Phase(j) = tool
    BY <2>1 DEF Judge
  <2>3. mode[j] \notin Lines
    BY <2>2, GatePhase DEF Formatters
  <2> QED
    BY <1>1, <2>1, <2>3, CommandKeeps DEF CheckFormat
<1>2. CASE Tidy(j)
  <2>1. Judge(j, "tidy", Ready(j) /\ "tidy" \in tree.ok) /\ UNCHANGED gate
    BY <1>2 DEF Tidy
  <2>2. mode[j] \notin Lines
    BY <2>1, GatePhase DEF Judge
  <2> QED
    BY <2>1, <2>2, CommandKeeps
<1>3. CASE Command(j)
  <2>1. PICK phase \in {"vet", "gatetest", "offlinetest", "offlinebuild"} \cup Analyzers :
          Judge(j, phase, Ready(j) /\ phase \in tree.ok)
    BY <1>3 DEF Command
  <2>2. mode[j] \notin Lines /\ UNCHANGED gate
    BY <1>3 DEF Command
  <2> QED
    BY <2>1, <2>2, CommandKeeps
<1> QED
  BY <1>1, <1>2, <1>3

LEMMA CompareVendorKeeps ==
  ASSUME IInv, NEW j \in Running, CompareVendor(j), UNCHANGED compat
  PROVE  IInv'
<1> DEFINE ok == tree.vendored = candidate[j] /\ tree.listed = candidate[j]
<1>1. Judge(j, "vendor", ok) /\ UNCHANGED gate
  BY DEF CompareVendor
<1>2. Learns(j) /\ candidate'[j] = candidate[j] /\ measured'[j] = measured[j]
  BY <1>1, Place, Unlearned
<1>3. Phase(j) = "vendor" /\ UNCHANGED tree /\ at[j] # End(j)
  BY <1>1, Judged
<1>4. mode[j] \notin Lines
  BY <1>3, GatePhase
<1>5. Sound(j) => candidate[j] = tree.gomod.deps
  BY <1>3, <1>4, Provided
<1>6. Sound(j) /\ ok => \A p : p = "vendor" => Told(j, p)'
  BY <1>3, <1>5 DEF Told, Formatters, Analyzers
<1>7. Sound(j) /\ mode[j] \in {"check", "verify"} /\ ~ok => ~Meets(mode[j], tree)
  BY <1>5 DEF Meets, Checked, Lines
<1> QED
  BY <1>1, <1>2, <1>4, <1>6, <1>7, GateJudged

LEMMA CoverageKeeps ==
  ASSUME IInv, NEW j \in Running, MeasureCoverage(j) \/ RequireCoverage(j), UNCHANGED compat
  PROVE  IInv'
<1>1. j \in Jobs /\ PerJob(measured) /\ PerJob(candidate)
  BY Place DEF IInv, ShapeInv
<1>2. CASE MeasureCoverage(j)
  <2> DEFINE ok == Ready(j) /\ "test" \in tree.ok
  <2>1. /\ mode[j] \notin Lines /\ Judge(j, "test", ok)
        /\ measured' = [measured EXCEPT ![j] = tree.coverage]
        /\ UNCHANGED <<cache, candidate, planned, rendered>>
    BY <1>2 DEF MeasureCoverage
  <2>2. Learns(j) /\ candidate'[j] = candidate[j] /\ measured'[j] = tree.coverage
    <3>1. candidate' = [candidate EXCEPT ![j] = candidate[j]]
      BY <1>1, <2>1 DEF PerJob
    <3> QED
      BY <1>1, <2>1, <3>1 DEF Learns, PerJob
  <2>3. Phase(j) = "test" /\ UNCHANGED tree /\ at[j] # End(j)
    BY <2>1, Judged
  <2>4. ok => \A p : p = "test" => Told(j, p)'
    BY <2>2, <2>3 DEF Told, Formatters, Analyzers
  <2>5. ASSUME Sound(j), mode[j] \in {"check", "verify"}, ~ok PROVE ~Meets(mode[j], tree)
    <3>1. mode[j] = "verify"
      BY <2>1, <2>3, <2>5, Provided DEF CheckSet, Formatters
    <3>2. CASE ~Ready(j)
      BY <2>3, <2>5, <3>2, NeverUnready
    <3>3. CASE "test" \notin tree.ok
      BY <3>1, <3>3 DEF Meets, Lines
    <3> QED
      BY <2>5, <3>2, <3>3
  <2> QED
    BY <2>1, <2>2, <2>4, <2>5, GateJudged
<1>3. CASE RequireCoverage(j)
  <2> DEFINE ok == measured[j] >= minimumCoverage
  <2>1. Judge(j, "coverage", ok) /\ UNCHANGED gate
    BY <1>3 DEF RequireCoverage
  <2>2. Learns(j) /\ candidate'[j] = candidate[j] /\ measured'[j] = measured[j]
    BY <1>1, <2>1, Unlearned
  <2>3. Phase(j) = "coverage" /\ UNCHANGED tree /\ at[j] # End(j)
    BY <2>1, Judged
  <2>4. mode[j] \notin Lines
    BY <2>3, GatePhase
  <2>5. Sound(j) => measured[j] = tree.coverage
    BY <2>3, <2>4, Provided
  <2>6. Sound(j) /\ ok => \A p : p = "coverage" => Told(j, p)'
    BY <2>3, <2>5 DEF Told, Formatters, Analyzers, minimumCoverage
  <2>7. ASSUME Sound(j), mode[j] \in {"check", "verify"}, ~ok PROVE ~Meets(mode[j], tree)
    <3>1. mode[j] = "verify"
      BY <2>3, <2>4, <2>7, Provided DEF CheckSet, Formatters
    <3> QED
      BY <2>5, <2>7, <3>1 DEF Meets, Lines, minimumCoverage
  <2> QED
    BY <2>1, <2>2, <2>4, <2>6, <2>7, GateJudged
<1> QED
  BY <1>2, <1>3

LEMMA ValidateKeeps ==
  ASSUME IInv, NEW j \in Running, Validate(j), UNCHANGED compat
  PROVE  IInv'
<1>1. PICK ok : Judge(j, "validate", ok) /\ UNCHANGED gate
  BY DEF Validate
<1>2. Learns(j) /\ candidate'[j] = candidate[j] /\ measured'[j] = measured[j]
  BY <1>1, Place, Unlearned
<1>3. Phase(j) = "validate" /\ UNCHANGED tree /\ at[j] # End(j)
  BY <1>1, Judged
<1>4. mode[j] \notin Lines
  BY <1>3, GatePhase
<1>5. \A p : p = "validate" => Told(j, p)'
  BY DEF Told, Formatters, Analyzers
<1>6. ASSUME Sound(j), mode[j] \in {"check", "verify"} PROVE FALSE
  BY <1>3, <1>4, <1>6, Provided DEF CheckSet, VerifySet, Formatters, Analyzers
<1> QED
  BY <1>1, <1>2, <1>4, <1>5, <1>6, GateJudged
-------------------------------------------------------------------------------
(* Phases that make a file, and the phases of a rehearsal *)

LEMMA MakeKeeps ==
  ASSUME IInv, NEW j \in Running, Export(j) \/ MakeProfile(j) \/ MakeRehearsal(j),
         UNCHANGED compat
  PROVE  IInv'
<1>1. /\ PerJob(reported) /\ PerJob(contract) /\ PerJob(modfile) /\ PerJob(candidate)
      /\ PerJob(measured) /\ PerJob(planned) /\ PerJob(rendered) /\ PerJob(at)
      /\ j \in Jobs
  BY Place DEF IInv, ShapeInv
<1>2. PICK phase, file, ok :
        /\ phase \in {"export", "profile", "rehearsal"} /\ file \in FileNames
        /\ Make(j, phase, file, ok)
        /\ ok <=> (phase = "export" => Ready(j))
        /\ candidate' = [candidate EXCEPT ![j] =
                           IF phase = "export" THEN tree.gomod.deps ELSE @]
        /\ UNCHANGED <<cache, measured, planned, rendered>>
  <2>1. CASE Export(j)
    <3>1. "vendor" \in FileNames /\ "export" \in {"export", "profile", "rehearsal"}
      BY DEF FileNames
    <3> QED
      BY <2>1, <3>1 DEF Export
  <2>2. CASE MakeProfile(j)
    <3>1. "coverage" \in FileNames /\ "profile" \in {"export", "profile", "rehearsal"}
      BY DEF FileNames
    <3>2. candidate' = [candidate EXCEPT ![j] = candidate[j]]
      BY <1>1, <2>2 DEF MakeProfile, PerJob, gate, found
    <3> QED
      BY <2>2, <3>1, <3>2 DEF MakeProfile, gate, found
  <2>3. CASE MakeRehearsal(j)
    <3>1. "rehearsal" \in FileNames /\ "rehearsal" \in {"export", "profile", "rehearsal"}
      BY DEF FileNames
    <3>2. candidate' = [candidate EXCEPT ![j] = candidate[j]]
      BY <1>1, <2>3 DEF MakeRehearsal, PerJob, gate, found
    <3> QED
      BY <2>3, <3>1, <3>2 DEF MakeRehearsal, gate, found
  <2> QED
    BY <2>1, <2>2, <2>3
<1>3. /\ Phase(j) = phase /\ phase \in {"export", "profile", "rehearsal"}
      /\ mode[j] \notin Lines /\ at[j] # End(j)
      /\ litter' = litter \cup {<<j, file>>} /\ Files(j)' = Files(j) \cup {file}
      /\ UNCHANGED <<repository, reported, mode, result, seen, disturbed, hit, faults>>
  BY <1>1, <1>2, GatePhase, FilesMade DEF Make
<1>4. IF ok THEN Passes(j) ELSE Errs(j)
  BY <1>2, <1>3 DEF Make, PassIf, Passes, Errs
<1>5. Works(j)
  <2>1. /\ \E n : Goto(j, n)
        /\ failed' \in {failed, failed \cup {j}}
    BY <1>4 DEF Passes, Errs
  <2>2. contract' = [contract EXCEPT ![j] = contract[j]]
    BY <1>1 DEF PerJob, compat
  <2>3. modfile' = [modfile EXCEPT ![j] = modfile[j]]
    BY <1>1 DEF PerJob, compat
  <2>4. reported' = [reported EXCEPT ![j] = reported[j]]
    BY <1>1, <1>3 DEF PerJob
  <2>5. measured' = [measured EXCEPT ![j] = measured[j]]
    BY <1>1, <1>2 DEF PerJob
  <2>6. planned' = [planned EXCEPT ![j] = planned[j]]
    BY <1>1, <1>2 DEF PerJob
  <2>7. rendered' = [rendered EXCEPT ![j] = rendered[j]]
    BY <1>1, <1>2 DEF PerJob
  <2>8. \E c : candidate' = [candidate EXCEPT ![j] = c]
    BY <1>2
  <2> QED
    BY <1>2, <1>3, <2>1, <2>2, <2>3, <2>4, <2>5, <2>6, <2>7, <2>8 DEF Works
<1>6. reported'[j] \subseteq Files(j)'
  BY <1>1, <1>3 DEF IInv, TypeOK
<1>7. CASE ok
  <2>1. Goes(j) /\ Around(j)
    BY <1>5, <1>6, WorkGoes
  <2>2. /\ Passes(j) /\ at'[j] = at[j] + 1 /\ (j \in failed' <=> j \in failed)
        /\ planned'[j] = planned[j] /\ rendered'[j] = rendered[j]
    BY <1>1, <1>2, <1>4, <1>7 DEF Passes, Goto, PerJob
  <2>3. RehearsalInv(j)'
    BY <1>3, <2>1, <2>2, RehearsalIdle DEF Around
  <2>4. LineInv(j)'
    BY <1>3 DEF LineInv
  <2>5. /\ candidate'[j] \in {candidate[j], tree.gomod.deps}
        /\ phase = "export" => candidate'[j] = tree.gomod.deps
        /\ measured'[j] = measured[j]
    BY <1>1, <1>2 DEF PerJob
  <2>6. \A p : p = Phase(j) => Told(j, p)'
    BY <1>3, <2>5 DEF Told, Formatters, Analyzers, repository
  <2> QED
    BY <1>3, <1>5, <2>2, <2>3, <2>4, <2>5, <2>6, WorkPasses
<1>8. CASE ~ok
  <2>1. ASSUME Sound(j), mode[j] \in {"check", "verify"} PROVE FALSE
    BY <1>2, <1>3, <1>8, <2>1, NeverUnready
  <2> QED
    BY <1>3, <1>4, <1>5, <1>6, <1>8, <2>1, WorkErrs
<1> QED
  BY <1>7, <1>8

\* Where a rehearsal is.
LEMMA RehearsalPhase ==
  ASSUME IInv, NEW j \in Running, Phase(j) \in {"plan", "first", "second", "compare"}
  PROVE  /\ mode[j] \in Releasing /\ mode[j] \notin Lines /\ at[j] # End(j)
         /\ Program(mode[j])[1] = "gomod" /\ Program(mode[j])[2] = "releasetools"
         /\ Phase(j) = "plan" => at[j] = 5
         /\ Phase(j) = "first" => at[j] = 6
         /\ Phase(j) = "second" => at[j] = 7
         /\ Phase(j) = "compare" => at[j] = 8
<1> DEFINE program == Program(mode[j])
<1>1. mode[j] \notin Lines /\ at[j] # End(j)
  BY GatePhase
<1>2. mode[j] \in AllModes /\ at[j] \in 1..Len(program) /\ Phase(j) = program[at[j]]
  BY <1>1, Place
<1>3. mode[j] \notin {"check", "verify"}
  <2>1. Phase(j) \in Elems(program)
    BY <1>2 DEF Elems
  <2>2. Phase(j) \notin VerifySet /\ Phase(j) \notin CheckSet
    BY DEF VerifySet, CheckSet, Formatters, Analyzers
  <2> QED
    BY <2>1, <2>2, CheckProgram, VerifyProgram
<1>4. mode[j] # "fmt"
  BY <1>2, FormatProgram
<1>5. mode[j] \in Releasing
  BY <1>1, <1>2, <1>3, <1>4 DEF AllModes, Lines, Releasing
<1>6. /\ Len(program) = 10 /\ program[1] = "gomod" /\ program[2] = "releasetools"
      /\ program[3] = "workflow" /\ program[4] = "rehearsal" /\ program[5] = "plan"
      /\ program[6] = "first" /\ program[7] = "second" /\ program[8] = "compare"
      /\ program[9] = "validate" /\ program[10] = "leave"
  BY <1>5, ReleasingProgram
<1> HIDE DEF program
<1>7. /\ Phase(j) = "plan" => at[j] = 5
      /\ Phase(j) = "first" => at[j] = 6
      /\ Phase(j) = "second" => at[j] = 7
      /\ Phase(j) = "compare" => at[j] = 8
  BY <1>2, <1>6
<1> QED
  BY <1>1, <1>5, <1>6, <1>7 DEF program

\* A phase of a rehearsal keeps the invariant when its own part is kept.
LEMMA RehearsalWork ==
  ASSUME IInv, NEW j \in Running, Phase(j) \in {"plan", "first", "second", "compare"},
         UNCHANGED <<repository, litter, reported, mode, result, seen, disturbed>>,
         UNCHANGED compat, UNCHANGED <<cache, candidate, measured>>,
         \E c : planned' = [planned EXCEPT ![j] = c],
         \E c : rendered' = [rendered EXCEPT ![j] = c],
         UNCHANGED <<hit, faults>> \/ Fault(j),
         (Passes(j) /\ RehearsalInv(j)') \/ Errs(j)
  PROVE  IInv'
<1>1. /\ PerJob(reported) /\ PerJob(contract) /\ PerJob(modfile) /\ PerJob(candidate)
      /\ PerJob(measured) /\ j \in Jobs
  BY Place DEF IInv, ShapeInv
<1>2. Works(j)
  <2>1. /\ \E n : Goto(j, n)
        /\ failed' \in {failed, failed \cup {j}}
    BY DEF Passes, Errs
  <2>2. contract' = [contract EXCEPT ![j] = contract[j]]
    BY <1>1 DEF PerJob, compat
  <2>3. modfile' = [modfile EXCEPT ![j] = modfile[j]]
    BY <1>1 DEF PerJob, compat
  <2>4. reported' = [reported EXCEPT ![j] = reported[j]]
    BY <1>1 DEF PerJob
  <2>5. candidate' = [candidate EXCEPT ![j] = candidate[j]]
    BY <1>1 DEF PerJob
  <2>6. measured' = [measured EXCEPT ![j] = measured[j]]
    BY <1>1 DEF PerJob
  <2> QED
    BY <2>1, <2>2, <2>3, <2>4, <2>5, <2>6 DEF Works
<1>3. mode[j] \in Releasing /\ mode[j] \notin Lines /\ at[j] # End(j)
  BY RehearsalPhase
<1>4. reported'[j] \subseteq Files(j)'
  BY <1>1, FilesSame DEF IInv, TypeOK
<1>5. CASE Passes(j) /\ RehearsalInv(j)'
  <2>1. LineInv(j)'
    BY <1>3 DEF LineInv
  <2>2. \A p : p = Phase(j) => Told(j, p)'
    BY DEF Told, Formatters, Analyzers
  <2> QED
    BY <1>2, <1>5, <2>1, <2>2, WorkPasses
<1>6. CASE Errs(j)
  <2>1. mode[j] \notin Lines \cup {"check", "verify"}
    BY <1>3 DEF Releasing
  <2> QED
    BY <1>2, <1>4, <1>6, <2>1, WorkErrs
<1> QED
  BY <1>5, <1>6

LEMMA PlanKeeps ==
  ASSUME IInv, NEW j \in Running, Plan(j), UNCHANGED compat
  PROVE  IInv'
<1>1. /\ PerJob(at) /\ PerJob(planned) /\ PerJob(rendered) /\ j \in Jobs
      /\ head \in Contents /\ RehearsalInv(j) /\ GateInv(j)
  BY Place DEF IInv, ShapeInv
<1>2. PICK ok :
        /\ Judge(j, "plan", ok)
        /\ ok => tree.gomod = head.gomod
  BY DEF Plan
<1>3. /\ planned' = [planned EXCEPT ![j] = head]
      /\ UNCHANGED <<cache, candidate, measured, rendered>>
  BY DEF Plan
<1>4. /\ Phase(j) = "plan" /\ at[j] # End(j)
      /\ ok => Passes(j)
      /\ ~ok => Errs(j)
      /\ UNCHANGED <<tree, head, edits, litter, reported, mode, result, seen, disturbed, hit,
                     faults>>
  BY <1>2, Judged
<1>5. /\ mode[j] \in Releasing /\ mode[j] \notin Lines /\ at[j] = 5
      /\ Program(mode[j])[1] = "gomod" /\ Program(mode[j])[2] = "releasetools"
  BY <1>4, RehearsalPhase
<1>6. rendered' = [rendered EXCEPT ![j] = rendered[j]]
  BY <1>1, <1>3 DEF PerJob
<1>7. ASSUME ok PROVE RehearsalInv(j)'
  <2>1. at'[j] = 6 /\ failed' = failed /\ planned'[j] = head /\ rendered'[j] = rendered[j]
    BY <1>1, <1>3, <1>4, <1>5, <1>7 DEF Passes, Goto, PerJob
  <2>2. SUFFICES ASSUME j \notin failed PROVE RehearsalInv(j)'
    BY <2>1 DEF RehearsalInv
  <2>3. rendered[j] = <<>>
    BY <1>1, <1>5, <2>2, Place DEF RehearsalInv
  <2>4. head # Null
    BY <1>1, NullAssumption
  <2>5. ASSUME j \notin disturbed PROVE Declared(head)
    <3>1. Sound(j)
      BY <2>2, <2>5 DEF Sound, Steady
    <3>2. "gomod" \in Done(j) /\ "releasetools" \in Done(j)
      BY <1>5 DEF Done
    <3>3. Told(j, "gomod") /\ Told(j, "releasetools")
      BY <1>1, <1>5, <3>1, <3>2 DEF GateInv
    <3> QED
      BY <1>2, <1>7, <3>3 DEF Told, Declared, canonicalModule, releaseToolAuthorized
  <2>6. Declared(planned[j])' <=> Declared(head)
    BY <2>1 DEF Declared
  <2> QED
    BY <1>4, <2>1, <2>3, <2>4, <2>5, <2>6 DEF RehearsalInv
<1> QED
  BY <1>3, <1>4, <1>6, <1>7, RehearsalWork DEF repository

LEMMA AppendPair == ASSUME NEW a, NEW b PROVE Append(<<a>>, b) = <<a, b>>
<1> DEFINE s == Append(<<a>>, b)
           t == <<a, b>>
<1>1. <<a>> \in Seq({a, b}) /\ Len(<<a>>) = 1
  OBVIOUS
<1>2. s \in Seq({a, b}) /\ t \in Seq({a, b})
  BY <1>1
<1>3. Len(s) = 2 /\ s[1] = a /\ s[2] = b /\ Len(t) = 2 /\ t[1] = a /\ t[2] = b
  BY <1>1
<1> HIDE DEF s, t
<1>4. s = t
  BY <1>2, <1>3, SeqEqual
<1> QED
  BY <1>4 DEF s, t

LEMMA RenderKeeps ==
  ASSUME IInv, NEW j \in Running, Render(j) \/ RenderDiffers(j), UNCHANGED compat
  PROVE  IInv'
<1>1. /\ PerJob(at) /\ PerJob(planned) /\ PerJob(rendered) /\ j \in Jobs /\ faults \in Nat
      /\ RehearsalInv(j) /\ result[j] = "none"
  BY Place DEF IInv, ShapeInv
<1>2. PICK d \in Outcomes :
        /\ rendered' = [rendered EXCEPT ![j] = Append(@, Output(planned[j], d))]
        /\ UNCHANGED <<cache, candidate, measured, planned>>
        /\ UNCHANGED <<repository, litter, reported, mode, result, seen, disturbed>>
        /\ Phase(j) \in {"first", "second"}
        /\ Passes(j) \/ Errs(j)
        /\ UNCHANGED <<hit, faults>> \/ Fault(j)
        /\ d # "none" => faults' = faults + 1
        /\ faults' \in {faults, faults + 1}
  <2>1. CASE Render(j)
    <3>1. PICK phase \in {"first", "second"} :
            Judge(j, phase, Ready(j) /\ planned[j].listed = planned[j].gomod.deps)
      BY <2>1 DEF Render
    <3>2. /\ Phase(j) = phase /\ (Passes(j) \/ Errs(j))
          /\ UNCHANGED <<tree, head, edits, litter, reported, mode, result, seen, disturbed,
                         hit, faults>>
      BY <3>1, Judged
    <3>3. "none" \in Outcomes
      BY DEF Outcomes
    <3> QED
      BY <2>1, <3>2, <3>3 DEF Render, repository
  <2>2. CASE RenderDiffers(j)
    <3>1. PICK d \in Defects :
            rendered' = [rendered EXCEPT ![j] = Append(@, Output(planned[j], d))]
      BY <2>2 DEF RenderDiffers
    <3>2. /\ Phase(j) \in {"first", "second"} /\ Fault(j) /\ faults' = faults + 1
          /\ UNCHANGED <<repository, cache, candidate, measured, planned>>
          /\ UNCHANGED <<litter, reported, mode, result, seen, disturbed>>
      BY <2>2 DEF RenderDiffers, Fault
    <3>3. Passes(j)
      <4>1. PassIf(j, TRUE) /\ at[j] # End(j)
        BY <2>2, <3>2, RehearsalPhase DEF RenderDiffers
      <4> QED
        BY <4>1 DEF PassIf, Passes
    <3>4. d \in Outcomes
      BY DEF Outcomes
    <3> QED
      BY <3>1, <3>2, <3>3, <3>4
  <2> QED
    BY <2>1, <2>2
<1>3. /\ mode[j] \in Releasing
      /\ Phase(j) = "first" => at[j] = 6
      /\ Phase(j) = "second" => at[j] = 7
  BY <1>2, RehearsalPhase
<1>4. ASSUME Passes(j) PROVE RehearsalInv(j)'
  <2>1. /\ at'[j] = at[j] + 1 /\ failed' = failed /\ planned'[j] = planned[j]
        /\ rendered'[j] = Append(rendered[j], Output(planned[j], d))
    BY <1>1, <1>2, <1>4 DEF Passes, Goto, PerJob
  <2>2. SUFFICES ASSUME j \notin failed PROVE RehearsalInv(j)'
    BY <2>1 DEF RehearsalInv
  <2>3. planned[j] # Null /\ (j \notin disturbed => Declared(planned[j]))
    BY <1>1, <1>2, <1>3, <2>2 DEF RehearsalInv
  <2>4. Declared(planned[j])' <=> Declared(planned[j])
    BY <2>1 DEF Declared
  <2>5. \A c : Output(planned[j], c)' = Output(planned[j], c)
    BY <2>1 DEF Output
  <2>6. CASE at[j] = 6
    <3>1. rendered[j] = <<>>
      BY <1>1, <1>3, <2>2, <2>6 DEF RehearsalInv
    <3>2. rendered'[j] = <<Output(planned[j], d)>>
      BY <2>1, <3>1
    <3>3. d # "none" => faults' >= 1
      BY <1>1, <1>2
    <3> QED
      BY <1>2, <2>1, <2>3, <2>4, <2>5, <2>6, <3>2, <3>3 DEF RehearsalInv
  <2>7. CASE at[j] = 7
    <3>1. PICK c \in Outcomes : /\ rendered[j] = <<Output(planned[j], c)>>
                                /\ c # "none" => faults >= 1
      BY <1>1, <1>3, <2>2, <2>7 DEF RehearsalInv
    <3>2. rendered'[j] = <<Output(planned[j], c), Output(planned[j], d)>>
      BY <2>1, <3>1, AppendPair
    <3>3. c # "none" /\ d # "none" => faults' >= 2
      BY <1>1, <1>2, <3>1
    <3> QED
      BY <1>2, <2>1, <2>3, <2>4, <2>5, <2>7, <3>2, <3>3 DEF RehearsalInv
  <2> QED
    BY <1>2, <1>3, <2>6, <2>7
<1>5. planned' = [planned EXCEPT ![j] = planned[j]]
  BY <1>1, <1>2 DEF PerJob
<1>6. \E c : rendered' = [rendered EXCEPT ![j] = c]
  BY <1>2
<1> QED
  BY <1>2, <1>4, <1>5, <1>6, RehearsalWork

LEMMA CompareRendersKeeps ==
  ASSUME IInv, NEW j \in Running, CompareRenders(j), UNCHANGED compat
  PROVE  IInv'
<1>1. /\ PerJob(at) /\ PerJob(planned) /\ PerJob(rendered) /\ j \in Jobs /\ faults \in Nat
      /\ RehearsalInv(j) /\ result[j] = "none"
  BY Place DEF IInv, ShapeInv
<1> DEFINE ok == rendered[j][1] = rendered[j][2]
<1>2. Judge(j, "compare", ok) /\ UNCHANGED gate
  BY DEF CompareRenders
<1>3. /\ Phase(j) = "compare" /\ at[j] # End(j)
      /\ ok => Passes(j)
      /\ ~ok => Errs(j)
      /\ UNCHANGED <<tree, head, edits, litter, reported, mode, result, seen, disturbed, hit,
                     faults>>
  BY <1>2, Judged
<1>4. mode[j] \in Releasing /\ at[j] = 8
  BY <1>3, RehearsalPhase
<1>5. ASSUME ok PROVE RehearsalInv(j)'
  <2>1. /\ at'[j] = 9 /\ failed' = failed /\ planned'[j] = planned[j]
        /\ rendered'[j] = rendered[j]
    BY <1>1, <1>2, <1>3, <1>4, <1>5 DEF Passes, Goto, PerJob, gate, found
  <2>2. Declared(planned[j])' <=> Declared(planned[j])
    BY <2>1 DEF Declared
  <2>3. \A c : Output(planned[j], c)' = Output(planned[j], c)
    BY <2>1 DEF Output
  <2>4. faults' = faults /\ disturbed' = disturbed /\ mode' = mode /\ result' = result
    BY <1>3
  <2>5. rendered'[j][1] = rendered'[j][2]
    BY <1>5, <2>1
  <2> QED
    BY <1>1, <1>4, <2>1, <2>2, <2>3, <2>4, <2>5 DEF RehearsalInv
<1>6. planned' = [planned EXCEPT ![j] = planned[j]]
  BY <1>1, <1>2 DEF PerJob, gate, found
<1>7. rendered' = [rendered EXCEPT ![j] = rendered[j]]
  BY <1>1, <1>2 DEF PerJob, gate, found
<1> QED
  BY <1>2, <1>3, <1>5, <1>6, <1>7, RehearsalWork DEF repository, gate, found
-------------------------------------------------------------------------------
(* The phases of a line *)

\* A step of a line keeps the invariant when its own part is kept, or its error is
\* one of the tree.
LEMMA LineWork ==
  ASSUME IInv, NEW j \in Running, mode[j] \in Lines,
         UNCHANGED <<repository, reported, mode, result, seen, disturbed>>, UNCHANGED gate,
         UNCHANGED litter \/ \E file \in FileNames : litter' = litter \cup {<<j, file>>},
         \E c : contract' = [contract EXCEPT ![j] = c],
         \E c : modfile' = [modfile EXCEPT ![j] = c],
         UNCHANGED <<hit, faults>> \/ Fault(j),
         \/ Passes(j) /\ LineInv(j)'
         \/ Errs(j) /\ (j \in hit' \/ (Sound(j) => ~Meets(mode[j], tree)))
  PROVE  IInv'
<1>1. /\ PerJob(reported) /\ PerJob(candidate) /\ PerJob(measured) /\ PerJob(planned)
      /\ PerJob(rendered) /\ j \in Jobs
  BY Place DEF IInv, ShapeInv
<1>2. Works(j)
  <2>1. /\ \E n : Goto(j, n)
        /\ failed' \in {failed, failed \cup {j}}
    BY DEF Passes, Errs
  <2>2. reported' = [reported EXCEPT ![j] = reported[j]]
    BY <1>1 DEF PerJob
  <2>3. candidate' = [candidate EXCEPT ![j] = candidate[j]]
    BY <1>1 DEF PerJob, gate, found
  <2>4. measured' = [measured EXCEPT ![j] = measured[j]]
    BY <1>1 DEF PerJob, gate, found
  <2>5. planned' = [planned EXCEPT ![j] = planned[j]]
    BY <1>1 DEF PerJob, gate, found
  <2>6. rendered' = [rendered EXCEPT ![j] = rendered[j]]
    BY <1>1 DEF PerJob, gate, found
  <2> QED
    BY <2>1, <2>2, <2>3, <2>4, <2>5, <2>6 DEF Works, gate
<1>3. reported'[j] \subseteq Files(j)'
  <2>1. Files(j) \subseteq Files(j)'
    BY <1>1, FilesSame, FilesMade
  <2> QED
    BY <1>1, <2>1 DEF IInv, TypeOK
<1>4. CASE Passes(j) /\ LineInv(j)'
  <2>1. RehearsalInv(j)'
    BY DEF RehearsalInv, Lines, Releasing
  <2>2. candidate'[j] = candidate[j] /\ measured'[j] = measured[j]
    BY DEF gate, found
  <2> QED
    BY <1>2, <1>4, <2>1, <2>2, WorkPasses
<1>5. CASE Errs(j) /\ (j \in hit' \/ (Sound(j) => ~Meets(mode[j], tree)))
  BY <1>2, <1>3, <1>5, WorkErrs
<1> QED
  BY <1>4, <1>5

\* Where a line is.
LEMMA LinePhase ==
  ASSUME IInv, NEW j \in Running,
         \/ Phase(j) \in {"contract", "minimum", "copy", "require", "resolve", "list"}
         \/ mode[j] \in Lines /\ Phase(j) \in {"vet", "test"}
  PROVE  /\ mode[j] \in Lines /\ at[j] # End(j)
         /\ Phase(j) = "contract" => at[j] = 1
         /\ Phase(j) = "minimum" => at[j] = 2
         /\ Phase(j) = "copy" => at[j] = 3
         /\ Phase(j) = "require" => at[j] = 4
         /\ Phase(j) = "resolve" => at[j] = 5
         /\ Phase(j) = "list" => at[j] = 6
         /\ Phase(j) = "vet" => at[j] = 7
         /\ Phase(j) = "test" => at[j] = 8
<1> DEFINE program == Program(mode[j])
<1>1. at[j] # End(j)
  BY Place
<1>2. mode[j] \in AllModes /\ at[j] \in 1..Len(program) /\ Phase(j) = program[at[j]]
  BY <1>1, Place
<1>3. mode[j] \in Lines
  <2>1. SUFFICES ASSUME mode[j] \notin Lines,
                        Phase(j) \in {"contract", "minimum", "copy", "require", "resolve",
                                      "list"}
                 PROVE  FALSE
    OBVIOUS
  <2>2. mode[j] \notin {"check", "verify"}
    <3>1. Phase(j) \in Elems(program)
      BY <1>2 DEF Elems
    <3>2. Phase(j) \notin VerifySet /\ Phase(j) \notin CheckSet
      BY <2>1 DEF VerifySet, CheckSet, Formatters, Analyzers
    <3> QED
      BY <3>1, <3>2, CheckProgram, VerifyProgram
  <2>3. mode[j] # "fmt"
    BY <1>2, <2>1, FormatProgram
  <2>4. mode[j] \in Releasing
    BY <1>2, <2>1, <2>2, <2>3 DEF AllModes, Lines, Releasing
  <2>5. /\ Len(program) = 10 /\ program[1] = "gomod" /\ program[2] = "releasetools"
        /\ program[3] = "workflow" /\ program[4] = "rehearsal" /\ program[5] = "plan"
        /\ program[6] = "first" /\ program[7] = "second" /\ program[8] = "compare"
        /\ program[9] = "validate" /\ program[10] = "leave"
    BY <2>4, ReleasingProgram
  <2> HIDE DEF program
  <2> QED
    BY <1>2, <2>1, <2>5
<1>4. /\ Len(program) = 8 /\ program[1] = "contract" /\ program[2] = "minimum"
      /\ program[3] = "copy" /\ program[4] = "require" /\ program[5] = "resolve"
      /\ program[6] = "list" /\ program[7] = "vet" /\ program[8] = "test"
  BY <1>3, LineProgram
<1> HIDE DEF program
<1> QED
  BY <1>1, <1>2, <1>3, <1>4
\* What a line knows of a tree nobody else has changed.
LEMMA LineKnows ==
  ASSUME IInv, NEW j \in Running, mode[j] \in Lines, Sound(j)
  PROVE  /\ LineInv(j) /\ tree.forced \in Nat
         /\ at[j] > 1 => /\ contract[j] = tree.contract
                         /\ tree.contract \in Contracts /\ tree.contract # Null
                         /\ tree.contract[mode[j]] \in Nat
                         /\ Line(j) = tree.contract[mode[j]]
<1>1. LineInv(j) /\ tree \in Contents
  BY Place DEF IInv, ShapeInv
<1>2. tree.forced \in Nat /\ tree.contract \in Contracts \cup {Null}
  BY <1>1 DEF Contents
<1>3. ASSUME at[j] > 1
      PROVE  contract[j] = tree.contract /\ tree.contract \in Contracts /\ tree.contract # Null
  BY <1>1, <1>2, <1>3 DEF LineInv, decodeCompatibility
<1>4. ASSUME at[j] > 1 PROVE tree.contract[mode[j]] \in Nat
  <2>1. mode[j] = "minimum" \/ mode[j] = "current"
    BY DEF Lines
  <2> QED
    BY <1>3, <1>4, <2>1 DEF Contracts
<1> QED
  BY <1>1, <1>2, <1>3, <1>4 DEF Line

LEMMA ReadsKeep ==
  ASSUME IInv, NEW j \in Running, ReadContract(j) \/ ReadMinimum(j), UNCHANGED gate
  PROVE  IInv'
<1>1. /\ PerJob(at) /\ PerJob(contract) /\ PerJob(modfile) /\ j \in Jobs
      /\ at[j] \in Nat /\ result[j] = "none"
  BY Place DEF IInv, ShapeInv
<1>2. CASE ReadContract(j)
  <2> DEFINE ok == decodeCompatibility(tree.contract) # Null
  <2>1. /\ Judge(j, "contract", ok)
        /\ contract' = [contract EXCEPT ![j] = decodeCompatibility(tree.contract)]
        /\ UNCHANGED modfile
    BY <1>2 DEF ReadContract
  <2>2. /\ Phase(j) = "contract" /\ at[j] # End(j)
        /\ ok => Passes(j)
        /\ ~ok => Errs(j)
        /\ UNCHANGED <<tree, head, edits, litter, reported, mode, result, seen, disturbed, hit,
                       faults>>
    <3> HIDE DEF ok
    <3> QED
      BY <2>1, Judged
  <2>3. mode[j] \in Lines /\ at[j] = 1
    BY <2>2, LinePhase
  <2>4. ASSUME ok PROVE LineInv(j)'
    <3>1. at'[j] = 2 /\ contract'[j] = decodeCompatibility(tree.contract)
      BY <1>1, <2>1, <2>2, <2>3, <2>4 DEF Passes, Goto, PerJob
    <3>2. decodeCompatibility(tree.contract) = tree.contract
      BY <2>4 DEF decodeCompatibility
    <3>3. decodeCompatibility(tree.contract)' = decodeCompatibility(tree.contract)
      BY <2>2 DEF decodeCompatibility
    <3> QED
      BY <2>2, <2>4, <3>1, <3>2, <3>3 DEF LineInv
  <2>5. ASSUME ~ok PROVE ~Meets(mode[j], tree)
    BY <2>3, <2>5 DEF Meets, Lines, decodeCompatibility
  <2>6. modfile' = [modfile EXCEPT ![j] = modfile[j]]
    BY <1>1, <2>1 DEF PerJob
  <2> QED
    BY <2>1, <2>2, <2>3, <2>4, <2>5, <2>6, LineWork DEF repository
<1>3. CASE ReadMinimum(j)
  <2> DEFINE ok == ensureMinimum(contract[j], directRequirement(tree.gomod))
  <2>1. Judge(j, "minimum", ok) /\ UNCHANGED compat
    BY <1>3 DEF ReadMinimum
  <2>2. /\ Phase(j) = "minimum" /\ at[j] # End(j)
        /\ ok => Passes(j)
        /\ ~ok => Errs(j)
        /\ UNCHANGED <<tree, head, edits, litter, reported, mode, result, seen, disturbed, hit,
                       faults>>
    BY <2>1, Judged
  <2>3. mode[j] \in Lines /\ at[j] = 2
    BY <2>2, LinePhase
  <2>4. ASSUME ok PROVE LineInv(j)'
    <3>1. at'[j] = 3 /\ contract' = contract
      BY <1>1, <2>1, <2>2, <2>3, <2>4 DEF Passes, Goto, PerJob, compat
    <3>2. SUFFICES ASSUME Sound(j) PROVE LineInv(j)'
      BY <2>2, <2>4 DEF LineInv, Sound, Steady, Running, Passes
    <3>3. contract[j] = tree.contract /\ decodeCompatibility(tree.contract) # Null
      BY <2>3, <3>2, LineKnows DEF LineInv
    <3>4. decodeCompatibility(tree.contract)' = decodeCompatibility(tree.contract)
      BY <2>2 DEF decodeCompatibility
    <3>5. ensureMinimum(tree.contract, directRequirement(tree.gomod))'
      BY <2>2, <2>4, <3>3 DEF ensureMinimum, directRequirement
    <3> QED
      BY <2>2, <3>1, <3>3, <3>4, <3>5 DEF LineInv
  <2>5. ASSUME ~ok, Sound(j) PROVE ~Meets(mode[j], tree)
    <3>1. contract[j] = tree.contract
      BY <2>3, <2>5, LineKnows
    <3>2. ~ensureMinimum(tree.contract, directRequirement(tree.gomod))
      BY <2>5, <3>1
    <3>3. Meets(mode[j], tree) => /\ tree.contract.minimum # 0 /\ ~tree.gomod.indirect
                                  /\ tree.gomod.core = tree.contract.minimum
      BY <2>3 DEF Meets, Lines
    <3> QED
      BY <3>2, <3>3 DEF ensureMinimum, directRequirement
  <2>6. modfile' = [modfile EXCEPT ![j] = modfile[j]]
    BY <1>1, <2>1 DEF PerJob, compat
  <2>7. contract' = [contract EXCEPT ![j] = contract[j]]
    BY <1>1, <2>1 DEF PerJob, compat
  <2> QED
    BY <2>1, <2>2, <2>3, <2>4, <2>5, <2>6, <2>7, LineWork DEF repository
<1> QED
  BY <1>2, <1>3
\* The steps that write the alternate modfile.
LEMMA WritesKeep ==
  ASSUME IInv, NEW j \in Running,
         CopyModfile(j) \/ CopyFails(j) \/ RequireLine(j) \/ Resolve(j), UNCHANGED gate
  PROVE  IInv'
<1>1. /\ PerJob(at) /\ PerJob(contract) /\ PerJob(modfile) /\ j \in Jobs
      /\ "mod" \in FileNames /\ "sum" \in FileNames
  BY Place DEF IInv, ShapeInv, FileNames
<1>2. ASSUME UNCHANGED contract PROVE contract' = [contract EXCEPT ![j] = contract[j]]
  BY <1>1, <1>2 DEF PerJob
\* What a line knew when it goes on without a change to the tree.
<1>3. ASSUME UNCHANGED <<tree, mode, result, disturbed, failed>>, Sound(j)' PROVE Sound(j)
  BY <1>3 DEF Sound, Steady, Running
<1>4. ASSUME UNCHANGED tree
      PROVE  /\ decodeCompatibility(tree.contract)' = decodeCompatibility(tree.contract)
             /\ ensureMinimum(tree.contract, directRequirement(tree.gomod))'
                  = ensureMinimum(tree.contract, directRequirement(tree.gomod))
  BY <1>4 DEF decodeCompatibility, ensureMinimum, directRequirement
<1>5. CASE CopyModfile(j)
  <2>1. /\ Phase(j) = "copy" /\ modfile' = [modfile EXCEPT ![j] = tree.gomod.core]
        /\ litter' = litter \cup {<<j, "mod">>} /\ PassIf(j, TRUE)
        /\ UNCHANGED <<repository, contract, reported, mode, result, seen, disturbed, hit,
                       faults>>
    BY <1>5 DEF CopyModfile, Require, Creates
  <2>2. mode[j] \in Lines /\ at[j] = 3 /\ at[j] # End(j)
    BY <2>1, LinePhase
  <2>3. Passes(j) /\ at'[j] = 4 /\ failed' = failed /\ UNCHANGED tree
    BY <1>1, <2>1, <2>2 DEF PassIf, Passes, Goto, PerJob, repository
  <2>4. LineInv(j)'
    <3>1. SUFFICES ASSUME Sound(j)' PROVE LineInv(j)'
      BY DEF LineInv
    <3>2. Sound(j)
      BY <1>3, <2>1, <2>3, <3>1
    <3>3. LineInv(j)
      BY <2>2, <3>2, LineKnows
    <3> QED
      BY <1>4, <2>1, <2>2, <2>3, <3>2, <3>3 DEF LineInv
  <2> QED
    BY <1>1, <1>2, <2>1, <2>2, <2>3, <2>4, LineWork
<1>6. CASE CopyFails(j)
  <2>1. /\ Phase(j) = "copy" /\ Fault(j) /\ litter' = litter \cup {<<j, "mod">>}
        /\ PassIf(j, FALSE)
        /\ UNCHANGED <<repository, compat, reported, mode, result, seen, disturbed>>
    BY <1>6 DEF CopyFails
  <2>2. mode[j] \in Lines
    BY <2>1, LinePhase
  <2>3. Errs(j) /\ j \in hit'
    BY <2>1 DEF PassIf, Errs, Fault
  <2>4. modfile' = [modfile EXCEPT ![j] = modfile[j]]
    BY <1>1, <2>1 DEF PerJob, compat
  <2> QED
    BY <1>1, <1>2, <2>1, <2>2, <2>3, <2>4, LineWork DEF compat
<1>7. CASE RequireLine(j)
  <2>1. /\ Judge(j, "require", TRUE) /\ modfile' = [modfile EXCEPT ![j] = Line(j)]
        /\ UNCHANGED contract
    BY <1>7 DEF RequireLine, Require
  <2>2. /\ Phase(j) = "require" /\ at[j] # End(j) /\ Passes(j)
        /\ UNCHANGED <<tree, head, edits, litter, reported, mode, result, seen, disturbed, hit,
                       faults>>
    <3>1. /\ Phase(j) = "require" /\ PassIf(j, TRUE)
          /\ UNCHANGED <<tree, head, edits, litter, reported, mode, result, seen, disturbed,
                         hit, faults>>
      BY <2>1 DEF Judge, Quiet, repository
    <3>2. at[j] # End(j)
      BY <3>1, LinePhase
    <3> QED
      BY <3>1, <3>2 DEF PassIf, Passes
  <2>3. mode[j] \in Lines /\ at[j] = 4
    BY <2>2, LinePhase
  <2>4. at'[j] = 5 /\ failed' = failed /\ modfile'[j] = Line(j)
    BY <1>1, <2>1, <2>2, <2>3 DEF Passes, Goto, PerJob
  <2>5. LineInv(j)'
    <3>1. SUFFICES ASSUME Sound(j)' PROVE LineInv(j)'
      BY DEF LineInv
    <3>2. Sound(j)
      BY <1>3, <2>2, <2>4, <3>1
    <3>3. LineInv(j) /\ Line(j) = tree.contract[mode[j]]
      BY <2>3, <3>2, LineKnows
    <3> QED
      BY <1>4, <2>1, <2>2, <2>3, <2>4, <3>2, <3>3 DEF LineInv
  <2> QED
    BY <1>2, <2>1, <2>2, <2>3, <2>5, LineWork DEF repository
<1>8. CASE Resolve(j)
  <2>1. /\ Phase(j) = "resolve" /\ modfile' = [modfile EXCEPT ![j] = Selected(j)]
        /\ litter' = litter \cup {<<j, "sum">>} /\ PassIf(j, TRUE)
        /\ UNCHANGED <<repository, contract, reported, mode, result, seen, disturbed, hit,
                       faults>>
    BY <1>8 DEF Resolve, Require, Creates
  <2>2. mode[j] \in Lines /\ at[j] = 5 /\ at[j] # End(j)
    BY <2>1, LinePhase
  <2>3. /\ Passes(j) /\ at'[j] = 6 /\ failed' = failed /\ UNCHANGED tree
        /\ modfile'[j] = Larger(modfile[j], tree.forced)
    BY <1>1, <2>1, <2>2 DEF PassIf, Passes, Goto, PerJob, repository, Selected
  <2>4. LineInv(j)'
    <3>1. SUFFICES ASSUME Sound(j)' PROVE LineInv(j)'
      BY DEF LineInv
    <3>2. Sound(j)
      BY <1>3, <2>1, <2>3, <3>1
    <3>3. LineInv(j)
      BY <2>2, <3>2, LineKnows
    <3>4. modfile[j] = tree.contract[mode[j]]
      BY <2>2, <3>2, <3>3 DEF LineInv
    <3>5. modfile'[j] = Larger(tree.contract[mode[j]], tree.forced)'
      BY <2>1, <2>3, <3>4 DEF Larger
    <3> QED
      BY <1>4, <2>1, <2>2, <2>3, <3>2, <3>3, <3>5 DEF LineInv
  <2> QED
    BY <1>1, <1>2, <2>1, <2>2, <2>3, <2>4, LineWork
<1> QED
  BY <1>5, <1>6, <1>7, <1>8

\* The steps that use what it selects.
LEMMA UsesKeep ==
  ASSUME IInv, NEW j \in Running, ListSelected(j) \/ VetOrTest(j), UNCHANGED gate
  PROVE  IInv'
<1>1. PerJob(at) /\ PerJob(contract) /\ PerJob(modfile) /\ j \in Jobs
  BY Place DEF IInv, ShapeInv
<1>2. ASSUME UNCHANGED contract PROVE contract' = [contract EXCEPT ![j] = contract[j]]
  BY <1>1, <1>2 DEF PerJob
<1>3. ASSUME UNCHANGED <<tree, mode, result, disturbed, failed>>, Sound(j)' PROVE Sound(j)
  BY <1>3 DEF Sound, Steady, Running
<1>4. ASSUME UNCHANGED tree
      PROVE  /\ decodeCompatibility(tree.contract)' = decodeCompatibility(tree.contract)
             /\ ensureMinimum(tree.contract, directRequirement(tree.gomod))'
                  = ensureMinimum(tree.contract, directRequirement(tree.gomod))
  BY <1>4 DEF decodeCompatibility, ensureMinimum, directRequirement
<1>5. ASSUME Sound(j), mode[j] \in Lines, at[j] \in 6..8
      PROVE  /\ LineInv(j) /\ contract[j] = tree.contract
             /\ decodeCompatibility(tree.contract) # Null
             /\ ensureMinimum(tree.contract, directRequirement(tree.gomod))
             /\ tree.contract[mode[j]] \in Nat /\ tree.forced \in Nat
             /\ Line(j) = tree.contract[mode[j]]
             /\ modfile[j] = Larger(tree.contract[mode[j]], tree.forced)
             /\ Selected(j) = Larger(tree.contract[mode[j]], tree.forced)
             /\ at[j] > 6 => tree.forced <= tree.contract[mode[j]]
             /\ at[j] > 7 => tree.contract[mode[j]] \in tree.compatible
  <2>1. LineInv(j) /\ at[j] > 1 /\ at[j] > 2 /\ at[j] > 5
    BY <1>5, LineKnows
  <2>2. /\ tree.contract[mode[j]] \in Nat /\ tree.forced \in Nat
        /\ Line(j) = tree.contract[mode[j]]
    BY <1>5, <2>1, LineKnows
  <2>3. modfile[j] = Larger(tree.contract[mode[j]], tree.forced)
    BY <1>5, <2>1 DEF LineInv
  <2>4. Selected(j) = Larger(tree.contract[mode[j]], tree.forced)
    BY <2>2, <2>3 DEF Selected, Larger
  <2> QED
    BY <1>5, <2>1, <2>2, <2>3, <2>4 DEF LineInv
<1>6. CASE ListSelected(j)
  <2> DEFINE ok == modfile[j] = Line(j)
  <2>1. Judge(j, "list", ok) /\ UNCHANGED <<contract, modfile>>
    BY <1>6 DEF ListSelected, compat
  <2>2. /\ Phase(j) = "list" /\ at[j] # End(j)
        /\ ok => Passes(j)
        /\ ~ok => Errs(j)
        /\ UNCHANGED <<tree, head, edits, litter, reported, mode, result, seen, disturbed, hit,
                       faults>>
    BY <2>1, Judged
  <2>3. mode[j] \in Lines /\ at[j] = 6
    BY <2>2, LinePhase
  <2>4. ASSUME ok PROVE LineInv(j)'
    <3>1. at'[j] = 7 /\ failed' = failed
      BY <1>1, <2>2, <2>3, <2>4 DEF Passes, Goto, PerJob
    <3>2. SUFFICES ASSUME Sound(j)' PROVE LineInv(j)'
      BY DEF LineInv
    <3>3. Sound(j)
      BY <1>3, <2>2, <3>1, <3>2
    <3>4. tree.forced <= tree.contract[mode[j]]
      BY <1>5, <2>3, <2>4, <3>3 DEF Larger
    <3>5. Larger(tree.contract[mode[j]], tree.forced)'
            = Larger(tree.contract[mode[j]], tree.forced)
      BY <2>2 DEF Larger
    <3> QED
      BY <1>4, <1>5, <2>1, <2>2, <2>3, <3>1, <3>3, <3>4, <3>5 DEF LineInv
  <2>5. ASSUME ~ok, Sound(j) PROVE ~Meets(mode[j], tree)
    <3>1. ~(tree.forced <= tree.contract[mode[j]])
      BY <1>5, <2>3, <2>5 DEF Larger
    <3> QED
      BY <2>3, <3>1 DEF Meets, Lines
  <2>6. modfile' = [modfile EXCEPT ![j] = modfile[j]]
    BY <1>1, <2>1 DEF PerJob
  <2> QED
    BY <1>2, <2>1, <2>2, <2>3, <2>4, <2>5, <2>6, LineWork DEF repository
<1>7. CASE VetOrTest(j)
  <2> DEFINE ok == Selected(j) \in tree.compatible
  <2>1. PICK phase \in {"vet", "test"} : Judge(j, phase, ok)
    BY <1>7 DEF VetOrTest
  <2>2. mode[j] \in Lines /\ modfile' = [modfile EXCEPT ![j] = Selected(j)] /\ UNCHANGED contract
    BY <1>7 DEF VetOrTest, Require
  <2>3. /\ Phase(j) = phase /\ at[j] # End(j)
        /\ ok => Passes(j)
        /\ ~ok => Errs(j)
        /\ UNCHANGED <<tree, head, edits, litter, reported, mode, result, seen, disturbed, hit,
                       faults>>
    BY <2>1, Judged
  <2>4. at[j] \in 7..8
    BY <2>2, <2>3, LinePhase
  <2>5. ASSUME Sound(j)
        PROVE  Selected(j) = tree.contract[mode[j]] /\ tree.forced <= tree.contract[mode[j]]
    BY <1>5, <2>2, <2>4, <2>5 DEF Larger
  <2>6. ASSUME ok PROVE LineInv(j)'
    <3>1. at'[j] = at[j] + 1 /\ failed' = failed /\ modfile'[j] = Selected(j)
      BY <1>1, <2>2, <2>3, <2>6 DEF Passes, Goto, PerJob
    <3>2. SUFFICES ASSUME Sound(j)' PROVE LineInv(j)'
      BY DEF LineInv
    <3>3. Sound(j)
      BY <1>3, <2>3, <3>1, <3>2
    <3>4. tree.contract[mode[j]] \in tree.compatible
      BY <2>5, <2>6, <3>3
    <3>5. Larger(tree.contract[mode[j]], tree.forced)'
            = Larger(tree.contract[mode[j]], tree.forced)
      BY <2>3 DEF Larger
    <3> QED
      BY <1>4, <1>5, <2>2, <2>3, <2>4, <2>5, <3>1, <3>3, <3>4, <3>5 DEF LineInv
  <2>7. ASSUME ~ok, Sound(j) PROVE ~Meets(mode[j], tree)
    BY <2>2, <2>5, <2>7 DEF Meets, Lines
  <2> QED
    BY <1>2, <2>2, <2>3, <2>6, <2>7, LineWork DEF repository
<1> QED
  BY <1>6, <1>7
-------------------------------------------------------------------------------
(* Faults, ways out, and the formatter *)

\* An error that a fault explains.
LEMMA FaultKeeps ==
  ASSUME IInv, NEW j \in Running,
         \/ CommandFails(j) /\ UNCHANGED <<compat, gate>>
         \/ ProfileNotClosed(j) /\ UNCHANGED compat
  PROVE  IInv'
<1>1. /\ PerJob(reported) /\ PerJob(contract) /\ PerJob(modfile) /\ PerJob(candidate)
      /\ PerJob(measured) /\ PerJob(planned) /\ PerJob(rendered) /\ j \in Jobs
      /\ reported[j] \subseteq Files(j)
  BY Place DEF IInv, ShapeInv, TypeOK
<1>2. /\ UNCHANGED <<repository, compat, gate, mode, result, seen, disturbed>>
      /\ Fault(j) /\ Errs(j)
      /\ \/ UNCHANGED <<litter, reported>>
         \/ /\ litter' = litter \cup {<<j, "coverage">>}
            /\ reported' = [reported EXCEPT ![j] = @ \cup {"coverage"}]
  BY DEF CommandFails, ProfileNotClosed, PassIf, Errs
<1>3. reported'[j] \subseteq Files(j)'
  <2>1. CASE UNCHANGED <<litter, reported>>
    BY <1>1, <2>1, FilesSame
  <2>2. CASE /\ litter' = litter \cup {<<j, "coverage">>}
             /\ reported' = [reported EXCEPT ![j] = @ \cup {"coverage"}]
    <3>1. Files(j)' = Files(j) \cup {"coverage"}
      BY <1>1, <2>2, FilesMade
    <3> QED
      BY <1>1, <2>2, <3>1 DEF PerJob
  <2> QED
    BY <1>2, <2>1, <2>2
<1>4. Works(j)
  <2>1. \E F : reported' = [reported EXCEPT ![j] = F]
    <3>1. reported = [reported EXCEPT ![j] = reported[j]]
      BY <1>1 DEF PerJob
    <3> QED
      BY <1>2, <3>1
  <2>2. \E n : Goto(j, n)
    BY <1>2 DEF Errs
  <2>3. contract' = [contract EXCEPT ![j] = contract[j]]
    BY <1>1, <1>2 DEF PerJob, compat
  <2>4. modfile' = [modfile EXCEPT ![j] = modfile[j]]
    BY <1>1, <1>2 DEF PerJob, compat
  <2>5. candidate' = [candidate EXCEPT ![j] = candidate[j]]
    BY <1>1, <1>2 DEF PerJob, gate, found
  <2>6. measured' = [measured EXCEPT ![j] = measured[j]]
    BY <1>1, <1>2 DEF PerJob, gate, found
  <2>7. planned' = [planned EXCEPT ![j] = planned[j]]
    BY <1>1, <1>2 DEF PerJob, gate, found
  <2>8. rendered' = [rendered EXCEPT ![j] = rendered[j]]
    BY <1>1, <1>2 DEF PerJob, gate, found
  <2>9. /\ UNCHANGED litter \/ \E file \in FileNames : litter' = litter \cup {<<j, file>>}
        /\ failed' = failed \cup {j} /\ cache' = cache
    BY <1>2 DEF FileNames, Errs, gate
  <2> QED
    BY <1>2, <2>1, <2>2, <2>3, <2>4, <2>5, <2>6, <2>7, <2>8, <2>9 DEF Works
<1>5. j \in hit'
  BY <1>2 DEF Fault
<1> QED
  BY <1>2, <1>3, <1>4, <1>5, WorkErrs
\* A step of j's own entries that leaves the tree and every module's cache alone.
Turns(j) ==
  /\ UNCHANGED <<repository, compat, gate, disturbed>>
  /\ \E c : mode' = [mode EXCEPT ![j] = c]
  /\ \E n : Goto(j, n)
  /\ \E F : reported' = [reported EXCEPT ![j] = F]
  /\ \E c : result' = [result EXCEPT ![j] = c]
  /\ \E c : seen' = [seen EXCEPT ![j] = c]
  /\ failed' \in {failed, failed \cup {j}}
  /\ UNCHANGED <<hit, faults>> \/ Fault(j)
  /\ UNCHANGED litter \/ \E file : litter' = litter \ {<<j, file>>}

LEMMA TurnAround ==
  ASSUME IInv, NEW j \in Jobs, Turns(j)
  PROVE  Around(j)
<1>1. World
  BY Parts
<1>2. /\ PerJob(mode) /\ PerJob(at) /\ PerJob(reported) /\ PerJob(result) /\ PerJob(seen)
      /\ PerJob(contract) /\ PerJob(modfile)
      /\ PerJob(candidate) /\ PerJob(measured) /\ PerJob(planned) /\ PerJob(rendered)
      /\ tree \in Contents /\ head \in Contents /\ edits \in Nat /\ faults \in Nat
      /\ litter \subseteq Jobs \X FileNames
  BY <1>1 DEF World, ShapeInv
<1>3. faults' \in Nat /\ faults <= faults' /\ hit' \in {hit, hit \cup {j}}
  BY <1>2 DEF Turns, Fault
<1>4. /\ tree' = tree /\ head' = head /\ edits' = edits /\ disturbed' = disturbed /\ contract' = contract
      /\ modfile' = modfile /\ cache' = cache /\ candidate' = candidate
      /\ measured' = measured /\ planned' = planned /\ rendered' = rendered
  BY DEF Turns, repository, compat, gate, found
<1>5. \A k \in Jobs \ {j} : Files(k)' = Files(k)
  BY <1>2, FilesSame, FilesRemoved DEF Turns
<1>6. ASSUME NEW k \in Jobs \ {j} PROVE Same(k)
  <2>1. mode'[k] = mode[k] /\ at'[k] = at[k] /\ reported'[k] = reported[k]
    BY <1>2 DEF Turns, Goto, PerJob
  <2>2. result'[k] = result[k] /\ seen'[k] = seen[k]
    BY <1>2 DEF Turns, PerJob
  <2>3. (k \in failed' <=> k \in failed) /\ (k \in hit' <=> k \in hit)
    BY <1>3 DEF Turns
  <2> QED
    BY <1>4, <1>5, <2>1, <2>2, <2>3 DEF Same
<1>7. ShapeInv'
  <2>1. PerJob(mode)' /\ PerJob(at)' /\ PerJob(reported)'
    BY <1>2 DEF Turns, Goto, PerJob
  <2>2. PerJob(result)' /\ PerJob(seen)'
    BY <1>2 DEF Turns, PerJob
  <2>3. /\ PerJob(contract)' /\ PerJob(modfile)' /\ PerJob(candidate)' /\ PerJob(measured)'
        /\ PerJob(planned)' /\ PerJob(rendered)'
    BY <1>2, <1>4 DEF PerJob
  <2> QED
    BY <1>2, <1>3, <1>4, <2>1, <2>2, <2>3 DEF ShapeInv
<1>8. World'
  <2>1. litter' \subseteq Jobs \X FileNames
    BY <1>2 DEF Turns
  <2>2. failed' \cup disturbed' \cup hit' \subseteq Jobs
    BY <1>1, <1>3, <1>4 DEF World, Turns
  <2> QED
    BY <1>1, <1>4, <1>7, <2>1, <2>2 DEF World
<1> QED
  BY <1>3, <1>4, <1>6, <1>8 DEF Around

\* A job that stays in its phase, and has perhaps warned of a directory.
LEMMA Idle ==
  ASSUME IInv, NEW j \in Running, Goes(j), at'[j] = at[j], j \in failed' <=> j \in failed,
         reported'[j] \subseteq reported[j] \cup {"vendor", "rehearsal"},
         UNCHANGED <<compat, gate>>, faults' \in Nat, faults <= faults'
  PROVE  JobInv(j)'
<1> USE DEF Goes
<1>1. j \in Jobs /\ JobInv(j) /\ result[j] = "none" /\ mode[j] # Null
  BY Place, Parts
<1>2. /\ contract' = contract /\ modfile' = modfile /\ cache' = cache
      /\ candidate' = candidate /\ measured' = measured /\ planned' = planned
      /\ rendered' = rendered
  BY DEF compat, gate, found
<1>3. j \in Running' /\ (Sound(j)' <=> Sound(j)) /\ (AtFault(j)' => AtFault(j))
  BY <1>1 DEF Sound, AtFault, Steady, Running
<1>4. TypeInv(j)'
  BY <1>1 DEF JobInv, TypeInv, End
<1>5. ResultInv(j)' /\ WarningInv(j)' /\ PassedInv(j)' /\ FailedInv(j)' /\ LeftInv(j)'
  BY <1>1, <1>2 DEF JobInv, ResultInv, WarningInv, PassedInv, FailedInv, LeftInv, Returned
<1>6. GateInv(j)'
  <2> SUFFICES ASSUME Sound(j), mode[j] \notin Lines
               PROVE  \A phase \in Done(j)' : Told(j, phase)'
    BY <1>3 DEF GateInv
  <2>1. Done(j)' = Done(j)
    BY DEF Done
  <2>2. ASSUME NEW phase \in Done(j) PROVE Told(j, phase)'
    <3>1. Told(j, phase)
      BY <1>1, <2>2 DEF JobInv, GateInv
    <3> QED
      BY <1>2, <3>1 DEF Told, Fetched, canonicalModule, releaseToolAuthorized
  <2> QED
    BY <2>1, <2>2
<1>7. LineInv(j)'
  BY <1>1, <1>2, <1>3 DEF JobInv, LineInv
<1>8. RehearsalInv(j)'
  <2>1. RehearsalInv(j) /\ faults \in Nat
    BY <1>1 DEF JobInv, IInv, ShapeInv
  <2>2. /\ faults >= 1 => faults' >= 1
        /\ faults >= 2 => faults' >= 2
    BY <2>1
  <2> QED
    BY <1>1, <1>2, <2>1, <2>2 DEF RehearsalInv
<1>9. DeservedInv(j)'
  BY <1>1, <1>3 DEF JobInv, DeservedInv
<1> QED
  BY <1>4, <1>5, <1>6, <1>7, <1>8, <1>9 DEF JobInv
LEMMA RemoveKeeps ==
  ASSUME IInv, NEW j \in Running, Remove(j), UNCHANGED <<compat, gate>>
  PROVE  IInv'
<1>1. /\ PerJob(mode) /\ PerJob(at) /\ PerJob(reported) /\ PerJob(result) /\ PerJob(seen)
      /\ litter \subseteq Jobs \X FileNames /\ j \in Jobs /\ reported[j] \subseteq Files(j)
      /\ at[j] \in 1..End(j)
  BY Place, Parts DEF World, ShapeInv, IInv, TypeOK
<1>2. PICK file \in Temporary(j) : Removed(j, file) \/ NotRemoved(j, file)
  BY DEF Remove
<1>3. file \in Files(j) /\ file \notin reported[j]
  BY DEF Temporary
<1>4. UNCHANGED <<repository, compat, gate, mode, result, seen, disturbed>>
  BY <1>2 DEF Removed, NotRemoved
<1>5. /\ mode' = [mode EXCEPT ![j] = mode[j]] /\ result' = [result EXCEPT ![j] = result[j]]
      /\ seen' = [seen EXCEPT ![j] = seen[j]] /\ at = [at EXCEPT ![j] = at[j]]
      /\ reported = [reported EXCEPT ![j] = reported[j]]
  BY <1>1, <1>4 DEF PerJob
<1>6. Turns(j)
  <2>1. CASE Removed(j, file)
    <3>1. /\ litter' = litter \ {<<j, file>>}
          /\ UNCHANGED <<at, failed, reported, hit, faults>>
      BY <2>1 DEF Removed
    <3> QED
      BY <1>4, <1>5, <3>1 DEF Turns, Goto
  <2>2. CASE NotRemoved(j, file)
    <3>1. /\ Fault(j) /\ reported' = [reported EXCEPT ![j] = @ \cup {file}]
          /\ UNCHANGED litter
          /\ UNCHANGED <<at, failed>> \/ (Goto(j, End(j)) /\ failed' = failed \cup {j})
      BY <2>2 DEF NotRemoved
    <3>2. \E n : Goto(j, n)
      BY <1>5, <3>1 DEF Goto
    <3> QED
      BY <1>4, <1>5, <3>1, <3>2 DEF Turns
  <2> QED
    BY <1>2, <2>1, <2>2
<1>7. Around(j)
  BY <1>1, <1>6, TurnAround
<1>8. reported'[j] \subseteq Files(j)'
  <2>1. CASE Removed(j, file)
    <3>1. Files(j)' = Files(j) \ {file} /\ reported' = reported
      BY <1>1, <2>1, FilesRemoved DEF Removed
    <3> QED
      BY <1>1, <1>3, <3>1
  <2>2. CASE NotRemoved(j, file)
    <3>1. Files(j)' = Files(j) /\ reported'[j] = reported[j] \cup {file}
      BY <1>1, <2>2, FilesSame DEF NotRemoved, PerJob
    <3> QED
      BY <1>1, <1>3, <3>1
  <2> QED
    BY <1>2, <2>1, <2>2
<1>9. Goes(j)
  <2>1. hit' \in {hit, hit \cup {j}}
    BY <1>6 DEF Turns, Fault
  <2> QED
    BY <1>4, <1>8, <2>1 DEF Goes, repository
<1>10. JobInv(j)'
  <2>1. CASE Removed(j, file)
    <3>1. at'[j] = at[j] /\ failed' = failed /\ reported'[j] = reported[j]
      BY <2>1 DEF Removed
    <3> QED
      BY <1>7, <1>9, <3>1, Idle DEF Around
  <2>2. CASE NotRemoved(j, file) /\ file \in {"vendor", "rehearsal"}
    <3>1. at'[j] = at[j] /\ failed' = failed /\ reported'[j] = reported[j] \cup {file}
      BY <1>1, <2>2 DEF NotRemoved, PerJob
    <3>2. reported'[j] \subseteq reported[j] \cup {"vendor", "rehearsal"}
      BY <2>2, <3>1
    <3> QED
      BY <1>7, <1>9, <3>1, <3>2, Idle DEF Around
  <2>3. CASE NotRemoved(j, file) /\ file \notin {"vendor", "rehearsal"}
    <3>1. j \in failed' /\ j \in hit' /\ at'[j] = End(j)
      BY <1>1, <2>3 DEF NotRemoved, Fault, Goto, PerJob
    <3>2. at'[j] \in 1..End(j)
      BY <3>1, Place
    <3> QED
      BY <1>9, <3>1, <3>2, Erred
  <2> QED
    BY <1>2, <2>1, <2>2, <2>3
<1> QED
  BY <1>1, <1>7, <1>10, JobMoves

LEMMA LeaveStepKeeps ==
  ASSUME IInv, NEW j \in Running, LeaveStep(j), UNCHANGED <<compat, gate>>
  PROVE  IInv'
<1>1. /\ PerJob(mode) /\ PerJob(at) /\ PerJob(reported) /\ PerJob(result) /\ PerJob(seen)
      /\ j \in Jobs /\ reported[j] \subseteq Files(j)
  BY Place DEF IInv, ShapeInv, TypeOK
<1>2. /\ Phase(j) = "leave" /\ at[j] # End(j) /\ Goto(j, at[j] + 1)
      /\ UNCHANGED <<repository, mode, failed, litter, reported, result, seen, disturbed, hit,
                     faults>>
  BY DEF LeaveStep
<1>3. Turns(j)
  <2>1. /\ mode' = [mode EXCEPT ![j] = mode[j]] /\ result' = [result EXCEPT ![j] = result[j]]
        /\ seen' = [seen EXCEPT ![j] = seen[j]]
        /\ reported' = [reported EXCEPT ![j] = reported[j]]
    BY <1>1, <1>2 DEF PerJob
  <2> QED
    BY <1>2, <2>1 DEF Turns
<1>4. Around(j)
  BY <1>1, <1>3, TurnAround
<1>5. Goes(j)
  <2>1. Files(j)' = Files(j)
    BY <1>1, <1>2, FilesSame
  <2> QED
    BY <1>1, <1>2, <2>1 DEF Goes, repository
<1>6. at'[j] = at[j] + 1
  BY <1>1, <1>2 DEF Goto, PerJob
<1>7. mode[j] \notin Lines
  <2> DEFINE program == Program(mode[j])
  <2>1. at[j] \in 1..Len(program) /\ Phase(j) = program[at[j]]
    BY <1>2, Place
  <2>2. SUFFICES ASSUME mode[j] \in Lines PROVE FALSE
    OBVIOUS
  <2>3. /\ Len(program) = 8 /\ program[1] = "contract" /\ program[2] = "minimum"
        /\ program[3] = "copy" /\ program[4] = "require" /\ program[5] = "resolve"
        /\ program[6] = "list" /\ program[7] = "vet" /\ program[8] = "test"
    BY <2>2, LineProgram
  <2> HIDE DEF program
  <2> QED
    BY <1>2, <2>1, <2>3
<1>8. /\ candidate'[j] = candidate[j] /\ measured'[j] = measured[j] /\ planned'[j] = planned[j]
      /\ rendered'[j] = rendered[j]
  BY DEF gate, found
<1>9. RehearsalInv(j)'
  BY <1>2, <1>4, <1>5, <1>6, <1>8, RehearsalIdle DEF Around
<1>10. LineInv(j)'
  BY <1>2, <1>7 DEF LineInv
<1>11. \A phase : phase = Phase(j) => Told(j, phase)'
  BY <1>2 DEF Told, Formatters, Analyzers
<1>12. JobInv(j)'
  BY <1>2, <1>4, <1>5, <1>6, <1>8, <1>9, <1>10, <1>11, Advanced DEF Around
<1> QED
  BY <1>1, <1>4, <1>12, JobMoves
\* At the end of its program a job knows that the tree is what its mode stands for.
LEMMA EndMeets ==
  ASSUME IInv, NEW j \in Running, Sound(j), at[j] = End(j),
         mode[j] \in Lines \cup {"fmt", "check", "verify"}
  PROVE  Meets(mode[j], tree)
<1>1. /\ j \in Jobs /\ End(j) = Len(Program(mode[j])) + 1 /\ Len(Program(mode[j])) \in Nat
  BY Place
<1>2. Done(j) = Elems(Program(mode[j]))
  <2>1. at[j] - 1 = Len(Program(mode[j]))
    BY <1>1
  <2> QED
    BY <2>1 DEF Done, Elems
<1>3. ASSUME mode[j] \notin Lines, NEW phase \in Elems(Program(mode[j])) PROVE Told(j, phase)
  BY <1>1, <1>2, <1>3, Parts DEF JobInv, GateInv
<1>4. CASE mode[j] \in Lines
  <2>1. at[j] = 9
    <3>1. Len(Program(mode[j])) = 8
      BY <1>4, LineProgram
    <3> QED
      BY <1>1, <3>1
  <2>2. LineInv(j)
    BY <1>4, LineKnows
  <2>3. /\ decodeCompatibility(tree.contract) # Null
        /\ ensureMinimum(tree.contract, directRequirement(tree.gomod))
        /\ tree.forced <= tree.contract[mode[j]]
        /\ tree.contract[mode[j]] \in tree.compatible
    BY <1>4, <2>1, <2>2 DEF LineInv
  <2>4. /\ tree.contract # Null /\ tree.contract.schema = 1
        /\ tree.contract.minimum # 0 /\ tree.contract.current # 0
        /\ tree.contract.minimum # tree.contract.current
    BY <2>3 DEF decodeCompatibility
  <2>5. ~tree.gomod.indirect /\ tree.gomod.core = tree.contract.minimum
    BY <2>3 DEF ensureMinimum, directRequirement
  <2> QED
    BY <1>4, <2>3, <2>4, <2>5 DEF Meets, Lines
<1>5. CASE mode[j] = "fmt"
  <2>1. Program("fmt") = Formatting
    BY DEF Program, GateProgram, Lines
  <2>2. \A tool \in Formatters : Told(j, tool)
    BY <1>3, <1>5, <2>1, Pieces DEF Lines
  <2>3. Formatters \subseteq tree.ok
    BY <2>2 DEF Told
  <2> QED
    BY <1>5, <2>3 DEF Meets, Lines
<1>6. CASE mode[j] \in {"check", "verify"}
  <2>1. \A phase \in CheckSet : Told(j, phase)
    BY <1>3, <1>6, CheckProgram, VerifyProgram DEF Lines, VerifySet
  <2>2. Declared(tree)
    <3>1. Told(j, "gomod") /\ Told(j, "releasetools")
      BY <2>1 DEF CheckSet
    <3> QED
      BY <3>1 DEF Told, Declared, canonicalModule, releaseToolAuthorized
  <2>3. tree.vendored = tree.gomod.deps /\ tree.listed = tree.gomod.deps
    <3>1. Told(j, "vendor")
      BY <2>1 DEF CheckSet
    <3> QED
      BY <3>1 DEF Told
  <2>4. ASSUME NEW check \in {"workflow", "goimports", "gofumpt", "tidy", "toolgraph", "vet"}
        PROVE  check \in tree.ok
    <3>1. Told(j, check)
      BY <2>1 DEF CheckSet, Formatters
    <3> QED
      BY <3>1 DEF Told, Formatters
  <2>5. Checked(tree)
    BY <2>2, <2>3, <2>4 DEF Checked
  <2>6. CASE mode[j] = "check"
    BY <2>5, <2>6 DEF Meets, Lines
  <2>7. CASE mode[j] = "verify"
    <3>1. \A phase \in VerifySet : Told(j, phase)
      BY <1>3, <2>7, VerifyProgram DEF Lines
    <3>2. tree.coverage >= 85
      <4>1. Told(j, "coverage")
        BY <3>1 DEF VerifySet
      <4> QED
        BY <4>1 DEF Told, minimumCoverage
    <3>3. ASSUME NEW check \in Analyzers \cup {"test", "gatetest", "offlinetest", "offlinebuild"}
          PROVE  check \in tree.ok
      <4>1. Told(j, check)
        BY <3>1 DEF VerifySet
      <4> QED
        BY <4>1 DEF Told
    <3> QED
      BY <2>5, <2>7, <3>2, <3>3 DEF Meets, Lines
  <2> QED
    BY <1>6, <2>6, <2>7
<1> QED
  BY <1>4, <1>5, <1>6

\* A job that is over, or was killed, has no tree to know about any more.
LEMMA OverKeeps ==
  ASSUME IInv, NEW j \in Running, result'[j] # "none", mode'[j] = mode[j],
         reported'[j] \subseteq Files(j)'
  PROVE  /\ TypeInv(j)' /\ GateInv(j)' /\ LineInv(j)' /\ DeservedInv(j)'
<1>1. j \in Jobs /\ mode[j] # Null /\ mode[j] \in Modes[j] \cup {Null}
  BY Place DEF IInv, TypeOK
<1>2. j \notin Running'
  BY DEF Running
<1>3. TypeInv(j)'
  BY <1>1, <1>2 DEF TypeInv
<1> QED
  BY <1>2, <1>3 DEF GateInv, LineInv, DeservedInv, Sound, AtFault, Steady

LEMMA ReturnKeeps ==
  ASSUME IInv, NEW j \in Running, Return(j), UNCHANGED <<compat, gate>>
  PROVE  IInv'
<1>1. /\ PerJob(mode) /\ PerJob(at) /\ PerJob(reported) /\ PerJob(result) /\ PerJob(seen)
      /\ j \in Jobs /\ reported[j] \subseteq Files(j) /\ JobInv(j)
      /\ mode[j] # Null /\ result[j] = "none"
  BY Place, Parts DEF World, ShapeInv, IInv, TypeOK
<1>2. /\ at[j] = End(j) /\ Temporary(j) = {}
      /\ result' = [result EXCEPT ![j] = IF j \in failed THEN "failed" ELSE "passed"]
      /\ seen' = [seen EXCEPT ![j] = tree]
      /\ UNCHANGED <<repository, mode, at, failed, litter, reported, disturbed, hit, faults>>
  BY DEF Return
<1>3. Turns(j)
  <2>1. /\ mode' = [mode EXCEPT ![j] = mode[j]]
        /\ reported' = [reported EXCEPT ![j] = reported[j]]
        /\ at' = [at EXCEPT ![j] = at[j]]
    BY <1>1, <1>2 DEF PerJob
  <2> QED
    BY <1>2, <2>1 DEF Turns, Goto
<1>4. Around(j)
  BY <1>1, <1>3, TurnAround
<1>5. /\ mode'[j] = mode[j] /\ at'[j] = at[j] /\ reported'[j] = reported[j]
      /\ result'[j] = (IF j \in failed THEN "failed" ELSE "passed")
      /\ seen'[j] = tree /\ Files(j)' = Files(j)
  BY <1>1, <1>2, FilesSame DEF PerJob
<1>6. TypeInv(j)' /\ GateInv(j)' /\ LineInv(j)' /\ DeservedInv(j)'
  BY <1>1, <1>5, OverKeeps
<1>7. ResultInv(j)' /\ WarningInv(j)'
  <2>1. End(j)' = End(j)
    BY <1>5 DEF End
  <2> QED
    BY <1>1, <1>2, <1>5, <2>1 DEF JobInv, ResultInv, WarningInv
<1>8. LeftInv(j)'
  <2>1. Files(j) \subseteq reported[j]
    BY <1>2 DEF Temporary
  <2> QED
    BY <1>1, <1>2, <1>5, <2>1 DEF JobInv, WarningInv, LeftInv
<1>9. PassedInv(j)'
  <2> SUFFICES ASSUME j \notin failed, j \notin disturbed,
                      mode[j] \in Lines \cup {"fmt", "check", "verify"}
               PROVE  Meets(mode[j], tree)
    BY <1>2, <1>5 DEF PassedInv, Returned, Undisturbed
  <2>1. Sound(j)
    BY DEF Sound, Steady
  <2> QED
    BY <1>2, <2>1, EndMeets
<1>10. FailedInv(j)'
  <2> SUFFICES ASSUME j \in failed, j \notin disturbed, j \notin hit,
                      mode[j] \in Lines \cup {"check", "verify"}
               PROVE  ~Meets(mode[j], tree)
    BY <1>2, <1>5 DEF FailedInv, Returned, Undisturbed
  <2> QED
    BY <1>1 DEF JobInv, DeservedInv, AtFault, Steady
<1>11. RehearsalInv(j)'
  <2>1. RehearsalInv(j) /\ planned'[j] = planned[j] /\ rendered'[j] = rendered[j]
    BY <1>1 DEF JobInv, gate, found
  <2> QED
    BY <1>1, <1>2, <1>5, <2>1 DEF RehearsalInv
<1>12. JobInv(j)'
  BY <1>6, <1>7, <1>8, <1>9, <1>10, <1>11 DEF JobInv
<1> QED
  BY <1>1, <1>4, <1>12, JobMoves

LEMMA KillKeeps ==
  ASSUME IInv, NEW j \in Running, Kill(j), UNCHANGED <<compat, gate>>
  PROVE  IInv'
<1>1. /\ PerJob(mode) /\ PerJob(at) /\ PerJob(reported) /\ PerJob(result) /\ PerJob(seen)
      /\ j \in Jobs /\ reported[j] \subseteq Files(j) /\ JobInv(j) /\ mode[j] # Null
  BY Place, Parts DEF World, ShapeInv, IInv, TypeOK
<1>2. /\ Fault(j) /\ result' = [result EXCEPT ![j] = "killed"]
      /\ UNCHANGED <<repository, mode, at, failed, litter, reported, seen, disturbed>>
  BY DEF Kill
<1>3. Turns(j)
  <2>1. /\ mode' = [mode EXCEPT ![j] = mode[j]]
        /\ reported' = [reported EXCEPT ![j] = reported[j]]
        /\ at' = [at EXCEPT ![j] = at[j]] /\ seen' = [seen EXCEPT ![j] = seen[j]]
    BY <1>1, <1>2 DEF PerJob
  <2> QED
    BY <1>2, <2>1 DEF Turns, Goto
<1>4. Around(j)
  BY <1>1, <1>3, TurnAround
<1>5. /\ mode'[j] = mode[j] /\ reported'[j] = reported[j] /\ failed' = failed
      /\ result'[j] = "killed" /\ Files(j)' = Files(j)
  BY <1>1, <1>2, FilesSame DEF PerJob
<1>6. TypeInv(j)' /\ GateInv(j)' /\ LineInv(j)' /\ DeservedInv(j)'
  BY <1>1, <1>5, OverKeeps
<1>7. ResultInv(j)' /\ WarningInv(j)' /\ PassedInv(j)' /\ FailedInv(j)' /\ LeftInv(j)'
  BY <1>1, <1>5 DEF JobInv, ResultInv, WarningInv, PassedInv, FailedInv, LeftInv, Returned
<1>8. RehearsalInv(j)'
  BY <1>5 DEF RehearsalInv
<1>9. JobInv(j)'
  BY <1>6, <1>7, <1>8 DEF JobInv
<1> QED
  BY <1>1, <1>4, <1>9, JobMoves

LEMMA StartKeeps ==
  ASSUME IInv, NEW j \in Jobs, NEW m \in Modes[j], Start(j, m), UNCHANGED <<compat, gate>>
  PROVE  IInv'
<1>1. /\ PerJob(mode) /\ PerJob(at) /\ PerJob(reported) /\ PerJob(result) /\ PerJob(seen)
      /\ reported[j] \subseteq Files(j) /\ JobInv(j)
  BY Parts DEF World, ShapeInv, IInv, TypeOK
<1>2. /\ mode[j] = Null /\ mode' = [mode EXCEPT ![j] = m] /\ Goto(j, 1)
      /\ UNCHANGED <<repository, failed, litter, reported, result, seen, disturbed, hit, faults>>
  BY DEF Start
<1>3. Turns(j)
  <2>1. /\ reported' = [reported EXCEPT ![j] = reported[j]]
        /\ result' = [result EXCEPT ![j] = result[j]]
        /\ seen' = [seen EXCEPT ![j] = seen[j]]
    BY <1>1, <1>2 DEF PerJob
  <2> QED
    BY <1>2, <2>1 DEF Turns
<1>4. Around(j)
  BY <1>1, <1>3, TurnAround
<1>5. m \in AllModes /\ m # Null
  BY ModesAssumption, NullAssumption
<1>6. /\ mode'[j] = m /\ at'[j] = 1 /\ reported'[j] = reported[j] /\ result'[j] = "none"
      /\ Files(j)' = Files(j) /\ rendered'[j] = <<>>
      /\ j \notin failed \cup disturbed \cup hit
      /\ failed' = failed /\ disturbed' = disturbed /\ hit' = hit
  <2>1. result[j] = "none" /\ rendered[j] = <<>> /\ j \notin failed \cup disturbed \cup hit
    BY <1>1, <1>2 DEF JobInv, ResultInv, TypeInv
  <2> QED
    BY <1>1, <1>2, <2>1, FilesSame DEF PerJob, Goto, gate, found
<1>7. TypeInv(j)'
  <2>1. End(j)' = Len(Program(m)) + 1 /\ Len(Program(m)) \in Nat
    BY <1>5, <1>6, ProgramType DEF End
  <2>2. at'[j] \in 1..End(j)'
    BY <1>6, <2>1
  <2> QED
    BY <1>1, <1>5, <1>6, <2>2 DEF TypeInv
<1>8. /\ ResultInv(j)' /\ WarningInv(j)' /\ PassedInv(j)' /\ FailedInv(j)' /\ LeftInv(j)'
      /\ DeservedInv(j)' /\ LineInv(j)'
  BY <1>1, <1>5, <1>6 DEF JobInv, ResultInv, WarningInv, PassedInv, FailedInv, LeftInv,
                         Returned, DeservedInv, AtFault, LineInv
<1>9. GateInv(j)'
  <2>1. Done(j)' = {}
    BY <1>6 DEF Done
  <2> QED
    BY <2>1 DEF GateInv
<1>10. RehearsalInv(j)'
  BY <1>6 DEF RehearsalInv
<1>11. JobInv(j)'
  BY <1>7, <1>8, <1>9, <1>10 DEF JobInv
<1> QED
  BY <1>4, <1>11, JobMoves
LEMMA FormattedType ==
  ASSUME NEW c \in Contents, NEW tool \in Formatters
  PROVE  /\ Formatted(c.ok, tool) \in SUBSET Checks /\ tool \in Formatted(c.ok, tool)
         /\ tool = "gofumpt" => c.ok \subseteq Formatted(c.ok, tool)
         /\ [c EXCEPT !.ok = Formatted(c.ok, tool)] \in Contents
         /\ [c EXCEPT !.ok = Formatted(c.ok, tool)].gomod = c.gomod
         /\ [c EXCEPT !.ok = Formatted(c.ok, tool)].ok = Formatted(c.ok, tool)
<1>1. c.ok \in SUBSET Checks /\ tool \in Checks
  BY DEF Contents, Checks, Formatters
<1>2. /\ Formatted(c.ok, tool) \in SUBSET Checks /\ tool \in Formatted(c.ok, tool)
      /\ tool = "gofumpt" => c.ok \subseteq Formatted(c.ok, tool)
  BY <1>1 DEF Formatted
<1> QED
  BY <1>2 DEF Contents

LEMMA FormatKeeps ==
  ASSUME IInv, NEW j \in Running, Format(j), UNCHANGED compat
  PROVE  IInv'
<1>1. /\ PerJob(mode) /\ PerJob(at) /\ PerJob(reported) /\ PerJob(result) /\ PerJob(seen)
      /\ PerJob(contract) /\ PerJob(modfile) /\ PerJob(candidate) /\ PerJob(measured)
      /\ PerJob(planned) /\ PerJob(rendered) /\ World
      /\ tree \in Contents /\ head \in Contents /\ edits \in Nat /\ faults \in Nat
      /\ j \in Jobs /\ reported[j] \subseteq Files(j) /\ JobInv(j)
      /\ mode[j] # Null /\ result[j] = "none" /\ at[j] \in 1..End(j)
  BY Place, Parts DEF World, ShapeInv, IInv, TypeOK
<1>2. /\ mode[j] = "fmt" /\ Phase(j) \in Formatters
      /\ PassIf(j, Ready(j))
      /\ UNCHANGED <<head, edits, litter, reported, mode, result, seen, hit, faults, contract,
                     modfile, cache, candidate, measured, planned, rendered>>
  BY DEF Format, gate, found, compat
<1>3. PICK c : /\ c = IF Ready(j) THEN [tree EXCEPT !.ok = Formatted(@, Phase(j))] ELSE tree
               /\ Rewrite(c, Running \ {j})
  BY DEF Format
<1>4. /\ c \in Contents /\ c.gomod = tree.gomod /\ tree' = c
      /\ Ready(j) => c.ok = Formatted(tree.ok, Phase(j))
      /\ ~Ready(j) => c = tree
  BY <1>1, <1>2, <1>3, FormattedType DEF Rewrite
<1>5. /\ disturbed \subseteq disturbed' /\ disturbed' \subseteq disturbed \cup (Running \ {j})
      /\ tree' = tree \/ \A k \in Running \ {j} : k \in disturbed'
  BY <1>3 DEF Rewrite
<1>6. /\ at[j] # End(j)
      /\ Phase(j) = "goimports" => at[j] = 1
      /\ Phase(j) = "gofumpt" => at[j] = 2
      /\ Program(mode[j])[1] = "goimports"
  <2> DEFINE program == Program(mode[j])
  <2>1. at[j] # End(j)
    BY <1>2, Place DEF Formatters
  <2>2. at[j] \in 1..Len(program) /\ Phase(j) = program[at[j]]
    BY <2>1, Place
  <2>3. Len(program) = 2 /\ program[1] = "goimports" /\ program[2] = "gofumpt"
    BY <1>2, FormatProgram
  <2> HIDE DEF program
  <2>4. /\ Phase(j) = "goimports" => at[j] = 1
        /\ Phase(j) = "gofumpt" => at[j] = 2
    BY <2>2, <2>3
  <2> QED
    BY <2>1, <2>3, <2>4 DEF program
<1>7. /\ failed' = IF Ready(j) THEN failed ELSE failed \cup {j}
      /\ at' = [at EXCEPT ![j] = IF Ready(j) THEN at[j] + 1 ELSE End(j)]
  BY <1>2 DEF PassIf, Goto
<1>8. \A k \in Jobs : Files(k)' = Files(k)
  BY <1>2, FilesSame
<1>9. Around(j)
  <2>1. ASSUME NEW k \in Jobs \ {j} PROVE Same(k)
    <3>1. at'[k] = at[k] /\ (k \in failed' <=> k \in failed)
      BY <1>1, <1>7 DEF PerJob
    <3>2. /\ k \in disturbed => k \in disturbed'
          /\ k \in disturbed' => k \in disturbed \/ k \in Running
          /\ tree' = tree \/ (k \in Running => k \in disturbed')
      BY <1>5
    <3> QED
      BY <1>2, <1>8, <3>1, <3>2 DEF Same
  <2>2. ShapeInv'
    <3>1. PerJob(at)'
      BY <1>1, <1>7 DEF PerJob
    <3>2. PerJob(mode)' /\ PerJob(reported)' /\ PerJob(result)' /\ PerJob(seen)'
      BY <1>1, <1>2 DEF PerJob
    <3>3. /\ PerJob(contract)' /\ PerJob(modfile)' /\ PerJob(candidate)' /\ PerJob(measured)'
          /\ PerJob(planned)' /\ PerJob(rendered)'
      BY <1>1, <1>2 DEF PerJob
    <3> QED
      BY <1>1, <1>2, <1>4, <3>1, <3>2, <3>3 DEF ShapeInv
  <2>3. World'
    <3>1. failed' \cup disturbed' \cup hit' \subseteq Jobs
      BY <1>1, <1>2, <1>5, <1>7 DEF World, Running
    <3> QED
      BY <1>1, <1>2, <1>4, <2>2, <3>1 DEF World
  <2> QED
    BY <1>1, <1>2, <2>1, <2>3 DEF Around
<1>10. /\ mode'[j] = "fmt" /\ result'[j] = "none" /\ reported'[j] = reported[j]
       /\ rendered'[j] = rendered[j] /\ (j \in disturbed' <=> j \in disturbed)
       /\ at'[j] = IF Ready(j) THEN at[j] + 1 ELSE End(j)
       /\ End(j)' = End(j) /\ End(j) \in Nat /\ at[j] \in Nat
  BY <1>1, <1>2, <1>5, <1>7, Place DEF PerJob, End
<1>11. TypeInv(j)'
  <2>1. at'[j] \in 1..End(j)
    BY <1>1, <1>6, <1>10
  <2> QED
    BY <1>1, <1>2, <1>8, <1>10, <2>1 DEF TypeInv, JobInv
<1>12. /\ ResultInv(j)' /\ WarningInv(j)' /\ PassedInv(j)' /\ FailedInv(j)' /\ LeftInv(j)'
  BY <1>1, <1>2, <1>7, <1>10 DEF JobInv, ResultInv, WarningInv, PassedInv, FailedInv, LeftInv,
                                 Returned
<1>13. LineInv(j)' /\ RehearsalInv(j)' /\ DeservedInv(j)'
  BY <1>10 DEF LineInv, RehearsalInv, DeservedInv, Lines, Releasing
<1>14. GateInv(j)'
  <2> SUFFICES ASSUME Sound(j)' PROVE \A phase \in Done(j)' : Told(j, phase)'
    BY DEF GateInv
  <2>1. Ready(j) /\ Sound(j)
    BY <1>1, <1>5, <1>7, <1>10 DEF Sound, Steady, Running
  <2>2. Done(j)' = Done(j) \cup {Phase(j)}
    BY <1>2, <1>6, <1>10, <2>1, DoneGrows
  <2>3. Done(j)' \subseteq {"goimports", "gofumpt"} /\ Done(j)' \subseteq tree'.ok
    <3>1. Phase(j) \in tree'.ok /\ (Phase(j) = "gofumpt" => tree.ok \subseteq tree'.ok)
      <4>1. /\ Phase(j) \in Formatted(tree.ok, Phase(j))
            /\ Phase(j) = "gofumpt" => tree.ok \subseteq Formatted(tree.ok, Phase(j))
        BY <1>1, <1>2, FormattedType
      <4>2. tree'.ok = Formatted(tree.ok, Phase(j))
        BY <1>4, <2>1
      <4> QED
        BY <4>1, <4>2
    <3>2. CASE Phase(j) = "goimports"
      <4>1. Done(j) = {}
        BY <1>6, <3>2 DEF Done
      <4> QED
        BY <2>2, <3>1, <3>2, <4>1
    <3>3. CASE Phase(j) = "gofumpt"
      <4>1. Done(j) = {"goimports"}
        BY <1>6, <3>3 DEF Done
      <4>2. Told(j, "goimports")
        BY <1>1, <1>2, <2>1, <4>1 DEF JobInv, GateInv, Lines
      <4>3. "goimports" \in tree.ok
        BY <4>2 DEF Told, Formatters
      <4> QED
        BY <2>2, <3>1, <3>3, <4>1, <4>3
    <3> QED
      BY <1>2, <3>2, <3>3 DEF Formatters
  <2>4. ASSUME NEW phase \in Done(j)' PROVE Told(j, phase)'
    BY <2>3 DEF Told, Formatters, Analyzers
  <2> QED
    BY <2>4
<1>15. JobInv(j)'
  BY <1>11, <1>12, <1>13, <1>14 DEF JobInv
<1> QED
  BY <1>1, <1>9, <1>15, JobMoves
-------------------------------------------------------------------------------
(* Edits, commits, and the theorems *)

LEMMA CheckoutKeeps ==
  ASSUME IInv, Commit \/ \E content \in Trees : Edit(content), UNCHANGED <<compat, gate>>
  PROVE  IInv'
<1>1. World /\ \A k \in Jobs : JobInv(k)
  BY Parts
<1>2. /\ UNCHANGED <<mode, at, failed, litter, reported, result, seen, hit, faults>>
      /\ UNCHANGED <<contract, modfile, cache, candidate, measured, planned, rendered>>
      /\ tree' \in Contents /\ head' \in Contents /\ edits' \in Nat
      /\ {tree'.gomod, head'.gomod} \subseteq {content.gomod : content \in Trees}
      /\ disturbed \subseteq disturbed' /\ disturbed' \subseteq disturbed \cup Running
      /\ tree' = tree \/ Running \subseteq disturbed'
  <2>1. CASE Commit
    BY <1>1, <2>1 DEF Commit, job, compat, gate, found, World, ShapeInv
  <2>2. CASE \E content \in Trees : Edit(content)
    BY <1>1, <2>2, TreesAssumption
    DEF Edit, Rewrite, compat, gate, found, World, ShapeInv
  <2> QED
    BY <2>1, <2>2
<1>3. \A k \in Jobs : Files(k)' = Files(k)
  BY <1>2, FilesSame
<1>4. ASSUME NEW k \in Jobs PROVE Same(k)
  BY <1>2, <1>3 DEF Same
<1>5. faults \in Nat /\ faults' = faults /\ cache' = cache
  BY <1>1, <1>2 DEF World, ShapeInv
<1>6. \A k \in Jobs : JobInv(k)'
  BY <1>1, <1>4, <1>5, Kept
<1>7. ShapeInv'
  BY <1>1, <1>2 DEF World, ShapeInv, PerJob
<1>8. World'
  BY <1>1, <1>2, <1>7 DEF World, Running
<1>9. IInv' <=> World' /\ JobsInv'
  BY WorldAndJobs, PTL
<1> QED
  BY <1>6, <1>8, <1>9 DEF JobsInv

LEMMA Initially == Init => IInv
<1> SUFFICES ASSUME Init PROVE IInv
  OBVIOUS
<1> USE DEF Init, JobsInit, CompatInit, GateInit
<1>1. World
  BY TreesAssumption DEF World, ShapeInv, PerJob
<1>2. ASSUME NEW j \in Jobs PROVE JobInv(j)
  <2>1. /\ mode[j] = Null /\ result[j] = "none" /\ reported[j] = {} /\ rendered[j] = <<>>
        /\ j \notin Running
    BY DEF Running
  <2>2. TypeInv(j)
    BY <2>1 DEF TypeInv
  <2>3. ResultInv(j) /\ WarningInv(j) /\ PassedInv(j) /\ FailedInv(j) /\ LeftInv(j)
    BY <2>1 DEF ResultInv, WarningInv, PassedInv, FailedInv, LeftInv, Returned
  <2>4. GateInv(j) /\ LineInv(j) /\ DeservedInv(j)
    BY <2>1 DEF GateInv, LineInv, DeservedInv, Sound, AtFault, Steady
  <2>5. RehearsalInv(j)
    BY <2>1, NullAssumption DEF RehearsalInv, Releasing, AllModes
  <2> QED
    BY <2>2, <2>3, <2>4, <2>5 DEF JobInv
<1> QED
  BY <1>1, <1>2, Parts

LEMMA Stuttering == IInv /\ UNCHANGED vars => IInv'
<1> SUFFICES ASSUME IInv, UNCHANGED vars PROVE IInv'
  OBVIOUS
<1> USE DEF vars, repository, job, compat, gate, found
<1>1. World /\ \A k \in Jobs : JobInv(k)
  BY Parts
<1>2. \A k \in Jobs : Files(k)' = Files(k)
  BY FilesSame
<1>3. ASSUME NEW k \in Jobs PROVE Same(k)
  BY <1>2 DEF Same
<1>4. faults \in Nat /\ faults' = faults /\ cache' = cache
  BY <1>1 DEF World, ShapeInv
<1>5. \A k \in Jobs : JobInv(k)'
  BY <1>1, <1>3, <1>4, Kept
<1>6. World'
  BY <1>1 DEF World, ShapeInv, PerJob
<1>7. IInv' <=> World' /\ JobsInv'
  BY WorldAndJobs, PTL
<1> QED
  BY <1>5, <1>6, <1>7 DEF JobsInv

LEMMA NextKeeps == IInv /\ [Next]_vars => IInv'
<1> SUFFICES ASSUME IInv, [Next]_vars PROVE IInv'
  OBVIOUS
<1>1. ASSUME NEW j \in Jobs, NEW m \in Modes[j], Start(j, m), UNCHANGED <<compat, gate>>
      PROVE  IInv'
  BY <1>1, StartKeeps
<1>2. ASSUME NEW j \in Running, CompatStep(j), UNCHANGED gate PROVE IInv'
  BY <1>2, ReadsKeep, WritesKeep, UsesKeep DEF CompatStep
<1>3. ASSUME NEW j \in Running, GateStep(j), UNCHANGED compat PROVE IInv'
  <2>1. CASE CheckIdentity(j) \/ CheckWorkflow(j)
    BY <1>3, <2>1, IdentityKeeps
  <2>2. CASE Fetch(j)
    BY <1>3, <2>2, FetchKeeps
  <2>3. CASE CheckFormat(j) \/ Tidy(j) \/ Command(j)
    BY <1>3, <2>3, CommandsKeep
  <2>4. CASE Format(j)
    BY <1>3, <2>4, FormatKeeps
  <2>5. CASE Export(j) \/ MakeProfile(j) \/ MakeRehearsal(j)
    BY <1>3, <2>5, MakeKeeps
  <2>6. CASE CompareVendor(j)
    BY <1>3, <2>6, CompareVendorKeeps
  <2>7. CASE ProfileNotClosed(j)
    BY <1>3, <2>7, FaultKeeps
  <2>8. CASE MeasureCoverage(j) \/ RequireCoverage(j)
    BY <1>3, <2>8, CoverageKeeps
  <2>9. CASE Plan(j)
    BY <1>3, <2>9, PlanKeeps
  <2>10. CASE Render(j) \/ RenderDiffers(j)
    BY <1>3, <2>10, RenderKeeps
  <2>11. CASE CompareRenders(j)
    BY <1>3, <2>11, CompareRendersKeeps
  <2>12. CASE Validate(j)
    BY <1>3, <2>12, ValidateKeeps
  <2> QED
    BY <1>3, <2>1, <2>2, <2>3, <2>4, <2>5, <2>6, <2>7, <2>8, <2>9, <2>10, <2>11, <2>12
    DEF GateStep
<1>4. ASSUME NEW j \in Running, CommandFails(j) \/ Leave(j) \/ Kill(j),
             UNCHANGED <<compat, gate>>
      PROVE  IInv'
  BY <1>4, FaultKeeps, RemoveKeeps, LeaveStepKeeps, ReturnKeeps, KillKeeps DEF Leave
<1>5. ASSUME Commit \/ (\E content \in Trees : Edit(content)), UNCHANGED <<compat, gate>>
      PROVE  IInv'
  BY <1>5, CheckoutKeeps
<1>6. CASE UNCHANGED vars
  BY <1>6, Stuttering
<1> QED
  BY <1>1, <1>2, <1>3, <1>4, <1>5, <1>6 DEF Next
\* IInv is an invariant of the specification.
THEOREM Invariance == Spec => []IInv
<1>1. IInv /\ [Next]_vars => IInv'
  BY NextKeeps
<1> QED
  BY Initially, <1>1, PTL DEF Spec

\* Every job is in its program and keeps to its own temporary files.
THEOREM TypeCorrect == Spec => []TypeOK
<1>1. IInv => TypeOK
  BY DEF IInv
<1> QED
  BY Invariance, <1>1, PTL

\* A job that passed over a tree nobody else changed has found all its mode stands
\* for (main.go:79-177 of the gate, corecompat's run), whatever else ran or failed.
THEOREM PassedVerified == Spec => []PassedMeansVerified
<1>1. IInv => PassedMeansVerified
  BY DEF IInv
<1> QED
  BY Invariance, <1>1, PTL

\* Without a fault it fails only for what the tree is: what the offline phases need
\* has been fetched before them.
THEOREM FailureDeserved == Spec => []FailureIsDeserved
<1>1. IInv => FailureIsDeserved
  BY DEF IInv
<1> QED
  BY Invariance, <1>1, PTL

\* What a returned job leaves on disk it has reported, and as a warning only
\* directories.
THEOREM NothingLeftUnreported == Spec => []LeftoversReported
<1>1. IInv => LeftoversReported
  BY DEF IInv
<1> QED
  BY Invariance, <1>1, PTL

\* A step spends at most one fault.
LEMMA FaultsBounded ==
  ASSUME MaxFaults \in Nat
  PROVE  Spec => [](faults <= MaxFaults)
<1> DEFINE Bounded == faults <= MaxFaults
<1>1. Init => Bounded
  BY DEF Init, JobsInit
<1>2. IInv /\ Bounded /\ [Next]_vars => Bounded'
  <2> SUFFICES ASSUME IInv, Bounded, [Next]_vars PROVE Bounded'
    OBVIOUS
  <2>1. faults \in Nat
    BY DEF IInv, ShapeInv
  <2>2. ASSUME NEW j \in Jobs, Fault(j) PROVE Bounded'
    BY <2>1, <2>2 DEF Fault
  <2>3. ASSUME NEW j \in Jobs, NEW m, Start(j, m) PROVE Bounded'
    BY <2>3 DEF Start
  <2>4. ASSUME NEW j \in Jobs, CompatStep(j) PROVE Bounded'
    BY <2>2, <2>4
    DEF CompatStep, ReadContract, ReadMinimum, CopyModfile, CopyFails, RequireLine, Resolve,
        ListSelected, VetOrTest, Creates, Judge, Quiet
  <2>5. ASSUME NEW j \in Jobs, GateStep(j) PROVE Bounded'
    <3>1. CASE \E phase, ok : Judge(j, phase, ok)
      BY <3>1 DEF Judge, Quiet
    <3>2. CASE \E phase, file, ok : Make(j, phase, file, ok)
      BY <3>2 DEF Make
    <3>3. CASE Format(j)
      BY <3>3 DEF Format
    <3>4. CASE ProfileNotClosed(j) \/ RenderDiffers(j)
      BY <2>2, <3>4 DEF ProfileNotClosed, RenderDiffers
    <3> QED
      BY <2>5, <3>1, <3>2, <3>3, <3>4
      DEF GateStep, CheckIdentity, CheckWorkflow, Fetch, CheckFormat, Tidy, Export,
          CompareVendor, Command, MakeProfile, MeasureCoverage, RequireCoverage,
          MakeRehearsal, Plan, Render, CompareRenders, Validate
  <2>6. ASSUME NEW j \in Jobs, CommandFails(j) \/ Leave(j) \/ Kill(j) PROVE Bounded'
    BY <2>2, <2>6 DEF CommandFails, Leave, Remove, Removed, NotRemoved, LeaveStep, Return, Kill
  <2>7. ASSUME Commit \/ \E content \in Trees : Edit(content) PROVE Bounded'
    BY <2>7 DEF Commit, Edit, job
  <2>8. CASE UNCHANGED vars
    BY <2>8 DEF vars, job
  <2> QED
    BY <2>3, <2>4, <2>5, <2>6, <2>7, <2>8 DEF Next, Running
<1> QED
  BY Invariance, <1>1, <1>2, PTL DEF Spec

\* With at most one fault a rehearsal that passed has rendered one commit twice
\* (release_rehearsal.go): a render that went wrong alone is found by comparing it
\* with the other, though not two that go wrong in the same way.
THEOREM RehearsalOfOneCommit ==
  ASSUME MaxFaults \in 0..1
  PROVE  Spec => []RehearsesOneCommit
<1>1. IInv /\ faults <= MaxFaults => RehearsesOneCommit
  <2> SUFFICES ASSUME IInv, faults <= MaxFaults, NEW j \in Jobs, Returned(j, "passed"),
                      mode[j] \in Releasing
               PROVE  /\ planned[j] # Null
                      /\ rendered[j] = <<Output(planned[j], "none"), Output(planned[j], "none")>>
                      /\ Undisturbed(j) => Declared(planned[j])
    BY DEF RehearsesOneCommit
  <2>1. RehearsalInv(j) /\ ResultInv(j) /\ faults \in Nat
    BY DEF IInv, ShapeInv
  <2>2. j \notin failed /\ at[j] = 11
    <3>1. Len(Program(mode[j])) = 10
      BY ReleasingProgram
    <3> QED
      BY <2>1, <3>1 DEF ResultInv, Returned, End
  <2>3. planned[j] # Null /\ (j \notin disturbed => Declared(planned[j]))
    BY <2>1, <2>2 DEF RehearsalInv, Returned
  <2>4. PICK d \in Outcomes, e \in Outcomes :
          /\ rendered[j] = <<Output(planned[j], d), Output(planned[j], e)>>
          /\ d # "none" /\ e # "none" => faults >= 2
    BY <2>1, <2>2 DEF RehearsalInv, Returned
  <2>5. rendered[j][1] = rendered[j][2]
    BY <2>1, <2>2 DEF RehearsalInv, Returned
  <2>6. d = e
    BY <2>4, <2>5 DEF Output
  <2>7. ~(faults >= 2)
    BY <2>1
  <2>8. d = "none" /\ e = "none"
    BY <2>4, <2>6, <2>7
  <2> QED
    BY <2>3, <2>4, <2>8 DEF Undisturbed
<1>2. MaxFaults \in Nat
  OBVIOUS
<1> QED
  BY Invariance, FaultsBounded, <1>1, <1>2, PTL

\* No step of a tool rewrites go.mod, go.sum or vendor: only edits do, and the
\* formatters touch nothing but the formatting (README.md:58).
THEOREM OnlyFormattingRewritten == Spec => GraphUntouched
<1> DEFINE Touched(c) == [tree EXCEPT !.ok = (@ \ {"goimports", "gofumpt"})
                                               \cup (c.ok \cap {"goimports", "gofumpt"})]
           Step == edits' = edits => tree' = Touched(tree')
<1>1. IInv /\ [Next]_vars => [Step]_vars
  <2> SUFFICES ASSUME IInv, [Next]_vars PROVE Step
    OBVIOUS
  <2>1. tree \in Contents /\ edits \in Nat
    BY DEF IInv, ShapeInv
  <2>2. ASSUME UNCHANGED tree PROVE Step
    <3>1. Touched(tree) = tree
      BY <2>1 DEF Contents
    <3> QED
      BY <2>2, <3>1
  <2>3. ASSUME NEW j \in Jobs, NEW m, Start(j, m) PROVE Step
    BY <2>2, <2>3 DEF Start, repository
  <2>4. ASSUME NEW j \in Jobs, CompatStep(j) PROVE Step
    BY <2>2, <2>4
    DEF CompatStep, ReadContract, ReadMinimum, CopyModfile, CopyFails, RequireLine, Resolve,
        ListSelected, VetOrTest, Judge, repository
  <2>5. ASSUME NEW j \in Jobs, Format(j) PROVE Step
    <3>1. CASE Ready(j)
      <4>1. Phase(j) \in Formatters /\ tree' = [tree EXCEPT !.ok = Formatted(@, Phase(j))]
        BY <2>5, <3>1 DEF Format, Rewrite
      <4>2. Formatted(tree.ok, Phase(j)) = (tree.ok \ {"goimports", "gofumpt"})
              \cup (Formatted(tree.ok, Phase(j)) \cap {"goimports", "gofumpt"})
        BY <4>1 DEF Formatted, Formatters
      <4>3. tree'.ok = Formatted(tree.ok, Phase(j))
        BY <2>1, <4>1, FormattedType
      <4> QED
        BY <2>1, <4>1, <4>2, <4>3
    <3>2. CASE ~Ready(j)
      BY <2>2, <2>5, <3>2 DEF Format, Rewrite
    <3> QED
      BY <3>1, <3>2
  <2>6. ASSUME NEW j \in Jobs, GateStep(j) PROVE Step
    <3>1. CASE \E phase, ok : Judge(j, phase, ok)
      BY <2>2, <3>1 DEF Judge, repository
    <3>2. CASE \E phase, file, ok : Make(j, phase, file, ok)
      BY <2>2, <3>2 DEF Make, repository
    <3>3. CASE ProfileNotClosed(j) \/ RenderDiffers(j)
      BY <2>2, <3>3 DEF ProfileNotClosed, RenderDiffers, repository
    <3> QED
      BY <2>5, <2>6, <3>1, <3>2, <3>3
      DEF GateStep, CheckIdentity, CheckWorkflow, Fetch, CheckFormat, Tidy, Export,
          CompareVendor, Command, MakeProfile, MeasureCoverage, RequireCoverage,
          MakeRehearsal, Plan, Render, CompareRenders, Validate
  <2>7. ASSUME NEW j \in Jobs, CommandFails(j) \/ Leave(j) \/ Kill(j) PROVE Step
    BY <2>2, <2>7 DEF CommandFails, Leave, Remove, Removed, NotRemoved, LeaveStep, Return, Kill,
                      repository
  <2>8. CASE Commit
    BY <2>2, <2>8 DEF Commit
  <2>9. ASSUME NEW content \in Trees, Edit(content) PROVE Step
    BY <2>1, <2>9 DEF Edit
  <2>10. CASE UNCHANGED vars
    BY <2>2, <2>10 DEF vars, repository
  <2> QED
    BY <2>3, <2>4, <2>6, <2>7, <2>8, <2>9, <2>10 DEF Next, Running
<1> QED
  BY Invariance, <1>1, PTL DEF Spec, GraphUntouched
================================================================================
