-------------------------------- MODULE ToolJobs --------------------------------
(***************************************************************************)
(* The repository's own command line tools (internal/corecompat and        *)
(* internal/qualitygate) as jobs on one checkout: each is a program of     *)
(* phases that stops at the first error and removes its temporary files on *)
(* every way out.  Meanwhile somebody edits the working tree, commits, and *)
(* kills jobs.                                                             *)
(***************************************************************************)
EXTENDS Integers, Sequences, FiniteSets

CONSTANTS
  Jobs,         \* runs of a tool, one each
  Modes,        \* Modes[j]: the modes or lines j may be started with
  Trees,        \* contents the working tree may have
  MaxEdits,     \* bound: edits and commits
  MaxFaults,    \* bound: commands that fail, files that cannot be removed
  Null

(***************************************************************************)
(* A content of the tree is a record:                                      *)
(*   gomod       go.mod: deps (which requirements it has), core and        *)
(*               indirect (the requirement of Spice core, 0 without one),  *)
(*               module and replaced (its own path, any replacement), and  *)
(*               of each release tool how often it declares and what       *)
(*               version it selects                                        *)
(*   contract    spice-compatibility.json: schema, minimum and current     *)
(*               (0 when empty), or Null when it cannot be decoded         *)
(*   vendored    the requirements the files of the vendor directory are of *)
(*   listed      the requirements vendor/modules.txt lists                 *)
(*   forced      the oldest core the sources and other modules can select  *)
(*   compatible  cores with which the sources vet and test                 *)
(*   coverage    per cent of the product's statements its tests reach      *)
(*   ok          the other checks of the quality gate that it passes       *)
(***************************************************************************)

ReleaseTools == {"spice-dev", "spice-library-release-verify"}

Checks == {"workflow", "goimports", "gofumpt", "tidy", "toolgraph", "vet", "golangci-lint",
           "nilaway", "gosec", "govulncheck", "test", "gatetest", "offlinetest", "offlinebuild"}
GoMods == [deps : Nat, core : Nat, indirect : BOOLEAN, module : STRING, replaced : BOOLEAN,
           declares : [ReleaseTools -> Nat], selects : [ReleaseTools -> STRING]]
Contracts == [schema : Nat, minimum : Nat, current : Nat]
Contents == [gomod : GoMods, contract : Contracts \cup {Null}, vendored : Nat, listed : Nat,
             forced : Nat, compatible : SUBSET Nat, coverage : Nat, ok : SUBSET Checks]

AllModes == {"minimum", "current", "check", "fmt", "verify", "release-rehearsal",
             "verify-release"}

ASSUME ModesAssumption == Modes \in [Jobs -> SUBSET AllModes]
ASSUME TreesAssumption == Trees \subseteq Contents
ASSUME NullAssumption == Null \notin AllModes /\ Null \notin Contracts /\ Null \notin Contents

VARIABLES
  tree,         \* the working tree
  head,         \* the content of the commit HEAD
  mode,         \* mode[j]: how j was started, Null before
  at,           \* at[j]: the phase j is at, one past its program when it leaves
  failed,       \* jobs that have an error to return
  litter,       \* temporary files <<job, name>> that exist
  reported,     \* reported[j]: temporary files named in an error or warning of j
  result,       \* result[j]: "none", "passed", "failed", "killed"
  seen,         \* seen[j]: the tree when j returned (history)
  disturbed,    \* jobs under which the tree was changed (history)
  hit,          \* jobs that met a fault (history)
  edits, faults

repository == <<tree, head, edits>>
job == <<mode, at, failed, litter, reported, result, seen, disturbed, hit, faults>>

-------------------------------------------------------------------------------
(* The phases of each mode, up to "leave": the end of a step with deferred  *)
(* removals.                                                                *)

Lines == {"minimum", "current"}
CompatProgram ==
  <<"contract", "minimum", "copy", "require", "resolve", "list", "vet", "test">>

Identity == <<"gomod", "releasetools", "workflow">>

\* Mutant: the graph of test dependencies is left to the offline check.
PrepareModules == <<"modules", "tools", "toolgraph">>

\* The phases that may use the network.
Prepare == <<"modules", "graph", "tools", "toolgraph">>
Formatting == <<"goimports", "gofumpt">>
CheckModules == <<"tidy", "export", "vendor", "leave">>
LintAndSecurity == <<"golangci-lint", "nilaway", "gosec", "govulncheck">>

TestsAndCoverage == <<"profile", "test", "gatetest", "coverage", "leave">>
Offline == <<"offlinetest", "offlinebuild">>
Rehearsal ==
  <<"rehearsal", "plan", "first", "second", "compare", "validate", "leave">>

GateProgram(m) ==
  CASE m = "check" -> Identity \o Prepare \o Formatting \o CheckModules \o <<"vet">>
    [] m = "fmt" -> Formatting
    [] m = "verify" ->
         Identity \o Prepare \o Formatting \o CheckModules \o <<"vet">>
           \o LintAndSecurity \o TestsAndCoverage \o Offline
    [] m \in {"release-rehearsal", "verify-release"} -> Identity \o Rehearsal

Program(m) == IF m \in Lines THEN CompatProgram ELSE GateProgram(m)

-------------------------------------------------------------------------------

Running == {j \in Jobs : mode[j] # Null /\ result[j] = "none"}
End(j) == Len(Program(mode[j])) + 1
Phase(j) == IF at[j] = End(j) THEN "leave" ELSE Program(mode[j])[at[j]]
Fault(j) == faults < MaxFaults /\ faults' = faults + 1 /\ hit' = hit \cup {j}

Files(j) == {file[2] : file \in {f \in litter : f[1] = j}}

\* Mutant: the checksums beside the modfile are forgotten.
TemporaryModfile(j) == Files(j) \ (reported[j] \cup {"sum"})

\* Temporary files j is still to remove.
Temporary(j) == Files(j) \ reported[j]

Goto(j, n) == at' = [at EXCEPT ![j] = n]

\* The phase of j passes when ok holds; otherwise j leaves with an error.
PassIf(j, ok) ==
  /\ Goto(j, IF ok THEN at[j] + 1 ELSE End(j))
  /\ failed' = IF ok THEN failed ELSE failed \cup {j}

\* What a phase leaves alone when it neither changes the tree nor its files.
Quiet == UNCHANGED <<litter, reported, mode, result, seen, disturbed, hit, faults>>

JobsInit ==
  /\ tree \in Trees /\ head = tree     \* a clean checkout
  /\ mode = [j \in Jobs |-> Null] /\ at = [j \in Jobs |-> 0]
  /\ failed = {} /\ litter = {} /\ reported = [j \in Jobs |-> {}]
  /\ result = [j \in Jobs |-> "none"] /\ seen = [j \in Jobs |-> Null]
  /\ disturbed = {} /\ hit = {} /\ edits = 0 /\ faults = 0

\* A phase that reads the tree and passes when ok holds.
Judge(j, phase, ok) ==
  /\ Phase(j) = phase
  /\ PassIf(j, ok)
  /\ Quiet /\ UNCHANGED repository

-------------------------------------------------------------------------------
(* A job's start, its commands that fail, and its ways out *)

Start(j, m) ==
  /\ mode[j] = Null
  /\ mode' = [mode EXCEPT ![j] = m]
  /\ Goto(j, 1)
  /\ UNCHANGED <<repository, failed, litter, reported, result, seen, disturbed, hit, faults>>

\* A command cannot be run, is cancelled by the job's timeout, has no network;
\* or the toolchain is another version.
CommandFails(j) ==
  /\ Phase(j) # "leave"
  /\ Fault(j)
  /\ PassIf(j, FALSE)
  /\ UNCHANGED <<repository, mode, litter, reported, result, seen, disturbed>>

\* A removal fails: an error of the job, but only a warning for a directory.
NotRemoved(j, file) ==
  /\ Fault(j)
  /\ reported' = [reported EXCEPT ![j] = @ \cup {file}]
  /\ IF file \in {"vendor", "rehearsal"} THEN UNCHANGED <<at, failed>>
     ELSE Goto(j, End(j)) /\ failed' = failed \cup {j}
  /\ UNCHANGED <<repository, mode, litter, result, seen, disturbed>>

Removed(j, file) ==
  /\ litter' = litter \ {<<j, file>>}
  /\ UNCHANGED <<repository, mode, at, failed, reported, result, seen, disturbed, hit, faults>>

\* Deferred removals, the modfile before its checksums.
Remove(j) ==
  /\ Phase(j) = "leave"
  /\ \E file \in Temporary(j) :
       /\ file = "sum" => "mod" \notin Temporary(j)
       /\ Removed(j, file) \/ NotRemoved(j, file)

\* A step of several phases returns, and the next one begins.
LeaveStep(j) ==
  /\ Phase(j) = "leave" /\ at[j] # End(j)
  /\ Temporary(j) = {}
  /\ Goto(j, at[j] + 1)
  /\ UNCHANGED <<repository, mode, failed, litter, reported, result, seen, disturbed, hit,
                 faults>>

Return(j) ==
  /\ at[j] = End(j) /\ Temporary(j) = {}
  /\ result' = [result EXCEPT ![j] = IF j \in failed THEN "failed" ELSE "passed"]
  /\ seen' = [seen EXCEPT ![j] = tree]
  /\ UNCHANGED <<repository, mode, at, failed, litter, reported, disturbed, hit, faults>>

Leave(j) == Remove(j) \/ LeaveStep(j) \/ Return(j)

-------------------------------------------------------------------------------
(* The checkout around the jobs *)

\* The tree gets another content under the jobs J that are running.
Rewrite(content, J) ==
  /\ tree' = content
  /\ disturbed' = IF content = tree THEN disturbed ELSE disturbed \cup J

Edit(content) ==
  /\ edits < MaxEdits /\ content # tree
  /\ edits' = edits + 1
  /\ Rewrite(content, Running)
  /\ UNCHANGED <<head, mode, at, failed, litter, reported, result, seen, hit, faults>>

Commit ==
  /\ edits < MaxEdits /\ head # tree
  /\ edits' = edits + 1
  /\ head' = tree
  /\ UNCHANGED <<tree, job>>

Kill(j) ==
  /\ Fault(j)
  /\ result' = [result EXCEPT ![j] = "killed"]
  /\ UNCHANGED <<repository, mode, at, failed, litter, reported, seen, disturbed>>
================================================================================
