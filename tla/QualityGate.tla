------------------------------ MODULE QualityGate ------------------------------
(***************************************************************************)
(* internal/qualitygate: the repository's checks in their order, and the   *)
(* rehearsal of a release.  Only the preparation of dependencies has the   *)
(* network; every later command runs with what it has put in the cache.    *)
(***************************************************************************)
EXTENDS ToolJobs

VARIABLES
  cache,        \* the module cache: <<group, requirements>> that were fetched
  candidate,    \* candidate[j]: the requirements j's fresh vendor tree was made for
  measured,     \* measured[j]: the coverage in j's profile
  planned,      \* planned[j]: the commit the release plan of j names
  rendered      \* rendered[j]: the outputs of j's renders so far

found == <<candidate, measured, planned, rendered>>
gate == <<cache, found>>

minimumCoverage == 85
Formatters == {"goimports", "gofumpt"}
Analyzers == {"golangci-lint", "nilaway", "gosec", "govulncheck"}
Releasing == {"release-rehearsal", "verify-release"}

GateInit ==
  /\ cache = {}
  /\ candidate = [j \in Jobs |-> Null]
  /\ measured = [j \in Jobs |-> 0]
  /\ planned = [j \in Jobs |-> Null]
  /\ rendered = [j \in Jobs |-> <<>>]

-------------------------------------------------------------------------------
(* Identity *)

canonicalModule(gomod) == gomod.module = "starter-postgres" /\ ~gomod.replaced

\* Each release tool is declared exactly once and selected at the pinned version.
releaseToolAuthorized(gomod) ==
  \A tool \in ReleaseTools : gomod.declares[tool] = 1 /\ gomod.selects[tool] = "pinned"

CheckIdentity(j) ==
  /\ \/ Judge(j, "gomod", canonicalModule(tree.gomod))
     \/ Judge(j, "releasetools", releaseToolAuthorized(tree.gomod))
  /\ UNCHANGED gate

CheckWorkflow(j) == Judge(j, "workflow", "workflow" \in tree.ok) /\ UNCHANGED gate

-------------------------------------------------------------------------------
(* Dependencies, and the commands that need them *)

\* tools/go.mod is a module of its own and stays as it is.
Fetched(group) ==
  <<group, IF group \in {"tools", "toolgraph"} THEN 0 ELSE tree.gomod.deps>>

\* What a command resolves with GOPROXY=off; vet and tests find theirs in vendor.
Needs(phase) ==
  CASE phase \in Formatters \cup Analyzers -> {Fetched("tools")}
    [] phase = "tidy" -> {Fetched("modules"), Fetched("graph")}
    [] phase = "export" -> {Fetched("modules")}
    [] OTHER -> {}

\* go refuses a vendor/modules.txt that lists other requirements, wherever it builds
\* with one: that is, in every phase but those of formatting and of go mod.
Consistent == tree.listed = tree.gomod.deps

\* A command that lacks a module cannot be run.
Ready(j) ==
  /\ Needs(Phase(j)) \subseteq cache
  /\ Phase(j) \notin Formatters \cup {"tidy", "export"} => Consistent

\* "tidy -diff" fetches the graph it compares.
Fetch(j) ==
  /\ \/ \E group \in {"modules", "tools"} : Judge(j, group, TRUE)
     \/ Judge(j, "graph", "tidy" \in tree.ok)
     \/ Judge(j, "toolgraph", "toolgraph" \in tree.ok)
  /\ cache' = cache \cup {Fetched(Phase(j))}
  /\ UNCHANGED found

\* goimports or gofumpt with -l: any output is an error.
CheckFormat(j) ==
  /\ mode[j] # "fmt"
  /\ \E tool \in Formatters : Judge(j, tool, Ready(j) /\ tool \in tree.ok)
  /\ UNCHANGED gate

\* goimports writes what gofumpt may still want to change, not the other way.
Formatted(ok, tool) ==
  IF tool \in ok THEN ok
  ELSE IF tool = "goimports" THEN (ok \ {"gofumpt"}) \cup {tool}
  ELSE ok \cup {tool}

\* With -w the tool rewrites the sources under everybody else.
Format(j) ==
  /\ mode[j] = "fmt" /\ Phase(j) \in Formatters
  /\ PassIf(j, Ready(j))
  /\ Rewrite(IF Ready(j) THEN [tree EXCEPT !.ok = Formatted(@, Phase(j))] ELSE tree,
             Running \ {j})
  /\ UNCHANGED <<head, edits, gate, litter, reported, mode, result, seen, hit, faults>>

-------------------------------------------------------------------------------
(* Module and vendor, analyzers, tests *)

Tidy(j) == Judge(j, "tidy", Ready(j) /\ "tidy" \in tree.ok) /\ UNCHANGED gate

\* A phase that makes the temporary file or directory of its step.
Make(j, phase, file, ok) ==
  /\ Phase(j) = phase
  /\ litter' = litter \cup {<<j, file>>}
  /\ PassIf(j, ok)
  /\ UNCHANGED <<repository, reported, mode, result, seen, disturbed, hit, faults>>

Export(j) ==
  /\ Make(j, "export", "vendor", Ready(j))
  /\ candidate' = [candidate EXCEPT ![j] = tree.gomod.deps]
  /\ UNCHANGED <<cache, measured, planned, rendered>>

\* Mutant: the digests are taken and not compared.
VendorDigested(j) == Judge(j, "vendor", TRUE) /\ UNCHANGED gate

CompareVendor(j) ==
  /\ Judge(j, "vendor", tree.vendored = candidate[j] /\ tree.listed = candidate[j])
  /\ UNCHANGED gate

\* vet, linters, security tools, offline tests and build; the gate's own tests.
Command(j) ==
  /\ mode[j] \notin Lines
  /\ \E phase \in {"vet", "gatetest", "offlinetest", "offlinebuild"} \cup Analyzers :
       Judge(j, phase, Ready(j) /\ phase \in tree.ok)
  /\ UNCHANGED gate

MakeProfile(j) == Make(j, "profile", "coverage", TRUE) /\ UNCHANGED gate

\* The profile is created and cannot be closed: it stays, and the error names it.
ProfileNotClosed(j) ==
  /\ Phase(j) = "profile"
  /\ Fault(j)
  /\ litter' = litter \cup {<<j, "coverage">>}
  /\ reported' = [reported EXCEPT ![j] = @ \cup {"coverage"}]
  /\ PassIf(j, FALSE)
  /\ UNCHANGED <<repository, gate, mode, result, seen, disturbed>>

MeasureCoverage(j) ==
  /\ mode[j] \notin Lines
  /\ Judge(j, "test", Ready(j) /\ "test" \in tree.ok)
  /\ measured' = [measured EXCEPT ![j] = tree.coverage]
  /\ UNCHANGED <<cache, candidate, planned, rendered>>

\* Mutant: below or at.
CoverageAbove(j) == Judge(j, "coverage", measured[j] > minimumCoverage) /\ UNCHANGED gate

RequireCoverage(j) == Judge(j, "coverage", measured[j] >= minimumCoverage) /\ UNCHANGED gate

-------------------------------------------------------------------------------
(* releaseRehearsal: an output is a record of the commit it archives and of what *)
(* is wrong with it.                                                             *)

Defects == {"content", "names", "checksums", "sbom"}
Output(commit, defect) == [commit |-> commit, defect |-> defect]

MakeRehearsal(j) == Make(j, "rehearsal", "rehearsal", TRUE) /\ UNCHANGED gate

\* spice-dev pins HEAD, whose policy files must be the tree's.
Plan(j) ==
  /\ Judge(j, "plan", /\ Ready(j)
                      /\ tree.gomod = head.gomod /\ tree.contract = head.contract
                      /\ tree.contract # Null /\ tree.gomod.core = tree.contract.minimum)
  /\ planned' = [planned EXCEPT ![j] = head]
  /\ UNCHANGED <<cache, candidate, measured, rendered>>

\* An archive of the planned commit, whatever HEAD and the tree are by now; it is
\* refused when the commit's go.mod and vendor/modules.txt disagree.
Render(j) ==
  /\ \E phase \in {"first", "second"} :
       Judge(j, phase, Ready(j) /\ planned[j].listed = planned[j].gomod.deps)
  /\ rendered' = [rendered EXCEPT ![j] = Append(@, Output(planned[j], "none"))]
  /\ UNCHANGED <<cache, candidate, measured, planned>>

\* The tool writes something else than the artifacts of the commit.
RenderDiffers(j) ==
  /\ Phase(j) \in {"first", "second"}
  /\ Fault(j)
  /\ PassIf(j, TRUE)
  /\ \E defect \in Defects :
       rendered' = [rendered EXCEPT ![j] = Append(@, Output(planned[j], defect))]
  /\ UNCHANGED <<repository, cache, candidate, measured, planned, litter, reported, mode,
                 result, seen, disturbed>>

\* Mutant: the directories are digested and not compared.
CompareNothing(j) == Judge(j, "compare", TRUE) /\ UNCHANGED gate

CompareRenders(j) == Judge(j, "compare", rendered[j][1] = rendered[j][2]) /\ UNCHANGED gate

canonicalNames(output) == output.defect # "names"
canonicalChecksums(output) == output.defect # "checksums"
canonicalSBOM(output) == output.defect # "sbom"

\* The first output only: the second was found equal.
Validate(j) ==
  LET output == rendered[j][1] IN
  /\ Judge(j, "validate", /\ canonicalNames(output) /\ canonicalChecksums(output)
                          /\ canonicalSBOM(output))
  /\ UNCHANGED gate

-------------------------------------------------------------------------------

GateStep(j) ==
  \/ CheckIdentity(j) \/ CheckWorkflow(j) \/ Fetch(j) \/ CheckFormat(j) \/ Format(j)
  \/ Tidy(j) \/ Export(j) \/ CompareVendor(j) \/ Command(j)
  \/ MakeProfile(j) \/ ProfileNotClosed(j) \/ MeasureCoverage(j) \/ RequireCoverage(j)
  \/ MakeRehearsal(j) \/ Plan(j) \/ Render(j) \/ RenderDiffers(j) \/ CompareRenders(j)
  \/ Validate(j)
================================================================================
