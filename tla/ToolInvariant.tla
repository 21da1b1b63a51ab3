----------------------------- MODULE ToolInvariant -----------------------------
(***************************************************************************)
(* The inductive invariant of RepositoryTools, part by part.  ToolProofs   *)
(* proves that it holds; the run checks it on a small instance.            *)
(***************************************************************************)
EXTENDS RepositoryTools

PerJob(f) == f = [j \in Jobs |-> f[j]]

ShapeInv ==
  /\ tree \in Contents /\ head \in Contents /\ edits \in Nat /\ faults \in Nat
  /\ PerJob(mode) /\ PerJob(at) /\ PerJob(reported) /\ PerJob(result) /\ PerJob(seen)
  /\ PerJob(contract) /\ PerJob(modfile)
  /\ PerJob(candidate) /\ PerJob(measured) /\ PerJob(planned) /\ PerJob(rendered)

\* A job that was not started has done nothing; one that passed met no error and
\* came to the end of its program.
ResultInv(j) ==
  /\ mode[j] = Null => result[j] = "none" /\ rendered[j] = <<>>
  /\ result[j] = "passed" => mode[j] # Null /\ j \notin failed /\ at[j] = End(j)

\* A job without an error has only warned, and that of directories.
WarningInv(j) == j \notin failed => reported[j] \subseteq {"vendor", "rehearsal"}

\* Jobs whose tree nobody else has changed, with no error so far, and those with
\* one that no fault explains.
Steady(j) == j \in Running /\ j \notin disturbed
Sound(j) == Steady(j) /\ j \notin failed
AtFault(j) == Steady(j) /\ j \in failed /\ j \notin hit

\* The phases that j has passed.
Done(j) == {Program(mode[j])[i] : i \in 1..(at[j] - 1)}

\* What a phase of the gate that j has passed tells of the tree.
Told(j, phase) ==
  /\ phase = "gomod" => canonicalModule(tree.gomod)
  /\ phase = "releasetools" => releaseToolAuthorized(tree.gomod)
  /\ phase \in {"modules", "graph", "tools", "toolgraph"} => Fetched(phase) \in cache
  /\ phase \in {"workflow", "toolgraph", "tidy", "vet", "test", "gatetest", "offlinetest",
                "offlinebuild"} \cup Formatters \cup Analyzers => phase \in tree.ok
  /\ phase = "export" => candidate[j] = tree.gomod.deps
  /\ phase = "vendor" => tree.vendored = tree.gomod.deps /\ tree.listed = tree.gomod.deps
  /\ phase = "test" => measured[j] = tree.coverage
  /\ phase = "coverage" => tree.coverage >= minimumCoverage

GateInv(j) == Sound(j) /\ mode[j] \notin Lines => \A phase \in Done(j) : Told(j, phase)

\* What a job that vets and tests one line knows when it has come so far.
LineInv(j) ==
  Sound(j) /\ mode[j] \in Lines =>
    /\ at[j] > 1 => contract[j] = tree.contract /\ decodeCompatibility(tree.contract) # Null
    /\ at[j] > 2 => ensureMinimum(tree.contract, directRequirement(tree.gomod))
    /\ at[j] = 5 => modfile[j] = tree.contract[mode[j]]
    /\ at[j] > 5 => modfile[j] = Larger(tree.contract[mode[j]], tree.forced)
    /\ at[j] > 6 => tree.forced <= tree.contract[mode[j]]
    /\ at[j] > 7 => tree.contract[mode[j]] \in tree.compatible

\* A rehearsal so far: it has planned a commit, and each output is of that commit;
\* two that are wrong took two faults.
Outcomes == Defects \cup {"none"}
RehearsalInv(j) ==
  j \notin failed /\ mode[j] \in Releasing /\ result[j] \in {"none", "passed"} =>
    /\ at[j] <= 6 => rendered[j] = <<>>
    /\ at[j] > 5 => /\ planned[j] # Null
                    /\ j \notin disturbed => Declared(planned[j])
    /\ at[j] = 7 => \E d \in Outcomes : /\ rendered[j] = <<Output(planned[j], d)>>
                                        /\ d # "none" => faults >= 1
    /\ at[j] > 7 => \E d, e \in Outcomes :
         /\ rendered[j] = <<Output(planned[j], d), Output(planned[j], e)>>
         /\ d # "none" /\ e # "none" => faults >= 2
    /\ at[j] > 8 => rendered[j][1] = rendered[j][2]

\* A job that goes on to fail without a fault fails for the tree.
DeservedInv(j) ==
  AtFault(j) /\ mode[j] \in Lines \cup {"check", "verify"} => ~Meets(mode[j], tree)

IInv ==
  /\ TypeOK /\ ShapeInv
  /\ \A j \in Jobs : /\ ResultInv(j) /\ WarningInv(j) /\ GateInv(j) /\ LineInv(j)
                     /\ RehearsalInv(j) /\ DeservedInv(j)
  /\ PassedMeansVerified /\ FailureIsDeserved /\ LeftoversReported
================================================================================
