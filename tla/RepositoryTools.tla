---------------------------- MODULE RepositoryTools ----------------------------
(***************************************************************************)
(* The two tools at work in one checkout: what "make compatibility",       *)
(* "make check", "make verify", "make fmt" and the release rehearsal start,*)
(* side by side.                                                           *)
(***************************************************************************)
EXTENDS CoreCompat, QualityGate

vars == <<repository, job, compat, gate>>

Init == JobsInit /\ CompatInit /\ GateInit

Next ==
  \/ \E j \in Jobs : (\E m \in Modes[j] : Start(j, m)) /\ UNCHANGED <<compat, gate>>
  \/ \E j \in Running : CompatStep(j) /\ UNCHANGED gate
  \/ \E j \in Running : GateStep(j) /\ UNCHANGED compat
  \/ \E j \in Running : (CommandFails(j) \/ Leave(j) \/ Kill(j)) /\ UNCHANGED <<compat, gate>>
  \/ \E content \in Trees : Edit(content) /\ UNCHANGED <<compat, gate>>
  \/ Commit /\ UNCHANGED <<compat, gate>>

Spec == Init /\ [][Next]_vars

-------------------------------------------------------------------------------

\* Jobs are in their programs, and keep to their own temporary files.
TypeOK ==
  /\ {tree.gomod, head.gomod} \subseteq {content.gomod : content \in Trees}
  /\ \A j \in Jobs : mode[j] \in Modes[j] \cup {Null}
  /\ \A j \in Running : at[j] \in 1..End(j)
  /\ litter \subseteq Jobs \X {"mod", "sum", "vendor", "coverage", "rehearsal"}
  /\ \A j \in Jobs : reported[j] \subseteq Files(j)
  /\ failed \cup disturbed \cup hit \subseteq {j \in Jobs : mode[j] # Null}

-------------------------------------------------------------------------------

Returned(j, how) == result[j] = how
Undisturbed(j) == j \notin disturbed

\* What a mode is documented to stand for (README.md:51-59), of a tree.
Declared(content) ==
  /\ content.gomod.module = "starter-postgres" /\ ~content.gomod.replaced
  /\ \A tool \in ReleaseTools : /\ content.gomod.declares[tool] = 1
                                /\ content.gomod.selects[tool] = "pinned"

Checked(content) ==
  /\ Declared(content)
  /\ content.vendored = content.gomod.deps /\ content.listed = content.gomod.deps
  /\ {"workflow", "goimports", "gofumpt", "tidy", "toolgraph", "vet"} \subseteq content.ok

Meets(m, content) ==
  CASE m \in Lines ->
         /\ content.contract # Null /\ content.contract.schema = 1
         /\ content.contract.minimum # 0 /\ content.contract.current # 0
         /\ content.contract.minimum # content.contract.current
         /\ ~content.gomod.indirect /\ content.gomod.core = content.contract.minimum
         /\ content.forced <= content.contract[m]
         /\ content.contract[m] \in content.compatible
    [] m = "fmt" -> Formatters \subseteq content.ok
    [] m = "check" -> Checked(content)
    [] m \in {"verify", "verify-release"} ->
         /\ Checked(content)
         /\ content.coverage >= 85
         /\ Analyzers \cup {"test", "gatetest", "offlinetest", "offlinebuild"}
              \subseteq content.ok

\* A job that passed over a tree nobody else changed has found all that its mode
\* stands for, whatever other jobs did, and whatever failed in it.
PassedMeansVerified ==
  \A j \in Jobs :
    Returned(j, "passed") /\ Undisturbed(j) /\ mode[j] \in Lines \cup {"fmt", "check", "verify"}
      => Meets(mode[j], seen[j])

\* A job fails over a quiet tree only for what the tree is: with nothing prepared
\* at its start, no offline command of it lacks a module.
FailureIsDeserved ==
  \A j \in Jobs :
    Returned(j, "failed") /\ Undisturbed(j) /\ j \notin hit
        /\ mode[j] \in Lines \cup {"check", "verify"}
      => ~Meets(mode[j], seen[j])

\* Every way out removes the temporary files: what a returned job leaves behind it
\* has named in an error or a warning, and only a directory may be left by a job
\* that passed.
LeftoversReported ==
  \A j \in Jobs : result[j] \in {"passed", "failed"} =>
    /\ Files(j) \subseteq reported[j]
    /\ result[j] = "passed" => reported[j] \subseteq {"vendor", "rehearsal"}

\* A rehearsal that passed has rendered the artifacts of one commit twice, though
\* HEAD may have moved and one of the renders gone wrong, and that commit declares
\* the release tools the tree did.
RehearsesOneCommit ==
  \A j \in Jobs : Returned(j, "passed") /\ mode[j] \in Releasing =>
    /\ planned[j] # Null
    /\ rendered[j] = <<Output(planned[j], "none"), Output(planned[j], "none")>>
    /\ Undisturbed(j) => Declared(planned[j])

\* No tool rewrites go.mod, go.sum or vendor, nor anything but formatting
\* (README.md:58): only edits do.
GraphUntouched ==
  [][edits' = edits =>
       tree' = [tree EXCEPT !.ok = (@ \ {"goimports", "gofumpt"})
                                      \cup (tree'.ok \cap {"goimports", "gofumpt"})]]_vars

-------------------------------------------------------------------------------
(* What the documentation says and the code does not do *)

\* "make verify-release executes this deterministic rehearsal after the complete
\* repository verification contract" (docs/releasing.md:75).
ReleaseIsVerified ==
  \A j \in Jobs :
    Returned(j, "passed") /\ Undisturbed(j) /\ mode[j] = "verify-release"
      => Meets("verify-release", seen[j])
================================================================================
