------------------------------- MODULE CoreCompat -------------------------------
(***************************************************************************)
(* internal/corecompat: vets and tests the starter with exactly one version*)
(* of Spice core, in an alternate modfile beside go.mod.  Versions are     *)
(* numbers in their order.                                                 *)
(***************************************************************************)
EXTENDS ToolJobs

VARIABLES
  contract,     \* contract[j]: spice-compatibility.json as j read it
  modfile       \* modfile[j]: the core version j's alternate modfile requires

compat == <<contract, modfile>>

-------------------------------------------------------------------------------

Larger(v, w) == IF v > w THEN v ELSE w

\* Minimal version selection: commands with -mod=mod may raise the requirement.
Selected(j) == Larger(modfile[j], tree.forced)

\* The contract of a file, Null when it is refused.
decodeCompatibility(file) ==
  IF /\ file # Null /\ file.schema = 1
     /\ file.minimum # 0 /\ file.current # 0 /\ file.minimum # file.current
  THEN file ELSE Null

\* The direct requirement of core, 0 without one.
directRequirement(gomod) == IF gomod.indirect THEN 0 ELSE gomod.core

ensureMinimum(file, direct) == direct # 0 /\ file.minimum = direct

CompatInit ==
  /\ contract = [j \in Jobs |-> Null]
  /\ modfile = [j \in Jobs |-> Null]

Line(j) == contract[j][mode[j]]
Require(j, v) == modfile' = [modfile EXCEPT ![j] = v]
Creates(j, file) == /\ litter' = litter \cup {<<j, file>>}
                    /\ UNCHANGED <<reported, mode, result, seen, disturbed, hit, faults>>

-------------------------------------------------------------------------------

ReadContract(j) ==
  /\ Judge(j, "contract", decodeCompatibility(tree.contract) # Null)
  /\ contract' = [contract EXCEPT ![j] = decodeCompatibility(tree.contract)]
  /\ UNCHANGED modfile

ReadMinimum(j) ==
  /\ Judge(j, "minimum", ensureMinimum(contract[j], directRequirement(tree.gomod)))
  /\ UNCHANGED compat

CopyModfile(j) ==
  /\ Phase(j) = "copy"
  /\ Require(j, tree.gomod.core)
  /\ Creates(j, "mod")
  /\ PassIf(j, TRUE)
  /\ UNCHANGED <<repository, contract>>

\* The copy is created but cannot be written or closed: removed like the whole.
CopyFails(j) ==
  /\ Phase(j) = "copy"
  /\ Fault(j)
  /\ litter' = litter \cup {<<j, "mod">>}
  /\ PassIf(j, FALSE)
  /\ UNCHANGED <<repository, compat, reported, mode, result, seen, disturbed>>

RequireLine(j) ==
  /\ Judge(j, "require", TRUE)
  /\ Require(j, Line(j))
  /\ UNCHANGED contract

\* Mutant: go mod tidy without -modfile.
ResolveRoot(j) ==
  /\ Phase(j) = "resolve"
  /\ Rewrite([tree EXCEPT !.gomod.core = tree.forced], Running \ {j})
  /\ PassIf(j, TRUE)
  /\ UNCHANGED <<head, edits, compat, litter, reported, mode, result, seen, hit, faults>>

\* go mod tidy writes the alternate modfile and its checksums.
Resolve(j) ==
  /\ Phase(j) = "resolve"
  /\ Require(j, Selected(j))
  /\ Creates(j, "sum")
  /\ PassIf(j, TRUE)
  /\ UNCHANGED <<repository, contract>>

\* Mutant: what was selected is not compared.
ListAnything(j) == Judge(j, "list", TRUE) /\ UNCHANGED compat

ListSelected(j) == Judge(j, "list", modfile[j] = Line(j)) /\ UNCHANGED compat

VetOrTest(j) ==
  /\ mode[j] \in Lines
  /\ \E phase \in {"vet", "test"} : Judge(j, phase, Selected(j) \in tree.compatible)
  /\ Require(j, Selected(j))
  /\ UNCHANGED contract

CompatStep(j) ==
  \/ ReadContract(j) \/ ReadMinimum(j) \/ CopyModfile(j) \/ CopyFails(j) \/ RequireLine(j)
  \/ Resolve(j) \/ ListSelected(j) \/ VetOrTest(j)
================================================================================
