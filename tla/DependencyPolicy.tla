-------------------------- MODULE DependencyPolicy --------------------------
(***************************************************************************)
(* Which external packages the generated module takes ownership of         *)
(* (deppolicy), over the build that modulegraph loads, and what the        *)
(* dependency phase of generate then does with the decision: it rewrites   *)
(* imports, loads and tidies the module again and compares the build with  *)
(* what the decision predicted.                                            *)
(*                                                                         *)
(* A proposal q holds                                                      *)
(*   imports     the packages each package of the build imports            *)
(*   module      the module of each package, Main for the generated ones   *)
(*   facade      the generated package that is the public boundary         *)
(*   candidates  the packages the profile proposes to copy                 *)
(*   crossing    the packages with a type that crosses the boundary        *)
(*   asserted    the packages whose interfaces the facade must satisfy     *)
(*   stateful    the packages with a finding of the global state scan      *)
(*   licensed    the modules whose licences were verified                  *)
(*   lines       the lines of each package                                 *)
(*   limit       the ceilings and the minimum of the profile               *)
(*   overrides   [package, gate, through], minor the source's minor        *)
(*   listed      modules that go list -m all names besides those of the    *)
(*               packages, because another module's go.mod requires them   *)
(***************************************************************************)
EXTENDS Integers, FiniteSets

Main == "main"
Gates == {"packages", "lines", "leverage", "licences"}

Packages(q) == DOMAIN q.imports
External(q) == {p \in Packages(q) : q.module[p] # Main}
Retained(q) == External(q) \ q.candidates
ModulesOf(q, packages) == {q.module[p] : p \in packages}
LinesOf(q, packages) == UNION {{p} \X (1..q.lines[p]) : p \in packages}

-----------------------------------------------------------------------------
(* The correctness gates.  All four judge as if every candidate moved. *)
Crosses(q, c) == c \in q.crossing
HoldsState(q, c) == c \in q.stateful
DiamondByImports(q, c) == \E p \in Retained(q) : c \in q.imports[p]
Diamond(q, c) == c \in q.asserted \/ \E p \in Retained(q) : c \in q.imports[p]
ClosureGaps(q, c) ==
    {p \in q.imports[c] : p \in Retained(q) /\ q.module[p] = q.module[c]}
Correct(q) ==
    {c \in q.candidates :
        ~Crosses(q, c) /\ ~HoldsState(q, c) /\ ~Diamond(q, c) /\ ClosureGaps(q, c) = {}}

(* What would leave the build if every candidate moved. *)
ModulesRemoved(q) ==
    ModulesOf(q, q.candidates)
    \ ModulesOf(q, {p \in Retained(q) : \E r \in Retained(q) : p \in q.imports[r]})

(* The cost gates measure the candidates that passed, as one copy. *)
Total(q) ==
    [packages |-> Cardinality(Correct(q)),
     lines    |-> Cardinality(LinesOf(q, Correct(q))),
     removed  |-> IF Correct(q) = {} THEN 0 ELSE Cardinality(ModulesRemoved(q))]
Measured(q, gate) == gate = "licences" => ModulesOf(q, Correct(q)) \subseteq q.licensed
Within(q, gate) ==
    CASE gate = "packages" -> Total(q).packages <= q.limit.packages
      [] gate = "lines"    -> Total(q).lines <= q.limit.lines
      [] gate = "leverage" -> Total(q).removed >= q.limit.removed
      [] gate = "licences" -> TRUE
Overridden(q, c, gate) == \E o \in q.overrides : o.package = c /\ o.gate = gate
AffordableOverridden(q, c) ==
    \A gate \in Gates : (Measured(q, gate) /\ Within(q, gate)) \/ Overridden(q, c, gate)
Affordable(q, c) ==
    \A gate \in Gates : Measured(q, gate) /\ (Within(q, gate) \/ Overridden(q, c, gate))

(* The run is refused before any gate when a proposal names no loaded
   package or an override is stale or names none of the proposals. *)
Acceptable(q) ==
    /\ q.candidates \subseteq External(q)
    /\ \A o \in q.overrides : o.through >= q.minor /\ o.package \in q.candidates
Copy(q) == {c \in Correct(q) : Affordable(q, c)}

-----------------------------------------------------------------------------
(* Imports are rewritten by module: in the copies and in the extracted
   packages, every import of a module with a copied package points into the
   copy.  The facade is not rewritten. *)
Extracted(q) == {p \in Packages(q) : q.module[p] = Main} \ {q.facade}
Rewritten(q) == Extracted(q) \cup Copy(q)
Moved(q) == {p \in External(q) : q.module[p] \in ModulesOf(q, Copy(q))}
Loads(q) == \A p \in Rewritten(q) : q.imports[p] \cap Moved(q) \subseteq Copy(q)

(* The external packages the module still needs. *)
Left(q) ==
    LET direct == q.imports[q.facade] \cup ((UNION {q.imports[p] : p \in Rewritten(q)}) \ Moved(q))
        Needs(seen) == seen \cup UNION {q.imports[p] : p \in seen}
        reach[n \in 0..Cardinality(Packages(q))] ==
            IF n = 0 THEN direct \cap External(q)
            ELSE LET before == reach[n - 1] IN Needs(before) \cap External(q)
    IN  reach[Cardinality(Packages(q))]
Present(q) == ModulesOf(q, Left(q)) \cup q.listed
VerifiedNever(q) == TRUE
Verified(q) == ModulesRemoved(q) \cap Present(q) = {}

Publishes(q) == Acceptable(q) /\ (Copy(q) # {} => Loads(q) /\ Verified(q))

-----------------------------------------------------------------------------
(* A copy that is published is worth what the profile asked of it: the
   licence of every copied package was verified, what is copied fits the
   ceilings, and as many modules left the consumer's build as the profile
   requires, except for what every copied package has a current override
   for (deppolicy's cost gates, generate/deps.go:verifyPostCopy). *)
CopyDelivers(q) ==
    LET copied == Copy(q)
        Excused(gate) ==
            \A c \in copied : \E o \in q.overrides :
                o.package = c /\ o.gate = gate /\ o.through >= q.minor
        gone == ModulesOf(q, External(q)) \ Present(q)
    IN  Publishes(q) /\ copied # {} =>
            /\ ModulesOf(q, copied) \subseteq q.licensed
            /\ Cardinality(copied) <= q.limit.packages \/ Excused("packages")
            /\ Cardinality(LinesOf(q, copied)) <= q.limit.lines \/ Excused("lines")
            /\ Cardinality(gone) >= q.limit.removed \/ Excused("leverage")

(* When every candidate is copied, no original of a copied package stays in
   the build beside its copy (deppolicy/diamond.go:evaluateDiamond), though
   the facade is never rewritten: it imports a candidate only to spell a
   type that crosses the boundary or is asserted. *)
WholeCopyLeavesNoOriginal(q) ==
    Publishes(q) /\ Copy(q) = q.candidates => Copy(q) \cap Left(q) = {}

(* The same of every published copy, which is what diamond.go:25-30 says the
   gate refuses.  It does not hold: the gate skips importers that are
   candidates, also those another gate keeps where they are. *)
CopyLeavesNoOriginal(q) == Publishes(q) => Copy(q) \cap Left(q) = {}
=============================================================================
