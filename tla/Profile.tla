------------------------------- MODULE Profile -------------------------------
(***************************************************************************)
(* What a profile is refused for: at once, by the validator that every     *)
(* command runs (tools/internal/config), and later, by the phase that uses *)
(* the section and checks its options itself (closure, typeswap,           *)
(* deppolicy, facade, relocate, sync, publish).                            *)
(*                                                                         *)
(* A path, of a package or a ref, is the sequence of its elements.  A      *)
(* symbol is a package and a name, and a name says whether it is exported. *)
(* The file of a generated Go source is a directory, a stem and a suffix.  *)
(* That a single word is well spelled is left out: both sides ask it of    *)
(* the same words.                                                         *)
(***************************************************************************)
EXTENDS Naturals, Sequences, SequencesExt, FiniteSets

Distinct(values) == \A i, j \in DOMAIN values : i # j => values[i] # values[j]
Each(values, field) == [i \in DOMAIN values |-> values[i][field]]
underPrefix(path, prefix) == IsPrefix(prefix, path)
minorOf(release) == release.minor

Domains == {"src.io", "dst.io", "dep.io"}
ValidateModulePath(path) == path # <<>> /\ path[1] \in Domains
ParseSymbolRef(symbol) == symbol.package # <<>>
splitSymbol(symbol) == symbol.package # <<>> /\ symbol.exported

-----------------------------------------------------------------------------
(* The validator. *)

HeadsOf(name) == <<"refs", "heads">> \o name
validateDestination(p) ==
    /\ underPrefix(p.stateRef, HeadsOf(<<>>)) /\ p.stateRef # HeadsOf(<<>>)
    /\ p.stateRef # HeadsOf(p.branch)
    /\ p.progress.slash /\ underPrefix(p.progress.path, <<"refs">>)
    /\ \A kind \in {"heads", "tags"} : ~underPrefix(p.progress.path, <<"refs", kind>>)
    /\ "internal" \in ToSet(p.internalPrefix)
validatePackages(p) ==
    /\ p.roots # <<>> /\ Distinct(p.roots)
    /\ p.recursive => \A i, j \in DOMAIN p.roots : i # j => ~underPrefix(p.roots[j], p.roots[i])
validatePrune(p) ==
    /\ Distinct(p.prune) /\ Distinct(p.required)
    /\ ToSet(p.prune) \cap ToSet(p.required) = {}
validateDeny(p) ==
    /\ Distinct(p.deny)
    /\ \A i \in DOMAIN p.deny, j \in DOMAIN p.roots :
          LET rooted == p.importPrefix \o p.roots[j]
          IN  /\ p.deny[i] \notin {p.importPrefix, rooted}
              /\ p.recursive => ~underPrefix(p.deny[i], rooted)
validateClosure(p) == p.maxPackages > 0 /\ p.maxPackages >= Len(p.roots)
validateTypes(p) ==
    /\ p.typePolicy = "keep-internal" => p.pairs = <<>>
    /\ Distinct(Each(p.pairs, "internal"))
    /\ \A i \in DOMAIN p.pairs : /\ underPrefix(p.pairs[i].internal, p.importPrefix)
                                 /\ ~underPrefix(p.pairs[i].external, p.importPrefix)

correctnessGate == {"interoperability", "globalState", "diamond"}
(* Two of the nine. *)
costGates == {"maxCopiedPackages", "minimumLeverage"}
GatesKept(overrides) ==
    /\ Distinct([i \in DOMAIN overrides |-> <<overrides[i].package, overrides[i].gate>>])
    /\ \A i \in DOMAIN overrides : overrides[i].gate \in costGates /\ overrides[i].signed
Unexpired(p, override) ==
    override.expires.major = 1 /\ override.expires.minor >= minorOf(p.minimumRelease)
validateDependencies(p) ==
    /\ p.policy = "external" => p.copies = <<>>
    /\ p.policy = "copy-approved" =>
          /\ p.copies # <<>> /\ p.maxReleases # 0 /\ p.benefit # 0
          /\ p.maxCopied >= Len(p.copies)
    /\ Distinct(p.copies)
    /\ \A i \in DOMAIN p.copies : underPrefix(p.copies[i], <<"staging", "src">>)
    /\ p.gates = correctnessGate
    /\ GatesKept(p.overrides)
    /\ \A i \in DOMAIN p.overrides : /\ p.overrides[i].package \in ToSet(p.copies)
                                     /\ Unexpired(p, p.overrides[i])

facadeKinds == {"func", "type", "interface", "const"}
Entries(p) == p.exports \o p.aliases
Entry(p, e) ==
    /\ e.exported /\ e.kind \in facadeKinds
    /\ ParseSymbolRef(e.source) /\ underPrefix(e.source.package, p.importPrefix)
Declared(p, kinds) == {e.name : e \in {x \in ToSet(Entries(p)) : x.kind \in kinds}}
GoFile(file) == file.suffix \in {".go", "_test.go"} /\ file.dir = <<>>

(* Mutant of Asserted: any type of the facade can implement an interface. *)
AssertedNamed(p, a) ==
    /\ a.type \in Declared(p, {"type", "interface"})
    /\ ParseSymbolRef(a.interface) /\ ValidateModulePath(a.interface.package)
    /\ ~underPrefix(a.interface.package, p.module)
Asserted(p, a) ==
    /\ a.type \in Declared(p, {"type"})
    /\ ParseSymbolRef(a.interface) /\ ValidateModulePath(a.interface.package)
    /\ ~underPrefix(a.interface.package, p.module)
validateFacade(p) ==
    /\ p.package = p.rootPackage
    /\ GoFile(p.file) /\ GoFile(p.assertionsFile) /\ p.file # p.assertionsFile
    /\ \A i \in DOMAIN p.exports : Entry(p, p.exports[i]) /\ p.exports[i].name = p.exports[i].source.name
    /\ \A i \in DOMAIN p.aliases : Entry(p, p.aliases[i]) /\ p.aliases[i].name # p.aliases[i].source.name
    /\ Distinct(Each(Entries(p), "name")) /\ Distinct(Each(Entries(p), "source"))
    /\ \A i \in DOMAIN p.assertions : Asserted(p, p.assertions[i])
    /\ Distinct([i \in DOMAIN p.assertions |-> <<p.assertions[i].type, p.assertions[i].interface>>])
validateRelease(p) == p.minimumRelease.major = 1 /\ p.firstTag = [p.minimumRelease EXCEPT !.major = 0]

validate(p) ==
    /\ validateDestination(p) /\ validatePackages(p) /\ validatePrune(p) /\ validateDeny(p)
    /\ validateClosure(p) /\ validateTypes(p) /\ validateDependencies(p)
    /\ validateFacade(p) /\ validateRelease(p)

-----------------------------------------------------------------------------
(* The phases. *)

closureOptions(p) ==
    /\ p.roots # <<>> /\ Distinct(p.roots)
    /\ Distinct(p.prune) /\ Distinct(p.required) /\ Distinct(p.deny)
    /\ ToSet(p.prune) \cap ToSet(p.required) = {}
    /\ p.maxPackages >= 0
typeswapOptions(p) ==
    /\ Distinct(Each(p.pairs, "internal"))
    /\ \A i \in DOMAIN p.pairs : p.pairs[i].internal # p.pairs[i].external

(* The overrides as dependencyOptions hands them on: a minor and no major. *)
dependencyOptions(p, release) ==
    [policy |-> p.policy, copies |-> p.copies, gates |-> p.gates, minor |-> minorOf(release),
     overrides |-> [i \in DOMAIN p.overrides |->
                      [package |-> p.overrides[i].package, gate |-> p.overrides[i].gate,
                       signed |-> p.overrides[i].signed, until |-> p.overrides[i].expires.minor]]]
deppolicyOptions(o) ==
    /\ o.overrides # <<>> => o.minor # 0
    /\ o.policy = "external" => o.copies = <<>>
    /\ o.policy = "copy-approved" => o.copies # <<>> /\ o.gates = correctnessGate
    /\ \A path \in ToSet(o.copies) \cup ToSet(Each(o.overrides, "package")) :
          underPrefix(path, <<"staging", "src">>)
    /\ Distinct(o.copies) /\ GatesKept(o.overrides)
    /\ \A i \in DOMAIN o.overrides : o.overrides[i].until > 0

checkGeneratedFile(file) == file.dir = <<>> /\ file.suffix = ".go"
relocatable(p, path) == underPrefix(path, p.importPrefix) /\ path # p.importPrefix
resolveExport(p, e) ==
    e.exported /\ e.kind # "var" /\ splitSymbol(e.source) /\ relocatable(p, e.source.package)
resolveAssertion(p, a) ==
    /\ \E e \in ToSet(Entries(p)) : e.name = a.type /\ e.kind = "type"
    /\ splitSymbol(a.interface) /\ ~underPrefix(a.interface.package, p.module)
facadeSpec(p) ==
    /\ "internal" \in ToSet(p.internalPrefix)
    /\ checkGeneratedFile(p.file) /\ checkGeneratedFile(p.assertionsFile) /\ p.file # p.assertionsFile
    /\ Entries(p) # <<>> /\ Distinct(Each(Entries(p), "name"))
    /\ \A i \in DOMAIN Entries(p) : resolveExport(p, Entries(p)[i])
    /\ \A i \in DOMAIN p.assertions : resolveAssertion(p, p.assertions[i])
    /\ Distinct(p.assertions)

(* The root of the module holds the facade's files and the doc comment's,
   and no two that differ only in case. *)
DocFile == [dir |-> <<>>, stem |-> "doc", suffix |-> ".go"]
foldPath(file) == [file EXCEPT !.stem = IF @ = "ASSERTS" THEN "asserts" ELSE @]
composed(p) == Distinct(<<foldPath(p.file), foldPath(p.assertionsFile), DocFile>>)

ProgressNamespace == <<"refs", "soapbox", "progress">>
checkChunkOptions(p) == p.progress = [path |-> ProgressNamespace, slash |-> TRUE]
validateNamespaces(p) ==
    /\ underPrefix(p.stateRef, HeadsOf(<<>>)) /\ p.stateRef # HeadsOf(<<>>)
    /\ p.progress.slash /\ underPrefix(p.progress.path, <<"refs">>)
    /\ \A kind \in {"heads", "tags"} : ~underPrefix(p.progress.path, <<"refs", kind>>)
(* Git keeps no ref below another. *)
RefsCoexist(p) ==
    ~underPrefix(p.stateRef, HeadsOf(p.branch)) /\ ~underPrefix(HeadsOf(p.branch), p.stateRef)

phasesTake(p, release) ==
    /\ closureOptions(p) /\ typeswapOptions(p)
    /\ deppolicyOptions(dependencyOptions(p, release))
    /\ facadeSpec(p) /\ composed(p)
    /\ checkChunkOptions(p) /\ validateNamespaces(p) /\ RefsCoexist(p)

(* A profile the validator accepts is refused by no phase for what the
   profile alone says, whichever release is generated from it. *)
ProfileHolds(p) ==
    validate(p) => \A minor \in minorOf(p.minimumRelease)..(minorOf(p.minimumRelease) + 1) :
                      phasesTake(p, [p.minimumRelease EXCEPT !.minor = minor])
=============================================================================
