----------------------------- MODULE Provenance -----------------------------
(***************************************************************************)
(* The files a plan carries beside Go source (closure's copy plan), the    *)
(* record of provenance it writes for each package (extract/transform.go)  *)
(* and the go:embed directives that may match either (rewrite.VerifyEmbeds).*)
(*                                                                         *)
(* A path is a sequence of names and a tree a set of paths of regular      *)
(* files; relocation prefixes every path and is left out.  A directive is  *)
(* of a Go file of a package; its pattern has elements, of which "*" is a  *)
(* glob, and whether "all:" precedes it.                                   *)
(***************************************************************************)
EXTENDS Naturals, Sequences, SequencesExt, FiniteSets

Dir(path) == Front(path)
To(path, n) == SubSeq(path, 1, n)
Below(dir, path) == IsStrictPrefix(dir, path)
Directories(tree) == {To(f[1], f[2]) : f \in {<<p, n>> \in tree \X (1..9) : n < Len(p)}}
Matches(elements, path) ==
    Len(elements) = Len(path) /\ \A i \in DOMAIN path : elements[i] \in {"*", path[i]}
-----------------------------------------------------------------------------
(* The copy plan. *)
isHiddenName(name) == name \in {".hidden", "_hidden"}
isBadEmbedName(name) == name = ".hg"
hasGoMod(tree, dir) == Append(dir, "go.mod") \in tree

globExpand(tree, pattern) == {p \in tree \cup Directories(tree) : Matches(pattern, p)}
checkEmbedPath(tree, dir, path) ==
    \A n \in (Len(dir) + 1)..Len(path) : ~isBadEmbedName(path[n]) /\ ~hasGoMod(tree, To(path, n))
expandDirTree(tree, dir, all) ==
    {f \in {f \in tree : Below(dir, f)} :
        \A n \in (Len(dir) + 1)..Len(f) :
            /\ ~isBadEmbedName(f[n]) /\ (all \/ ~isHiddenName(f[n]))
            /\ n < Len(f) => ~hasGoMod(tree, To(f, n))}
(* Nothing: the plan is refused. *)
resolveEmbed(tree, directive) ==
    LET dir     == Dir(directive.file)
        matches == globExpand(tree, dir \o directive.elements)
    IN  IF \E p \in matches : ~checkEmbedPath(tree, dir, p) THEN {}
        ELSE (matches \cap tree)
             \cup UNION {expandDirTree(tree, p, directive.all) : p \in matches \ tree}
resolveAssets(tree, glob) == globExpand(tree, glob) \cap tree

GoSource(tree, packages) == {f \in tree : Dir(f) \in packages /\ Last(f) = "x.go"}
buildCopyPlan(source) ==
    LET embeds == {resolveEmbed(source.tree, d) : d \in source.directives}
        assets == {resolveAssets(source.tree, g) : g \in source.assets}
    IN  [ok    |-> {} \notin embeds \cup assets,
         files |-> GoSource(source.tree, source.packages) \cup UNION (embeds \cup assets)]
-----------------------------------------------------------------------------
(* What a directive of the module matches, among the paths present. *)
hidden(path) == \E i \in DOMAIN path : isHiddenName(path[i])
matchesEmbedPattern(directive, rel) ==
    \/ Matches(directive.elements, rel)
    \/ \E n \in 1..(Len(rel) - 1) :
          /\ Matches(directive.elements, To(rel, n))
          /\ directive.all \/ ~hidden(SubSeq(rel, n + 1, Len(rel)))
matchEmbed(directive, present) ==
    LET dir == Dir(directive.file)
    IN  {f \in present : Below(dir, f) /\ matchesEmbedPattern(directive, SubSeq(f, Len(dir) + 1, Len(f)))}
VerifyEmbeds(directives, present) == \A d \in directives : matchEmbed(d, present) # {}
-----------------------------------------------------------------------------
(* Records. *)
ProvenanceFileName == "SOAPBOX_PROVENANCE.txt"
provenanceDirName == "SOAPBOX_PROVENANCE"
Joined(path, by) == FoldLeft(LAMBDA text, name : text \o by \o name, path[1], Tail(path))
escapePackageDir(package) == Joined(package, "_")
shortDigest(package) == Joined(package, "/")
centralProvenancePath(package) ==
    <<provenanceDirName, escapePackageDir(package) \o "-" \o shortDigest(package) \o ".txt">>
Preferred(package) == Append(package, ProvenanceFileName)

owningPackage(packages, dir) ==
    LET above == {n \in 1..Len(dir) : To(dir, n) \in packages}
    IN  {To(dir, n) : n \in {k \in above : \A j \in above : j <= k}}
attributeFiles(packages, files) ==
    [p \in packages |-> {f \in files : p \in owningPackage(packages, Dir(f))}]

(* Mutant of capturedProvenance: a directive captures the record of its own
   package only. *)
capturedByOwn(source, files) ==
    LET present == files \cup {Preferred(p) : p \in source.packages}
    IN  {p \in source.packages : \E d \in source.directives :
            Dir(d.file) = p /\ Preferred(p) \in matchEmbed(d, present)}
capturedProvenance(source, files) ==
    LET present == files \cup {Preferred(p) : p \in source.packages}
    IN  {p \in source.packages : \E d \in source.directives : Preferred(p) \in matchEmbed(d, present)}
planProvenance(source, files) ==
    LET captured == capturedProvenance(source, files)
    IN  [p \in source.packages |-> IF p \in captured THEN centralProvenancePath(p) ELSE Preferred(p)]

(* The records are relocated with the files, so a file that has the place of
   one, or is below one, refuses the plan (relocate.Build). *)
Placed(files, records) ==
    \A p \in DOMAIN records : ~\E f \in files : IsPrefix(records[p], f) \/ IsPrefix(f, records[p])
measureGoFiles(directives, tree, records) ==
    \A d \in directives :
        LET matches == matchEmbed(d, tree)
        IN  matches # {} /\ \A p \in DOMAIN records : records[p] \notin matches

Plan(source) ==
    LET copied  == buildCopyPlan(source)
        records == planProvenance(source, copied.files)
        tree    == copied.files \cup {records[p] : p \in source.packages}
    IN  [copied    |-> copied.ok,
         reserved  |-> <<provenanceDirName>> \in source.packages \/ ~Placed(copied.files, records),
         ok        |-> /\ copied.ok /\ <<provenanceDirName>> \notin source.packages
                       /\ VerifyEmbeds(source.directives,
                                       copied.files \cup {Preferred(p) : p \in source.packages})
                       /\ Placed(copied.files, records)
                       /\ measureGoFiles(source.directives, tree, records),
         tree      |-> tree,
         records   |-> records,
         accounted |-> attributeFiles(source.packages, copied.files)]

(* A copy plan that is accepted ships, unless a file upstream has a record's
   place.  In the module the go command embeds for each directive what it
   embeds upstream, the plan reports just that, each package has its record,
   and each file that lies below a package is in the record of one, that of
   the innermost (extract.run.planProvenance, assertProvenanceUnembedded). *)
EmbedsKept(source) ==
    LET plan  == Plan(source)
        files == plan.tree \ {plan.records[p] : p \in source.packages}
    IN  /\ plan.copied /\ ~plan.reserved => plan.ok
        /\ plan.ok =>
              /\ \A d \in source.directives :
                    /\ resolveEmbed(plan.tree, d) = resolveEmbed(source.tree, d)
                    /\ matchEmbed(d, plan.tree) = resolveEmbed(source.tree, d)
              /\ Cardinality({plan.records[p] : p \in source.packages}) = Cardinality(source.packages)
              /\ \A f \in files : \A p \in source.packages :
                    f \in plan.accounted[p]
                    <=> Below(p, f) /\ ~\E q \in source.packages : Below(p, q) /\ Below(q, f)
=============================================================================
