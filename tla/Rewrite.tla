------------------------------ MODULE Rewrite ------------------------------
(***************************************************************************)
(* How a relocated Go file is rewritten (rewrite.GoFile, with the rules    *)
(* extract gives it): by replacing ranges of its lines, never by printing  *)
(* it, so that removing a generator's marker must leave the spacing gofmt  *)
(* would print and every comment where it was.                             *)
(*                                                                         *)
(* A file is a sequence of lines.  A line is blank, a comment (prose, an   *)
(* empty separator or a directive) or code: the package clause, an import, *)
(* an item, or what opens a list of fields or specifications, opens a      *)
(* body, or closes either.  An item may carry a directive after its code.  *)
(* A path is a sequence of components: those of the upstream module begin  *)
(* with "source" and go below "internal".                                  *)
(*                                                                         *)
(* What the module holds, m, is the upstream directories of its closure    *)
(* and the generated files this run removed from the file's package.       *)
(***************************************************************************)
EXTENDS Naturals, Sequences, SequencesExt, FiniteSets, FiniteSetsExt

Text(kind) == [kind |-> kind, key |-> "", value |-> <<>>]
Directive(key, value) == [kind |-> "directive", key |-> key, value |-> value]
Blank(line) == line.kind = "blank"
Comment(line) == line.kind \in {"prose", "separator", "directive", "notice"}
Code(line) == ~Blank(line) /\ ~Comment(line)

destination(path) == <<"internal">> \o Tail(path)
Eligible(path) == path # <<>> /\ path[1] = "source"
-----------------------------------------------------------------------------
(* Directives. *)
Rule(action, dangling) == [action |-> action, dangling |-> dangling]
DefaultRules(key) ==
    CASE key \in {"k8s:conversion-gen", "k8s:defaulter-gen-input"} -> Rule("rewrite", TRUE)
      [] key \in {"k8s:deepcopy-gen", "k8s:openapi-gen"} -> Rule("keep", TRUE)
      [] key = "go:generate" -> Rule("remove", FALSE)
      [] OTHER -> Rule("keep", FALSE)
protected(key) == key \in {"go:embed", "go:build", "build"}
generatedOutputs(key) ==
    CASE key = "k8s:conversion-gen" -> {"zz_generated.conversion.go"}
      [] key = "k8s:defaulter-gen-input" -> {"zz_generated.defaults.go"}
      [] key = "k8s:deepcopy-gen" -> {"zz_generated.deepcopy.go"}
      [] OTHER -> {}

markerDangles(m, line) ==
    \/ \E path \in ToSet(line.value) : Eligible(path) /\ Tail(path) \notin m.closure
    \/ generatedOutputs(line.key) \cap m.removed # {}
Removing(m, line) ==
    LET rule == DefaultRules(line.key)
    IN  rule.action = "remove" \/ (rule.dangling /\ markerDangles(m, line))
Acts(line) == line.key # "" /\ ~protected(line.key)
rewriteDirectiveValue(line) ==
    [line EXCEPT !.value = [i \in DOMAIN @ |-> IF Eligible(@[i]) THEN destination(@[i]) ELSE @[i]]]
-----------------------------------------------------------------------------
(* Where gofmt and the parser look. *)
onlyBlank(file, from, to) == \A i \in from..to : Blank(file[i])
blankRunStart(file, at) == Min({k \in 1..at : onlyBlank(file, k, at - 1)})
blankRunEnd(file, at) == Max({k \in at..(Len(file) + 1) : onlyBlank(file, at, k - 1)})

(* The line that closes what line i opens, and what opens around line i. *)
Opens(line) == line.kind \in {"list", "body"}
Depth(file, from, to) ==
    Cardinality({i \in from..to : Opens(file[i])}) - Cardinality({i \in from..to : file[i].kind = "close"})
Closing(file, i) == Min({k \in (i + 1)..Len(file) : Depth(file, i, k) = 0})
Around(file, first, last) == {i \in 1..(first - 1) : Opens(file[i]) /\ last < Closing(file, i)}
enclosingList(file, first, last) == {i \in Around(file, first, last) : file[i].kind = "list"}
atListEdge(file, first, last) ==
    LET around == enclosingList(file, first, last)
    IN  around # {} /\ \/ onlyBlank(file, Max(around) + 1, first - 1)
                       \/ onlyBlank(file, last + 1, Closing(file, Max(around)) - 1)

(* The comment group line i is of, and the groups that document a line. *)
Group(file, i) ==
    {k \in DOMAIN file : \A j \in (Min({i, k})..Max({i, k})) : Comment(file[j])}
Documents(file, i) ==
    LET around == Around(file, i, i)
    IN  /\ file[i].kind \in {"package", "import", "item", "list", "body"}
        /\ file[i].kind = "item" /\ around # {} => file[Max(around)].kind # "body"
docOf(file, i) == IF i > 1 /\ Comment(file[i - 1]) THEN Group(file, i - 1) ELSE {}
docGroups(file) == {docOf(file, i) : i \in {k \in DOMAIN file : Documents(file, k)}} \ {{}}
-----------------------------------------------------------------------------
(* Edits: the lines from first to last become the lines of text; where last
   is before first, text is inserted. *)
Edit(first, last, text) == [first |-> first, last |-> last, text |-> text]

(* The directives a rule removes: one after code owns no line and is kept. *)
Removed(m, file) ==
    {i \in DOMAIN file : Comment(file[i]) /\ Acts(file[i]) /\ Removing(m, file[i])}
Rewritten(m, file) ==
    {i \in DOMAIN file : /\ Acts(file[i]) /\ ~Removing(m, file[i])
                         /\ DefaultRules(file[i].key).action = "rewrite"
                         /\ \E path \in ToSet(file[i].value) : Eligible(path)}
importEdits(file) ==
    {Edit(i, i, <<rewriteDirectiveValue(file[i])>>) :
        i \in {k \in DOMAIN file : /\ file[k].kind = "import"
                                    /\ \E path \in ToSet(file[k].value) : Eligible(path)}}

(* The separators a removal leaves at the end of a doc comment. *)
strandedSeparators(file, removed) ==
    UNION {LET rest == group \ {i \in group : \A k \in i..Max(group) : k \in removed}
           IN  IF rest = group THEN {}
               ELSE {i \in rest : \A k \in i..Max(rest) : file[k].kind = "separator"} :
              group \in docGroups(file)}

(* Removals with nothing but blank lines between them are one block, whose
   blank lines go with it. *)
removalBlocks(file, removals) ==
    LET joined(i, k) == onlyBlank(file, i + 1, k - 1)
        Next(i) == {k \in removals : i < k /\ joined(i, k)}
        firsts == {k \in removals : \A i \in removals : i < k => ~joined(i, k)}
        block[i \in removals] == {i} \cup UNION {block[k] : k \in Next(i)}
    IN  {block[i] : i \in firsts}

(* Each removal of a block claims the lines down to the next one, and the
   first and the last what absorbAround adds. *)
Claims(block, top, bottom) ==
    {Edit(IF i = Min(block) THEN top ELSE i,
          IF i = Max(block) THEN bottom ELSE Min({k \in block : i < k}) - 1, <<>>) : i \in block}
(* Mutant of absorbAround: a block at the edge of a list is spaced as one
   between two declarations. *)
absorbAnywhere(file, block) ==
    LET first == Min(block)
        last  == Max(block)
        above == blankRunStart(file, first)
        below == blankRunEnd(file, last + 1) - 1
    IN  CASE below = Len(file)          -> Claims(block, above, below)
          [] first = 1 \/ above < first -> Claims(block, first, below)
          [] OTHER                      -> Claims(block, first, last)
absorbAround(file, block) ==
    LET first == Min(block)
        last  == Max(block)
        above == blankRunStart(file, first)
        below == blankRunEnd(file, last + 1) - 1
    IN  CASE below = Len(file)             -> Claims(block, above, below)
          [] first = 1                     -> Claims(block, first, below)
          [] atListEdge(file, first, last) -> Claims(block, above, below)
          [] above < first                 -> Claims(block, first, below)
          [] OTHER                         -> Claims(block, first, last)

directiveEdits(m, file) ==
    LET removed  == Removed(m, file)
        removals == removed \cup strandedSeparators(file, removed)
    IN  UNION {absorbAround(file, block) : block \in removalBlocks(file, removals)}
        \cup {Edit(i, i, <<rewriteDirectiveValue(file[i])>>) : i \in Rewritten(m, file)}

Notice == <<Text("notice"), Text("blank")>>
noticeEdit(file) ==
    LET package == CHOOSE i \in DOMAIN file : file[i].kind = "package"
        anchor  == IF docOf(file, package) = {} THEN package ELSE Min(docOf(file, package))
    IN  Edit(anchor, anchor - 1, Notice)

Overlap(edits) ==
    \E a, b \in edits :
        a # b /\ a.first <= b.first /\ (a.first = b.first => a.last <= b.last) /\ b.first <= a.last
(* What is inserted before a line comes before what replaces it. *)
applyEdits(file, edits) ==
    LET gone(i) == \E e \in edits : i \in e.first..e.last
        text(S) == FlattenSeq(SetToSeq({e.text : e \in S}))
        at(i)   == {e \in edits : e.first = i}
    IN  FlattenSeq([i \in DOMAIN file |->
            text({e \in at(i) : e.last < i}) \o text({e \in at(i) : i <= e.last})
            \o IF gone(i) THEN <<>> ELSE <<file[i]>>])
-----------------------------------------------------------------------------
(* What the result is verified against: the code, the number of times each
   comment occurs and the number of times it documents something, given the
   comments reported removed and rewritten. *)
Comments(file, lines) ==
    {<<i, Directive(file[i].key, file[i].value)>> : i \in {k \in lines : Code(file[k]) /\ file[k].key # ""}}
    \cup {<<i, file[i]>> : i \in {k \in lines : Comment(file[k])}}
Times(file, lines, text) == Cardinality({c \in Comments(file, lines) : c[2] = text})

shape(file) ==
    LET code == SelectSeq(file, Code)
    IN  [i \in DOMAIN code |-> IF code[i].kind = "import" THEN rewriteDirectiveValue(code[i])
                               ELSE Text(code[i].kind)]
verifyComments(before, after, removals, rewritten) ==
    LET to == [i \in rewritten |-> rewriteDirectiveValue(before[i])]
        all == {c[2] : c \in Comments(before, DOMAIN before) \cup Comments(after, DOMAIN after)}
    IN  \A text \in all \ {Text("notice")} :
           Times(after, DOMAIN after, text) + Times(before, removals \cup rewritten, text)
           = Times(before, DOMAIN before, text) + Cardinality({i \in rewritten :
                 Directive(to[i].key, to[i].value) = text})
verifyAttachment(before, after, rewritten) ==
    LET docs(file, text) == Times(file, UNION docGroups(file), text)
        from(text) == {before[i] : i \in {k \in rewritten : rewriteDirectiveValue(before[k]) = text}}
    IN  \A i \in UNION docGroups(after) :
           docs(after, after[i]) <= docs(before, after[i])
                                    + MapThenSumSet(LAMBDA l : docs(before, l), from(after[i]))

GoFile(m, file) ==
    LET edits     == importEdits(file) \cup directiveEdits(m, file)
        removed   == Removed(m, file)
        removals  == removed \cup strandedSeparators(file, removed)
        rewritten == Rewritten(m, file)
        all       == edits \cup {noticeEdit(file)}
        out       == applyEdits(file, all)
    IN  IF edits = {} THEN [ok |-> TRUE, lines |-> file]
        ELSE [ok |-> /\ ~Overlap(all)
                     /\ shape(file) = shape(out)
                     /\ verifyComments(file, out, removals, rewritten)
                     /\ verifyAttachment(file, out, rewritten),
              lines |-> out]
-----------------------------------------------------------------------------
(* Spacing that gofmt keeps. *)
Formatted(file) ==
    \A i \in {k \in DOMAIN file : Blank(file[k])} :
        /\ 1 < i /\ i < Len(file)
        /\ ~Blank(file[i - 1]) /\ file[i - 1].kind # "list"
        /\ \A o \in enclosingList(file, i, i) : Closing(file, o) # i + 1

(* Rewriting a formatted file gives a formatted one.  It has the same lines in
   the same order, but for the directives that go and the separators that
   would end a doc comment; each comment is still of the same paragraph and
   documents what it documented; the notice documents nothing; and no
   directive is left that names a package which is not in the module
   (rewrite.GoFile). *)
RewriteKept(m, file) ==
    \A result \in {GoFile(m, file)} :
    LET out      == result.lines
        removed  == Removed(m, file)
        trailing == {i \in UNION docGroups(file) :
                        /\ Max(Group(file, i)) \in removed
                        /\ \A k \in Group(file, i) : i <= k =>
                              k \in removed \/ file[k].kind = "separator"}
        kept     == {i \in DOMAIN file : ~Blank(file[i])} \ (removed \cup trailing)
        order    == SelectSeq([i \in DOMAIN file |-> i], LAMBDA i : i \in kept)
        printed  == SelectSeq([n \in DOMAIN out |-> n], LAMBDA n : ~Blank(out[n]) /\ out[n].kind # "notice")
        from(lines) == {order[k] : k \in {j \in DOMAIN order : printed[j] \in lines}}
    IN  /\ result.ok
        /\ Formatted(out)
        /\ Len(printed) = Len(order)
        /\ \A k \in DOMAIN order :
              LET was  == file[order[k]]
                  line == out[printed[k]]
              IN  /\ line = IF was.kind = "import" \/ order[k] \in Rewritten(m, file)
                            THEN rewriteDirectiveValue(was) ELSE was
                  /\ Comment(line) =>
                        from(Group(out, printed[k])) = Group(file, order[k]) \cap kept
                  /\ Documents(out, printed[k]) =>
                        /\ from(docOf(out, printed[k])) = docOf(file, order[k]) \cap kept
                        /\ \A n \in docOf(out, printed[k]) : out[n].kind # "notice"
                  /\ Comment(line) /\ DefaultRules(line.key).action = "rewrite" =>
                        \A path \in ToSet(line.value) :
                            ~Eligible(path) /\ (path[1] = "internal" => Tail(path) \in m.closure)
=============================================================================
