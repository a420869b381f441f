----------------------------- MODULE MCPolicies -----------------------------
(***************************************************************************)
(* The engine's pure decisions, each asked every question of a small       *)
(* domain: one action per kind of question, on the topics in Topics.       *)
(***************************************************************************)
EXTENDS Trailers, StagingVersions, DependencyPolicy, FileTree, TypeSwap,
        StateRecord

CONSTANTS Topics, MaxLines, MaxCommits, MaxRecords, MaxMarked, Divergent

Surfaces == INSTANCE Interop
Sources == INSTANCE Rewrite
Placement == INSTANCE Provenance
Settled == INSTANCE Profile

VARIABLES question, answered

Init == question = [kind |-> "none"] /\ answered = FALSE
Ask(q) == question' = q /\ UNCHANGED answered
Raise == question.kind = "none" /\ \E topic \in Topics : Ask([kind |-> "topic", topic |-> topic])
On(topic) == question = [kind |-> "topic", topic |-> topic]
Answer == question.kind \notin {"none", "topic"} /\ ~answered /\ answered' = TRUE /\ UNCHANGED question
Answered(kind) == answered /\ question.kind = kind

-----------------------------------------------------------------------------
(* Messages whose lines are of every kind and order. *)
Line == {[kind |-> k, text |-> "x"] :
            k \in {"blank", "space", "prose", "continuation", "comment", "mark"}}
        \cup {[kind |-> "trailer", text |-> [key |-> k, value |-> "theirs"]] : k \in {"ours", "other"}}

AskMessage ==
    /\ On("message")
    /\ \E n \in 1..MaxLines : \E m \in [1..n -> Line] : Ask([kind |-> "message", message |-> m])

(* provenance of an arbitrary upstream message: see TakesTheClaim. *)
ClaimTaken == Answered("message") => TakesTheClaim(question.message, "ours", "value")

-----------------------------------------------------------------------------
(* Every graph with at most two roots, the oldest commits, in which a commit has
   at most two parents, walked newest first. *)
ParentLists(n) ==
    (IF n > 2 THEN {} ELSE {<<>>})
    \cup {<<p>> : p \in 1..(n - 1)}
    \cup {pair \in (1..(n - 1)) \X (1..(n - 1)) : pair[1] # pair[2]}
Histories ==
    LET upTo[n \in 0..MaxCommits] ==
            IF n = 0 THEN {<<>>}
            ELSE {Append(h, l) : h \in upTo[n - 1], l \in ParentLists(n)}
    IN  upTo[MaxCommits]

AskGraph ==
    /\ On("graph")
    /\ \E parents \in Histories :
           Ask([kind |-> "graph",
                graph |-> [nodes |-> [i \in 1..MaxCommits |-> MaxCommits + 1 - i],
                           parents |-> parents, firstParent |-> FALSE]])

(* gitgraph's orders, closest mapped ancestors and merge bases are those of their
   definitions: see MatchesReference. *)
GraphMatches == Answered("graph") => MatchesReference(question.graph)

-----------------------------------------------------------------------------
(* A staging repository between two releases of a source mainline 1..4.  The
   publishing bot claims a source commit that changes the module; it may
   publish it a second time, the first with the wrong code; it may publish a
   commit that is not of the mainline; and it updates dependencies in commits
   that claim nothing, one of which the earlier release may be tagged at, on
   the branch or beside it. *)
SourceCode == {code \in [1..4 -> {"a", "b"}] : code[1] = "a"}
OffMainline == 9
Requirements == {<<>>} \cup {"dep" :> [version |-> v, flattened |-> f] : v \in {0, 1, 2}, f \in BOOLEAN}

Item(claims, code) == [claims |-> claims, code |-> code]
Published(code, twice, off, last) ==
    <<Item(<<1>>, "a")>>
    \o (IF off THEN <<Item(<<OffMainline>>, "z")>> ELSE <<>>)
    \o FlattenSeq([s \in 1..3 |->
            IF code[s + 1] = code[s] THEN <<>>
            ELSE (IF twice THEN <<Item(<<s + 1>>, "z")>> ELSE <<>>)
                 \o <<Item(<<s + 1>>, code[s + 1])>>])
    \o (IF last THEN <<Item(<<>>, code[4])>> ELSE <<>>)

Tagged == 100
StagingHistory(code, items, tag, requires) ==
    LET branch == [i \in DOMAIN items |-> i]
        nodes == ToSet(branch) \cup (IF tag = "claim" THEN {} ELSE {Tagged})
        previous == IF tag = "claim" THEN 1 ELSE Tagged
        above(i) == IF i = 1 THEN <<>>
                    ELSE IF i = 2 /\ tag = "update" THEN <<Tagged>> ELSE <<i - 1>>
    IN  [graph |-> [nodes |-> IF tag = "claim" THEN branch ELSE branch \o <<Tagged>>,
                    parents |-> [c \in nodes |-> IF c = Tagged THEN <<1>> ELSE above(c)],
                    firstParent |-> TRUE],
         claims |-> [c \in nodes |-> IF c = Tagged THEN <<>> ELSE items[c].claims],
         code |-> [c \in nodes |-> IF c = Tagged THEN "a" ELSE items[c].code],
         requires |-> [c \in nodes |->
                        IF c \in {1, Tagged} THEN "dep" :> [version |-> 1, flattened |-> FALSE]
                        ELSE requires],
         source |-> code,
         previous |-> previous,
         current |-> IF Len(items) = 1 THEN previous ELSE Len(items)]

AskStaging ==
    /\ On("staging")
    /\ \E code \in SourceCode : \E twice, off, last \in BOOLEAN :
       \E tag \in {"claim", "update", "spur"} : \E requires \in Requirements : \E commit \in 1..4 :
           Ask([kind |-> "staging", commit |-> commit,
                history |-> StagingHistory(code, Published(code, twice, off, last), tag, requires)])

Records(h) ==
    [hash : ToSet(h.graph.nodes), ref : {"tag", "commit"}, failed : BOOLEAN, main : {FALSE},
     replaced : BOOLEAN]
Responses(h) == {<<>>} \cup {<<r>> : r \in Records(h)} \cup {<<r, r>> : r \in Records(h)}

(* resolve.go:assertNamesCommit and the whole of MapRelease: see
   PinsTheCode. *)
PinsCarryTheCode ==
    Answered("staging") =>
        PinsTheCode(question.history, Reverse([i \in 1..question.commit |-> i]),
                    Responses(question.history))

-----------------------------------------------------------------------------
(* A module of a facade over lib, which imports some of A, B and E.  A and B
   are proposed; B and C are of m1, D of m2, E of m3 and A of either m1 or m2.
   Only what the facade reaches is loaded. *)
Costs == {
    [packages |-> 9, removed |-> 0, overrides |-> {}, licensed |-> {"m1", "m2"}, listed |-> {}],
    [packages |-> 1, removed |-> 1, overrides |-> {<<"A", "packages">>, <<"A", "leverage">>},
     licensed |-> {"m1", "m2"}, listed |-> {}],
    [packages |-> 9, removed |-> 1, overrides |-> {}, licensed |-> {"m1", "m2"}, listed |-> {"m1"}],
    [packages |-> 9, removed |-> 1, overrides |-> {<<"B", "leverage">>, <<"B", "licences">>},
     licensed |-> {"m2"}, listed |-> {}]}
Flaws == {"none", "A crosses", "B is asserted", "A has state", "B has state"}

Proposal(lib, a, b, e, moduleOfA, flaw, candidates, costs) ==
    LET crossing == IF flaw = "A crosses" THEN {"A"} ELSE {}
        asserted == IF flaw = "B is asserted" THEN {"B"} ELSE {}
        imports == [facade |-> {"lib"} \cup crossing \cup asserted, lib |-> lib, A |-> a, B |-> b,
                    C |-> {}, D |-> {}, E |-> e]
        Grow(seen) == seen \cup UNION {imports[p] : p \in seen}
        loaded == Grow(Grow(Grow(Grow({"facade"}))))
    IN  [imports |-> [p \in loaded |-> imports[p]],
         module |-> [p \in loaded |->
                        CASE p \in {"facade", "lib"} -> Main [] p \in {"B", "C"} -> "m1"
                          [] p = "A" -> moduleOfA [] p = "D" -> "m2" [] p = "E" -> "m3"],
         facade |-> "facade", candidates |-> candidates,
         crossing |-> crossing, asserted |-> asserted,
         stateful |-> IF flaw = "A has state" THEN {"A"}
                      ELSE IF flaw = "B has state" THEN {"B"} ELSE {},
         licensed |-> costs.licensed, listed |-> costs.listed, minor |-> 3,
         lines |-> [p \in loaded |-> 1],
         limit |-> [packages |-> costs.packages, lines |-> 9, removed |-> costs.removed],
         overrides |-> {[package |-> o[1], gate |-> o[2], through |-> 3] : o \in costs.overrides}]

AskCopy ==
    /\ On("copy")
    /\ \E lib \in SUBSET {"A", "B", "E"} : \E a \in SUBSET {"B", "C", "D"} :
       \E b \in SUBSET {"C"} : \E e \in SUBSET {"B", "C", "D"} : \E moduleOfA \in {"m1", "m2"} :
       \E flaw \in Flaws : \E candidates \in {{"A"}, {"A", "B"}} : \E costs \in Costs :
           Ask([kind |-> "copy",
                proposal |-> Proposal(lib, a, b, e, moduleOfA, flaw, candidates, costs)])

(* deppolicy.Decide, with its interoperability gate, generate.runDependencies
   and the validation of the profile: see CopyDelivers,
   WholeCopyLeavesNoOriginal, IdentityKept and ProfileHolds. *)
Delivered ==
    /\ Answered("copy") => /\ CopyDelivers(question.proposal)
                           /\ WholeCopyLeavesNoOriginal(question.proposal)
    /\ Answered("interop") =>
          Surfaces!IdentityKept(question.universe, question.spec, question.owned)
    /\ Answered("profile") => Settled!ProfileHolds(question.profile)
CopyIsClean == Answered("copy") => CopyLeavesNoOriginal(question.proposal)

-----------------------------------------------------------------------------
(* Two planned files and a generated one, whose paths may fold together, lie
   below one another or be linked in a chain. *)
Targets == {<<"a">>, <<"b">>, <<"..", "b">>, <<"b", "..", "a">>, <<"..", "..">>}
PlanEntries ==
    {[path |-> p, package |-> Dir(p), mode |-> "regular", content |-> "go", target |-> <<>>] :
        p \in {<<"a">>, <<"A">>, <<"b">>, <<"a", "b">>, <<"b", "a">>}}
    \cup {[path |-> p, package |-> Dir(p), mode |-> "symlink", content |-> "", target |-> t] :
            p \in {<<"a">>, <<"c">>, <<"b", "a">>}, t \in Targets}
Generated ==
    {[path |-> p, source |-> <<>>, package |-> <<>>, mode |-> "regular", content |-> c, target |-> <<>>] :
        p \in {<<"b">>, <<"A">>, <<"B", "a">>, <<"b", "b">>, <<"a", "b">>}, c \in {"go", "text"}}

AskTree ==
    /\ On("tree")
    /\ \E first, second \in PlanEntries : \E prefix \in {<<>>, <<"b">>} : \E added \in Generated :
           LET built == Build(<<first, second>>, prefix, "internal")
           IN  built.ok /\ Ask([kind |-> "tree", files |-> With(built.files, <<added>>).files])

(* relocate.go:699-704: see LinksOpen. *)
LinksAreLexical == Answered("tree") => LinksOpen(question.files)

(* Files of two contents in a repository that may hold either already, cut
   short or as something else. *)
TreeFiles ==
    {[path |-> p, mode |-> m, content |-> c] :
        p \in {<<"a">>, <<"a", "b">>, <<"b">>, <<"b", ".git">>}, m \in {"regular", "executable"},
        c \in {"one", "two"}}
AskObjects ==
    /\ On("objects")
    /\ \E n \in 1..3 : \E files \in [1..n -> TreeFiles] :
       \E store \in [{"one", "two"} -> {"missing", "blob", "short", "tree"}] :
       \E declined \in {{}, {<<"b">>}} : \E loud \in BOOLEAN :
           /\ n = 3 => /\ files[1].mode = "regular" /\ files[1].content = "one"
                       /\ files[3].mode = "regular"
           /\ Ask([kind |-> "objects", files |-> files, store |-> store, declined |-> declined,
                   loud |-> loud])

(* relocate.Materialize, treebuild.WriteFileSet, rewrite.GoFile and the copy
   plan with its records of provenance: what is on disk reads back
   as the files that were composed, and the tree object holds all of them or
   there is none, a file is rewritten as its rules say or refused, and an
   embed holds what it did; see ReadsBack, TreeIsComplete, RewriteKept and
   EmbedsKept. *)
FilesKept ==
    /\ Answered("tree") => ReadsBack(question.files)
    /\ Answered("objects") =>
          TreeIsComplete(question.files, question.store, question.declined, question.loud)
    /\ Answered("source") => Sources!RewriteKept(question.module, question.file)
    /\ Answered("embeds") => Placement!EmbedsKept(question.source)

-----------------------------------------------------------------------------
(* The internal package I and its published counterpart E, each with two
   types: struct A of the fields f and g, and struct B of one field.  E
   differs from I in one place at most. *)
Pair == [internal |-> "I", external |-> "E"]
Type(kind, label, names, of) == [kind |-> kind, label |-> label, names |-> names, of |-> of]
IntType == Type("basic", <<"int">>, <<>>, <<>>)
Pointer(t) == Type("pointer", <<>>, <<"">>, <<t>>)
Slice(t) == Type("slice", <<>>, <<"">>, <<t>>)
FieldTypes(p) == {IntType, Pointer(Named(<<p, "A">>)), Pointer(Named(<<p, "B">>)),
                  Slice(Named(<<p, "B">>)), Named(<<"shared", "S">>)}
Shape(p, tag, names, t) ==
    [A |-> Type("struct", <<tag>>, names, SubSeq(t, 1, Len(names))),
     B |-> Type("struct", <<"json">>, <<"f">>, <<t[3]>>)]
Edits == {[at |-> 0, to |-> IntType, tag |-> x[1], names |-> x[2]] :
             x \in {<<"json", <<"f", "g">>>>, <<"yaml", <<"f", "g">>>>, <<"json", <<"g", "f">>>>,
                    <<"json", <<"f">>>>}}
         \cup {[at |-> i, to |-> t, tag |-> "json", names |-> <<"f", "g">>] :
                  i \in 1..3, t \in FieldTypes("E") \cup {Pointer(Named(<<"I", "A">>))}}
Methods == [I : {{}, {[name |-> "Get", signature |-> Pointer(Named(<<"I", "A">>))]}},
            E : {{}, {[name |-> "Get", signature |-> Pointer(Named(<<"E", "A">>))]},
                 {[name |-> "Get", signature |-> IntType]}}]

LoadedFile(package, path, imports, blank, uses, markers, init, calls) ==
    [package |-> package, path |-> path, imports |-> imports \cup blank, blank |-> blank,
     uses |-> uses, markers |-> markers, init |-> init, calls |-> calls]
Marker(key, value) == [key |-> key, value |-> value]
ToInternal == Marker("conversion-gen", "I")
ToExternal == Marker("conversion-gen-external-types", "E")
Assign(value, field) == [form |-> "assign", target |-> "field", field |-> field, value |-> value,
                         into |-> {}, check |-> ""]
Nested(form, into) == [form |-> form, target |-> "local", field |-> "", value |-> "conversion",
                       into |-> into, check |-> "error"]
Return == [form |-> "return", target |-> "", field |-> "", value |-> "nil", into |-> {}, check |-> ""]
Conversion(body) == [name |-> "Convert_I_A_To_E_A", generated |-> TRUE, from |-> "I", to |-> "E",
                     fields |-> {"f", "g"}, body |-> body]
Bodies == {<<Assign("copy", "f"), Nested("if", {"g"}), Return>>,
           <<Assign("copy", "f"), Nested("if", {"f"}), Return>>,
           <<Assign("helper", "f"), Nested("if", {"g"}), Return>>,
           <<Nested("return", {})>>}

SwapGraph(files, pruned, retained, differences, conversions, internal, external, methods) ==
    [files |-> files, retained |-> retained, pruned |-> pruned, differences |-> differences,
     declared |-> [p \in {"I", "E"} |-> {"A", "B"} \cup (IF p = "I" THEN {"Default", "AddToScheme", "New"}
                                                         ELSE {"AddToScheme"})],
     types |-> [p \in {"I", "E"} |-> [n \in {"A", "B"} |-> <<p, n>>]],
     state |-> [p \in {"I", "E"} |-> IF p = "I" THEN {"Default"} ELSE {}],
     underlying |-> [l \in ({"I", "E"} \X {"A", "B"}) \cup {<<"shared", "S">>} |->
                        CASE l[1] = "I" -> internal[l[2]] [] l[1] = "E" -> external[l[2]]
                          [] OTHER -> IntType],
     methods |-> [l \in {"I", "E"} \X {"A", "B"} |-> IF l[2] = "A" THEN methods[l[1]] ELSE {}],
     conversions |-> conversions]

AskShapes ==
    /\ On("shapes")
    /\ \E t1, t2, t3 \in FieldTypes("I") : \E edit \in Edits : \E methods \in Methods :
           LET t == <<t1, t2, t3>>
               there == [i \in 1..3 |-> IF i = edit.at THEN edit.to ELSE substituting(Pair, t[i])]
               files == {LoadedFile("R", <<"r", "x">>, {"I", "E"}, {}, {<<"I", "A">>},
                              {ToInternal, ToExternal}, FALSE, {})}
                        \cup {LoadedFile(p, <<p>>, {}, {}, {}, {}, FALSE, {}) : p \in {"I", "E"}}
           IN  /\ edit.at # 0 => methods = [I |-> {}, E |-> {}]
               /\ Ask([kind |-> "swap",
                       graph |-> SwapGraph(files, {}, {"R"}, {}, {Conversion(CHOOSE b \in Bodies :
                                                                        b[1] = Assign("copy", "f") /\ b[2] = Nested("if", {"g"}))},
                                           Shape("I", "json", <<"f", "g">>, t),
                                           Shape("E", edit.tag, edit.names, there), methods)])

(* Retained R has two files, of which one may be pruned. *)
AskFacts ==
    /\ On("facts")
    /\ \E names \in {{}, {<<"I", "A">>}, {<<"I", "New">>}, {<<"I", "AddToScheme">>},
                     {<<"I", "A">>, <<"I", "Default">>}, {<<"E", "A">>}} :
       \E blank \in {{}, {"I"}} : \E other \in {{}, {"E"}} :
       \E pruned \in {{}, {<<"r", "x">>}} : \E retained \in {{"R"}, {"R", "I"}, {"R", "missing"}} :
       \E markers \in {<<{}, {ToInternal, ToExternal}>>, <<{ToInternal}, {ToExternal}>>,
                       <<{}, {ToExternal}>>} :
       \E groups \in {<<"a", "a">>, <<"a", "b">>} : \E differences \in {{}, {"field removed"}} :
       \E body \in Bodies : \E effects \in [init : BOOLEAN, calls : {{}, {"Default"}}] :
           LET t == <<IntType, IntType, IntType>>
               none == [I |-> {}, E |-> {}]
               files == {LoadedFile("R", <<"r", "x">>, {u[1] : u \in names}, blank, names, markers[1], FALSE, {}),
                         LoadedFile("R", <<"r", "y">>, other, {}, {}, markers[2], FALSE, {}),
                         LoadedFile("I", <<"i">>, {}, {}, {}, {Marker("groupName", groups[1])},
                              effects.init, effects.calls),
                         LoadedFile("E", <<"e">>, {}, {}, {}, {Marker("groupName", groups[2])}, FALSE, {})}
           IN  Ask([kind |-> "swap",
                    graph |-> SwapGraph(files, pruned, retained, differences,
                                        IF body = <<Return>> THEN {} ELSE {Conversion(body)},
                                        Shape("I", "json", <<"f", "g">>, t),
                                        Shape("E", "json", <<"f", "g">>, t), none)])

(* typeswap.analyzePair and generate.checkSubstitutions: see SwapProved. *)
PrunedIsDead == Answered("swap") => SwapProved(question.graph, Pair)

-----------------------------------------------------------------------------
(* Records of a source whose commits 1, 2 and 3 follow one another and of a
   destination whose commits 2 and 3 both follow 1.  A chain grows by every
   proposal that the last document accepts; each way to ask varies some parts
   of the document. *)
Position == {<<"sha1", n>> : n \in 1..3}
Lineage == [source |-> {<<a, b>> \in Position \X Position : a[2] < b[2]},
            destination |-> {<<a, b>> \in Position \X Position : a[2] < b[2] /\ b[2] # 3}
                            \cup {<<<<"sha1", 1>>, <<"sha1", 3>>>>}]
Document == [schema |-> Schema, format |-> "sha1", repository |-> <<"plain", "r">>,
             module |-> <<"plain", "m">>, anchor |-> [source |-> <<"sha1", 1>>, ref |-> <<TagRefs, 0>>],
             epoch |-> [profile |-> <<"sha256", "p">>, source |-> <<"sha1", 1>>, destination |-> <<>>],
             cursors |-> <<>>, mapping |-> NoMapping, tracks |-> <<>>, published |-> <<>>,
             engine |-> <<"plain", "go1">>, digest |-> <<>>]
UpTo1(S) == {<<>>} \cup {<<x>> : x \in S}
Epochs == {Document.epoch} \cup {[profile |-> <<"sha256", "q">>, source |-> <<"sha1", 2>>,
                                   destination |-> d] : d \in {<<"sha1", 1>>, <<"sha1", 2>>}}
Cursors == [ref : {<<Heads, 0>>}, source : Position \ {<<"sha1", 3>>}, destination : Position]
Tracks == [ref : {<<ProgressRefs, 1>>}, name : {1}, done : 0..2, total : 1..2,
           source : {<<>>} \cup (Position \ {<<"sha1", 3>>}), destination : {<<>>} \cup Position]
Branches == [ref : {<<Heads, 1>>}, kind : {"branch"}, object : Position, source : Position \ {<<"sha1", 3>>}]
Tags == [ref : {<<TagRefs, 1>>, <<TagRefs, 2>>}, kind : {"tag", "branch"}, object : Position,
         source : {<<"sha1", 1>>, <<"sha1", 2>>}]
IndexBytes == [index : {{1}, {2}, {1, 2}}, canonical : BOOLEAN]
Mappings == {NoMapping} \cup [digest : {<<"sha256", b>> : b \in IndexBytes},
                              object : {Blob("sha1", b) : b \in IndexBytes}, entries : 0..2]
Proposals ==
    LET valid(proposals) == {p \in proposals : New(p) # <<>>}
    IN  [positions |-> valid({[Document EXCEPT !.epoch = e, !.cursors = c, !.published = b] :
                                 e \in Epochs, c \in UpTo1(Cursors), b \in UpTo1(Branches)}),
         tracks    |-> valid({[Document EXCEPT !.epoch = e, !.tracks = t] :
                                 e \in {x \in Epochs : x.destination # <<"sha1", 2>>}, t \in UpTo1(Tracks)}),
         tags      |-> valid({[Document EXCEPT !.published = t] :
                                 t \in UpTo1(Tags) \cup {<<s, t>> : s \in Tags, t \in Tags}}),
         mapping   |-> valid({[Document EXCEPT !.mapping = m] : m \in Mappings})]
AskRecord ==
    /\ On("record")
    /\ \E part \in DOMAIN Proposals : \E p \in Proposals[part] :
           Ask([kind |-> "record", part |-> part, chain |-> New(p)])
AskSuccessor ==
    /\ question.kind = "record" /\ ~answered /\ Len(question.chain) < MaxRecords
    /\ \E p \in Proposals[question.part] :
          LET next == MergeWith(Lineage, Last(question.chain), p)
          IN  next # <<>> /\ Ask([question EXCEPT !.chain = @ \o next])

(* A document, and the index it names or another, stored in a repository of
   its format or the other; and a commit that holds a record, or not quite. *)
Recorded == {d[1] : d \in {New([Document EXCEPT !.mapping = m]) : m \in Mappings} \ {<<>>}}
Damaged == Recorded \cup {[d EXCEPT !.schema = 2] : d \in Recorded}
                    \cup {[d EXCEPT !.mapping = NoMapping] : d \in Recorded}
Repositories == [format : Formats, filters : BOOLEAN, commits : {{<<"sha1", 1>>, <<"sha256", 1>>}}]
AskStored ==
    /\ On("stored")
    /\ \E repository \in Repositories : \E d \in Recorded : \E mapping \in UpTo1(IndexBytes) :
       \E parents \in {<<>>} \cup {<<p>> : p \in {<<"sha1", 1>>, <<"sha1", 2>>, <<"sha256", 1>>}} :
           Ask([kind |-> "stored", repository |-> repository, document |-> d,
                mapping |-> mapping, parents |-> parents])
AskCommit ==
    /\ On("commit")
    /\ \E d \in Damaged : \E mapping \in UpTo1(IndexBytes) : \E other \in BOOLEAN :
       \E flaw \in {"none", "unknown", "trailing", "respelled"} : \E format \in Formats :
           Ask([kind |-> "commit",
                repository |-> [format |-> format, filters |-> FALSE, commits |-> {}],
                commit |-> [files |-> (File :> [document |-> d, unknown |-> flaw = "unknown",
                                                trailing |-> flaw = "trailing",
                                                respelled |-> flaw = "respelled"])
                                      @@ (IF mapping = <<>> THEN <<>> ELSE MappingFile :> mapping[1])
                                      @@ (IF other THEN "other" :> 0 ELSE <<>>)]])

(* state.MergeWith over a chain of records, and state.Store and Load of one:
   see ChainKept, StoredIsBelieved and BelievedAsWritten. *)
RecordKept ==
    /\ Answered("record") => ChainKept(Lineage, question.chain)
    /\ Answered("stored") => StoredIsBelieved(question.repository, question.document,
                                              question.mapping, question.parents)
    /\ Answered("commit") => BelievedAsWritten(question.repository, question.commit)

-----------------------------------------------------------------------------
(* A module mod holding the relocated package M, which imports dep and reaches
   its internal package H: every package is named v1.  Package M declares A,
   of one of several forms over the types r and s; B; an alias L of B or of
   dep's D; E, which A may embed; and a function F.  Where the constant Divergent
   is TRUE, A may embed under a name that is not exported, and L may differ
   between two universes. *)
PackagesV1 == <<[name |-> <<"v1">>, path |-> <<"dep", "internal", "v1">>],
                [name |-> <<"v1">>, path |-> <<"dep", "v1">>],
                [name |-> <<"v1">>, path |-> <<"lib", "v1">>],
                [name |-> <<"v1">>, path |-> <<"mod", "internal", "kk", "rbac", "v1">>]>>
H(name) == <<1, name>>
D(name) == <<2, name>>
M(name) == <<4, name>>
Node(kind, object, of) ==
    [kind |-> kind, object |-> object, of |-> of, below |-> <<>>, params |-> <<>>, members |-> {}]
Standing(kind, object, below) == [Node(kind, object, <<>>) EXCEPT !.below = <<below>>]
Member(name, form, type) ==
    [name |-> name, method |-> form = "method", exported |-> form # "unexported",
     embedded |-> form \in {"embedded", "unexported"}, type |-> type]
Of(kind, members) == [Node(kind, <<0, kind>>, <<>>) EXCEPT !.members = members]
Forms == {"struct", "embeds", "lowers", "interface", "func", "generic"}
         \cup (IF Divergent THEN {"hides", "constrains"} ELSE {})
Underlying(form, r) ==
    CASE form = "embeds" -> Of("struct", {Member("E", "embedded", 16)})
      [] form \in {"lowers", "hides"} -> Of("struct", {Member("e", "unexported", 16)})
      [] form = "interface" -> [Of("interface", {Member("N", "method", 19)}) EXCEPT !.of = <<16>>]
      [] form = "func" -> Node("signature", <<0, "func">>, <<r>>)
      [] form = "constrains" -> Of("struct", {})
      [] OTHER -> Of("struct", {Member("X", "field", r), [Member("y", "field", 1) EXCEPT !.exported = FALSE]})
TypesOf(form, r, s, moved, p, q) == <<
    Node("basic", <<0, "int">>, <<>>),
    Standing("named", M("B"), 13), Standing("named", D("D"), 13), Standing("named", H("H"), 13),
    Standing("alias", M("L"), IF moved THEN 3 ELSE 2),
    Standing("alias", M("LD"), 3), Standing("alias", D("XH"), 4),
    [Standing("named", <<3, "G">>, 13) EXCEPT !.of = <<2>>],
    Node("composite", <<0, "*">>, <<2>>), Node("signature", <<0, "func">>, <<5>>),
    Of("struct", {Member("X", "field", 2)}),
    Of("struct", {[Member("x", "field", 1) EXCEPT !.exported = FALSE]}),
    Of("struct", {Member("Y", "field", 1)}),
    [Standing("named", M("A"), 15) EXCEPT !.params = IF form \in {"generic", "constrains"} THEN <<21>> ELSE <<>>,
        !.members = IF form = "interface" THEN {} ELSE {Member("N", "method", 19)}],
    Underlying(form, r),
    [Standing("named", M("E"), 17) EXCEPT
        !.members = IF form \in {"embeds", "lowers"} THEN {Member("P", "method", 18)} ELSE {}],
    IF form = "interface" THEN Of("interface", {Member("P", "method", 18)})
    ELSE Of("struct", IF form = "hides" THEN {Member("Q", "field", r)} ELSE {}),
    Node("signature", <<0, "func">>, <<r>>), Node("signature", <<0, "func">>, <<s>>),
    Node("signature", <<0, "func">>, <<p, q>>), Node("param", <<0, "T">>, <<r>>),
    [Standing("named", <<3, "G">>, 13) EXCEPT !.of = <<3>>]>>
Declares(types, names) ==
    [o \in {types[t].object : t \in {2, 3, 4, 5, 6, 7, 8, 14, 16}} |->
        [kind |-> "type", type |-> CHOOSE t \in {2, 3, 4, 5, 6, 7, 8, 14, 16} : types[t].object = o,
         parameters |-> <<>>, value |-> 0]]
    @@ (M("F") :> [kind |-> "func", type |-> 20, parameters |-> names, value |-> 0])
UniverseOf(types, names) == [types |-> types, packages |-> PackagesV1, declares |-> Declares(types, names)]
Export(symbol, order, kind) ==
    [name |-> <<symbol>>, order |-> order, kind |-> kind, path |-> <<"up", "rbac", "v1">>,
     symbol |-> symbol, direct |-> FALSE]
SpecOf(package, form, exported) ==
    [modulePath |-> <<"mod">>, sourcePrefix |-> <<"up">>, internalPrefix |-> <<"internal", "kk">>,
     package |-> package,
     exports |-> {e \in {Export("A", 1, IF form = "interface" THEN "interface" ELSE "type"),
                         Export("B", 2, "type"), Export("E", 3, IF form = "interface" THEN "interface" ELSE "type"),
                         Export("F", 4, "func"), Export("L", 5, "type")} : e.symbol \in exported}]
References == 1..13 \cup (IF Divergent THEN {22} ELSE {})
Names == {<<<<"x">>, <<"y">>>>, <<<<"x">>, <<"x">>>>, <<<<"v1">>, <<"rbac", "v1">>>>, <<<<>>, <<"_">>>>,
          <<<<"a1">>, <<"error">>>>, <<<<"type">>, <<"a0">>>>, <<<<"B">>, <<"facade">>>>}

AskFacade ==
    /\ On("facade")
    /\ \E form \in Forms : \E r \in References : \E s \in {1, 2, 5} : \E others \in SUBSET {"B", "E", "L"} :
           Ask([kind |-> "facade", universe |-> UniverseOf(TypesOf(form, r, s, FALSE, 1, 1), <<<<"x">>, <<"y">>>>),
                spec |-> SpecOf(<<"facade">>, form, {"A"} \cup others)])
AskForward ==
    /\ On("forward")
    /\ \E p \in References \cup {14} : \E q \in {1, 2, 3, 7, 8} : \E names \in Names : \E others \in SUBSET {"B", "L"} :
       \E package \in {<<"facade">>, <<"v1">>} :
           Ask([kind |-> "facade", universe |-> UniverseOf(TypesOf("struct", 1, 1, FALSE, p, q), names),
                spec |-> SpecOf(package, "struct", {"F"} \cup others)])
AskManifests ==
    /\ On("manifests")
    /\ \E forms \in Forms \X Forms : \E r, s \in References : \E moved \in {FALSE, Divergent} :
       \E others \in {{}, {"B", "E", "L"}} :
           /\ forms[1] = forms[2] \/ r = s
           /\ (forms[1] = "interface") = (forms[2] = "interface")
           /\ Ask([kind |-> "manifests", spec |-> SpecOf(<<"facade">>, forms[1], {"A"} \cup others),
                   before |-> UniverseOf(TypesOf(forms[1], r, 1, FALSE, 1, 1), <<<<"x">>, <<"y">>>>),
                   after |-> UniverseOf(TypesOf(forms[2], s, 1, moved, 1, 1), <<<<"y">>, <<"x">>>>)])

(* A consumer sees A, F or both; the candidates own what dep declares. *)
AskInterop ==
    /\ On("interop")
    /\ \E form \in Forms : \E r, p \in References : \E s \in {1, 5} : \E exported \in {{"A"}, {"A", "F"}} :
       \E others \in {{}, {"B", "E"}} : \E owned \in {{1}, {2}} :
           /\ "F" \notin exported => p = 1
           /\ p = 1 \/ r \in {1, 2, 3, 4, 8}
           /\ Ask([kind |-> "interop", owned |-> owned, spec |-> SpecOf(<<"facade">>, form, exported \cup others),
                   universe |-> UniverseOf(TypesOf(form, r, s, FALSE, p, 8), <<<<"x">>, <<"y">>>>)])

(* facade.Generate and facade.Manifest.CheckAgainst: see FacadeHonest and
   ManifestTells. *)
SurfaceIsNameable ==
    /\ Answered("facade") => Surfaces!FacadeHonest(question.universe, question.spec)
    /\ Answered("manifests") =>
          Surfaces!ManifestTells(question.before, question.after, question.spec)

-----------------------------------------------------------------------------
(* Formatted files of one package that the closure kept and one it did not.
   Above the package clause, among declarations, in a list or in a body lie at
   most MaxMarked lines.  Unless the constant Divergent is TRUE a doc comment is
   prose, one separator and directives, and no two paragraphs are told apart
   only by a blank line between directives that go. *)
Module == [closure |-> {<<"kept">>}, removed |-> {"zz_generated.deepcopy.go"}]
TextLine(kind) == Sources!Text(kind)
Gone == Sources!Directive("go:generate", <<>>)
Stays == Sources!Directive("groupName", <<>>)
Marked == {TextLine("blank"), TextLine("prose"), TextLine("separator"), TextLine("item"), Gone, Stays}
Placed(context, lines) ==
    LET package == <<TextLine("package"), TextLine("blank")>>
        list    == <<TextLine("list")>> \o lines \o <<TextLine("close")>>
        body    == <<TextLine("body")>> \o lines \o <<TextLine("close")>>
    IN  CASE context = "header" -> lines \o package \o <<TextLine("item")>>
          [] context = "top"    -> package \o lines
          [] context = "list"   -> package \o list
          [] context = "body"   -> package \o body
          [] context = "inner"  -> package \o <<TextLine("list")>> \o body \o <<TextLine("close")>>
          [] context = "local"  -> package \o <<TextLine("body")>> \o list \o <<TextLine("close")>>
Orderly(file) ==
    /\ \A i \in DOMAIN file : file[i] = TextLine("separator") =>
          /\ i > 1 /\ file[i - 1] = TextLine("prose")
          /\ i < Len(file) /\ file[i + 1] \in {Gone, Stays}
    /\ \A i \in 2..Len(file) : file[i] = TextLine("prose") => file[i - 1] \notin {Gone, Stays}
    /\ \A i, k \in DOMAIN file :
          /\ i < k /\ Sources!onlyBlank(file, i + 1, k - 1) /\ k > i + 1
          /\ file[i] = Gone /\ file[k] = Gone
          => Sources!Group(file, i) \subseteq {j \in DOMAIN file : file[j] = Gone}
AskLayout ==
    /\ On("layout")
    /\ \E n \in 0..MaxMarked : \E lines \in [1..n -> Marked] :
       \E context \in {"header", "top", "list", "body", "inner", "local"} :
           LET file == Placed(context, lines)
           IN  /\ context = "header" => \A i \in 1..n : lines[i] # TextLine("item")
               /\ Sources!Formatted(file) /\ (Divergent \/ Orderly(file))
               /\ Ask([kind |-> "source", module |-> Module, file |-> file])

(* Every directive and import over packages that are kept, gone and not of the
   source, with what its generator wrote or without. *)
Values == {<<>>, <<<<"source", "kept">>>>, <<<<"source", "gone">>>>, <<<<"external">>>>,
           <<<<"external">>, <<"source", "kept">>>>, <<<<"source", "gone">>, <<"source", "kept">>>>}
Directives ==
    {Sources!Directive(k, v) :
        k \in {"k8s:conversion-gen", "k8s:deepcopy-gen", "k8s:openapi-gen", "groupName", "go:build",
               "go:generate"}, v \in Values}
Seconds == {Sources!Directive(k, v) :
                k \in {"k8s:conversion-gen", "groupName", "go:generate"}, v \in {w \in Values : Len(w) < 2}}
AskMarkers ==
    /\ On("markers")
    /\ \E first \in Directives : \E second \in Seconds : \E path \in {<<"source">>, <<"source", "kept">>, <<"external">>} :
       \E removed \in {{}, {"zz_generated.conversion.go", "zz_generated.deepcopy.go"}} :
           LET import == [TextLine("import") EXCEPT !.value = <<path>>]
               item   == [second EXCEPT !.kind = "item"]
           IN  Ask([kind |-> "source", module |-> [Module EXCEPT !.removed = removed],
                    file |-> <<first, TextLine("package"), TextLine("blank"), import, TextLine("blank"),
                               TextLine("prose"), second, item>>])

(* Package p, perhaps with q below it, and the data beside them, of which a
   nested module holds some; a record of a neighbour may be there already.
   Where the constant Divergent is TRUE, an asset may be of a nested module. *)
DataFiles == {<<"p", "a">>, <<"p", "d", "a">>, <<"p", "d", ".hidden">>, <<"p", "d", "n", "a">>,
              <<"p", "d", "n", "go.mod">>, <<"p", "q", "a">>, <<"p", "q", "SOAPBOX_PROVENANCE.txt">>}
Embed(file, elements, all) == [file |-> file, elements |-> elements, all |-> all]
Globs == {<<"*">>, <<"d">>, <<"q">>, <<"a">>, <<"*", "*">>, <<"d", "*">>, <<"d", ".hidden">>, <<"d", "n", "a">>}
AskEmbeds ==
    /\ On("embeds")
    /\ \E data \in SUBSET DataFiles : \E elements \in Globs : \E all \in BOOLEAN :
       \E packages \in {{<<"p">>}, {<<"p">>, <<"p", "q">>}, {<<"p">>, <<"p", "q">>, <<"p", "d", "n">>}} :
       \E own \in BOOLEAN : \E assets \in {{}, {<<"p", "*", "a">>}, {<<"p", "d", "n", "a">>}} :
           /\ <<"p", "d", "n">> \in packages => <<"p", "d", "n", "go.mod">> \notin data
           /\ assets = {<<"p", "d", "n", "a">>} => Divergent \/ <<"p", "d", "n", "go.mod">> \notin data
           /\ own => <<"p", "q">> \in packages
           /\ Ask([kind |-> "embeds",
                   source |-> [tree |-> data \cup {Append(p, "x.go") : p \in packages \cup {<<"p", "q">>}},
                               packages |-> packages, assets |-> assets,
                               directives |-> {Embed(<<"p", "x.go">>, elements, all)}
                                   \cup IF own THEN {Embed(<<"p", "q", "x.go">>, <<"*">>, FALSE)} ELSE {}]])

-----------------------------------------------------------------------------
(* A sound profile, and for each of its sections every combination of a few
   values of its fields, most of them unsound.  Divergent has the values that
   the validator takes and a phase refuses. *)
Symbol(package, name, exported) == [package |-> package, name |-> name, exported |-> exported]
Republished(name, exported, kind, source) ==
    [name |-> name, exported |-> exported, kind |-> kind, source |-> source]
FileAt(dir, stem, suffix) == [dir |-> dir, stem |-> stem, suffix |-> suffix]
Release(major, minor) == [major |-> major, minor |-> minor]
InA == <<"src.io", "a">>
InDep == <<"dep.io", "a">>
Unnamed == {<<>>, <<"io">>, InDep, <<"dst.io", "m">>}
Sound ==
    [importPrefix |-> <<"src.io">>, module |-> <<"dst.io">>, internalPrefix |-> <<"internal">>,
     branch |-> <<"main">>, stateRef |-> <<"refs", "heads", "state">>,
     progress |-> [path |-> <<"refs", "soapbox", "progress">>, slash |-> TRUE],
     roots |-> <<<<"a">>>>, recursive |-> TRUE, prune |-> <<>>, required |-> <<>>, deny |-> <<>>,
     maxPackages |-> 2, typePolicy |-> "prefer-external", pairs |-> <<>>,
     policy |-> "external", copies |-> <<>>, maxCopied |-> 1, maxReleases |-> 1, benefit |-> 1,
     gates |-> {"interoperability", "globalState", "diamond"}, overrides |-> <<>>,
     minimumRelease |-> Release(1, 1), firstTag |-> Release(0, 1),
     package |-> "p", rootPackage |-> "p",
     file |-> FileAt(<<>>, "facade", ".go"), assertionsFile |-> FileAt(<<>>, "asserts", ".go"),
     exports |-> <<Republished("A", TRUE, "type", Symbol(InA, "A", TRUE))>>,
     aliases |-> <<>>, assertions |-> <<>>]
Refs == [stateRef : {<<"refs", "heads", "main">>, <<"refs", "tags", "state">>, <<"refs", "heads">>, Sound.stateRef}
                    \cup (IF Divergent THEN {<<"refs", "heads", "main", "state">>} ELSE {}),
         progress : [path : {<<"refs", "heads", "p">>, <<"soapbox">>, Sound.progress.path}
                            \cup (IF Divergent THEN {<<"refs", "soapbox">>} ELSE {}),
                     slash : BOOLEAN]]
Trees == [roots : {<<>>, <<<<"a">>>>, <<<<"a">>, <<"a">>>>, <<<<"a">>, <<"a", "b">>>>, <<<<"a">>, <<"b">>>>},
          recursive : BOOLEAN, maxPackages : 0..2,
          prune : {<<>>, <<"f">>, <<"f", "f">>}, required : {<<>>, <<"f">>, <<"g", "f">>},
          deny : {<<>>, <<<<"src.io">>>>, <<InA>>, <<<<"src.io", "a", "b">>>>, <<InDep, InDep>>}]
Swaps == [typePolicy : {"prefer-external", "keep-internal"},
          pairs : {<<>>} \cup {<<a>> : a \in [internal : {InA, InDep}, external : {InA, InDep}]}
                  \cup {<<[internal |-> InA, external |-> InDep], [internal |-> InA, external |-> x]>> :
                            x \in {InDep, <<"dep.io">>}}]
Staged == <<"staging", "src", "a">>
Waivers == [package : {Staged, <<"a">>}, gate : {"maxCopiedPackages", "minimumLeverage", "diamond"},
            signed : BOOLEAN, expires : [major : {1, 2}, minor : 0..2]]
Waived == {<<>>} \cup {<<w>> : w \in Waivers}
          \cup {<<v, w>> : v, w \in {x \in Waivers : x.signed /\ x.expires = Release(1, 2)}}
Gating == [policy : {"external", "copy-approved"}, maxCopied : {0, 1},
           copies : {<<>>, <<Staged>>, <<Staged, Staged>>, <<<<"a">>>>}, overrides : Waived,
           minimumRelease : {Release(1, 1)} \cup (IF Divergent THEN {Release(1, 0)} ELSE {}),
           firstTag : {Release(0, 1)} \cup (IF Divergent THEN {Release(0, 0)} ELSE {})]
Symbols == {Symbol(InA, "A", TRUE), Symbol(InDep, "A", TRUE), Symbol(<<>>, "A", TRUE)}
           \cup (IF Divergent THEN {Symbol(<<"src.io">>, "A", TRUE)} ELSE {})
Surface ==
    [exports : {<<Republished("A", TRUE, kind, source)>> :
                   kind \in {"type", "interface", "func", "var"}, source \in Symbols}
               \cup (IF Divergent THEN {<<>>} ELSE {}),
     aliases : {<<>>} \cup {<<Republished(name, name # "b", kind, source)>> :
                   name \in {"A", "B", "b"}, kind \in {"type", "interface", "func"},
                   source \in {Symbol(InA, "C", TRUE)} \cup (IF Divergent THEN {Symbol(InA, "c", FALSE)} ELSE {})},
     assertions : LET Assertion(type, package) ==
                          [type |-> type, interface |-> Symbol(package, "R", TRUE), pointer |-> TRUE]
                  IN  {<<>>} \cup {<<Assertion(type, package)>> : type \in {"A", "B", "C"}, package \in Unnamed}
                      \cup {<<Assertion("A", InDep), Assertion(type, InDep)>> : type \in {"A", "B"}},
     file : {Sound.file, Sound.assertionsFile}
            \cup (IF Divergent THEN {FileAt(<<>>, "facade", "_test.go"), FileAt(<<>>, "doc", ".go"),
                                     FileAt(<<>>, "ASSERTS", ".go")} ELSE {})]
AskProfile ==
    /\ On("profile")
    /\ \E part \in {Refs, Trees, Swaps, Gating, Surface} : \E changed \in part :
           Ask([kind |-> "profile", profile |-> changed @@ Sound])

Next ==
    \/ Raise
    \/ AskMessage \/ AskGraph \/ AskStaging \/ AskCopy \/ AskTree \/ AskObjects
    \/ AskShapes \/ AskFacts \/ AskRecord \/ AskSuccessor \/ AskStored \/ AskCommit
    \/ AskFacade \/ AskForward \/ AskManifests \/ AskInterop
    \/ AskLayout \/ AskMarkers \/ AskEmbeds \/ AskProfile
    \/ Answer
Spec == Init /\ [][Next]_<<question, answered>>
=============================================================================
