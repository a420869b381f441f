------------------------------- MODULE Facade -------------------------------
(***************************************************************************)
(* The curated public package of a generated module (facade): aliases and  *)
(* forwarding functions for what the profile exports, refused when a       *)
(* consumer could be handed a type it cannot name, and a manifest of the   *)
(* result that a later one is compared with.                               *)
(*                                                                         *)
(* A universe u is what was loaded: u.types holds the types by number,     *)
(* u.declares the type of each object <<package, name>>, u.packages the    *)
(* [name, path] of each package, which are numbered in the order of their  *)
(* paths, and package 0 is the language's own.  A type is                  *)
(*   kind     basic, param, alias, named, struct, interface, signature, or *)
(*            composite for whatever else is made of types                 *)
(*   object   what declares it, or what else identifies it                 *)
(*   of       the types it is spelled with: arguments, elements, a         *)
(*            constraint, embedded interfaces, parameters and results      *)
(*   below    <<the type a named type or an alias stands for>>             *)
(*   params   the type parameters of a generic type                        *)
(*   members  [name, method, exported, embedded, type]: its fields or      *)
(*            methods                                                      *)
(* A name is a sequence of fragments, as import names join path elements.  *)
(***************************************************************************)
EXTENDS Naturals, Sequences, FiniteSets, SequencesExt, TLC

Universe == {<<"error">>, <<"any">>, <<"int">>}
Keywords == {<<"type">>, <<"func">>}
Elements(s) == {s[i] : i \in DOMAIN s}
-----------------------------------------------------------------------------
(* The specification of a facade: modulePath, sourcePrefix, internalPrefix,
   package, and exports [name, order, kind, path, symbol, direct], ordered by
   name. *)

relocate(spec, path) ==
    spec.modulePath \o spec.internalPrefix \o SubSeq(path, Len(spec.sourcePrefix) + 1, Len(path))
resolveExport(spec, export) ==
    IF export.direct THEN export ELSE [export EXCEPT !.path = relocate(spec, @)]
validExport(spec, export) ==
    /\ export.kind \in {"type", "interface", "func", "const"}
    /\ IF export.direct
       THEN IsStrictPrefix(spec.modulePath \o spec.internalPrefix, export.path)
       ELSE IsStrictPrefix(spec.sourcePrefix, export.path)
checkExportCollisions(exports) == \A e, f \in exports : e.name = f.name => e = f
checkInternalPrefix(spec) == "internal" \in Elements(spec.internalPrefix)
validate(spec) ==
    /\ checkInternalPrefix(spec)
    /\ spec.exports # {}
    /\ \A e \in spec.exports : validExport(spec, e)
    /\ checkExportCollisions(spec.exports)

internalTo(spec, path) == IsPrefix(spec.modulePath, path)
unnameable(u, spec, package) ==
    package # 0 /\ (internalTo(spec, u.packages[package].path)
                    \/ "internal" \in Elements(u.packages[package].path))
-----------------------------------------------------------------------------
(* Go's own rules for the selectors of a type. *)

RECURSIVE Unalias(_, _)
Unalias(u, t) == IF u.types[t].kind = "alias" THEN Unalias(u, u.types[t].below[1]) ELSE t

Below(u, t) == IF u.types[t].kind = "named" THEN u.types[t].below[1] ELSE t
RECURSIVE InterfaceMethods(_, _)
InterfaceMethods(u, t) ==
    u.types[t].members
    \cup UNION {InterfaceMethods(u, Below(u, Unalias(u, e))) :
                   e \in {f \in Elements(u.types[t].of) :
                             u.types[Below(u, Unalias(u, f))].kind = "interface"}}
OwnMembers(u, t) ==
    LET below == u.types[Below(u, t)]
    IN  (IF u.types[t].kind = "named" THEN u.types[t].members ELSE {})
        \cup (IF below.kind = "interface" THEN InterfaceMethods(u, Below(u, t))
              ELSE IF below.kind = "struct" THEN below.members ELSE {})

(* Of two members of one name the shallower is selected, and neither when they
   are equally deep. *)
RECURSIVE Selected(_, _, _, _)
Selected(u, level, seen, taken) ==
    LET all  == UNION {OwnMembers(u, t) : t \in level}
        here == {m \in all : m.name \notin taken}
        next == {Unalias(u, m.type) : m \in {k \in all : k.embedded}} \ (seen \cup level)
    IN  IF level = {} THEN {}
        ELSE {m \in here : \A k \in here : k.name = m.name => k = m}
             \cup Selected(u, next, seen \cup level, taken \cup {m.name : m \in here})
Selectors(u, t) == Selected(u, {t}, {}, {})
NewMethodSet(u, t) == {m \in Selectors(u, t) : m.method}
-----------------------------------------------------------------------------
(* Binding the exports to what was loaded. *)

PackageAt(u, path) == {p \in DOMAIN u.packages : u.packages[p].path = path}
scopeObject(u, export) == {<<p, export.symbol>> : p \in PackageAt(u, export.path)} \cap DOMAIN u.declares
objectKind(u, object) ==
    LET d == u.declares[object]
    IN  IF d.kind # "type" THEN d.kind
        ELSE IF u.types[Below(u, Unalias(u, d.type))].kind = "interface" THEN "interface" ELSE "type"
checkKind(u, export, object) ==
    /\ objectKind(u, object) = export.kind
    /\ export.kind = "func" => u.types[u.declares[object].type].params = <<>>

Bound(u, spec) ==
    {[name |-> e.name, order |-> e.order, kind |-> e.kind, object |-> object] :
        <<e, object>> \in {<<f, o>> \in {resolveExport(spec, e) : e \in spec.exports} \X DOMAIN u.declares :
                               o \in scopeObject(u, f)}}
bindExports(u, spec) ==
    \A e \in {resolveExport(spec, f) : f \in spec.exports} :
        \E o \in scopeObject(u, e) : checkKind(u, e, o)

Types(bound) == {e \in bound : e.kind \in {"type", "interface"}}
Declared(u, t) == {u.types[d].object : d \in {c \in {Unalias(u, t)} : u.types[c].kind = "named"}}

(* Mutant of Registers: only under the name the profile gives. *)
RegistersNamed(u, e) == {e.object}
(* What an export publishes: the symbol it names, and what that stands for. *)
Registers(u, e) == {e.object} \cup Declared(u, u.declares[e.object].type)
aliasRegistry(u, bound) == UNION {Registers(u, e) : e \in Types(bound)}
-----------------------------------------------------------------------------
(* The walk of the published surface.  Visiting what was not yet seen, it
   reaches the closure of one step. *)

methods(u, t) ==
    LET set == IF u.types[t].params # <<>> /\ u.types[t].of = <<>> THEN u.types[t].members
               ELSE NewMethodSet(u, t)
    IN  {m.type : m \in {k \in set : k.exported}}
interfaceType(u, t) ==
    {m.type : m \in {k \in InterfaceMethods(u, t) : k.exported}} \cup Elements(u.types[t].of)
members(u, t) ==
    LET below == Below(u, t)
        constraints == UNION {Elements(u.types[p].of) : p \in Elements(u.types[t].params)}
    IN  IF u.types[t].kind # "named" THEN {t}
        ELSE constraints
             \cup CASE u.types[below].kind = "interface" -> interfaceType(u, below)
                    [] u.types[below].kind = "struct" ->
                         {m.type : m \in {k \in u.types[below].members : k.exported}} \cup methods(u, t)
                    [] OTHER -> {below} \cup methods(u, t)

declared(u, spec, registry, t) ==
    LET type == u.types[t]
    IN  Elements(type.of)
        \cup IF type.object \in registry THEN members(u, Unalias(u, t))
             ELSE IF type.kind = "alias" /\ unnameable(u, spec, type.object[1]) THEN {Unalias(u, t)}
             ELSE {}
walk(u, spec, registry, t) ==
    LET type == u.types[t]
    IN  CASE type.kind \in {"alias", "named"} -> declared(u, spec, registry, t)
          [] type.kind = "struct" -> {m.type : m \in type.members}
          [] type.kind = "interface" -> interfaceType(u, t)
          [] OTHER -> Elements(type.of) \cup UNION {Elements(u.types[p].of) : p \in Elements(type.params)}

RECURSIVE Walked(_, _, _, _)
Walked(u, spec, registry, seen) ==
    LET more == seen \cup UNION {walk(u, spec, registry, t) : t \in seen}
    IN  IF more = seen THEN seen ELSE Walked(u, spec, registry, more)
Leaks(u, spec, registry, t) ==
    LET type == u.types[t]
    IN  type.kind = "named" /\ type.object \notin registry /\ unnameable(u, spec, type.object[1])
checkLeaks(u, spec, bound) ==
    LET registry == aliasRegistry(u, bound)
    IN  \A t \in Walked(u, spec, registry, {u.declares[e.object].type : e \in bound}) :
            ~Leaks(u, spec, registry, t)
-----------------------------------------------------------------------------
(* Spelling a type, in the facade's source or in its manifest, as a renderer r
   does: with the names r.published gives, through aliases of the packages in
   r.internal.  A spelling is [head, of]: a facade's name, a package's member,
   or what is written between the parts; a source refuses a literal with a
   member of another package. *)

Publishing(u, r, object) == {e \in r.published : object \in Registers(u, e)}
namedOrAlias(u, r, object) ==
    IF Publishing(u, r, object) = {} THEN <<"member", object>>
    ELSE <<"facade", (CHOOSE e \in Publishing(u, r, object) :
                        \A f \in Publishing(u, r, object) : e.order <= f.order).name>>
SpelledThrough(u, r, t) ==
    /\ u.types[t].kind = "alias"
    /\ Publishing(u, r, u.types[t].object) = {}
    /\ u.types[t].object[1] \in r.internal
literal(r, type, names) ==
    IF r.source /\ \E m \in type.members : ~m.exported THEN <<"refused", type.object>>
    ELSE <<type.kind, names>>

(* What a type is written with: a generic type that is not instantiated, with
   the constraints of its parameters. *)
Written(u, t) ==
    LET type == u.types[t]
    IN  IF type.kind = "named" /\ type.of = <<>> /\ type.params # <<>>
        THEN FlattenSeq([i \in DOMAIN type.params |-> u.types[type.params[i]].of]) ELSE type.of

RECURSIVE typ(_, _, _)
typ(u, r, t) ==
    LET type   == u.types[t]
        parts  == [i \in DOMAIN Written(u, t) |-> typ(u, r, Written(u, t)[i])]
        fields == SetToSeq(type.members)
    IN  IF SpelledThrough(u, r, t) THEN typ(u, r, Unalias(u, t))
        ELSE IF type.kind \in {"alias", "named"}
        THEN [head |-> namedOrAlias(u, r, type.object), of |-> parts]
        ELSE IF type.kind \in {"struct", "interface"}
        THEN [head |-> literal(r, type, [i \in DOMAIN fields |-> fields[i].name]),
              of |-> parts \o [i \in DOMAIN fields |-> typ(u, r, fields[i].type)]]
        ELSE [head |-> <<type.kind, type.object>>, of |-> parts]

RECURSIVE Heads(_)
Heads(spelling) == {spelling.head} \cup UNION {Heads(spelling.of[i]) : i \in DOMAIN spelling.of}
Mentions(spellings) == UNION {Heads(e) : e \in spellings}
-----------------------------------------------------------------------------
(* The generated file. *)

sourceRenderer(u, spec, bound) ==
    [published |-> Types(bound), source |-> TRUE,
     internal |-> {p \in DOMAIN u.packages : unnameable(u, spec, p)}]
aliasTypeParams(u, t) ==
    IF u.types[Unalias(u, t)].kind # "named" THEN {}
    ELSE UNION {Elements(u.types[p].of) : p \in Elements(u.types[Unalias(u, t)].params)}
funcDeclaration(u, t) == Elements(u.types[t].of)
declaration(u, r, e) ==
    LET t == u.declares[e.object].type
    IN  {typ(u, r, part) : part \in CASE e.kind = "func" -> funcDeclaration(u, t)
                                      [] e.kind = "const" -> {}
                                      [] OTHER -> aliasTypeParams(u, t)}
declarations(u, spec, bound) ==
    UNION {declaration(u, sourceRenderer(u, spec, bound), e) : e \in bound}

(* The packages a first rendering records, each named once all are known. *)
recorded(u, spec, bound) ==
    ({e.object[1] : e \in bound}
     \cup {h[2][1] : h \in {k \in Mentions(declarations(u, spec, bound)) : k[1] = "member"}}) \ {0}
declaredNames(spec, bound) == {spec.package} \cup {e.name : e \in bound}
Numbered(name, n) == [name EXCEPT ![Len(name)] = @ \o ToString(n)]
pick(u, package, taken) ==
    LET own        == u.packages[package].name
        path       == u.packages[package].path
        candidates == <<own>> \o [i \in DOMAIN path |-> SubSeq(path, Len(path) + 1 - i, Len(path))]
                      \o [n \in 1..(Cardinality(taken) + 1) |-> Numbered(own, n + 1)]
    IN  SelectSeq(candidates, LAMBDA name : name \notin taken \cup Universe \cup Keywords)[1]
assign(u, packages, reserved) ==
    FoldLeft(LAMBDA local, p : (p :> pick(u, p, reserved \cup {local[q] : q \in DOMAIN local})) @@ local,
             <<>>, SetToSortSeq(packages, <))
localNames(u, spec, bound) == assign(u, recorded(u, spec, bound), declaredNames(spec, bound))

(* Mutant of Reserved: an import may be hidden by a parameter. *)
ReservedDeclared(u, spec, bound) == declaredNames(spec, bound) \cup Universe \cup Keywords \cup {<<>>, <<"_">>}
(* What a parameter may not be called. *)
Reserved(u, spec, bound) ==
    LET local == localNames(u, spec, bound)
    IN  declaredNames(spec, bound) \cup Universe \cup Keywords \cup {<<>>, <<"_">>}
        \cup {local[p] : p \in DOMAIN local}
parameterNames(names, reserved) ==
    LET kept(i) == names[i] \notin reserved /\ \A j \in 1..(i - 1) : names[j] # names[i]
        used    == {names[i] : i \in {j \in DOMAIN names : kept(j)}}
        fresh(i, taken) ==
            LET free == {n \in 0..(Len(names) + Cardinality(reserved)) :
                            n >= i - 1 /\ Numbered(<<"a">>, n) \notin reserved \cup taken}
            IN  Numbered(<<"a">>, CHOOSE n \in free : \A m \in free : n <= m)
    IN  FoldLeft(LAMBDA chosen, i :
                    Append(chosen, IF kept(i) THEN names[i] ELSE fresh(i, used \cup Elements(chosen))),
                 <<>>, [i \in DOMAIN names |-> i])

Spellable(u, spec, bound) == \A h \in Mentions(declarations(u, spec, bound)) : h[1] # "refused"
Generate(u, spec) ==
    LET bound == Bound(u, spec)
    IN  IF validate(spec) /\ bindExports(u, spec) /\ checkLeaks(u, spec, bound)
           /\ Spellable(u, spec, bound)
        THEN bound ELSE {}
-----------------------------------------------------------------------------
(* The manifest. *)

manifestRenderer == [published |-> {}, source |-> FALSE, internal |-> {}]
underlyingOf(u, t) ==
    LET below == Below(u, Unalias(u, t))
    IN  IF u.types[below].kind \in {"struct", "interface"} THEN <<>>
        ELSE <<typ(u, manifestRenderer, below)>>
methodMembers(u, t) ==
    IF u.types[t].params # <<>> /\ u.types[t].of = <<>> THEN u.types[t].members ELSE NewMethodSet(u, t)
membersOf(u, t) ==
    LET fields == u.types[Below(u, t)].members
        own    == {m \in fields : u.types[Below(u, t)].kind = "struct"} \cup methodMembers(u, t)
    IN  {[name |-> m.name, method |-> m.method, type |-> typ(u, manifestRenderer, m.type)] :
            m \in {k \in own : k.exported}}
Entry(u, e) ==
    LET d == u.declares[e.object]
    IN  [name |-> e.name, kind |-> e.kind, target |-> e.object, value |-> d.value,
         type |-> typ(u, manifestRenderer, d.type),
         underlying |-> IF e.kind \in {"type", "interface"} THEN underlyingOf(u, d.type) ELSE <<>>,
         members |-> IF e.kind \in {"type", "interface"} THEN membersOf(u, Unalias(u, d.type)) ELSE {}]
buildManifest(u, spec) == {Entry(u, e) : e \in Bound(u, spec)}
Diff(before, after) == (before \ after) \cup (after \ before)
CheckAgainst(before, after) == Diff(before, after) = {}
-----------------------------------------------------------------------------
(* What a consumer of the module can do with it. *)

(* Two types are one when they are alike behind every alias. *)
RECURSIVE Identity(_, _)
Identity(u, t) ==
    LET type   == u.types[Unalias(u, t)]
        fields == SetToSeq(type.members)
        of     == Written(u, Unalias(u, t))
        parts  == [i \in DOMAIN of |-> Identity(u, of[i])]
    IN  IF type.kind = "named" THEN [head |-> <<"named", type.object>>, of |-> parts]
        ELSE IF type.kind \in {"struct", "interface"}
        THEN [head |-> <<type.kind, [i \in DOMAIN fields |-> fields[i].name]>>,
              of |-> parts \o [i \in DOMAIN fields |-> Identity(u, fields[i].type)]]
        ELSE [head |-> <<type.kind, type.object>>, of |-> parts]

(* What a spelling means in the generated package. *)
RECURSIVE Meaning(_, _, _)
Meaning(u, bound, e) ==
    LET parts == [i \in DOMAIN e.of |-> Meaning(u, bound, e.of[i])]
        named(object) == [Identity(u, u.declares[object].type) EXCEPT !.of = IF parts = <<>> THEN @ ELSE parts]
    IN  CASE e.head[1] = "facade" -> named((CHOOSE f \in bound : f.name = e.head[2]).object)
          [] e.head[1] = "member" -> named(e.head[2])
          [] OTHER -> [head |-> e.head, of |-> parts]

PublishedTypes(u, bound) == {Unalias(u, u.declares[e.object].type) : e \in Types(bound)}
Nameable(u, spec, bound, t) ==
    \/ u.types[t].kind \notin {"alias", "named"}
    \/ ~unnameable(u, spec, u.types[t].object[1])
    \/ Unalias(u, t) \in PublishedTypes(u, bound)
       \/ \E p \in PublishedTypes(u, bound) : u.types[p].object = u.types[Unalias(u, t)].object

(* What follows from having a value of a type, or from writing it. *)
Obtains(u, spec, bound, t) ==
    LET type  == u.types[t]
        below == u.types[Below(u, t)]
    IN  Elements(type.of)
        \cup CASE type.kind = "alias" ->
                    (IF unnameable(u, spec, type.object[1])
                        \/ Unalias(u, t) \in PublishedTypes(u, bound) THEN {Unalias(u, t)} ELSE {})
               [] type.kind = "named" ->
                    IF t \notin PublishedTypes(u, bound) /\ ~unnameable(u, spec, type.object[1]) THEN {}
                    ELSE {m.type : m \in {k \in Selectors(u, t) : k.exported}}
                         \cup UNION {Elements(u.types[p].of) : p \in Elements(type.params)}
                         \cup IF below.kind = "interface" THEN Elements(below.of)
                              ELSE IF below.kind = "struct" THEN {} ELSE {Below(u, t)}
               [] type.kind = "struct" -> {m.type : m \in type.members}
               [] type.kind = "interface" ->
                    {m.type : m \in {k \in InterfaceMethods(u, t) : k.exported}}
               [] OTHER -> UNION {Elements(u.types[p].of) : p \in Elements(type.params)}
RECURSIVE Obtainable(_, _, _, _)
Obtainable(u, spec, bound, seen) ==
    LET more == seen \cup UNION {Obtains(u, spec, bound, t) : t \in seen}
    IN  IF more = seen THEN seen ELSE Obtainable(u, spec, bound, more)
Surface(u, spec, bound) == Obtainable(u, spec, bound, {u.declares[e.object].type : e \in bound})

(* A type that is not an alias has to be nameable. *)
AllNameable(u, spec, bound) ==
    \A t \in Surface(u, spec, bound) : u.types[t].kind = "named" => Nameable(u, spec, bound, t)

(* No name of the file hides another that it needs. *)
NothingHidden(u, spec, bound) ==
    LET local == localNames(u, spec, bound)
    IN  /\ IsInjective(local)
        /\ \A p \in DOMAIN local : local[p] \notin declaredNames(spec, bound) \cup Universe \cup Keywords
        /\ \A e \in {f \in bound : f.kind = "func"} :
              LET names == parameterNames(u.declares[e.object].parameters, Reserved(u, spec, bound))
              IN  IsInjective(names) /\ \A i \in DOMAIN names : names[i] # local[e.object[1]]

Api(u, spec) ==
    {LET t == u.declares[e.object].type IN
     [name |-> e.name, kind |-> e.kind, value |-> u.declares[e.object].value, type |-> Identity(u, t),
      underlying |-> Identity(u, Below(u, Unalias(u, t))).head[1],
      selectors |-> IF e.kind \in {"func", "const"} THEN {}
                    ELSE {[name |-> m.name, type |-> Identity(u, m.type)] :
                             m \in {k \in Selectors(u, Unalias(u, t)) : k.exported}}] : e \in Bound(u, spec)}

(* A facade is refused for a leak exactly when a consumer would obtain a type
   it cannot name; and in one that is generated, every type that is spelled
   means what the code it forwards to means, in names a consumer can write
   (facade.Generate). *)
FacadeHonest(u, spec) ==
    LET bound == Bound(u, spec)
        r     == sourceRenderer(u, spec, bound)
    IN  validate(spec) /\ bindExports(u, spec) =>
            /\ checkLeaks(u, spec, bound) <=> AllNameable(u, spec, bound)
            /\ Generate(u, spec) # {} =>
                  /\ \A t \in UNION {funcDeclaration(u, u.declares[e.object].type) :
                                       e \in {f \in bound : f.kind = "func"}} :
                        /\ Meaning(u, bound, typ(u, r, t)) = Identity(u, t)
                        /\ \A h \in Heads(typ(u, r, t)) :
                              h[1] = "member" => ~unnameable(u, spec, h[2][1])
                  /\ NothingHidden(u, spec, bound)

(* The manifests of two facades are equal only when the packages published are
   (facade.Manifest.CheckAgainst). *)
ManifestTells(u, v, spec) ==
    /\ CheckAgainst(buildManifest(u, spec), buildManifest(v, spec))
    /\ Generate(u, spec) # {} /\ Generate(v, spec) # {}
    => Api(u, spec) = Api(v, spec)
=============================================================================
