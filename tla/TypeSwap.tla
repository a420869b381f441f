------------------------------ MODULE TypeSwap ------------------------------
(***************************************************************************)
(* The proof that an internal package may leave the generated module       *)
(* (typeswap): upstream pairs it with a published one, and either nothing  *)
(* that is retained refers to it, or every declaration that is referred to *)
(* has an equal counterpart.  generate/types.go then refuses everything    *)
(* but a package that is dead, as it applies no rewrite yet.               *)
(*                                                                         *)
(* A graph g holds                                                         *)
(*   files        [package, path, imports, blank, uses, markers, init,     *)
(*                calls] of every loaded file: what it imports, and what   *)
(*                of that for its effects, the symbols <<package, name>>   *)
(*                it names, its generator directives, whether it declares  *)
(*                an init and the variables whose initializers call        *)
(*   retained     the packages that survive pruning                        *)
(*   pruned       the paths of the files that do not                       *)
(*   differences  what pruning changes in the generated public API         *)
(*   declared     the names each package declares                          *)
(*   types        the named type behind each type name of a package        *)
(*   state        the exported globals of each package                     *)
(*   underlying   the type below each named type                           *)
(*   methods      the exported methods of each named type                  *)
(*   conversions  the conversion functions                                 *)
(*                                                                         *)
(* A type is [kind, label, names, of]: the types it is made of, the names  *)
(* of those that are fields or methods, and what else identifies it, such  *)
(* as tags, a length or, for a named type, its package and name.           *)
(***************************************************************************)
EXTENDS Naturals, Sequences, FiniteSets, SequencesExt

CONSTANT MaxShapeDepth   \* bound of the recursive comparison

-----------------------------------------------------------------------------
(* What is retained. *)

isPruned(g, file) == \E p \in g.pruned : IsSuffix(p, file.path)
Surviving(g, other) ==
    {f \in g.files : f.package \in g.retained /\ f.package # other /\ ~isPruned(g, f)}

(* Mutant of retainedUses: every file of a retained package counts as one that
   does not refer to the package when any of its files is pruned. *)
retainedUsesByPackage(g, internal) ==
    LET kept == {f \in g.files : /\ f.package \in g.retained \ {internal}
                                 /\ \A other \in g.files :
                                        other.package = f.package => ~isPruned(g, other)}
    IN [symbols   |-> {u[2] : u \in {v \in UNION {f.uses : f \in kept} : v[1] = internal}},
        importers |-> {f.package : f \in {k \in kept : internal \in k.imports}},
        blank     |-> {f.package : f \in {k \in kept : internal \in k.blank}}]
retainedUses(g, internal) ==
    LET kept == Surviving(g, internal)
    IN [symbols   |-> {u[2] : u \in {v \in UNION {f.uses : f \in kept} : v[1] = internal}},
        importers |-> {f.package : f \in {k \in kept : internal \in k.imports}},
        blank     |-> {f.package : f \in {k \in kept : internal \in k.blank}}]
externalImporters(g, external) == retainedUses(g, external).importers

analyzeReachability(g, pair, uses) ==
    (IF pair.internal \in g.retained THEN {"retained"} ELSE {})
    \cup (IF uses.blank # {} THEN {"blank import"} ELSE {})
    \cup (IF uses.symbols # {} THEN {}
          ELSE IF uses.importers # {} THEN {"unexplained import"}
          ELSE IF externalImporters(g, pair.external) = {} THEN {"external unused"} ELSE {})

-----------------------------------------------------------------------------
(* Upstream's own pairing, and the effects of importing the package. *)

groupNames(g, package) ==
    {m.value : m \in {d \in UNION {f.markers : f \in {h \in g.files : h.package = package}} :
                         d.key = "groupName"}}
analyzeMarkers(g, pair) ==
    LET groups == groupNames(g, pair.internal) \X groupNames(g, pair.external)
    IN (IF \E f \in g.files :
              {[key |-> "conversion-gen", value |-> pair.internal],
               [key |-> "conversion-gen-external-types", value |-> pair.external]} \subseteq f.markers
        THEN {} ELSE {"not paired"})
       \cup (IF \E p \in groups : p[1] # p[2] THEN {"groups differ"} ELSE {})

schemeSymbols == {"AddToScheme", "SchemeBuilder", "SchemeGroupVersion", "localSchemeBuilder"}
usesSchemeSymbol(uses) == uses.symbols \cap schemeSymbols # {}
inventoryEffects(g, pair, uses) ==
    LET own == {f \in g.files : f.package = pair.internal}
    IN {[symbol |-> n, observable |-> n \in uses.symbols] :
           n \in g.declared[pair.internal] \cap (schemeSymbols \cup g.state[pair.internal])}
       \cup {[symbol |-> "init", observable |-> usesSchemeSymbol(uses)] : f \in {h \in own : h.init}}
       \cup {[symbol |-> n, observable |-> usesSchemeSymbol(uses) \/ n \in uses.symbols] :
                n \in UNION {f.calls : f \in own}}
analyzeGlobalEffects(changes) == {c.symbol : c \in {d \in changes : d.observable}}

-----------------------------------------------------------------------------
(* Conversions.  A statement is [form, target, field, value, into, check]: an
   assignment of a value to a target, perhaps a field of the output, a call
   or return of a value, or a conditional of those whose check is of the
   conversion's error and which returns.  A value is named for what is left
   of it behind casts, dereferences and the like; "into" is the field a
   nested conversion writes. *)

mechanicalValue(value) == value \in {"copy", "empty", "conversion"}
mechanicalReturn(value) == value \in {"nothing", "nil", "conversion"}
classifyAssign(s) ==
    s.value = "conversion" \/ (s.target \in {"field", "local"} /\ mechanicalValue(s.value))
classifyStatement(s) ==
    CASE s.form = "assign" -> classifyAssign(s)
      [] s.form = "call"   -> s.value = "conversion"
      [] s.form = "return" -> mechanicalReturn(s.value)
      [] s.form = "if"     -> classifyAssign(s) /\ s.check = "error"
      [] OTHER             -> s.form = "declaration"
manualLogic(function) == \E i \in DOMAIN function.body : ~classifyStatement(function.body[i])

Writes(s) == (IF s.form \in {"assign", "if"} /\ s.target = "field" THEN {s.field} ELSE {})
             \cup (IF s.value = "conversion" THEN s.into ELSE {})
unassignedFields(function) ==
    function.fields \ UNION {Writes(function.body[i]) : i \in DOMAIN function.body}

collectConversions(g, pair) ==
    {c \in g.conversions : c.generated /\ {c.from, c.to} = {pair.internal, pair.external}}
analyzeConversions(g, pair) ==
    LET functions == collectConversions(g, pair)
    IN IF functions = {} THEN {"no conversion"}
       ELSE {c.name : c \in {d \in functions : manualLogic(d) \/ unassignedFields(d) # {}}}

-----------------------------------------------------------------------------
(* Equivalence of the declarations. *)

lookupType(g, package, name) == name \in DOMAIN g.types[package]
Paired(g, pair) == DOMAIN g.types[pair.internal] \cap DOMAIN g.types[pair.external]

RECURSIVE substituting(_, _)
substituting(pair, type) ==
    [type EXCEPT !.label = IF type.kind = "named" /\ type.label[1] = pair.internal
                           THEN <<pair.external, type.label[2]>> ELSE @,
                 !.of = [i \in DOMAIN type.of |-> substituting(pair, type.of[i])]]

methodSignatures(g, pair, package, name) ==
    {[m EXCEPT !.signature = substituting(pair, @)] : m \in g.methods[g.types[package][name]]}
analyzeMethodSets(g, pair, uses) ==
    (uses.symbols \ g.declared[pair.external])
    \cup {n \in DOMAIN g.types[pair.internal] :
             /\ ~lookupType(g, pair.external, n)
             /\ n \in uses.symbols}
    \cup {n \in Paired(g, pair) :
             ~(methodSignatures(g, pair, pair.internal, n)
                  \subseteq methodSignatures(g, pair, pair.external, n))}
    \cup (IF Paired(g, pair) = {} THEN {"nothing paired"} ELSE {})

(* The two sides of one declaration: the same name, in the two packages of the
   pair or in one package both share. *)
correspond(pair, a, b) ==
    /\ a.label[2] = b.label[2]
    /\ a.label[1] = b.label[1] \/ (a.label[1] = pair.internal /\ b.label[1] = pair.external)

Alike(pair, a, b) ==
    /\ a.kind = b.kind
    /\ IF a.kind = "named" THEN correspond(pair, a, b)
       ELSE a.label = b.label /\ a.names = b.names /\ Len(a.of) = Len(b.of)

(* What a comparison descends into: the fields up to the shorter list that
   keep their name, the methods both interfaces have. *)
Below(g, pair, a, b) ==
    IF a.kind # b.kind THEN {}
    ELSE IF a.kind = "named"
         THEN {<<g.underlying[a.label], g.underlying[b.label]>> :
                  same \in {TRUE} \cap {correspond(pair, a, b)}}
    ELSE {<<a.of[p[1]], b.of[p[2]]>> :
             p \in {q \in (DOMAIN a.of) \X (DOMAIN b.of) :
                       /\ a.kind = "interface" \/ q[1] = q[2]
                       /\ a.names[q[1]] = b.names[q[2]]}}

RECURSIVE compare(_, _, _, _, _)

(* Mutant of UnderComparison: pairs are known by their internal side. *)
UnderComparisonLeft(visited, a, b) == \E p \in visited : p[1] = a
UnderComparison(visited, a, b) == <<a, b>> \in visited

compare(g, pair, types, depth, c) ==
    LET a == types[1]
        b == types[2]
    IN IF depth > MaxShapeDepth THEN [c EXCEPT !.differences = @ \cup {types}]
       ELSE IF UnderComparison(c.visited, a, b) THEN c
       ELSE FoldLeft(LAMBDA d, below : compare(g, pair, below, depth + 1, d),
                     [visited |-> c.visited \cup {types},
                      differences |-> c.differences
                                      \cup (IF Alike(pair, a, b) THEN {} ELSE {types})],
                     SetToSeq(Below(g, pair, a, b)))

Named(label) == [kind |-> "named", label |-> label, names |-> <<>>, of |-> <<>>]
analyzeFieldIdentity(g, pair) ==
    IF Paired(g, pair) = {} THEN {<<>>}
    ELSE FoldLeft(LAMBDA c, n : compare(g, pair, <<Named(g.types[pair.internal][n]),
                                                   Named(g.types[pair.external][n])>>, 0, c),
                  [visited |-> {}, differences |-> {}], SetToSeq(Paired(g, pair))).differences

-----------------------------------------------------------------------------
(* The decision. *)

Blocked(g, pair, uses) ==
    \/ analyzeMarkers(g, pair) # {}
    \/ analyzeReachability(g, pair, uses) # {}
    \/ analyzeGlobalEffects(inventoryEffects(g, pair, uses)) # {}
    \/ g.differences # {}
    \/ /\ uses.symbols # {}
       /\ \/ analyzeConversions(g, pair) # {}
          \/ analyzeMethodSets(g, pair, uses) # {}
          \/ analyzeFieldIdentity(g, pair) # {}

decideAction(g, pair, uses) ==
    CASE Blocked(g, pair, uses) -> "blocked"
      [] ~Blocked(g, pair, uses) /\ uses.symbols = {} -> "prune"
      [] OTHER -> "rewrite"
analyzePair(g, pair) == decideAction(g, pair, retainedUses(g, pair.internal))

(* A package that is not loaded has no uses to find. *)
Loaded(g) == {f.package : f \in g.files}
validate(g) == g.retained \subseteq Loaded(g)
Analyze(g, pair) ==
    IF validate(g) /\ {pair.internal, pair.external} \subseteq Loaded(g) THEN analyzePair(g, pair)
    ELSE "error"

(* Only a dead package lets the generation go on. *)
checkSubstitutions(action) == action = "prune"

-----------------------------------------------------------------------------
(* What the actions promise, stated without the analyses. *)

Remaining(g) == {f \in g.files : f.package \in g.retained /\ f.path \notin g.pruned}

(* Nothing that is left refers to the package, what is left already refers to
   its counterpart, upstream pairs the two in one file and nowhere gives them
   different groups, and the public API stays as it is. *)
Dead(g, pair) ==
    /\ \A f \in Remaining(g) : pair.internal \notin f.imports \cup {f.package}
    /\ \E f \in Remaining(g) : pair.external \in f.imports
    /\ \E f \in g.files : \E m, n \in f.markers :
          /\ m = [key |-> "conversion-gen", value |-> pair.internal]
          /\ n = [key |-> "conversion-gen-external-types", value |-> pair.external]
    /\ Cardinality(groupNames(g, pair.internal) \cup groupNames(g, pair.external)) < 2
    /\ g.differences = {}

(* Two types are the same on the wire when everything reached from them in
   step is alike. *)
RECURSIVE Together(_, _, _)
Together(g, pair, pairs) ==
    LET more == pairs \cup UNION {Below(g, pair, p[1], p[2]) : p \in pairs}
    IN IF more = pairs THEN pairs ELSE Together(g, pair, more)
Same(g, pair, a, b) == \A p \in Together(g, pair, {<<a, b>>}) : Alike(pair, p[1], p[2])

(* Every name that is left can be replaced, a type by one that is the same on
   the wire and has its methods; no effect of the import is relied on; and
   conversions that write every field show it. *)
Interchangeable(g, pair) ==
    LET used == {u[2] : u \in {v \in UNION {f.uses : f \in Remaining(g)} : v[1] = pair.internal}}
    IN /\ used # {}
       /\ used \subseteq g.declared[pair.external]
       /\ used \cap (schemeSymbols \cup g.state[pair.internal]) = {}
       /\ \A f \in Remaining(g) : pair.internal \notin f.blank
       /\ \A n \in used \cap DOMAIN g.types[pair.internal] :
             /\ n \in DOMAIN g.types[pair.external]
             /\ Same(g, pair, Named(g.types[pair.internal][n]), Named(g.types[pair.external][n]))
             /\ \A m \in g.methods[g.types[pair.internal][n]] :
                   \E k \in g.methods[g.types[pair.external][n]] :
                      k.name = m.name /\ k.signature = substituting(pair, m.signature)
       /\ \E c \in g.conversions :
             \A field \in c.fields : \E i \in DOMAIN c.body : field \in Writes(c.body[i])

(* A package is pruned exactly when all that is retained was looked at and the
   package is dead, which alone lets the module be generated, and a rewrite is
   proposed only for declarations that can replace one another (decideAction,
   checkSubstitutions). *)
SwapProved(g, pair) ==
    LET action == Analyze(g, pair)
    IN /\ checkSubstitutions(action)
              <=> (g.retained \cup {pair.internal, pair.external} \subseteq Loaded(g) /\ Dead(g, pair))
       /\ action = "rewrite" => Interchangeable(g, pair)
=============================================================================
