------------------------------ MODULE Interop ------------------------------
(***************************************************************************)
(* Which packages own a type that a consumer of the facade can see         *)
(* (deppolicy's interoperability gate).  Go compares declared types by     *)
(* name, so a copied package may own none of them.  The universe is        *)
(* Facade's; the boundary is what the facade declares.                     *)
(***************************************************************************)
EXTENDS Facade

exported(ms) == {m.type : m \in {k \in ms : k.exported}}
unowned(owned, type) == type.kind # "named" \/ type.object[1] \notin owned

walkInterface(u, t) == exported(u.types[t].members) \cup Elements(u.types[t].of)
(* Mutant of promoted: the methods a type declares. *)
promotedDeclared(u, t) == exported(u.types[t].members)
promoted(u, t) ==
    IF u.types[Below(u, t)].kind = "interface" THEN {} ELSE exported(NewMethodSet(u, t))
(* The types one step of the walk descends to. *)
descends(u, t) ==
    LET type == u.types[t]
    IN  CASE type.kind = "alias"     -> <<Unalias(u, t)>>
          [] type.kind = "named"     -> type.of \o type.below \o SetToSeq(promoted(u, t))
          [] type.kind = "struct"    -> SetToSeq(exported(type.members))
          [] type.kind = "interface" -> SetToSeq(walkInterface(u, t))
          [] OTHER                   -> type.of

(* A walk so far, w: the declared types it visited, by what declares them, and
   the owned ones it found. *)
RECURSIVE walkNamed(_, _, _, _)
walkNamed(u, owned, w, t) ==
    LET type == u.types[t]
        into(visited) == FoldLeft(LAMBDA x, s : walkNamed(u, owned, x, s),
                                  [w EXCEPT !.visited = @ \cup visited], descends(u, t))
    IN  IF type.kind # "named" THEN into({})
        ELSE IF type.object[1] \in owned THEN [w EXCEPT !.findings = @ \cup {type.object}]
        ELSE IF type.object \in w.visited THEN w
        ELSE into({type.object})
evaluateInterop(u, boundary, owned) ==
    FoldLeft(LAMBDA w, t : walkNamed(u, owned, w, t), [visited |-> {}, findings |-> {}], boundary).findings

(* The exported names of the facade's package, in order. *)
Boundary(u, spec) ==
    LET bound == SetToSortSeq(Bound(u, spec), LAMBDA e, f : e.order < f.order)
    IN  [i \in DOMAIN bound |-> u.declares[bound[i].object].type]
-----------------------------------------------------------------------------
(* What a consumer sees without looking into an owned type. *)
Sees(u, owned, t) ==
    LET type  == u.types[t]
        below == Below(u, t)
    IN  CASE type.kind = "alias" -> {Unalias(u, t)}
          [] ~unowned(owned, type) -> {}
          [] type.kind = "named" ->
               Elements(type.of) \cup exported(Selectors(u, t))
               \cup UNION {Elements(u.types[p].of) : p \in Elements(type.params)}
               \cup IF u.types[below].kind = "interface" THEN Elements(u.types[below].of)
                    ELSE IF u.types[below].kind = "struct" THEN {} ELSE {below}
          [] OTHER -> exported(type.members) \cup Elements(type.of)
RECURSIVE Seen(_, _, _)
Seen(u, owned, types) ==
    LET more == types \cup UNION {Sees(u, owned, t) : t \in types}
    IN  IF more = types THEN types ELSE Seen(u, owned, more)

(* The gate finds exactly the types of the candidates' packages that a
   consumer of a facade can see (deppolicy.evaluateInterop). *)
IdentityKept(u, spec, owned) ==
    Generate(u, spec) # {} =>
        LET boundary == Boundary(u, spec)
            seen == {t \in Seen(u, owned, Elements(boundary)) : ~unowned(owned, u.types[t])}
        IN  evaluateInterop(u, boundary, owned) = {u.types[t].object : t \in seen}
=============================================================================
