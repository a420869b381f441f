--------------------------- MODULE AppendOnlyRefs ---------------------------
(***************************************************************************)
(* What the publisher promises of a destination repository, whoever runs   *)
(* it and however often: a ref is created or moved forward, never rewound  *)
(* or deleted; a release tag never moves once it exists; and the refs a    *)
(* module consumer can observe never change together with the engine's own *)
(* bookkeeping.  docs/replay-model.md states these as rules 1 to 3 and as  *)
(* the two publication scopes.                                             *)
(***************************************************************************)
CONSTANTS Refs,       \* the refs of the destination
          TagRefs,    \* those under refs/tags/
          Bookkeeping,\* the state ref and the progress refs
          Objects,    \* commits and annotated tag objects
          None,       \* the value of a ref the destination does not have
          Anc         \* <<a, b>> \in Anc: git merge-base --is-ancestor a b

VARIABLE refs

Value == Objects \cup {None}

(* A ref may be created, and a ref that is no tag may advance to a
   descendant of its value.  Nothing else may happen to it. *)
Forward(ref, old, new) ==
    \/ old = None /\ new \in Objects
    \/ ref \notin TagRefs /\ <<old, new>> \in Anc

Init == refs \in [Refs -> Value]

Changed == {ref \in Refs : refs'[ref] # refs[ref]}

(* One transaction: any number of refs move forward together, all of them
   consumer refs or all of them bookkeeping. *)
Advance ==
    /\ refs' \in [Refs -> Value]
    /\ \A ref \in Changed : Forward(ref, refs[ref], refs'[ref])
    /\ Changed \subseteq Bookkeeping \/ Changed \cap Bookkeeping = {}

Spec == Init /\ [][Advance]_refs
=============================================================================
