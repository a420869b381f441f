---------------------------- MODULE MCGeneration ----------------------------
(* Profiles in both compatibility modes, with and without a copy, whose
   upstream code imports what they choose of three modules. *)
EXTENDS Generation, TLC

CONSTANTS c1, c2, apiserver, helpers, extra, other

(* The module that may be copied requires another, whose version one more
   module raises. *)
MCDeps == [m \in {apiserver, helpers, extra, other} |-> IF m = helpers THEN {extra} ELSE {}]
MCRaises == {<<other, extra>>}

Importing(code, exported, copied, compat) ==
    [code |-> code, pruned |-> {}, facade |-> exported, copy |-> copied, compat |-> compat]

Usual == [imports |-> Importing({helpers}, {}, {}, {}), pins |-> {apiserver, helpers, extra},
          forbidden |-> {}, local |-> FALSE, copy |-> FALSE, partial |-> FALSE,
          prune |-> "some", sameApi |-> TRUE, substitutes |-> TRUE,
          strict |-> FALSE, notices |-> TRUE, keep |-> FALSE]
Accepted ==
    {[Usual EXCEPT !.imports = Importing(code, exported, copied, compat), !.pins = pins,
                   !.forbidden = forbidden, !.local = compat # {}, !.copy = copied # {}] :
        code \in {{helpers}, {apiserver, helpers}},
        exported \in {{}, {apiserver}, {extra}, {helpers}},
        copied \in {{}, {helpers}, {extra, helpers}},
        compat \in {{}, {helpers}, {helpers, other}},
        pins \in {{apiserver, helpers, extra}, {apiserver, helpers}},
        forbidden \in {{}, {helpers}}}
(* What the other answers of an analysis, and the other options, lead to. *)
Variants == {[Usual EXCEPT !.copy = TRUE, !.partial = TRUE], [Usual EXCEPT !.prune = "vacuous"],
             [Usual EXCEPT !.sameApi = FALSE], [Usual EXCEPT !.substitutes = FALSE],
             [Usual EXCEPT !.strict = TRUE], [Usual EXCEPT !.keep = TRUE],
             [Usual EXCEPT !.prune = "none"],
             [Usual EXCEPT !.imports.code = {helpers, other}, !.pins = @ \cup {other}]}
MCProfiles == Accepted \cup Variants

Symmetric == Permutations({c1, c2})
=============================================================================
