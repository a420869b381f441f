---------------------------- MODULE MCExtraction ----------------------------
(***************************************************************************)
(* Three packages, two of them with two files, and the upstream trees,     *)
(* profiles and series that the configurations choose from.                *)
(***************************************************************************)
EXTENDS Extraction, TLC

MCPackage == 1..3
MCFile == {"a1", "a2", "b1", "b2", "c1"}
MCHome == [f \in MCFile |-> CASE f \in {"a1", "a2"} -> 1
                              [] f \in {"b1", "b2"} -> 2
                              [] f = "c1" -> 3]

Source(a1, a2, b1, b2, c1) ==
    [f \in MCFile |-> CASE f = "a1" -> a1 [] f = "a2" -> a2 [] f = "b1" -> b1
                        [] f = "b2" -> b2 [] f = "c1" -> c1]

Profile(roots, prune, required, denied, maxPackages, maxGrowth) ==
    [roots |-> roots, prune |-> prune, required |-> required, denied |-> denied,
     maxPackages |-> maxPackages, maxGrowth |-> maxGrowth]

(* Every import graph, with files missing. *)
Graphs ==
    {Source(a1, a2, b1, b2, c1) :
        a1 \in {{}, {2}, {2, 3}}, a2 \in {{}, {2}, {3}, {0}, Absent},
        b1 \in {{}, {3}, Absent}, b2 \in {{}, {1}, Absent}, c1 \in {{}, {2}, Absent}}

PruneLists == {{}, {"a2"}, {"b1"}, {"a2", "b1"}, {"b1", "b2"}, {"a2", "c1"}}

Limited ==
    {Profile({1}, prune, required, denied, max, growth) :
        prune \in PruneLists, required \in {{}, {"b2"}}, denied \in {{}, {3}},
        max \in {0, 1}, growth \in {0}}
    \cup {Profile({1, 2}, prune, {}, {0}, 0, 1) : prune \in PruneLists}

(* A chain of packages, a pair that only a prunable file joins, and a root on
   its own. *)
Sources ==
    {Source({2}, {3}, {3}, {}, {}), Source({2}, {3}, {}, {}, {}), Source({}, {}, {3}, {}, {})}

Pruning ==
    {Profile({1}, prune, {}, {}, 0, 0) : prune \in {{}, {"a2"}, {"b1"}}}

Change(from, to) == [from |-> from, to |-> to]

Patches ==
    {("a1" :> Change({2}, {2, 3})),
     ("a1" :> Change({}, {2})) @@ ("b1" :> Change({3}, {})),
     ("a2" :> Change(Absent, {3})),
     ("a2" :> Change({3}, {2})),
     ("b1" :> Change({3}, {})),
     ("b2" :> Change({}, Absent)),
     ("c1" :> Change({}, {2}))}

Planned(upstreams, profiles, allSeries) ==
    {[upstream |-> u, profile |-> p, series |-> l] :
        u \in upstreams, p \in profiles, l \in allSeries}

PatchPlans ==
    Planned(Sources, Pruning,
            {<<>>} \cup {<<p>> : p \in Patches} \cup {<<p, q>> : p \in Patches, q \in Patches})
AllPlans == Planned(Graphs, Limited, {<<>>}) \cup PatchPlans
=============================================================================
