-------------------------- MODULE StagingVersions --------------------------
(***************************************************************************)
(* The version of a staging module at a source commit                      *)
(* (tools/internal/gomodmap staging.go and resolve.go, as                  *)
(* generate/staging.go calls them): between two releases, the staging      *)
(* commit that carries the source commit's code, or the earlier release    *)
(* when nothing but its metadata changed since, and the check that what    *)
(* the go command resolved is that commit.                                 *)
(*                                                                         *)
(* A staging history is a graph of commits with, for each commit, the      *)
(* source commits its trailers claim, its code and what its go.mod         *)
(* requires, and the commits two adjacent release tags name.  A refusal    *)
(* is the empty set; an answer is a set of one.                            *)
(***************************************************************************)
EXTENDS CommitGraph

(* StagingReleaseAnchor: a linear release, or one unclaimed commit that was
   tagged beside the branch. *)
ReleaseAnchor(h) ==
    IF IsAncestor(h.graph, h.previous, h.current) THEN {h.previous}
    ELSE {base \in MergeBases(h.graph, h.previous, h.current) :
            /\ Cardinality(MergeBases(h.graph, h.previous, h.current)) = 1
            /\ h.graph.parents[h.previous] = <<base>>
            /\ h.claims[h.previous] = <<>>}

(* The commits an index reads, oldest first and the anchor before them. *)
Walked(h, anchor) ==
    <<anchor>> \o SelectSeq(Reverse(FirstParentLine(h.graph, h.current)),
                            LAMBDA c : ~IsAncestor(h.graph, c, anchor))

Connects(h, anchor) ==
    LET walked == Walked(h, anchor)
    IN  /\ IsAncestor(h.graph, anchor, h.current)
        /\ Len(walked) > 1 => Head(h.graph.parents[walked[2]]) = anchor

(* NewStagingIndex: the newest commit that claims a source commit carries it. *)
ClaimedBy(h, walked, s) == {i \in DOMAIN walked : h.claims[walked[i]] = <<s>>}
Claimed(h, walked) == UNION {ToSet(h.claims[walked[i]]) : i \in DOMAIN walked}

OldestClaims(h, walked) ==
    [s \in Claimed(h, walked) |->
        walked[CHOOSE i \in ClaimedBy(h, walked, s) : \A j \in ClaimedBy(h, walked, s) : i <= j]]
BySource(h, walked) ==
    [s \in Claimed(h, walked) |->
        walked[CHOOSE i \in ClaimedBy(h, walked, s) : \A j \in ClaimedBy(h, walked, s) : j <= i]]

StagingIndexes(h) ==
    {[anchor |-> anchor,
      bySource |-> BySource(h, Walked(h, anchor)),
      claimFree |-> \A i \in 2..Len(Walked(h, anchor)) : h.claims[Walked(h, anchor)[i]] = <<>>] :
        anchor \in {a \in ReleaseAnchor(h) :
                        /\ Connects(h, a)
                        /\ \A c \in ToSet(Walked(h, a)) : Len(h.claims[c]) <= 1}}

(* Map: the closest commit of the source mainline, newest first, that the
   index knows. *)
Mapped(index, mainline) ==
    {[source |-> Head(mainline), matched |-> mainline[i], distance |-> i - 1,
      staging |-> index.bySource[mainline[i]], carried |-> FALSE] :
        i \in {j \in DOMAIN mainline :
                /\ mainline[j] \in DOMAIN index.bySource
                /\ \A k \in 1..(j - 1) : mainline[k] \notin DOMAIN index.bySource}}

(* stagingRequirementsAdvance: what the earlier release requires is required
   at no lower version since.  A placeholder (version 0) of a sibling that a
   replacement provides is the root module's to resolve. *)
Advances(prior, since) ==
    \A m \in DOMAIN prior :
        /\ m \in DOMAIN since
        /\ \/ since[m].version = 0 /\ since[m].flattened
           \/ since[m].version >= prior[m].version

MetadataOnly(h, candidate) ==
    /\ h.code[candidate] = h.code[h.previous]
    /\ Advances(h.requires[h.previous], h.requires[candidate])

Carried(h, mapping) == [mapping EXCEPT !.staging = h.previous, !.carried = TRUE]
CarryForward(h, mainline) ==
    [source |-> Head(mainline), matched |-> Last(mainline), distance |-> Len(mainline) - 1,
     staging |-> h.previous, carried |-> TRUE]

(* MapRelease. *)
MapRelease(h, mainline) ==
    UNION {LET mapped == Mapped(index, mainline)
               carried == IF mapped = {} THEN {CarryForward(h, mainline)}
                          ELSE {Carried(h, m) : m \in mapped}
           IN  IF index.claimFree
               THEN IF MetadataOnly(h, h.current) THEN carried ELSE {}
               ELSE {IF MetadataOnly(h, m.staging) THEN Carried(h, m) ELSE m : m \in mapped} :
           index \in StagingIndexes(h)}

(* indexResolved: one usable record for the module. *)
Usable(record) == ~record.failed /\ ~record.main /\ ~record.replaced

(* ResolveCommitVersions: a commit is asked for by name, a carried release by
   its tag, and the origin of the answer has to be the mapped commit. *)
NamesMapped(mapping, record) ==
    /\ record.hash = mapping.staging
    /\ mapping.carried => record.ref = "tag"

Pin(mapping, response) ==
    IF Len(response) = 1 /\ Usable(response[1]) /\ NamesMapped(mapping, response[1])
    THEN {response[1].hash} ELSE {}

-----------------------------------------------------------------------------
(* Whatever the go command answers, a source commit gets no pin or one that
   carries its code of the module. *)
PinsTheCode(h, mainline, responses) ==
    LET mappings == MapRelease(h, mainline)
    IN  \A response \in responses : \A m \in mappings : \A pin \in Pin(m, response) :
            h.code[pin] = h.source[Head(mainline)]
=============================================================================
