---------------------------- MODULE StateRecord ----------------------------
(***************************************************************************)
(* The state record as a document and as a commit (state): what a document *)
(* must be like, which document may follow another, and what a commit that *)
(* holds one must look like for a resume to believe it.                    *)
(*                                                                         *)
(* An object name is <<format, n>>, a ref <<namespace, n>>, a text that    *)
(* must name no location <<class, text>>, and what the code leaves empty   *)
(* is <<>>.  A digest is what it was computed from.  A result is <<value>>, *)
(* and <<>> when the call refuses.                                         *)
(***************************************************************************)
EXTENDS Naturals, Sequences, FiniteSets, TLC

Schema == 1
Heads == 1
ProgressRefs == 2
TagRefs == 3
Precedes(a, b) == a[1] < b[1] \/ (a[1] = b[1] /\ a[2] < b[2])

NoMapping == [digest |-> <<>>, object |-> <<>>, entries |-> 0]
-----------------------------------------------------------------------------
(* One document. *)

Formats == {"sha1", "sha256"}
checkObject(format, object) == object # <<>> /\ object[1] = format
checkDigest(digest) == digest # <<>> /\ digest[1] = "sha256"
checkRef(ref) == ref # <<>> /\ ref[1] \in {Heads, ProgressRefs, TagRefs}
checkOpaque(text) == text # <<>> /\ text[1] = "plain"
checkOrder(items) == \A i \in 2..Len(items) : Precedes(items[i - 1].ref, items[i].ref)
refPrefix == [branch |-> Heads, tag |-> TagRefs]

validateIdentity(d) ==
    checkOpaque(d.repository) /\ checkOpaque(d.module)
validateEngine(d) == checkOpaque(d.engine)
validateAnchor(d) == checkObject(d.format, d.anchor.source) /\ checkRef(d.anchor.ref)
validateEpoch(d) ==
    /\ checkDigest(d.epoch.profile)
    /\ checkObject(d.format, d.epoch.source)
    /\ d.epoch.destination = <<>> \/ checkObject(d.format, d.epoch.destination)
validateCursors(d) ==
    /\ checkOrder(d.cursors)
    /\ \A i \in DOMAIN d.cursors :
          LET cursor == d.cursors[i]
          IN  /\ checkRef(cursor.ref)
              /\ checkObject(d.format, cursor.source)
              /\ checkObject(d.format, cursor.destination)
validateMapping(d) ==
    IF d.mapping.entries = 0 THEN d.mapping = NoMapping
    ELSE checkDigest(d.mapping.digest) /\ checkObject(d.format, d.mapping.object)
validateTracks(d) ==
    /\ checkOrder(d.tracks)
    /\ \A i \in DOMAIN d.tracks :
          LET track == d.tracks[i]
          IN  /\ checkRef(track.ref) /\ track.ref = <<ProgressRefs, track.name>>
              /\ track.total > 0 /\ track.done <= track.total
              /\ IF track.done = 0 THEN track.source = <<>> /\ track.destination = <<>>
                 ELSE /\ checkObject(d.format, track.source)
                      /\ checkObject(d.format, track.destination)
validatePublished(d) ==
    /\ checkOrder(d.published)
    /\ \A i \in DOMAIN d.published :
          LET entry == d.published[i]
          IN  /\ entry.kind \in DOMAIN refPrefix
              /\ checkRef(entry.ref) /\ entry.ref[1] = refPrefix[entry.kind]
              /\ checkObject(d.format, entry.object)
              /\ checkObject(d.format, entry.source)

Entries(items) == {items[i] : i \in DOMAIN items}
TagsOf(d) == {entry \in Entries(d.published) : entry.kind = "tag"}
BranchesOf(d) == Entries(d.published) \ TagsOf(d)

(* A tag names an annotated tag object, not what its source became. *)
images(d) ==
    {<<c.source, c.destination>> : c \in Entries(d.cursors)}
    \cup {<<t.source, t.destination>> : t \in {u \in Entries(d.tracks) : u.done # 0}}
    \cup {<<b.source, b.object>> : b \in BranchesOf(d)}
OneToOne(claims) == \A p, q \in claims : p[1] = q[1] <=> p[2] = q[2]
validateCorrespondence(d) ==
    /\ OneToOne(images(d))
    /\ OneToOne({<<t.source, t.object>> : t \in TagsOf(d)})

validateContent(d) ==
    /\ d.schema = Schema
    /\ d.format \in Formats
    /\ validateIdentity(d)
    /\ validateAnchor(d)
    /\ validateEpoch(d)
    /\ validateCursors(d)
    /\ validateMapping(d)
    /\ validateTracks(d)
    /\ validatePublished(d)
    /\ validateEngine(d)
    /\ validateCorrespondence(d)

computeDigest(d) == <<"sha256", [d EXCEPT !.digest = <<>>]>>
Validate(d) == validateContent(d) /\ d.digest = computeDigest(d)

Ordered(items) == SortSeq(items, LAMBDA a, b : Precedes(a.ref, b.ref))
New(d) ==
    LET c == [d EXCEPT !.cursors = Ordered(@), !.tracks = Ordered(@), !.published = Ordered(@)]
    IN  IF d.digest # <<>> \/ ~validateContent(c) THEN <<>>
        ELSE <<[c EXCEPT !.digest = computeDigest(c)]>>
-----------------------------------------------------------------------------
(* One document after another.  g holds, of the source and the destination,
   the pairs <<ancestor, descendant>>. *)

canonical(d) == IF d.digest = <<>> THEN New(d) ELSE IF Validate(d) THEN <<d>> ELSE <<>>
descends(above, from, to) ==
    from \in {<<>>, to} \/ (to # <<>> /\ <<from, to>> \in above)
sameEpoch(prev, next) == prev.epoch.profile = next.epoch.profile
immutable(prev, next) ==
    \A field \in {"format", "repository", "module", "anchor"} : prev[field] = next[field]

mergeEpoch(g, prev, next) ==
    IF sameEpoch(prev, next) THEN prev.epoch = next.epoch
    ELSE /\ descends(g.source, prev.epoch.source, next.epoch.source)
         /\ descends(g.destination, prev.epoch.destination, next.epoch.destination)

(* Within one epoch only: another epoch derives its commits anew. *)
destinationDescends(g, prev, next, from, to) ==
    sameEpoch(prev, next) => descends(g.destination, from, to)

mergeCursors(g, prev, next) ==
    \A before \in Entries(prev.cursors) : \E after \in Entries(next.cursors) :
        /\ after.ref = before.ref
        /\ descends(g.source, before.source, after.source)
        /\ destinationDescends(g, prev, next, before.destination, after.destination)
mergeMapping(prev, next) ==
    LET same(field) == prev.mapping[field] = next.mapping[field]
    IN  /\ next.mapping.entries >= prev.mapping.entries
        /\ prev.mapping.entries # 0 => same("digest") = same("object") /\ same("digest") = same("entries")
mergeTracks(g, prev, next) ==
    \A before \in Entries(prev.tracks) :
        \/ \E after \in Entries(next.tracks) :
              /\ after.name = before.name /\ after.ref = before.ref
              /\ after.done >= before.done /\ after.total >= before.total
              /\ descends(g.source, before.source, after.source)
              /\ destinationDescends(g, prev, next, before.destination, after.destination)
        \/ /\ before.done = before.total
           /\ \A after \in Entries(next.tracks) : after.name # before.name

(* Mutant of BranchAdvances: a branch may be derived anew like a cursor. *)
BranchAdvancesInEpoch(g, prev, next, before, after) ==
    /\ destinationDescends(g, prev, next, before.object, after.object)
    /\ descends(g.source, before.source, after.source)
BranchAdvances(g, prev, next, before, after) ==
    /\ descends(g.destination, before.object, after.object)
    /\ descends(g.source, before.source, after.source)
mergePublished(g, prev, next) ==
    \A before \in Entries(prev.published) : \E after \in Entries(next.published) :
        /\ after.ref = before.ref
        /\ IF before.kind = "tag" THEN after.object = before.object /\ after.source = before.source
           ELSE BranchAdvances(g, prev, next, before, after)

MergeWith(g, prev, next) ==
    LET candidate == canonical(next)
    IN  IF /\ Validate(prev) /\ candidate # <<>>
           /\ immutable(prev, candidate[1])
           /\ mergeEpoch(g, prev, candidate[1])
           /\ mergeCursors(g, prev, candidate[1])
           /\ mergeMapping(prev, candidate[1])
           /\ mergeTracks(g, prev, candidate[1])
           /\ mergePublished(g, prev, candidate[1])
        THEN candidate ELSE <<>>
-----------------------------------------------------------------------------
(* A document as bytes, and bytes in a commit.  Bytes hold a document, and
   perhaps a field the engine does not know, more after it, or the same in
   another spelling.  The bytes of a version index are the source commits it
   resolves, in the one canonical encoding or not. *)

encode(d) == [document |-> d, unknown |-> FALSE, trailing |-> FALSE, respelled |-> FALSE]
Decode(data) ==
    IF /\ data.document.schema = Schema
       /\ ~data.unknown /\ ~data.trailing
       /\ Validate(data.document)
       /\ data = encode(data.document)
    THEN <<data.document>> ELSE <<>>

Blob(format, data) == <<format, data>>
validateMappingEvidence(mapping, data) ==
    /\ mapping.entries > 0
    /\ data.canonical
    /\ Cardinality(data.index) = mapping.entries
    /\ mapping.digest = <<"sha256", data>>

File == "state.json"
MappingFile == "mapping.json"
message(d) == <<"soapbox state", d.schema, d.digest>>

(* A repository whose filters alter what it is given stores other bytes. *)
Written(repository, data) ==
    IF repository.filters THEN [data EXCEPT !.respelled = TRUE] ELSE data
requireFormat(repository, format) == repository.format = format
checkParents(repository, parents, format) ==
    \A i \in DOMAIN parents : checkObject(format, parents[i]) /\ parents[i] \in repository.commits

Store(repository, d, mapping, parents) ==
    LET files == (File :> Written(repository, encode(d)))
                 @@ (IF mapping = <<>> THEN <<>> ELSE MappingFile :> mapping[1])
    IN  IF /\ Validate(d)
           /\ requireFormat(repository, d.format)
           /\ checkParents(repository, parents, d.format)
           /\ mapping # <<>> =>
                 /\ validateMappingEvidence(d.mapping, mapping[1])
                 /\ Blob(d.format, mapping[1]) = d.mapping.object
           /\ files[File] = encode(d) /\ Decode(files[File]) = <<d>>
        THEN <<[files |-> files, parents |-> parents, message |-> message(d)]>> ELSE <<>>

Load(repository, commit) ==
    LET decoded == IF File \in DOMAIN commit.files THEN Decode(commit.files[File]) ELSE <<>>
    IN  IF /\ decoded # <<>>
           /\ requireFormat(repository, decoded[1].format)
           /\ DOMAIN commit.files \subseteq {File, MappingFile}
           /\ MappingFile \in DOMAIN commit.files =>
                 /\ Blob(decoded[1].format, commit.files[MappingFile]) = decoded[1].mapping.object
                 /\ validateMappingEvidence(decoded[1].mapping, commit.files[MappingFile])
        THEN decoded ELSE <<>>

(* A record from before the mapping was stored with it has no evidence. *)
LoadMapping(repository, commit) ==
    LET doc == Load(repository, commit)
    IN  IF doc = <<>> THEN <<>>
        ELSE IF doc[1].mapping.entries = 0 THEN <<{}>>
        ELSE IF MappingFile \in DOMAIN commit.files THEN <<commit.files[MappingFile].index>>
        ELSE <<>>

Inspect(repository, commit) ==
    IF Load(repository, commit) = <<>> THEN <<>>
    ELSE <<[document |-> commit.files[File].document, files |-> DOMAIN commit.files]>>
-----------------------------------------------------------------------------
(* What the record promises along a chain of documents, each accepted after
   the one before it. *)

OneEpoch(chain, i, j) == \A k \in i..j : sameEpoch(chain[i], chain[k])
Above(above, from, to) == from = to \/ <<from, to>> \in above

TagsStay(chain, i, j) == TagsOf(chain[i]) \subseteq TagsOf(chain[j])
BranchesAdvance(g, chain, i, j) ==
    \A b \in BranchesOf(chain[i]) : \E c \in BranchesOf(chain[j]) :
        c.ref = b.ref /\ Above(g.destination, b.object, c.object) /\ Above(g.source, b.source, c.source)
CursorsAdvance(g, chain, i, j) ==
    \A b \in Entries(chain[i].cursors) : \E c \in Entries(chain[j].cursors) :
        /\ c.ref = b.ref /\ Above(g.source, b.source, c.source)
        /\ OneEpoch(chain, i, j) => Above(g.destination, b.destination, c.destination)
(* A backfill goes on until it has done all it had to. *)
TracksFinish(g, chain, i, j) ==
    \A b \in Entries(chain[i].tracks) :
        \/ \E k \in i..j : \E c \in Entries(chain[k].tracks) :
              c.name = b.name /\ c.done = c.total /\ c.done >= b.done
        \/ \E c \in Entries(chain[j].tracks) :
              /\ c.name = b.name /\ c.done >= b.done
              /\ b.done = 0 \/ /\ Above(g.source, b.source, c.source)
                               /\ OneEpoch(chain, i, j) => Above(g.destination, b.destination, c.destination)
MappingGrows(chain, i, j) ==
    LET a == chain[i].mapping
        b == chain[j].mapping
    IN  a.entries <= b.entries /\ (a.entries = b.entries => a = b)
Identity(d) == <<d.format, d.repository, d.module, d.anchor>>

(* Whatever chain of merges led from one record to a later one, no tag has
   moved, no branch, cursor or unfinished backfill went back or away, and one
   count of resolved commits is one index (state.MergeWith). *)
ChainKept(g, chain) ==
    \A i, j \in DOMAIN chain : i <= j =>
        /\ Identity(chain[i]) = Identity(chain[j])
        /\ TagsStay(chain, i, j)
        /\ BranchesAdvance(g, chain, i, j)
        /\ CursorsAdvance(g, chain, i, j)
        /\ TracksFinish(g, chain, i, j)
        /\ MappingGrows(chain, i, j)

(* A commit is believed exactly when it holds the files the engine would
   write for the document it holds, and its index is the one the document
   counts (state.Load, Store, LoadMapping, Inspect). *)
BelievedAsWritten(repository, commit) ==
    LET doc == Load(repository, commit)
        honest == [repository EXCEPT !.filters = FALSE]
        evidence == IF MappingFile \in DOMAIN commit.files THEN <<commit.files[MappingFile]>> ELSE <<>>
        again == Store(honest, doc[1], evidence, <<>>)
        index == LoadMapping(repository, commit)
    IN  /\ Inspect(repository, commit) = <<>> <=> doc = <<>>
        /\ doc # <<>> => again # <<>> /\ again[1].files = commit.files
        /\ index # <<>> => Cardinality(index[1]) = doc[1].mapping.entries
StoredIsBelieved(repository, d, mapping, parents) ==
    LET commit == Store(repository, d, mapping, parents)
    IN  /\ commit # <<>> => Load(repository, commit[1]) = <<d>>
        /\ commit # <<>> /\ d.mapping.entries # 0 /\ mapping # <<>> =>
              LoadMapping(repository, commit[1]) = <<mapping[1].index>>
=============================================================================
