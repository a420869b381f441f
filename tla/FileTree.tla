------------------------------ MODULE FileTree ------------------------------
(***************************************************************************)
(* The tree a generation publishes: the file set of relocate, which is     *)
(* checked, composed with generated files and materialized, and the Git    *)
(* tree treebuild writes of it through gitcli.                             *)
(*                                                                         *)
(* A path is a sequence of components.  A plan entry holds                 *)
(*   path, package   where the file is upstream                            *)
(*   mode            "regular", "executable" or "symlink"                  *)
(*   content         the bytes, "" for a link                              *)
(*   target          the components of a link's target                     *)
(* and a file of the set its source besides.  A set is a sequence of files *)
(* because two files may claim one path.                                   *)
(***************************************************************************)
EXTENDS Naturals, Sequences, SequencesExt, FiniteSets, TLC

foldRune(c) == IF c = "A" THEN "a" ELSE c
foldPath(p) == [i \in DOMAIN p |-> foldRune(p[i])]
Dir(p) == SubSeq(p, 1, Len(p) - 1)
Parents(p) == {SubSeq(p, 1, n) : n \in 1..(Len(p) - 1)}
Paths(files) == {files[i].path : i \in DOMAIN files}

-----------------------------------------------------------------------------
(* relocate *)
relocateFile(entry, prefix) ==
    [path |-> prefix \o entry.path, source |-> entry.path, package |-> prefix \o entry.package,
     mode |-> entry.mode, content |-> entry.content, target |-> entry.target]

(* A file that says which package it is of lies directly in it. *)
checkFile(file) == file.package # <<>> => file.package = Dir(file.path)

checkCollisionsExactly(files) == Cardinality(Paths(files)) = Len(files)
checkCollisions(files) == Cardinality({foldPath(p) : p \in Paths(files)}) = Len(files)

checkOverlap(files) ==
    LET folded == {foldPath(p) : p \in Paths(files)}
    IN  \A p \in folded : Parents(p) \cap folded = {}

None == [path |-> <<>>, mode |-> "none"]
Lookup(files, path) ==
    IF path \in Paths(files) THEN files[CHOOSE i \in DOMAIN files : files[i].path = path] ELSE None

(* path.Join: what climbs above the root keeps its dots, and no path of a
   set has any. *)
Join(path) ==
    FoldLeft(LAMBDA joined, c :
                 IF c = ".." /\ joined # <<>> /\ Last(joined) # ".." THEN Front(joined)
                 ELSE Append(joined, c),
             <<>>, path)
resolveLink(files, link) == Lookup(files, Join(Dir(link.path) \o link.target))

(* The file a chain of links ends at; None when it leaves the set, and a
   link when it never ends. *)
LinkEnd(files, link) ==
    LET after[n \in 0..Len(files)] ==
            IF n = 0 THEN link
            ELSE LET file == after[n - 1]
                 IN  IF file.mode = "symlink" THEN resolveLink(files, file) ELSE file
    IN  after[Len(files)]
checkLinkHop(files, link) == resolveLink(files, link).mode # "none"
checkLinkChain(files, link) == LinkEnd(files, link).mode \in {"regular", "executable"}

checkSymlinks(files, policy) ==
    \A i \in DOMAIN files :
        files[i].mode = "symlink" => policy = "internal" /\ checkLinkChain(files, files[i])

checkFileSet(files, policy) ==
    /\ \A i \in DOMAIN files : checkFile(files[i])
    /\ checkCollisions(files)
    /\ checkOverlap(files)
    /\ checkSymlinks(files, policy)

(* Build maps a plan; it reports whether the set was refused. *)
Build(plan, prefix, policy) ==
    LET files == [i \in DOMAIN plan |-> relocateFile(plan[i], prefix)]
    IN  [files |-> files,
         ok |-> /\ \A i \in DOMAIN plan : plan[i].package = Dir(plan[i].path)
                /\ checkFileSet(files, policy)]

(* A Go file below the module root says which package it is of. *)
checkComposedClassification(file) ==
    file.package = <<>> /\ file.content = "go" => Len(file.path) = 1

With(files, added) ==
    [files |-> files \o added,
     ok |-> /\ \A i \in DOMAIN added : /\ added[i].mode # "symlink"
                                       /\ checkComposedClassification(added[i])
            /\ checkFileSet(files \o added, "internal")]

-----------------------------------------------------------------------------
(* A disk holds directories, files and links under keys, which it may or may
   not tell apart by case; ok says that no operation has failed. *)
Key(folds, path) == IF folds THEN foldPath(path) ELSE path
Directory == [kind |-> "directory", file |-> None]
EmptyDisk == [ok |-> TRUE, at |-> (<<>> :> Directory)]

MkdirAll(disk, folds, path) ==
    LET above == {Key(folds, p) : p \in Parents(path)}
        blocked == \E p \in above \cap DOMAIN disk.at : disk.at[p].kind # "directory"
    IN  [ok |-> disk.ok /\ ~blocked, at |-> disk.at @@ [p \in above |-> Directory]]

writeFile(disk, folds, file) ==
    LET made == MkdirAll(disk, folds, file.path)
        key == Key(folds, file.path)
        taken == key \in DOMAIN made.at /\ (file.mode = "symlink" \/ made.at[key].kind # "file")
    IN  [ok |-> made.ok /\ ~taken,
         at |-> (key :> [kind |-> IF file.mode = "symlink" THEN "link" ELSE "file", file |-> file])
                @@ made.at]

writeTree(files, folds) ==
    FoldLeft(LAMBDA disk, file : writeFile(disk, folds, file), EmptyDisk, files)

(* Opening a path follows a link wherever it meets one. *)
Opened(disk, folds, path) ==
    LET Walk(s) ==
            IF s.rest = <<>> THEN s
            ELSE IF Head(s.rest) = ".."
                 THEN [at |-> IF s.at = <<>> THEN s.at ELSE Dir(s.at), rest |-> Tail(s.rest)]
            ELSE LET next == Key(folds, Append(s.at, Head(s.rest)))
                 IN  IF next \notin DOMAIN disk.at THEN [at |-> s.at, rest |-> <<"absent">>]
                     ELSE IF disk.at[next].kind = "link"
                          THEN [at |-> s.at, rest |-> disk.at[next].file.target \o Tail(s.rest)]
                     ELSE [at |-> next, rest |-> Tail(s.rest)]
        steps[n \in 0..12] ==
            IF n = 0 THEN [at |-> <<>>, rest |-> path] ELSE LET s == steps[n - 1] IN Walk(s)
        end == steps[12]
    IN  IF end.rest = <<>> /\ end.at \in DOMAIN disk.at THEN disk.at[end.at].file ELSE None

(* What Materialize leaves of an accepted set: every file is there, and every
   link opens the file its chain ends at, in whatever order the files are
   written and whether or not the disk tells paths apart by case. *)
Opens(files) ==
    \A folds \in BOOLEAN : \A order \in SetToSeqs(DOMAIN files) :
        LET disk == writeTree([i \in DOMAIN order |-> files[order[i]]], folds)
        IN  /\ disk.ok
            /\ \A i \in DOMAIN files :
                   Opened(disk, folds, files[i].path) =
                       IF files[i].mode = "symlink" THEN LinkEnd(files, files[i]) ELSE files[i]

(* A target that goes back out of a directory the tree does not have. *)
LeavesNothing(files, link) ==
    LET walked == Dir(link.path) \o link.target
        directories == UNION {Parents(p) : p \in Paths(files)}
    IN  \E i \in 2..Len(walked) :
            LET above == Join(SubSeq(walked, 1, i - 1))
            IN  walked[i] = ".." /\ above \notin directories \cup {<<>>}

(* checkLinkChain: resolution is lexical and matches what a file system does
   with the tree. *)
LinksOpen(files) == checkFileSet(files, "internal") => Opens(files)

(* Materialize, for every set none of whose links leaves a directory that is
   not there. *)
ReadsBack(files) ==
    checkFileSet(files, "internal")
        /\ (\A i \in DOMAIN files : files[i].mode = "symlink" => ~LeavesNothing(files, files[i]))
    => Opens(files)

-----------------------------------------------------------------------------
(* The object store maps a blob's name, here its content, to what is stored
   under it: "missing", "blob", "short" for other bytes, or "tree". *)
ObjectInfoBatch(store, names) == [name \in names |-> store[name]]
WriteBlob(store, content) == [store EXCEPT ![content] = "blob"]

isReservedComponent(c) == c = ".git"
validateEntry(entry) == \A i \in DOMAIN entry.path : ~isReservedComponent(entry.path[i])

checkTreePaths(entries) ==
    /\ \A i \in DOMAIN entries : validateEntry(entries[i])
    /\ Cardinality(Paths(entries)) = Len(entries)
    /\ \A p \in Paths(entries) : Parents(p) \cap Paths(entries) = {}

checkTreeObjects(store, entries) ==
    LET names == {entries[i].content : i \in DOMAIN entries}
    IN  \A name \in names : ObjectInfoBatch(store, names)[name] \in {"blob", "short"}

(* git update-index takes the entries in order: a later one replaces what is
   at, above or below its path.  It may also decline a path. *)
Indexed(entries, declined) ==
    FoldLeft(LAMBDA index, entry :
                 IF entry.path \in declined THEN index
                 ELSE {e \in index : /\ e.path # entry.path
                                     /\ e.path \notin Parents(entry.path)
                                     /\ entry.path \notin Parents(e.path)} \cup {entry},
             {}, entries)

(* The tree as ListTree reads it back, {} when WriteTree refuses. *)
WriteTree(store, entries, declined, loud) ==
    IF ~checkTreePaths(entries) \/ ~checkTreeObjects(store, entries) \/ (declined # {} /\ loud)
    THEN {}
    ELSE Indexed(entries, declined)

sameEntryCount(entries, tree) == Cardinality(tree) > 0
sameEntries(entries, tree) == Len(entries) = Cardinality(tree) /\ ToSet(entries) = tree

TrustedByType(kind) == kind \in {"missing", "blob", "short"}
Trusted(kind) == kind \in {"missing", "blob"}

(* WriteFileSet: the tree, and the store afterwards. *)
WriteFileSet(files, store, declined, loud) ==
    LET names == {files[i].content : i \in DOMAIN files}
        probed == ObjectInfoBatch(store, names)
        stored == FoldSet(LAMBDA name, s : IF probed[name] = "missing" THEN WriteBlob(s, name) ELSE s,
                          store, names)
        tree == WriteTree(stored, files, declined, loud)
        ok == /\ files # <<>>
              /\ \A name \in names : Trusted(probed[name])
              /\ sameEntries(files, tree)
    IN  [ok |-> ok, tree |-> tree, store |-> stored]

(* A tree that WriteFileSet reports holds exactly the files of the set, and
   every blob in it is stored with the bytes of its file, whatever the
   repository already held and whatever git declines to record. *)
TreeIsComplete(files, store, declined, loud) ==
    LET written == WriteFileSet(files, store, declined, loud)
    IN  written.ok =>
            /\ written.tree = {files[i] : i \in DOMAIN files}
            /\ Cardinality(Paths(files)) = Len(files)
            /\ \A i \in DOMAIN files : written.store[files[i].content] = "blob"
=============================================================================
