SPECIFICATION Spec
CHECK_DEADLOCK FALSE
CONSTANT Topics = {"message", "graph", "staging", "copy", "tree", "objects", "shapes", "facts", "record", "stored", "commit", "facade", "forward", "manifests", "interop", "layout", "markers", "embeds", "profile"}
CONSTANT MaxLines = 5
CONSTANT MaxCommits = 5
INVARIANT ClaimTaken
INVARIANT GraphMatches
INVARIANT PinsCarryTheCode
INVARIANT Delivered
INVARIANT FilesKept
INVARIANT PrunedIsDead
CONSTANT MaxShapeDepth = 5
CONSTANT MaxRecords = 3
INVARIANT RecordKept
CONSTANT Divergent = FALSE
CONSTANT MaxMarked = 5
INVARIANT SurfaceIsNameable
