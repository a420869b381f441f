--------------------------- MODULE MCSourceCache ---------------------------
(***************************************************************************)
(* Plans of one or of two processes, and three upstream commits in a line. *)
(***************************************************************************)
EXTENDS SourceCache, TLC

CONSTANTS before, base, next

MCCommit == {before, base, next}
MCDescends ==
    {<<c, c>> : c \in MCCommit} \cup {<<before, base>>, <<before, next>>, <<base, next>>}
=============================================================================
