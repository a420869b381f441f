------------------------------ MODULE Trailers ------------------------------
(***************************************************************************)
(* Provenance trailers (tools/internal/gitgraph mapping.go reads them,     *)
(* tools/internal/treebuild commit.go writes them): where in a commit      *)
(* message the source commit is claimed, so that it is what a reader       *)
(* finds.                                                                  *)
(*                                                                         *)
(* A message is a sequence of lines.  A line is its kind and its text:     *)
(* blank, space (whitespace alone), prose, trailer ("<token>: text"),      *)
(* continuation (indented), comment, and mark (three dashes, the start of  *)
(* a patch).  The text of a trailer is [key, value].                       *)
(***************************************************************************)
EXTENDS Naturals, Sequences, SequencesExt

Kinds(message) == [i \in DOMAIN message |-> message[i].kind]
Before(message, n) == SubSeq(message, 1, n)
After(message, n) == SubSeq(message, n + 1, Len(message))

(* patchStart and splitPatch: the lines before the first mark. *)
BodyLength(message) ==
    LET marks == {i \in DOMAIN message : message[i].kind = "mark"}
    IN  IF marks = {} THEN Len(message) ELSE (CHOOSE i \in marks : \A j \in marks : i <= j) - 1

Trimmed(message, kinds) ==
    LET kept == {n \in 0..Len(message) :
                    \A i \in (n + 1)..Len(message) : message[i].kind \in kinds}
    IN  Before(message, CHOOSE n \in kept : \A m \in kept : n <= m)

(* The last paragraph, unless it is the first. *)
LastParagraph(message) ==
    LET breaks == {i \in 2..Len(message) : message[i].kind = "blank"}
    IN  IF breaks = {} THEN <<>> ELSE After(message, CHOOSE i \in breaks : \A j \in breaks : j <= i)

(* trailerBlockLines: every line of it is a trailer, a comment, or continues
   a trailer. *)
IsBlock(lines) ==
    /\ \A i \in DOMAIN lines : lines[i].kind \in {"comment", "trailer", "continuation", "space"}
    /\ \E i \in DOMAIN lines : lines[i].kind = "trailer"
    /\ \A i \in DOMAIN lines : lines[i].kind \in {"continuation", "space"} =>
            \E j \in 1..(i - 1) : lines[j].kind = "trailer"

BlockLines(message) ==
    LET body == Trimmed(Before(message, BodyLength(message)), {"blank", "space"})
        lines == LastParagraph(body)
    IN  IF IsBlock(lines) THEN lines ELSE <<>>

Fold(trailers, line) ==
    CASE line.kind = "trailer" ->
            Append(trailers, [key |-> line.text.key, value |-> <<line.text.value>>])
      [] line.kind = "continuation" ->
            [trailers EXCEPT ![Len(trailers)].value = Append(@, line.text)]
      [] OTHER -> trailers
TrailerBlock(message) == FoldLeft(Fold, <<>>, BlockLines(message))

(* The last value under the key. *)
TrailerValue(message, key) ==
    LET claims == SelectSeq(TrailerBlock(message), LAMBDA t : t.key = key)
    IN  IF claims = <<>> THEN <<>> ELSE Last(claims).value

(* ProvenanceMessage: the claim is added to the block of trailers, or as a
   paragraph of its own, and has to be read back. *)
Blank == [kind |-> "blank", text |-> ""]
Claim(key, value) == [kind |-> "trailer", text |-> [key |-> key, value |-> value]]

ExtendedInPlace(message, key, value) ==
    LET n == BodyLength(message)
    IN  Trimmed(Before(message, n), {"blank"}) \o <<Claim(key, value)>> \o After(message, n)
Extended(message, key, value) ==
    LET n == BodyLength(message)
        apart == IF TrailerBlock(message) = <<>> THEN <<Blank>> ELSE <<>>
    IN  Trimmed(Before(message, n), {"blank"}) \o apart \o <<Claim(key, value)>> \o After(message, n)

IsMessage(message) ==
    \E i \in 1..BodyLength(message) : message[i].kind \notin {"blank", "space"}

ProvenanceMessage(message, key, value) ==
    IF /\ IsMessage(message)
       /\ TrailerBlock(Extended(message, key, value)) =
            Append(TrailerBlock(message), [key |-> key, value |-> <<value>>])
    THEN {Extended(message, key, value)} ELSE {}

-----------------------------------------------------------------------------
(* commit.go:131: whatever an upstream message ends with (prose, trailers,
   some under the same key, comments, quoted lines, a patch), it takes the
   claim, which is then the effective one.  Lines of whitespace alone are the
   exception: after a block they read as continuations of nothing. *)
TakesTheClaim(message, key, value) ==
    IsMessage(message) /\ ToSet(Kinds(message)) \cap {"space"} = {} =>
        /\ ProvenanceMessage(message, key, value) # {}
        /\ \A written \in ProvenanceMessage(message, key, value) :
            TrailerValue(written, key) = <<value>>
=============================================================================
