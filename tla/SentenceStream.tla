---------------------------- MODULE SentenceStream ----------------------------
(***************************************************************************)
(* sentence_stream (text_source.py): the text of a language model arrives  *)
(* in chunks cut anywhere, and is passed on to the speech synthesis in     *)
(* pieces that end where a sentence ends.  A character is a letter, a      *)
(* "stop" (one of the full-width and ASCII marks that always end a         *)
(* sentence), a "line" end, a "dot", which ends a sentence together with   *)
(* the white space after it, or a "space".                                 *)
(***************************************************************************)
EXTENDS Integers, Sequences, FiniteSetsExt, Functions

CONSTANTS
    MinPiece,          \* min_piece_chars
    MaxText            \* bound: characters of an answer

ASSUME SentenceAssumption == MinPiece \in Nat /\ MaxText \in Nat

VARIABLES
    answer,            \* history: what the model has said
    buf,               \* what has not been passed on yet
    pieces,            \* history: the pieces passed on, as their first and last
                       \* positions in the answer
    over               \* the stream has ended

textVars == <<answer, buf, pieces, over>>

Chars == {"letter", "stop", "line", "dot", "space"}
Blank == {"space", "line"}

(* str.strip() leaves nothing.                                             *)
IsBlank(s) == \A i \in 1..Len(s) : s[i] \in Blank

(* The ends of the matches of _SENTENCE_END.                               *)
Ends(s) ==
    {i \in 1..Len(s) :
        \/ s[i] \in {"stop", "line"}
        \/ i > 1 /\ s[i] \in Blank /\ s[i - 1] = "dot"}

LastEnd(s) == Max(Ends(s) \union {0})

\* Mutant: a piece of just the minimal length is short.
TooShort_OrEqual(piece, rest) == Len(piece) <= MinPiece /\ rest = <<>>

(* The piece that is left for later, or so it is meant: buf has already    *)
(* been replaced by what follows the piece.                                *)
TooShort(piece, rest) == Len(piece) < MinPiece /\ rest = <<>>

(* What is passed on follows what has left the buffer before.              *)
PassedOn(piece) ==
    LET before == Len(answer) - Len(buf)
    IN  Append(pieces, [from |-> before + 1, to |-> before + Len(piece)])

(* The loop ends with its second turn, as what follows the last sentence   *)
(* end holds none.                                                         *)
ChunkComes(chunk) ==
    LET text == buf \o chunk
        cut == LastEnd(text)
        piece == SubSeq(text, 1, cut)
        rest == SubSeq(text, cut + 1, Len(text))
    IN  /\ ~over
        /\ answer' = answer \o chunk
        /\ buf' = rest
        /\ pieces' = IF IsBlank(piece) \/ TooShort(piece, rest)
                     THEN pieces
                     ELSE PassedOn(piece)
        /\ UNCHANGED over

StreamEnds ==
    /\ ~over
    /\ pieces' = IF IsBlank(buf) THEN pieces ELSE PassedOn(buf)
    /\ over' = TRUE
    /\ UNCHANGED <<answer, buf>>

TextInit == answer = <<>> /\ buf = <<>> /\ pieces = <<>> /\ over = FALSE

TextNext ==
    \/ \E n \in 1..2 : \E chunk \in [1..n -> Chars] :
            Len(answer) + n <= MaxText /\ ChunkComes(chunk)
    \/ StreamEnds

TextSpec == TextInit /\ [][TextNext]_textVars

-----------------------------------------------------------------------------
(* Properties.                                                             *)

(* Every character that is not blank is in a piece, and the pieces follow  *)
(* one another.                                                            *)
AllSpoken ==
    /\ \A i \in 1..Len(answer) :
          answer[i] \notin Blank => \E p \in Range(pieces) : i \in p.from .. p.to
    /\ \A n \in 1..(Len(pieces) - 1) : pieces[n].to < pieces[n + 1].from

(* The length of the sentence that ends at position i of a text.           *)
SentenceLength(s, i) == i - Max({j \in Ends(s) : j < i} \union {0})

(* An answer is spoken in full, wherever the model's chunks are cut (in the*)
(* middle of a sentence, between a dot and its space, several sentences at *)
(* once), if every sentence that has an end has min_piece_chars characters *)
(* (text_source.py:66-88).                                                 *)
LongSentencesSpoken ==
    over /\ (\A i \in Ends(answer) : SentenceLength(answer, i) >= MinPiece)
        => AllSpoken
===============================================================================
