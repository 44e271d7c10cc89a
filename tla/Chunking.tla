------------------------------- MODULE Chunking -------------------------------
(***************************************************************************)
(* What becomes of the text of an upload: DocumentParser._normalize_text   *)
(* and TextChunker.chunk, one action per turn of its loop.                 *)
(*                                                                         *)
(* A text is a sequence over letters, full stops, blanks, newlines and     *)
(* tabs, which stand for the white space that only strip() knows;          *)
(* positions count from 0, as in the code, so that a window [start:end] is *)
(* start .. end - 1.  A chunk is the set of the positions of its content;  *)
(* its hash and its length follow from them.  The constructor asks for a   *)
(* chunk_size of at least 200, which no run can reach: MinChunkSize stands *)
(* for that number.                                                        *)
(***************************************************************************)
EXTENDS Integers, Sequences

CONSTANTS
  ChunkSize,      \* chunk_size
  MinChunkSize,   \* the least chunk_size the constructor accepts
  Overlaps,       \* the values of chunk_overlap that are tried
  MaxLength       \* bound: characters of a text

ASSUME SizeAssumption == MinChunkSize \in Nat \ {0} /\ ChunkSize \in Nat /\ ChunkSize >= MinChunkSize
ASSUME OverlapsAssumption == Overlaps \subseteq Int
ASSUME MaxLengthAssumption == MaxLength \in Nat

VARIABLES
  pc,             \* where the upload is
  chunk_overlap,  \* the setting
  text,           \* the normalized text
  start,          \* start of the window of the next chunk
  end,            \* end of the window of the last one
  chunks          \* the chunks so far

chunkingVars == <<pc, chunk_overlap, text, start, end, chunks>>

Chars == {"letter", "stop", "blank", "tab", "newline"}
Blanks == {"blank", "tab", "newline"}

Texts == UNION {[1 .. n -> Chars] : n \in 0 .. MaxLength}

ChunkingTypeOK ==
  /\ pc \in {"settings", "parse", "chunk", "done", "refused"}
  /\ chunk_overlap \in Int
  /\ pc \in {"parse", "chunk", "done"} => chunk_overlap \in 0 .. ChunkSize - 1
  /\ text \in Seq(Chars)
  /\ start \in 0 .. Len(text)
  /\ end \in 0 .. Len(text)
  /\ chunks \in Seq((SUBSET (0 .. Len(text) - 1)) \ {{}})

-----------------------------------------------------------------------------
(* Strings. *)

Inked(t, i) == t[i + 1] \notin Blanks

\* The positions s[a:b].strip() keeps.
Stripped(t, a, b) ==
  {i \in a .. b - 1 : (\E j \in a .. i : Inked(t, j)) /\ (\E j \in i .. b - 1 : Inked(t, j))}

\* What _normalize_text returns: no line ends in blanks or tabs, and the text
\* neither begins nor ends with any, or with newlines.
NormalizedTexts ==
  {t \in Texts :
     /\ t # <<>> /\ Inked(t, 0) /\ Inked(t, Len(t) - 1)
     /\ \A i \in 1 .. Len(t) - 1 : t[i] \in {"blank", "tab"} => t[i + 1] # "newline"}

\* The separators of _find_natural_break, the best one first.
Separators == <<<<"newline", "newline">>, <<"newline">>, <<"stop", "blank">>, <<"blank">>>>

\* int(self.chunk_size * 0.55)
MinimumBreak == (55 * ChunkSize) \div 100

\* The places of separator k within [a:b].
Found(k, a, b) ==
  {i \in a .. b - Len(Separators[k]) :
     \A j \in DOMAIN Separators[k] : text[i + j] = Separators[k][j]}

\* Separator k has its last place, i, far enough into the window [a:b].
LateAt(k, i, a, b) ==
  /\ i \in Found(k, a, b)
  /\ i - a >= MinimumBreak
  /\ \A j \in Found(k, a, b) : j <= i

Late(k, a, b) == \E i \in Found(k, a, b) : LateAt(k, i, a, b)

\* The end of the window that starts at a (_find_natural_break), as a set.
NaturalBreaks(a, b) ==
  IF b >= Len(text) \/ \A k \in DOMAIN Separators : ~ Late(k, a, b)
    THEN {b}
    ELSE {x[2] + Len(Separators[x[1]]) : x \in
            {y \in (DOMAIN Separators) \X (a .. b) :
               LateAt(y[1], y[2], a, b) /\ \A better \in 1 .. y[1] - 1 : ~ Late(better, a, b)}}

HardEnd(a) == IF a + ChunkSize <= Len(text) THEN a + ChunkSize ELSE Len(text)

-----------------------------------------------------------------------------

ChunkingInit ==
  /\ pc = "settings"
  /\ chunk_overlap \in Overlaps
  /\ text = <<>>
  /\ start = 0
  /\ end = 0
  /\ chunks = <<>>

\* Mutant: an overlap of a whole chunk is accepted.
ConfigureLoosely ==
  /\ pc = "settings"
  /\ chunk_overlap >= 0
  /\ chunk_overlap <= ChunkSize
  /\ pc' = "parse"
  /\ UNCHANGED <<chunk_overlap, text, start, end, chunks>>

\* TextChunker.__init__ accepts the settings.
Configure ==
  /\ pc = "settings"
  /\ chunk_overlap >= 0
  /\ chunk_overlap < ChunkSize
  /\ pc' = "parse"
  /\ UNCHANGED <<chunk_overlap, text, start, end, chunks>>

\* ChunkingError.
RefuseSettings ==
  /\ pc = "settings"
  /\ chunk_overlap < 0 \/ chunk_overlap >= ChunkSize
  /\ pc' = "refused"
  /\ UNCHANGED <<chunk_overlap, text, start, end, chunks>>

\* The parser has decoded and normalized the upload.
Parse ==
  /\ pc = "parse"
  /\ text' \in NormalizedTexts
  /\ pc' = "chunk"
  /\ UNCHANGED <<chunk_overlap, start, end, chunks>>

\* DocumentParsingError: there is nothing in it but blanks.
RefuseText ==
  /\ pc = "parse"
  /\ pc' = "refused"
  /\ UNCHANGED <<chunk_overlap, text, start, end, chunks>>

\* Mutant: the next window always starts an overlap before the end.
NextStartUnbounded(a, b) == b - chunk_overlap

\* Mutant: the overlap is counted one too short.
NextStartBeyond(a, b) == IF b - chunk_overlap > a + 1 THEN b - chunk_overlap + 1 ELSE a + 1

\* max(end - self.chunk_overlap, start + 1)
NextStart(a, b) == IF b - chunk_overlap > a + 1 THEN b - chunk_overlap ELSE a + 1

\* One turn of the loop: the window's content, if any, is a chunk, and the next
\* window starts an overlap before its end.
Chunk ==
  /\ pc = "chunk"
  /\ \E b \in NaturalBreaks(start, HardEnd(start)) :
       /\ end' = b
       /\ chunks' = IF Stripped(text, start, b) = {}
                      THEN chunks ELSE Append(chunks, Stripped(text, start, b))
       /\ IF b >= Len(text)
            THEN pc' = "done" /\ UNCHANGED start
            ELSE start' = NextStart(start, b) /\ UNCHANGED pc
  /\ UNCHANGED <<chunk_overlap, text>>

ChunkingNext ==
  \/ Configure
  \/ RefuseSettings
  \/ Parse
  \/ RefuseText
  \/ Chunk

ChunkingSpec == ChunkingInit /\ [][ChunkingNext]_chunkingVars

-----------------------------------------------------------------------------

\* Whatever the breaks and the overlap, nothing of the text is lost: every
\* character that is not blank is in a chunk once its window is past, and the
\* next window leaves no gap.
NothingIsSkipped ==
  /\ pc = "chunk" => start <= end
  /\ \A i \in 0 .. end - 1 : Inked(text, i) => \E k \in DOMAIN chunks : i \in chunks[k]

\* The loop ends, for every next window starts further on, although a break may
\* lie so early that an overlap before it is where this window began.  Every
\* window also ends further on, so that no chunk only repeats a part of its
\* predecessor, as long as the overlap is no longer than the least distance of
\* a break; with a longer one two windows may end together, never the later
\* one before the earlier.
WindowsAdvance ==
  [][ pc = "chunk" =>
        /\ pc' = "done" \/ start' > start
        /\ end' >= end
        /\ chunk_overlap <= MinimumBreak => end' > end ]_chunkingVars
=============================================================================
