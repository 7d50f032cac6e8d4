------------------------------ MODULE Chunker ------------------------------
(***************************************************************************)
(* The sliding-window chunker of the RAG corpus: what one turn of the loop *)
(* of chunk_document does with a document at an offset.                    *)
(*                                                                         *)
(* A body is a sequence of characters of two kinds, Newline and Letter;    *)
(* offsets start at 0, as in Python.  Every blank is a newline: a space,   *)
(* which strip() drops and a cut passes over, has no counterpart.  The     *)
(* text of a chunk is the list of the spans of the body it was made of.    *)
(***************************************************************************)
EXTENDS Integers, Sequences, FiniteSets

CONSTANTS ChunkSize,   \* chunk_size
          Overlap,     \* overlap
          MinChunk     \* _MIN_CHUNK_CHARS

ASSUME ChunkerAssumption ==
  /\ ChunkSize \in Nat \ {0}
  /\ Overlap \in 0..ChunkSize - 1
  /\ MinChunk \in Nat

Newline == 0
Letter  == 1

Offsets(body)  == 0..Len(body) - 1
Char(body, i)  == body[i + 1]
Inked(body)    == {i \in Offsets(body) : Char(body, i) = Letter}
IsBlank(body)  == Inked(body) = {}

Least(S) == CHOOSE x \in S : \A y \in S : x <= y
Most(S)  == CHOOSE x \in S : \A y \in S : x >= y

-----------------------------------------------------------------------------
(* body[pos:cut]: chunk_size characters, or up to and including the last   *)
(* newline among them after the first.                                     *)
WindowEnd(body, pos) ==
  IF pos + ChunkSize < Len(body) THEN pos + ChunkSize ELSE Len(body)

Cut(body, pos) ==
  LET newlines == {i \in pos + 1..WindowEnd(body, pos) - 1 : Char(body, i) = Newline}
  IN  IF newlines = {} THEN WindowEnd(body, pos) ELSE Most(newlines) + 1

InkedIn(body, from, to) == {i \in Inked(body) : from <= i /\ i < to}

(* str.strip() of body[from:to], which holds a letter.                     *)
Stripped(body, from, to) ==
  [from |-> Least(InkedIn(body, from, to)), to |-> Most(InkedIn(body, from, to)) + 1]

SpanLength(s) == s.to - s.from

(* Mutant: at the blank end of a body there is nothing to move on to.      *)
NextInkedOrStay(body, pos) ==
  LET ahead == InkedIn(body, pos + 1, Len(body))
  IN  IF ahead = {} THEN pos ELSE Least(ahead)

(* A whitespace-only window: on to the next character that is none.        *)
NextInked(body, pos) ==
  LET ahead == InkedIn(body, pos + 1, Len(body))
  IN  IF ahead = {} THEN Len(body) ELSE Least(ahead)

(* Where the window after a chunk starts: the overlap before the cut, or   *)
(* one character on if that is no progress.                                *)
Advance(body, pos) ==
  IF Cut(body, pos) - Overlap > pos THEN Cut(body, pos) - Overlap ELSE pos + 1

-----------------------------------------------------------------------------
(* The nearest header at or before an offset; -1 stands for no section.    *)
ActiveSection(headers, pos) ==
  LET before == {h \in headers : h <= pos}
  IN  IF before = {} THEN -1 ELSE Most(before)

(* Mutant: chunks are numbered from one.                                   *)
MakeChunkFromOne(doc, index, span, pos) ==
  [doc_id |-> doc.id, chunk_index |-> index + 1, spans |-> <<span>>,
   section |-> ActiveSection(doc.headers, pos), asset_class |-> doc.asset_class,
   marks |-> doc.marks]

MakeChunk(doc, index, span, pos) ==
  [doc_id |-> doc.id, chunk_index |-> index, spans |-> <<span>>,
   section |-> ActiveSection(doc.headers, pos), asset_class |-> doc.asset_class,
   marks |-> doc.marks]

(* Mutant: the fragment takes the place of the chunk before it.            *)
ReplaceText(chunks, span) ==
  [chunks EXCEPT ![Len(chunks)].spans = <<span>>]

(* A fragment goes to the end of the chunk before it.                      *)
MergeText(chunks, span) ==
  [chunks EXCEPT ![Len(chunks)].spans = Append(@, span)]

(* What a window that is not blank adds to the chunks of its document.     *)
Windowed(doc, chunks, pos) ==
  LET span == Stripped(doc.body, pos, Cut(doc.body, pos))
  IN  IF SpanLength(span) < MinChunk /\ chunks # << >>
        THEN MergeText(chunks, span)
        ELSE Append(chunks, MakeChunk(doc, Len(chunks), span, pos))

(* A body that fits in one window is one chunk, however short.             *)
Whole(doc) == MakeChunk(doc, 0, Stripped(doc.body, 0, Len(doc.body)), 0)

-----------------------------------------------------------------------------
(* The length of the text of a chunk: merged fragments are joined with a   *)
(* newline each.                                                           *)
TextLength(c) ==
  LET upTo[k \in 0..Len(c.spans)] ==
        IF k = 0 THEN 0
        ELSE upTo[k - 1] + SpanLength(c.spans[k]) + (IF k > 1 THEN 1 ELSE 0)
  IN  upTo[Len(c.spans)]

(* The offsets of its document a chunk holds.                              *)
Covered(c) == UNION {c.spans[k].from..c.spans[k].to - 1 : k \in DOMAIN c.spans}
=============================================================================
