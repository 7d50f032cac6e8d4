----------------------------- MODULE Ingestion -----------------------------
(***************************************************************************)
(* The ingestion pipeline, python -m rag.ingestion: load the corpus, chunk *)
(* it document by document, and write the index in place over the one of   *)
(* the run before.  The process may die at any step.                       *)
(*                                                                         *)
(* The vectors are left out: a vector belongs to its chunk and is compared *)
(* with a query by the operator Similarity of module Retrieval.            *)
(***************************************************************************)
EXTENDS Chunker, Rows

CONSTANTS Documents,   \* the documents: id, body, headers, asset_class, marks
          Corpora,     \* what the corpus directory may hold at a run: sequences of files
          MaxIngests   \* bound: how often the pipeline is started

ASSUME IngestionAssumption ==
  /\ MaxIngests \in Nat
  /\ Corpora \subseteq Seq([ok : BOOLEAN, doc : Documents])
  /\ \A d \in Documents :
       d.id \in Int /\ d.body \in Seq({Newline, Letter}) /\ d.headers \subseteq Offsets(d.body)

VARIABLES
  stage,     \* of the pipeline
  ingests,   \* how often it was started
  docs,      \* the loaded documents, by doc_id
  at,        \* the document chunk_document is called for
  pos,       \* the offset of its window
  mine,      \* the chunks of that document
  chunks,    \* the chunks of the documents before it
  file       \* the index file

pipeline == <<stage, ingests, docs, at, pos, mine, chunks>>
ingestion == <<pipeline, file>>

(* The file holds a pickle of the index.  Of one that is not whole, any    *)
(* number of entries may have reached the disk.                            *)
NoFile == [whole |-> FALSE, exists |-> FALSE, docs |-> << >>, entries |-> << >>]
Pickle(whole, ds, entries) ==
  [whole |-> whole, exists |-> TRUE, docs |-> ds, entries |-> entries]

-----------------------------------------------------------------------------
(* load_documents: a file that is malformed, or two of one doc_id, and the *)
(* run ends with an IngestionError; else the documents sorted by doc_id.   *)
LoadFails(corpus) ==
  \/ \E i \in DOMAIN corpus : ~corpus[i].ok
  \/ \E i, j \in DOMAIN corpus : i # j /\ corpus[i].doc.id = corpus[j].doc.id

Sorted(corpus) == Descending([i \in DOMAIN corpus |-> corpus[i].doc], LAMBDA d : 0 - d.id)

IngestionInit ==
  /\ stage = "idle"
  /\ ingests = 0
  /\ docs = << >>
  /\ at = 1
  /\ pos = 0
  /\ mine = << >>
  /\ chunks = << >>
  /\ file = NoFile

StartFails(corpus) ==
  /\ stage = "idle"
  /\ ingests < MaxIngests
  /\ LoadFails(corpus)
  /\ ingests' = ingests + 1
  /\ UNCHANGED <<stage, docs, at, pos, mine, chunks, file>>

Start(corpus) ==
  /\ stage = "idle"
  /\ ingests < MaxIngests
  /\ ~LoadFails(corpus)
  /\ stage' = "chunking"
  /\ ingests' = ingests + 1
  /\ docs' = Sorted(corpus)
  /\ at' = 1
  /\ pos' = 0
  /\ mine' = << >>
  /\ chunks' = << >>
  /\ UNCHANGED file

-----------------------------------------------------------------------------
Doc == docs[at]

Chunking == stage = "chunking" /\ at <= Len(docs)
Short    == IsBlank(Doc.body) \/ Len(Doc.body) <= ChunkSize

(* chunk_document returns and its chunks are added to those of the others. *)
EndDocument(own) ==
  /\ chunks' = chunks \o own
  /\ mine' = << >>
  /\ at' = at + 1
  /\ pos' = 0
  /\ UNCHANGED <<stage, ingests, docs, file>>

ChunkShort ==
  /\ Chunking
  /\ Short
  /\ EndDocument(IF IsBlank(Doc.body) THEN << >> ELSE <<Whole(Doc)>>)

WindowBlank == InkedIn(Doc.body, pos, Cut(Doc.body, pos)) = {}

(* On to the next window, or out of the loop with the end of the body.     *)
MoveTo(next, own) ==
  IF next >= Len(Doc.body)
    THEN EndDocument(own)
    ELSE /\ pos' = next
         /\ mine' = own
         /\ UNCHANGED <<stage, ingests, docs, at, chunks, file>>

SkipBlank ==
  /\ Chunking
  /\ ~Short
  /\ WindowBlank
  /\ MoveTo(NextInked(Doc.body, pos), mine)

ChunkWindow ==
  /\ Chunking
  /\ ~Short
  /\ ~WindowBlank
  /\ MoveTo(Advance(Doc.body, pos), Windowed(Doc, mine, pos))

-----------------------------------------------------------------------------
(* save: open() truncates the file, the bytes follow, the run ends.        *)
OpenIndex ==
  /\ stage = "chunking"
  /\ at > Len(docs)
  /\ stage' = "writing"
  /\ \E n \in 0..Len(chunks) : file' = Pickle(FALSE, docs, SubSeq(chunks, 1, n))
  /\ UNCHANGED <<ingests, docs, at, pos, mine, chunks>>

CloseIndex ==
  /\ stage = "writing"
  /\ stage' = "idle"
  /\ file' = Pickle(TRUE, docs, chunks)
  /\ UNCHANGED <<ingests, docs, at, pos, mine, chunks>>

(* The process dies; what is on the disk stays.                            *)
Crash ==
  /\ stage # "idle"
  /\ stage' = "idle"
  /\ UNCHANGED <<ingests, docs, at, pos, mine, chunks, file>>

Work == ChunkShort \/ SkipBlank \/ ChunkWindow \/ OpenIndex \/ CloseIndex

IngestionNext ==
  \/ \E corpus \in Corpora : StartFails(corpus) \/ Start(corpus)
  \/ Work
  \/ Crash

-----------------------------------------------------------------------------
(* Properties.                                                             *)

ChunksOf(cs, d) == {k \in DOMAIN cs : cs[k].doc_id = d.id}

Holds(cs, d) ==
  \A i \in Inked(d.body) : \E k \in ChunksOf(cs, d) : i \in Covered(cs[k])

(* Whatever the windows, the cuts and the merges do at the boundaries: of  *)
(* a document that was chunked every letter is in one of its chunks, and   *)
(* of the one in the works every letter before the window.                 *)
NothingLost ==
  stage # "idle" =>
    /\ \A k \in 1..at - 1 : Holds(chunks, docs[k])
    /\ Chunking => \A i \in Inked(Doc.body) :
                     i < pos => \E k \in DOMAIN mine : i \in Covered(mine[k])

(* chunker.py:3 promises "overlapping chunks of near-fixed character       *)
(* length": none is longer than a window and a fragment merged into it.    *)
NearFixedLength ==
  \A cs \in {mine, chunks} : \A k \in DOMAIN cs :
    TextLength(cs[k]) <= ChunkSize + 1 + MinChunk

(* A run that was started ends: the window always moves on.                *)
IngestionEnds == stage = "chunking" ~> stage = "idle"
=============================================================================
