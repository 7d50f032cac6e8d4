----------------------------- MODULE RagService -----------------------------
(***************************************************************************)
(* The backend's side of RAG beside the pipeline: a process that loads the *)
(* index file when it is built, keeps what it loaded, and answers queries  *)
(* from it while the pipeline rewrites the file, dies, or does nothing.    *)
(***************************************************************************)
EXTENDS Ingestion, Retrieval

CONSTANTS Queries,     \* the retrievals: query, blank, k, asset_class
          MaxStarts    \* bound: how often the backend is started

(* The chunks the chunker makes of the documents.                          *)
Span == [from : Nat, to : Nat]

Chunk ==
  [doc_id : Int, chunk_index : Nat, spans : Seq(Span), section : Int,
   asset_class : {d.asset_class : d \in Documents}, marks : {d.marks : d \in Documents}]

ASSUME ServiceAssumption ==
  /\ MaxStarts \in Nat
  /\ \A r \in Queries : r.blank \in BOOLEAN /\ r.k \in Int
  /\ None \notin Queries

VARIABLES
  service,   \* what the RetrievalService of the running backend holds
  starts,    \* how often the backend was started
  request,   \* the latest retrieval
  result     \* its result

backend == <<service, starts, request, result>>
vars    == <<ingestion, backend>>

(* find_injections: the text of a chunk holds a pattern that lies within   *)
(* one of its spans.                                                       *)
HoldsMark(c) ==
  \E m \in c.marks : \E k \in DOMAIN c.spans :
    c.spans[k].from <= m.from /\ m.to <= c.spans[k].to

Init ==
  /\ IngestionInit
  /\ service = None
  /\ starts = 0
  /\ request = None
  /\ result = None

(* Mutant: the loader takes what it can read of the file.                  *)
LoadableInPart(f) == f.exists

(* InMemoryVectorIndex.load: bytes that end early are no pickle.           *)
Loadable(f) == f.exists /\ f.whole

(* _build_rag: no index, or one that does not load, and there is no        *)
(* backend.                                                                *)
BackendFails ==
  /\ service = None
  /\ starts < MaxStarts
  /\ ~Loadable(file)
  /\ starts' = starts + 1
  /\ UNCHANGED <<ingestion, service, request, result>>

BackendStarts ==
  /\ service = None
  /\ starts < MaxStarts
  /\ Loadable(file)
  /\ starts' = starts + 1
  /\ service' = [docs |-> file.docs, entries |-> file.entries]
  /\ UNCHANGED <<ingestion, request, result>>

BackendStops ==
  /\ service # None
  /\ service' = None
  /\ request' = None
  /\ result' = None
  /\ UNCHANGED <<ingestion, starts>>

Ask(r) ==
  /\ service # None
  /\ request' = r
  /\ result' = Retrieve(service.entries, r)
  /\ UNCHANGED <<ingestion, service, starts>>

Next ==
  \/ IngestionNext /\ UNCHANGED backend
  \/ BackendFails
  \/ BackendStarts
  \/ BackendStops
  \/ \E r \in Queries : Ask(r)

(* The pipeline is one process that nothing holds up.                      *)
Spec == Init /\ [][Next]_vars /\ WF_vars(Work /\ UNCHANGED backend)

-----------------------------------------------------------------------------
(* Properties.                                                             *)

IsSpan(s, body) == s.from \in Nat /\ s.to \in Nat /\ s.from < s.to /\ s.to <= Len(body)

IsChunkOf(c, d) ==
  /\ c.doc_id = d.id
  /\ c.spans # << >>
  /\ \A k \in DOMAIN c.spans : IsSpan(c.spans[k], d.body)
  /\ c.section \in d.headers \cup {-1}

(* Every variable has its type; the chunks in the works are numbered as    *)
(* they stand and lie within their document.                               *)
TypeOK ==
  /\ stage \in {"idle", "chunking", "writing"}
  /\ ingests \in 0..MaxIngests
  /\ starts \in 0..MaxStarts
  /\ docs \in Seq(Documents) /\ mine \in Seq(Chunk) /\ chunks \in Seq(Chunk)
  /\ at \in 1..Len(docs) + 1
  /\ stage = "writing" => at = Len(docs) + 1
  /\ at <= Len(docs) => pos \in Offsets(Doc.body) \cup {0}
  /\ at > Len(docs) => mine = << >>
  /\ \A k \in DOMAIN mine : IsChunkOf(mine[k], Doc) /\ mine[k].chunk_index = k - 1
  /\ \A k \in DOMAIN chunks : \E i \in 1..at - 1 : IsChunkOf(chunks[k], docs[i])
  /\ file \in [whole : BOOLEAN, exists : BOOLEAN, docs : Seq(Documents), entries : Seq(Chunk)]
  /\ service # None => service \in [docs : Seq(Documents), entries : Seq(Chunk)]
  /\ service = None => request = None
  /\ request \in Queries \cup {None}
  /\ request = None => result = None

(* Whenever the pipeline dies and whenever the backend is started: what    *)
(* the backend answers from is a whole index, with every letter of every   *)
(* document of the run that wrote it, each chunk of one of them, under a   *)
(* chunk_id of its own.                                                    *)
ServesAWholeIndex ==
  service # None =>
    LET es == service.entries
    IN  /\ \A k \in DOMAIN service.docs : Holds(es, service.docs[k])
        /\ \A i, j \in DOMAIN es :
             es[i].doc_id = es[j].doc_id /\ es[i].chunk_index = es[j].chunk_index => i = j

(* A retrieval raises for a blank query, or for a k that asks for nothing  *)
(* when there is something; every other one is sound, its band included.   *)
(* service.py:200-203 promises of every retrieval that it "always carries  *)
(* a confidence band ... rather than raising": for a k of zero or less the *)
(* IndexError of service.py:255 breaks that.                               *)
RetrievalIsSound ==
  result # None =>
    IF result.kind = "result"
      THEN ~request.blank /\ SoundResult(service.entries, request, result)
      ELSE request.blank \/ request.k <= 0
=============================================================================
