---------------------------- MODULE MCRagService ----------------------------
(* Every way the second half of six characters can be letters and newlines, *)
(* bodies that begin or consist of blanks, corpora of two documents, and    *)
(* one that does not load, over two runs of the pipeline.                   *)
EXTENDS RagService

ADoc(id, body, headers, asset_class, marks) ==
  [id |-> id, body |-> body, headers |-> headers, asset_class |-> asset_class, marks |-> marks]

AFile(doc) == [ok |-> TRUE, doc |-> doc]

Bodies ==
  {b \in [1..6 -> {Newline, Letter}] : b[1] = 1 /\ b[2] = 1 /\ b[3] = 1}
  \cup {<<0, 0, 0, 0, 0, 0, 1>>, <<1, 0, 0, 0, 0, 0, 1, 1>>, <<0, 0, 0, 0, 0, 0>>}

Sop     == ADoc(1, <<1, 1, 1, 0, 1, 1, 1, 1>>, {0, 4}, "boiler", {[from |-> 5, to |-> 7]})
Kb      == ADoc(2, <<1, 0, 1>>, {}, None, {})
Article == ADoc(2, <<1, 1, 1, 1, 1, 1, 0>>, {2}, "boiler", {})

MCCorpora ==
  {<<AFile(ADoc(1, b, {0, 4}, None, {}))>> : b \in Bodies}
  \cup {<<AFile(Kb), AFile(Sop)>>, <<AFile(Article)>>, <<AFile(Sop), AFile(Article)>>,
        <<AFile(Kb), AFile(Article)>>, <<[ok |-> FALSE, doc |-> Kb]>>}

MCDocuments == UNION {{corpus[i].doc : i \in DOMAIN corpus} : corpus \in MCCorpora}

MCSimilarity(q, c) == (37 * c.doc_id + 23 * c.chunk_index + 11 * q) % 80

MCQueries ==
  [query : {1}, blank : {FALSE}, k : {-1, 0, 2}, asset_class : {None, "boiler"}]
  \cup [query : {1}, blank : {TRUE}, k : {5}, asset_class : {None}]
=============================================================================
