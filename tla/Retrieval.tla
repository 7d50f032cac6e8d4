----------------------------- MODULE Retrieval -----------------------------
(***************************************************************************)
(* RetrievalService.retrieve on the entries of an index.  What the vectors *)
(* say of a query and a chunk is a score in hundredths, and what the       *)
(* patterns of the blocklist say of the text of a chunk is a Boolean.      *)
(***************************************************************************)
EXTENDS Integers, FiniteSets, Rows

CONSTANTS Similarity(_, _),  \* the cosine similarity of a query and a chunk
          Blocklisted(_)     \* a pattern of the blocklist is in the text of the chunk

ConfidenceThreshold == 30
MediumThreshold     == 50

ClassifyConfidence(score) ==
  IF score >= MediumThreshold THEN "high"
  ELSE IF score >= ConfidenceThreshold THEN "medium" ELSE "low"

Matches(c, asset_class) == asset_class \in {None, c.asset_class}

TopK(q, rows, k) ==
  Limit(Descending(rows, LAMBDA c : Similarity(q, c)), IF k > 0 THEN k ELSE 0)

Raised(error) == [kind |-> "raised", error |-> error]

Result(citations, confidence, dropped) ==
  [kind |-> "result", citations |-> citations, confidence |-> confidence,
   dropped |-> dropped]

(* Mutant: the best k are taken first and checked then.                    *)
RetrieveThenCheck(entries, r) ==
  LET best == TopK(r.query, Kept(entries, LAMBDA c : Matches(c, r.asset_class)), r.k)
      survivors == Kept(best, LAMBDA c : ~Blocklisted(c))
  IN  IF r.blank THEN Raised("ValueError")
      ELSE IF survivors = << >> THEN Result(<< >>, "none", Len(best))
      ELSE Result(survivors, ClassifyConfidence(Similarity(r.query, survivors[1])),
                  Len(best) - Len(survivors))

(* A blank query is refused, k = 0 takes the first of no citations.        *)
Retrieve(entries, r) ==
  LET candidates == Kept(entries, LAMBDA c : Matches(c, r.asset_class))
      survivors  == Kept(candidates, LAMBDA c : ~Blocklisted(c))
      citations  == TopK(r.query, survivors, r.k)
      dropped    == Len(candidates) - Len(survivors)
  IN  IF r.blank THEN Raised("ValueError")
      ELSE IF survivors = << >> THEN Result(<< >>, "none", dropped)
      ELSE IF citations = << >> THEN Raised("IndexError")
      ELSE Result(citations, ClassifyConfidence(Similarity(r.query, citations[1])), dropped)

-----------------------------------------------------------------------------
(* What a result owes to the index it was made from: the citations are k   *)
(* of the chunks the filter and the blocklist leave, or all of them, best  *)
(* first, and none that was left out is better; the number of dropped      *)
(* chunks is that of the blocklisted ones the filter admits; the band is   *)
(* "none" without citations, else the highest whose threshold any chunk    *)
(* that was left reaches.                                                  *)
SoundResult(entries, r, result) ==
  LET admitted == {i \in DOMAIN entries : Matches(entries[i], r.asset_class)}
      fit      == {i \in admitted : ~Blocklisted(entries[i])}
      cited    == result.citations
      score(i) == Similarity(r.query, entries[i])
      taken    == {i \in fit : \E j \in DOMAIN cited : cited[j] = entries[i]}
  IN  /\ Len(cited) = IF 0 < r.k /\ r.k < Cardinality(fit) THEN r.k ELSE Cardinality(fit)
      /\ Cardinality(taken) = Len(cited)
      /\ \A i \in taken, j \in fit \ taken : score(i) >= score(j)
      /\ \A i, j \in DOMAIN cited :
           i < j => Similarity(r.query, cited[i]) >= Similarity(r.query, cited[j])
      /\ result.dropped = Cardinality(admitted \ fit)
      /\ result.confidence \in {"none", "low", "medium", "high"}
      /\ result.confidence = "none" <=> cited = << >>
      /\ result.confidence = "high" <=> \E i \in fit : score(i) >= MediumThreshold
      /\ result.confidence \in {"medium", "high"} <=>
           \E i \in fit : score(i) >= ConfidenceThreshold
=============================================================================
