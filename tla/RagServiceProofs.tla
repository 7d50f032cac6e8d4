-------------------------- MODULE RagServiceProofs --------------------------
(***************************************************************************)
(* What the ingestion and the retrieval promise, for every corpus, every   *)
(* window, overlap and fragment size, and every number of runs.            *)
(***************************************************************************)
EXTENDS RagService, RowsProofs, NaturalsInduction, WellFoundedInduction

(* No two chunks of an index have one chunk_id.                            *)
Unique(cs) ==
  \A i, j \in DOMAIN cs :
    cs[i].doc_id = cs[j].doc_id /\ cs[i].chunk_index = cs[j].chunk_index => i = j

(* What was chunked is covered, and of the document in the works all of it *)
(* before the window - whether or not the pipeline is alive.               *)
CoverInv ==
  /\ \A k \in 1..at - 1 : Holds(chunks, docs[k])
  /\ at <= Len(docs) =>
       \A i \in Inked(Doc.body) : i < pos => \E k \in DOMAIN mine : i \in Covered(mine[k])

(* No two documents of a run have one doc_id, so the chunks of each can be *)
(* numbered on their own.                                                  *)
NumberInv ==
  /\ \A i, j \in DOMAIN docs : docs[i].id = docs[j].id => i = j
  /\ Unique(chunks)

(* An index with all of its documents in it.                               *)
Complete(ds, es) == (\A k \in DOMAIN ds : Holds(es, ds[k])) /\ Unique(es)

FileInv == file.whole => Complete(file.docs, file.entries)

ServiceInv == service # None => Complete(service.docs, service.entries)

(* The latest result is that of the latest request, of the index held now. *)
ResultInv == request # None => result = Retrieve(service.entries, request)

IInv == TypeOK /\ CoverInv /\ NumberInv /\ FileInv /\ ServiceInv /\ ResultInv

-----------------------------------------------------------------------------
(* The least and the greatest of some natural numbers.                     *)
LEMMA LeastExists ==
  ASSUME NEW S \in SUBSET Nat, S # {}
  PROVE  Least(S) \in S /\ \A y \in S : Least(S) <= y
<1> DEFINE R == {p \in Nat \X Nat : p[1] < p[2]}
<1>1. IsWellFoundedOn(R, Nat)
  BY NatLessThanWellFounded DEF OpToRel
<1>2. PICK x \in S : \A y \in S : ~(<<y, x>> \in R)
  <2> HIDE DEF R
  <2> QED
    BY <1>1, WFMin
<1>3. \A y \in S : x <= y
  <2> TAKE y \in S
  <2>1. x \in Nat /\ y \in Nat
    OBVIOUS
  <2>2. y < x => <<y, x>> \in R
    BY <2>1
  <2> HIDE DEF R
  <2> QED
    BY <1>2, <2>1, <2>2
<1> QED
  BY <1>3 DEF Least

LEMMA MostExists ==
  ASSUME NEW S \in SUBSET Nat, S # {}, NEW b \in Nat, \A x \in S : x <= b
  PROVE  Most(S) \in S /\ \A y \in S : y <= Most(S)
<1> DEFINE T == {b - x : x \in S}
<1>1. T \in SUBSET Nat /\ T # {}
  <2>1. \A x \in S : b - x \in Nat
    OBVIOUS
  <2> QED
    BY <2>1
<1>2. Least(T) \in T /\ \A y \in T : Least(T) <= y
  BY <1>1, LeastExists
<1>3. PICK x \in S : Least(T) = b - x
  BY <1>2
<1>4. \A y \in S : x >= y
  <2> TAKE y \in S
  <2>1. b - y \in T /\ x \in Nat /\ y \in Nat
    OBVIOUS
  <2>2. b - x <= b - y
    BY <1>2, <1>3, <2>1
  <2> QED
    BY <2>1, <2>2
<1> QED
  BY <1>4 DEF Most

-----------------------------------------------------------------------------
(* The windows of a body.                                                  *)
IsBody(body) == body \in Seq({Newline, Letter})

LEMMA OffsetsOf ==
  ASSUME NEW body, IsBody(body)
  PROVE  /\ Len(body) \in Nat
         /\ Offsets(body) \subseteq Nat
         /\ Inked(body) \subseteq Offsets(body)
         /\ \A i \in Offsets(body) : i < Len(body)
<1>1. Len(body) \in Nat
  BY LenProperties DEF IsBody
<1> QED
  BY <1>1 DEF Offsets, Inked

(* A window is not empty and ends within the body.                         *)
LEMMA CutBounds ==
  ASSUME NEW body, IsBody(body), NEW pos_ \in Offsets(body)
  PROVE  Cut(body, pos_) \in pos_ + 1..Len(body)
<1> DEFINE newlines == {i \in pos_ + 1..WindowEnd(body, pos_) - 1 : Char(body, i) = Newline}
<1>1. /\ pos_ \in Nat /\ Len(body) \in Nat /\ pos_ < Len(body)
      /\ ChunkSize \in Nat \ {0}
  BY OffsetsOf, ChunkerAssumption
<1>2. WindowEnd(body, pos_) \in pos_ + 1..Len(body)
  BY <1>1 DEF WindowEnd
<1>3. CASE newlines = {}
  BY <1>2, <1>3 DEF Cut
<1>4. CASE newlines # {}
  <2>1. newlines \in SUBSET Nat /\ \A x \in newlines : x <= Len(body)
    BY <1>1, <1>2
  <2>2. Most(newlines) \in newlines
    BY <1>1, <1>4, <2>1, MostExists
  <2>3. Cut(body, pos_) = Most(newlines) + 1
    BY <1>4 DEF Cut
  <2> QED
    BY <1>1, <1>2, <2>2, <2>3
<1> QED
  BY <1>3, <1>4

(* Stripping a window leaves a span of the body with every letter of it.   *)
LEMMA StrippedSpan ==
  ASSUME NEW body, IsBody(body), NEW from \in Nat, NEW to \in Nat,
         InkedIn(body, from, to) # {}
  PROVE  LET s == Stripped(body, from, to)
         IN  /\ s \in Span
             /\ IsSpan(s, body)
             /\ \A i \in InkedIn(body, from, to) : i \in s.from..s.to - 1
<1> DEFINE S == InkedIn(body, from, to)
<1>1. S \in SUBSET Nat /\ \A i \in S : i < Len(body) /\ Len(body) \in Nat
  BY OffsetsOf DEF InkedIn
<1>2. Least(S) \in S /\ \A y \in S : Least(S) <= y
  BY <1>1, LeastExists
<1>3. Most(S) \in S /\ \A y \in S : y <= Most(S)
  <2>1. Len(body) \in Nat /\ \A i \in S : i <= Len(body)
    BY <1>1, <1>2
  <2> QED
    BY <1>1, <2>1, MostExists
<1> DEFINE lo == Least(S)
           hi == Most(S)
<1>4. Stripped(body, from, to) = [from |-> lo, to |-> hi + 1]
  BY DEF Stripped
<1>5. lo \in Nat /\ hi \in Nat /\ lo <= hi /\ hi < Len(body) /\ Len(body) \in Nat
  BY <1>1, <1>2, <1>3
<1>6. \A i \in S : i \in lo..hi
  BY <1>1, <1>2, <1>3, <1>5
<1> HIDE DEF S, lo, hi
<1> QED
  BY <1>4, <1>5, <1>6 DEF IsSpan, Span, S

(* After a blank window: the window moves on, over no letter.              *)
LEMMA NextInkedSkips ==
  ASSUME NEW body, IsBody(body), NEW pos_ \in Offsets(body),
         InkedIn(body, pos_, Cut(body, pos_)) = {}
  PROVE  /\ NextInked(body, pos_) \in pos_ + 1..Len(body)
         /\ \A i \in Inked(body) : i < NextInked(body, pos_) => i < pos_
<1> DEFINE S == InkedIn(body, pos_ + 1, Len(body))
<1>1. /\ pos_ \in Nat /\ Len(body) \in Nat /\ pos_ < Len(body)
      /\ \A i \in Inked(body) : i \in Nat /\ i < Len(body)
  BY OffsetsOf
<1>2. pos_ \notin Inked(body)
  BY <1>1, CutBounds DEF InkedIn
<1>3. CASE S = {}
  <2>1. NextInked(body, pos_) = Len(body)
    BY <1>3 DEF NextInked
  <2>2. \A i \in Inked(body) : ~(pos_ + 1 <= i)
    BY <1>1, <1>3 DEF InkedIn
  <2>3. \A i \in Inked(body) : i < pos_
    BY <1>1, <1>2, <2>2
  <2> QED
    BY <1>1, <2>1, <2>3
<1>4. CASE S # {}
  <2>1. NextInked(body, pos_) = Least(S)
    BY <1>4 DEF NextInked
  <2>2. S \in SUBSET Nat
    BY <1>1 DEF InkedIn
  <2>3. Least(S) \in S /\ \A y \in S : Least(S) <= y
    BY <1>4, <2>2, LeastExists
  <2>4. Least(S) \in Inked(body) /\ pos_ + 1 <= Least(S)
    BY <2>3 DEF InkedIn
  <2>5. \A i \in Inked(body) : pos_ + 1 <= i => i \in S
    BY <1>1 DEF InkedIn
  <2> HIDE DEF S
  <2>6. \A i \in Inked(body) : i < Least(S) => i < pos_
    BY <1>1, <1>2, <2>3, <2>4, <2>5
  <2>7. Least(S) \in pos_ + 1..Len(body)
    BY <1>1, <2>4
  <2> QED
    BY <2>1, <2>6, <2>7
<1> QED
  BY <1>3, <1>4

(* After a window that is not blank: the next starts within it or right    *)
(* after it.                                                               *)
LEMMA AdvanceBounds ==
  ASSUME NEW body, IsBody(body), NEW pos_ \in Offsets(body)
  PROVE  Advance(body, pos_) \in pos_ + 1..Cut(body, pos_)
<1>1. pos_ \in Nat /\ Cut(body, pos_) \in pos_ + 1..Len(body) /\ Len(body) \in Nat
  BY OffsetsOf, CutBounds
<1> QED
  BY <1>1, ChunkerAssumption DEF Advance

LEMMA ActiveSectionOf ==
  ASSUME NEW headers \in SUBSET Nat, NEW pos_ \in Nat
  PROVE  ActiveSection(headers, pos_) \in headers \cup {-1}
<1> DEFINE before == {h \in headers : h <= pos_}
<1>1. CASE before = {}
  BY <1>1 DEF ActiveSection
<1>2. CASE before # {}
  <2>1. before \in SUBSET Nat /\ \A x \in before : x <= pos_
    OBVIOUS
  <2>2. Most(before) \in before
    BY <1>2, <2>1, MostExists
  <2> QED
    BY <1>2, <2>2 DEF ActiveSection
<1> QED
  BY <1>1, <1>2

-----------------------------------------------------------------------------
(* The chunks of one document.                                             *)
OwnChunks(cs, d) ==
  /\ cs \in Seq(Chunk)
  /\ \A k \in DOMAIN cs : IsChunkOf(cs[k], d) /\ cs[k].chunk_index = k - 1

SpanOf(s, d) == s \in Span /\ IsSpan(s, d.body)

LEMMA DocumentType ==
  ASSUME NEW d \in Documents
  PROVE  /\ IsBody(d.body) /\ d.id \in Int /\ d.headers \in SUBSET Nat
         /\ Len(d.body) \in Nat
<1>1. IsBody(d.body) /\ d.id \in Int /\ d.headers \subseteq Offsets(d.body)
  BY IngestionAssumption DEF IsBody
<1> QED
  BY <1>1, OffsetsOf

LEMMA MadeChunk ==
  ASSUME NEW d \in Documents, NEW n \in Nat, NEW s, SpanOf(s, d), NEW p \in Nat
  PROVE  LET c == MakeChunk(d, n, s, p)
         IN  /\ c \in Chunk /\ IsChunkOf(c, d) /\ c.chunk_index = n
             /\ s.from..s.to - 1 \subseteq Covered(c)
<1> DEFINE c == MakeChunk(d, n, s, p)
<1>1. ActiveSection(d.headers, p) \in d.headers \cup {-1} /\ d.headers \in SUBSET Nat /\ d.id \in Int
  BY DocumentType, ActiveSectionOf
<1>2. /\ <<s>> \in Seq(Span) /\ <<s>> # << >>
      /\ DOMAIN <<s>> = {1} /\ <<s>>[1] = s
  BY DEF SpanOf
<1>3. /\ c.doc_id = d.id /\ c.chunk_index = n /\ c.spans = <<s>>
      /\ c.section = ActiveSection(d.headers, p)
  BY DEF MakeChunk
<1>4. c \in Chunk
  BY <1>1, <1>2 DEF MakeChunk, Chunk
<1> HIDE DEF c
<1>5. IsChunkOf(c, d)
  BY <1>1, <1>2, <1>3 DEF IsChunkOf, SpanOf
<1>6. s.from..s.to - 1 \subseteq Covered(c)
  BY <1>2, <1>3 DEF Covered
<1> QED
  BY <1>3, <1>4, <1>5, <1>6 DEF c

(* A fragment changes nothing of the chunk before it but that it holds     *)
(* more.                                                                   *)
LEMMA MergedChunks ==
  ASSUME NEW d \in Documents, NEW cs, OwnChunks(cs, d), cs # << >>, NEW s, SpanOf(s, d)
  PROVE  LET new == MergeText(cs, s)
         IN  /\ OwnChunks(new, d) /\ DOMAIN new = DOMAIN cs
             /\ \A k \in DOMAIN cs : Covered(cs[k]) \subseteq Covered(new[k])
             /\ \E k \in DOMAIN new : s.from..s.to - 1 \subseteq Covered(new[k])
<1> DEFINE n == Len(cs)
           new == MergeText(cs, s)
           old == cs[n]
           longer == Append(old.spans, s)
<1>1. /\ cs \in Seq(Chunk) /\ n \in Nat /\ n >= 1 /\ DOMAIN cs = 1..n /\ n \in DOMAIN cs
      /\ \A k \in DOMAIN cs : cs[k] \in Chunk
  BY LenProperties, EmptySeq DEF OwnChunks
<1>2. old \in Chunk /\ old.spans \in Seq(Span)
  BY <1>1 DEF Chunk
<1>3. /\ longer \in Seq(Span) /\ longer # << >>
      /\ Len(longer) = Len(old.spans) + 1
      /\ \A i \in 1..Len(old.spans) : longer[i] = old.spans[i]
      /\ longer[Len(old.spans) + 1] = s
  BY <1>2, AppendProperties DEF SpanOf
<1>4. /\ DOMAIN old.spans = 1..Len(old.spans) /\ Len(old.spans) \in Nat
      /\ DOMAIN longer = 1..Len(old.spans) + 1
  BY <1>2, <1>3, LenProperties
<1> HIDE DEF n, longer, old
<1>5. new = [cs EXCEPT ![n] = [old EXCEPT !.spans = longer]]
  BY DEF MergeText, n, old, longer
<1>6. /\ DOMAIN new = DOMAIN cs
      /\ \A k \in DOMAIN cs : k # n => new[k] = cs[k]
      /\ new[n] = [old EXCEPT !.spans = longer]
  BY <1>1, <1>5
<1>7. /\ new[n] \in Chunk /\ new[n].doc_id = old.doc_id
      /\ new[n].chunk_index = old.chunk_index /\ new[n].section = old.section
      /\ new[n].spans = longer
  BY <1>2, <1>3, <1>6 DEF Chunk
<1>8. new \in Seq(Chunk)
  <2>1. new \in [1..n -> Chunk]
    BY <1>1, <1>5, <1>6, <1>7
  <2> QED
    BY <1>1, <2>1, SeqDef
<1> HIDE DEF new
<1>9. old = cs[n] /\ IsChunkOf(old, d) /\ old.chunk_index = n - 1
  BY <1>1 DEF OwnChunks, old
<1>10. IsChunkOf(new[n], d)
  <2>1. \A i \in DOMAIN longer : IsSpan(longer[i], d.body)
    <3> TAKE i \in DOMAIN longer
    <3>1. CASE i \in DOMAIN old.spans
      <4>1. longer[i] = old.spans[i] /\ IsSpan(old.spans[i], d.body)
        BY <1>3, <1>4, <1>9, <3>1 DEF IsChunkOf
      <4> QED
        BY <4>1
    <3>2. CASE i \notin DOMAIN old.spans
      <4>1. i = Len(old.spans) + 1
        BY <1>4, <3>2
      <4> QED
        BY <1>3, <4>1 DEF SpanOf
    <3> QED
      BY <3>1, <3>2
  <2> QED
    BY <1>3, <1>7, <1>9, <2>1 DEF IsChunkOf
<1>11. OwnChunks(new, d)
  BY <1>6, <1>7, <1>8, <1>9, <1>10 DEF OwnChunks
<1>12. Covered(old) \subseteq Covered(new[n]) /\ s.from..s.to - 1 \subseteq Covered(new[n])
  <2>1. \A i \in DOMAIN old.spans : i \in DOMAIN longer /\ longer[i] = old.spans[i]
    BY <1>3, <1>4
  <2>2. Len(old.spans) + 1 \in DOMAIN longer
    BY <1>4
  <2> QED
    BY <1>3, <1>7, <2>1, <2>2 DEF Covered
<1> QED
  BY <1>1, <1>6, <1>9, <1>11, <1>12 DEF new

(* A window that is not blank: no chunk loses a letter, and every letter   *)
(* of the window is in one.                                                *)
LEMMA WindowedAdds ==
  ASSUME NEW d \in Documents, NEW cs, OwnChunks(cs, d), NEW p \in Offsets(d.body),
         InkedIn(d.body, p, Cut(d.body, p)) # {}
  PROVE  LET new == Windowed(d, cs, p)
         IN  /\ OwnChunks(new, d)
             /\ \A k \in DOMAIN cs : k \in DOMAIN new /\ Covered(cs[k]) \subseteq Covered(new[k])
             /\ \A i \in InkedIn(d.body, p, Cut(d.body, p)) :
                  \E k \in DOMAIN new : i \in Covered(new[k])
<1> DEFINE s == Stripped(d.body, p, Cut(d.body, p))
           c == MakeChunk(d, Len(cs), s, p)
<1>1. p \in Nat /\ Cut(d.body, p) \in Nat /\ IsBody(d.body)
  BY DocumentType, OffsetsOf, CutBounds
<1>2. SpanOf(s, d) /\ \A i \in InkedIn(d.body, p, Cut(d.body, p)) : i \in s.from..s.to - 1
  BY <1>1, StrippedSpan DEF SpanOf
<1>3. /\ cs \in Seq(Chunk) /\ Len(cs) \in Nat /\ DOMAIN cs = 1..Len(cs)
  BY LenProperties DEF OwnChunks
<1> HIDE DEF s, c
<1>4. CASE SpanLength(s) < MinChunk /\ cs # << >>
  <2>1. Windowed(d, cs, p) = MergeText(cs, s)
    BY <1>4 DEF Windowed, s
  <2> QED
    BY <1>2, <1>4, <2>1, MergedChunks
<1>5. CASE ~(SpanLength(s) < MinChunk /\ cs # << >>)
  <2>1. Windowed(d, cs, p) = Append(cs, c)
    BY <1>5 DEF Windowed, s, c
  <2>2. /\ c \in Chunk /\ IsChunkOf(c, d) /\ c.chunk_index = Len(cs)
        /\ s.from..s.to - 1 \subseteq Covered(c)
    BY <1>1, <1>2, <1>3, MadeChunk DEF c
  <2>3. /\ Append(cs, c) \in Seq(Chunk) /\ Len(Append(cs, c)) = Len(cs) + 1
        /\ \A i \in 1..Len(cs) : Append(cs, c)[i] = cs[i]
        /\ Append(cs, c)[Len(cs) + 1] = c
    BY <1>3, <2>2, AppendProperties
  <2>4. DOMAIN Append(cs, c) = 1..Len(cs) + 1
    BY <2>3, LenProperties
  <2>5. OwnChunks(Append(cs, c), d)
    BY <1>3, <2>2, <2>3, <2>4 DEF OwnChunks
  <2>6. Len(cs) + 1 \in DOMAIN Append(cs, c)
    BY <1>3, <2>4
  <2> QED
    BY <1>2, <1>3, <2>1, <2>2, <2>3, <2>4, <2>5, <2>6
<1> QED
  BY <1>4, <1>5

(* The chunks of a document join those of the documents before it.         *)
LEMMA Joined ==
  ASSUME NEW d \in Documents, NEW es \in Seq(Chunk), NEW own, OwnChunks(own, d),
         Unique(es), \A k \in DOMAIN es : es[k].doc_id # d.id
  PROVE  /\ es \o own \in Seq(Chunk)
         /\ Unique(es \o own)
         /\ (\A i \in Inked(d.body) : \E k \in DOMAIN own : i \in Covered(own[k]))
              => Holds(es \o own, d)
         /\ \A e : Holds(es, e) => Holds(es \o own, e)
         /\ \A k \in DOMAIN (es \o own) :
              \/ k \in DOMAIN es /\ (es \o own)[k] = es[k]
              \/ IsChunkOf((es \o own)[k], d)
<1> DEFINE all == es \o own
           n == Len(es)
           m == Len(own)
<1>1. /\ own \in Seq(Chunk) /\ n \in Nat /\ m \in Nat
      /\ DOMAIN es = 1..n /\ DOMAIN own = 1..m
  BY LenProperties DEF OwnChunks
<1>2. /\ all \in Seq(Chunk) /\ Len(all) = n + m
      /\ \A i \in 1..n + m : all[i] = IF i <= n THEN es[i] ELSE own[i - n]
  BY <1>1, ConcatProperties
<1>3. DOMAIN all = 1..n + m
  BY <1>2, LenProperties
<1> HIDE DEF all, n, m
<1>4. \A k \in 1..n : k \in DOMAIN all /\ all[k] = es[k]
  BY <1>1, <1>2, <1>3
<1>5. \A k \in 1..m : k + n \in DOMAIN all /\ all[k + n] = own[k]
  BY <1>1, <1>2, <1>3
<1>6. \A k \in DOMAIN all : k \in 1..n \/ (k - n \in 1..m /\ all[k] = own[k - n])
  BY <1>1, <1>2, <1>3
<1>7. \A k \in 1..m : IsChunkOf(own[k], d) /\ own[k].doc_id = d.id /\ own[k].chunk_index = k - 1
  BY <1>1 DEF OwnChunks, IsChunkOf
<1>8. Unique(all)
  <2> SUFFICES ASSUME NEW i \in DOMAIN all, NEW j \in DOMAIN all,
                      all[i].doc_id = all[j].doc_id, all[i].chunk_index = all[j].chunk_index
               PROVE  i = j
    BY DEF Unique
  <2>1. CASE i \in 1..n /\ j \in 1..n
    BY <1>1, <1>4, <2>1 DEF Unique
  <2>2. CASE i \notin 1..n /\ j \notin 1..n
    <3>1. /\ i - n \in 1..m /\ all[i].chunk_index = (i - n) - 1
          /\ j - n \in 1..m /\ all[j].chunk_index = (j - n) - 1
      BY <1>6, <1>7, <2>2
    <3>2. i \in Int /\ j \in Int
      BY <1>1, <1>3
    <3>3. (i - n) - 1 = (j - n) - 1
      BY <3>1
    <3> QED
      BY <1>1, <3>2, <3>3
  <2>3. CASE i \in 1..n /\ j \notin 1..n
    BY <1>1, <1>4, <1>6, <1>7, <2>3
  <2>4. CASE i \notin 1..n /\ j \in 1..n
    BY <1>1, <1>4, <1>6, <1>7, <2>4
  <2> QED
    BY <2>1, <2>2, <2>3, <2>4
<1>9. ASSUME \A i \in Inked(d.body) : \E k \in DOMAIN own : i \in Covered(own[k])
      PROVE  Holds(all, d)
  <2> SUFFICES ASSUME NEW i \in Inked(d.body)
               PROVE  \E k \in ChunksOf(all, d) : i \in Covered(all[k])
    BY DEF Holds
  <2>1. PICK k \in 1..m : i \in Covered(own[k])
    BY <1>1, <1>9
  <2>2. k + n \in ChunksOf(all, d) /\ i \in Covered(all[k + n])
    BY <1>5, <1>7, <2>1 DEF ChunksOf
  <2> QED
    BY <2>2
<1>10. ASSUME NEW e, Holds(es, e) PROVE Holds(all, e)
  BY <1>1, <1>4, <1>10 DEF Holds, ChunksOf
<1> QED
  BY <1>1, <1>2, <1>4, <1>6, <1>7, <1>8, <1>9, <1>10 DEF all

-----------------------------------------------------------------------------
(* A corpus that loads is sorted, and no two documents have one doc_id.    *)
LEMMA SortedCorpus ==
  ASSUME NEW corpus \in Corpora, ~LoadFails(corpus)
  PROVE  /\ Sorted(corpus) \in Seq(Documents)
         /\ \A i, j \in DOMAIN Sorted(corpus) :
              Sorted(corpus)[i].id = Sorted(corpus)[j].id => i = j
<1> DEFINE n == Len(corpus)
           ds == [i \in DOMAIN corpus |-> corpus[i].doc]
           f == [i \in DOMAIN ds |-> 0 - ds[i].id]
           key == Once(f)
<1>1. /\ n \in Nat /\ DOMAIN corpus = 1..n
      /\ \A i \in 1..n : corpus[i].doc \in Documents
  <2>1. corpus \in Seq([ok : BOOLEAN, doc : Documents])
    BY IngestionAssumption
  <2>2. n \in Nat /\ DOMAIN corpus = 1..n
    BY <2>1, LenProperties
  <2>3. \A i \in 1..n : corpus[i] \in [ok : BOOLEAN, doc : Documents]
    BY <2>1, ElementOfSeq
  <2> HIDE DEF n
  <2> QED
    BY <2>2, <2>3
<1>2. /\ ds \in [1..n -> Documents] /\ ds \in Seq(Documents) /\ Len(ds) = n
      /\ DOMAIN ds = 1..n /\ \A i \in 1..n : ds[i] = corpus[i].doc
  <2>1. ds \in [1..n -> Documents]
    BY <1>1
  <2> QED
    BY <1>1, <2>1, SeqDef
<1> HIDE DEF ds
<1>3. f \in [1..n -> Int]
  BY <1>2, DocumentType
<1>4. \A i \in DOMAIN ds : key[i] \in Int
  <2> HIDE DEF f, n
  <2> QED
    BY <1>1, <1>2, <1>3, OnceIsNothing
<1>5. Sorted(corpus) = SortedBy(ds, key)
  BY DEF Sorted, Descending, ds
<1> HIDE DEF key, n
<1>6. PICK at_ :
        /\ Chooses(at_, Len(ds), DOMAIN ds)
        /\ SortedBy(ds, key) \in Seq(Documents)
        /\ Len(SortedBy(ds, key)) = Len(ds)
        /\ \A k \in 1..Len(ds) : SortedBy(ds, key)[k] = ds[at_[k]]
  <2>1. ds \in Seq(Documents) /\ \A i \in DOMAIN ds : key[i] \in Int
    BY <1>2, <1>4
  <2>2. \E a :
          /\ Chooses(a, Len(ds), DOMAIN ds)
          /\ BestFirst(a, Len(ds), key)
          /\ SortedBy(ds, key) \in Seq(Documents)
          /\ Len(SortedBy(ds, key)) = Len(ds)
          /\ \A k \in 1..Len(ds) : SortedBy(ds, key)[k] = ds[a[k]]
    BY <2>1, SortedPositions
  <2> QED
    BY <2>2
<1>7. /\ at_ \in [1..n -> 1..n]
      /\ \A k, l \in 1..n : at_[k] = at_[l] => k = l
      /\ DOMAIN Sorted(corpus) = 1..n
      /\ \A k \in 1..n : Sorted(corpus)[k] = corpus[at_[k]].doc
  <2>1. at_ \in [1..n -> 1..n] /\ \A k, l \in 1..n : at_[k] = at_[l] => k = l
    BY <1>2, <1>6 DEF Chooses
  <2>2. DOMAIN SortedBy(ds, key) = 1..n
    BY <1>2, <1>6, LenProperties
  <2>3. \A k \in 1..n : SortedBy(ds, key)[k] = corpus[at_[k]].doc
    <3>1. \A k \in 1..n : at_[k] \in 1..n /\ SortedBy(ds, key)[k] = ds[at_[k]]
      BY <1>2, <1>6, <2>1
    <3> QED
      BY <1>2, <3>1
  <2> QED
    BY <1>5, <2>1, <2>2, <2>3
<1>8. \A i, j \in 1..n : corpus[i].doc.id = corpus[j].doc.id => i = j
  BY <1>1 DEF LoadFails
<1> QED
  BY <1>5, <1>6, <1>7, <1>8

-----------------------------------------------------------------------------
LEMMA InitIInv == Init => IInv
<1> SUFFICES ASSUME Init PROVE IInv
  OBVIOUS
<1>1. /\ << >> \in Seq(Documents) /\ << >> \in Seq(Chunk)
      /\ Len(<< >>) = 0 /\ DOMAIN << >> = {}
  BY EmptySeq
<1>2. TypeOK
  BY <1>1, IngestionAssumption, ServiceAssumption DEF Init, IngestionInit, TypeOK, NoFile
<1>3. CoverInv /\ NumberInv
  BY <1>1 DEF Init, IngestionInit, CoverInv, NumberInv, Unique
<1>4. FileInv /\ ServiceInv /\ ResultInv
  BY DEF Init, IngestionInit, FileInv, ServiceInv, ResultInv, NoFile
<1> QED
  BY <1>2, <1>3, <1>4 DEF IInv

(* A run begins.                                                           *)
LEMMA StartStep ==
  ASSUME IInv, NEW corpus \in Corpora, Start(corpus), UNCHANGED backend
  PROVE  IInv'
<1>1. /\ stage' = "chunking" /\ ingests' = ingests + 1 /\ ingests < MaxIngests
      /\ docs' = Sorted(corpus) /\ at' = 1 /\ pos' = 0 /\ mine' = << >> /\ chunks' = << >>
      /\ UNCHANGED <<file, service, starts, request, result>>
  BY DEF Start, backend
<1>2. /\ docs' \in Seq(Documents) /\ Len(docs') \in Nat
      /\ \A i, j \in DOMAIN docs' : docs'[i].id = docs'[j].id => i = j
  <2>1. Sorted(corpus) \in Seq(Documents)
    BY SortedCorpus DEF Start
  <2>2. Len(Sorted(corpus)) \in Nat
    BY <2>1, LenProperties
  <2> QED
    BY <1>1, <2>1, <2>2, SortedCorpus DEF Start
<1>3. << >> \in Seq(Chunk) /\ DOMAIN << >> = {}
  BY EmptySeq
<1>4. TypeOK'
  BY <1>1, <1>2, <1>3, IngestionAssumption DEF IInv, TypeOK
<1>5. CoverInv'
  <2>1. (at <= Len(docs) =>
          \A i \in Inked(Doc.body) : i < pos => \E k \in DOMAIN mine : i \in Covered(mine[k]))'
    <3> SUFFICES ASSUME at' <= Len(docs')
                 PROVE  (\A i \in Inked(Doc.body) : ~(i < pos))'
      OBVIOUS
    <3>1. Doc' \in Documents
      BY <1>1, <1>2, ElementOfSeq DEF Doc
    <3>2. \A i \in Inked(Doc.body)' : i \in Nat
      BY <3>1, DocumentType, OffsetsOf
    <3> QED
      BY <1>1, <3>2
  <2> QED
    BY <1>1, <2>1 DEF CoverInv
<1>6. NumberInv'
  BY <1>1, <1>2, <1>3 DEF NumberInv, Unique
<1>7. FileInv' /\ ServiceInv' /\ ResultInv'
  BY <1>1 DEF IInv, FileInv, ServiceInv, ResultInv
<1> QED
  BY <1>4, <1>5, <1>6, <1>7 DEF IInv

(* chunk_document returned all there is of its document.                   *)
LEMMA EndStep ==
  ASSUME IInv, Chunking, NEW own, OwnChunks(own, Doc),
         \A i \in Inked(Doc.body) : \E k \in DOMAIN own : i \in Covered(own[k]),
         EndDocument(own), UNCHANGED backend
  PROVE  IInv'
<1>1. /\ chunks' = chunks \o own /\ mine' = << >> /\ at' = at + 1 /\ pos' = 0
      /\ UNCHANGED <<stage, ingests, docs, file, service, starts, request, result>>
  BY DEF EndDocument, backend
<1>2. TypeOK /\ CoverInv /\ NumberInv
  BY DEF IInv
<1>3. /\ docs \in Seq(Documents) /\ Len(docs) \in Nat /\ DOMAIN docs = 1..Len(docs)
      /\ at \in 1..Len(docs) /\ stage = "chunking" /\ Doc \in Documents
      /\ chunks \in Seq(Chunk)
  <2>1. /\ docs \in Seq(Documents) /\ Len(docs) \in Nat /\ DOMAIN docs = 1..Len(docs)
        /\ at \in 1..Len(docs)
    BY <1>2, LenProperties DEF TypeOK, Chunking
  <2> QED
    BY <1>2, <2>1, ElementOfSeq DEF TypeOK, Chunking, Doc
<1>4. \A k \in DOMAIN chunks : chunks[k].doc_id # Doc.id
  <2> TAKE k \in DOMAIN chunks
  <2>1. PICK i \in 1..at - 1 : IsChunkOf(chunks[k], docs[i])
    BY <1>2 DEF TypeOK
  <2>2. i \in DOMAIN docs /\ at \in DOMAIN docs /\ i # at
    BY <1>3
  <2> QED
    BY <1>2, <2>1, <2>2 DEF NumberInv, Doc, IsChunkOf
<1>5. /\ chunks' \in Seq(Chunk)
      /\ Unique(chunks')
      /\ Holds(chunks', Doc)
      /\ \A e : Holds(chunks, e) => Holds(chunks', e)
      /\ \A k \in DOMAIN chunks' :
           \/ k \in DOMAIN chunks /\ chunks'[k] = chunks[k]
           \/ IsChunkOf(chunks'[k], Doc)
  BY <1>1, <1>2, <1>3, <1>4, Joined DEF NumberInv
<1>6. CoverInv'
  <2>1. \A k \in 1..at : Holds(chunks', docs[k])
    BY <1>2, <1>3, <1>5 DEF CoverInv, Doc
  <2>2. ASSUME at + 1 <= Len(docs)
        PROVE  \A i \in Inked(docs[at + 1].body) : ~(i < 0)
    <3>1. docs[at + 1] \in Documents
      BY <1>3, <2>2, ElementOfSeq
    <3> QED
      BY <3>1, DocumentType, OffsetsOf
  <2>3. (at + 1) - 1 = at
    BY <1>3
  <2> QED
    BY <1>1, <2>1, <2>2, <2>3 DEF CoverInv, Doc
<1>7. NumberInv'
  BY <1>1, <1>2, <1>5 DEF NumberInv
<1>8. TypeOK'
  <2>1. (\A k \in DOMAIN chunks : \E i \in 1..at - 1 : IsChunkOf(chunks[k], docs[i]))'
    <3> SUFFICES ASSUME NEW k \in DOMAIN chunks'
                 PROVE  \E i \in 1..at : IsChunkOf(chunks'[k], docs[i])
      <4>1. docs' = docs /\ at' - 1 = at
        BY <1>1, <1>3
      <4> QED
        BY <4>1
    <3>1. CASE k \in DOMAIN chunks /\ chunks'[k] = chunks[k]
      <4>1. PICK i \in 1..at - 1 : IsChunkOf(chunks[k], docs[i])
        BY <1>2, <3>1 DEF TypeOK
      <4>2. i \in 1..at
        BY <1>3
      <4> QED
        BY <3>1, <4>1, <4>2
    <3>2. CASE IsChunkOf(chunks'[k], Doc)
      <4>1. at \in 1..at
        BY <1>3
      <4> QED
        BY <3>2, <4>1 DEF Doc
    <3> QED
      BY <1>5, <3>1, <3>2
  <2>2. << >> \in Seq(Chunk) /\ DOMAIN << >> = {}
    BY EmptySeq
  <2>3. at' \in 1..Len(docs') + 1
    BY <1>1, <1>3
  <2> QED
    BY <1>1, <1>2, <1>3, <1>5, <2>1, <2>2, <2>3 DEF TypeOK
<1>9. FileInv' /\ ServiceInv' /\ ResultInv'
  BY <1>1 DEF IInv, FileInv, ServiceInv, ResultInv
<1> QED
  BY <1>6, <1>7, <1>8, <1>9 DEF IInv

(* On to the next window.                                                  *)
LEMMA MoveStep ==
  ASSUME IInv, Chunking, NEW next \in Nat, NEW own, OwnChunks(own, Doc),
         \A i \in Inked(Doc.body) : i < next => \E k \in DOMAIN own : i \in Covered(own[k]),
         MoveTo(next, own), UNCHANGED backend
  PROVE  IInv'
<1>1. TypeOK /\ CoverInv /\ NumberInv
  BY DEF IInv
<1>2. Doc \in Documents /\ at <= Len(docs)
  BY <1>1, ElementOfSeq DEF TypeOK, Chunking, Doc
<1>3. Len(Doc.body) \in Nat /\ \A i \in Inked(Doc.body) : i \in Nat /\ i < Len(Doc.body)
  BY <1>2, DocumentType, OffsetsOf
<1>4. CASE next >= Len(Doc.body)
  <2>1. EndDocument(own)
    BY <1>4 DEF MoveTo
  <2>2. \A i \in Inked(Doc.body) : i < next
    BY <1>3, <1>4
  <2> QED
    BY <2>1, <2>2, EndStep
<1>5. CASE ~(next >= Len(Doc.body))
  <2>1. /\ pos' = next /\ mine' = own
        /\ UNCHANGED <<stage, ingests, docs, at, chunks, file, service, starts, request, result>>
    BY <1>5 DEF MoveTo, backend
  <2>2. Doc' = Doc
    BY <2>1 DEF Doc
  <2>3. pos' \in Offsets(Doc.body)
    BY <1>3, <1>5, <2>1 DEF Offsets
  <2>4. TypeOK'
    BY <1>1, <1>2, <2>1, <2>2, <2>3 DEF TypeOK, OwnChunks
  <2>5. CoverInv'
    BY <1>1, <2>1, <2>2 DEF CoverInv
  <2>6. NumberInv'
    BY <1>1, <2>1 DEF NumberInv
  <2>7. FileInv' /\ ServiceInv' /\ ResultInv'
    BY <2>1 DEF IInv, FileInv, ServiceInv, ResultInv
  <2> QED
    BY <2>4, <2>5, <2>6, <2>7 DEF IInv
<1> QED
  BY <1>4, <1>5

(* The three turns of the chunker.                                         *)
LEMMA ChunkStep ==
  ASSUME IInv, ChunkShort \/ SkipBlank \/ ChunkWindow, UNCHANGED backend
  PROVE  IInv'
<1>1. TypeOK /\ CoverInv /\ Chunking
  BY DEF IInv, ChunkShort, SkipBlank, ChunkWindow
<1>2. /\ Doc \in Documents /\ at <= Len(docs)
      /\ OwnChunks(mine, Doc)
      /\ \A i \in Inked(Doc.body) : i < pos => \E k \in DOMAIN mine : i \in Covered(mine[k])
  BY <1>1, ElementOfSeq DEF TypeOK, CoverInv, Chunking, Doc, OwnChunks
<1>3. /\ IsBody(Doc.body) /\ Len(Doc.body) \in Nat
      /\ \A i \in Inked(Doc.body) : i \in Nat /\ i < Len(Doc.body)
  BY <1>2, DocumentType, OffsetsOf
<1>4. CASE ChunkShort
  <2>1. CASE IsBlank(Doc.body)
    <3>1. EndDocument(<< >>)
      BY <1>4, <2>1 DEF ChunkShort
    <3>2. OwnChunks(<< >>, Doc)
      BY EmptySeq DEF OwnChunks
    <3>3. Inked(Doc.body) = {}
      BY <2>1 DEF IsBlank
    <3> QED
      BY <1>1, <3>1, <3>2, <3>3, EndStep
  <2>2. CASE ~IsBlank(Doc.body)
    <3> DEFINE s == Stripped(Doc.body, 0, Len(Doc.body))
               own == <<Whole(Doc)>>
    <3>1. EndDocument(own)
      BY <1>4, <2>2 DEF ChunkShort
    <3>2. InkedIn(Doc.body, 0, Len(Doc.body)) = Inked(Doc.body) /\ Inked(Doc.body) # {}
      BY <1>3, <2>2 DEF InkedIn, IsBlank
    <3>3. SpanOf(s, Doc) /\ \A i \in Inked(Doc.body) : i \in s.from..s.to - 1
      BY <1>3, <3>2, StrippedSpan DEF SpanOf
    <3>4. Whole(Doc) = MakeChunk(Doc, 0, s, 0)
      BY DEF Whole
    <3> HIDE DEF s
    <3>5. /\ Whole(Doc) \in Chunk /\ IsChunkOf(Whole(Doc), Doc) /\ Whole(Doc).chunk_index = 0
          /\ s.from..s.to - 1 \subseteq Covered(Whole(Doc))
      BY <1>2, <3>3, <3>4, MadeChunk
    <3>6. own \in Seq(Chunk) /\ DOMAIN own = {1} /\ own[1] = Whole(Doc)
      BY <3>5
    <3>7. OwnChunks(own, Doc)
      BY <3>5, <3>6 DEF OwnChunks
    <3>8. \A i \in Inked(Doc.body) : \E k \in DOMAIN own : i \in Covered(own[k])
      BY <3>3, <3>5, <3>6
    <3> HIDE DEF own
    <3> QED
      BY <1>1, <3>1, <3>7, <3>8, EndStep
  <2> QED
    BY <2>1, <2>2
<1>5. ASSUME ~Short PROVE pos \in Offsets(Doc.body) /\ pos \in Nat
  <2>1. pos \in Offsets(Doc.body) \cup {0}
    BY <1>1, <1>2 DEF TypeOK
  <2>2. 0 \in Offsets(Doc.body)
    BY <1>3, <1>5, ChunkerAssumption DEF Short, Offsets
  <2> QED
    BY <1>3, <2>1, <2>2, OffsetsOf
<1>6. CASE SkipBlank
  <2> DEFINE next == NextInked(Doc.body, pos)
  <2>1. /\ pos \in Offsets(Doc.body) /\ pos \in Nat
        /\ InkedIn(Doc.body, pos, Cut(Doc.body, pos)) = {}
        /\ MoveTo(next, mine)
    BY <1>5, <1>6 DEF SkipBlank, WindowBlank
  <2>2. next \in Nat /\ \A i \in Inked(Doc.body) : i < next => i < pos
    BY <1>3, <2>1, NextInkedSkips
  <2> HIDE DEF next
  <2> QED
    BY <1>1, <1>2, <2>1, <2>2, MoveStep
<1>7. CASE ChunkWindow
  <2> DEFINE next == Advance(Doc.body, pos)
             own == Windowed(Doc, mine, pos)
  <2>1. /\ pos \in Offsets(Doc.body) /\ pos \in Nat
        /\ InkedIn(Doc.body, pos, Cut(Doc.body, pos)) # {}
        /\ MoveTo(next, own)
    BY <1>5, <1>7 DEF ChunkWindow, WindowBlank
  <2>2. /\ Cut(Doc.body, pos) \in Nat /\ next \in Nat /\ next <= Cut(Doc.body, pos)
    BY <1>3, <2>1, CutBounds, AdvanceBounds
  <2>3. /\ OwnChunks(own, Doc)
        /\ \A k \in DOMAIN mine : k \in DOMAIN own /\ Covered(mine[k]) \subseteq Covered(own[k])
        /\ \A i \in InkedIn(Doc.body, pos, Cut(Doc.body, pos)) :
             \E k \in DOMAIN own : i \in Covered(own[k])
    BY <1>2, <2>1, WindowedAdds
  <2> HIDE DEF next, own
  <2>4. ASSUME NEW i \in Inked(Doc.body), i < next
        PROVE  \E k \in DOMAIN own : i \in Covered(own[k])
    <3>1. CASE i < pos
      BY <1>2, <2>3, <3>1
    <3>2. CASE ~(i < pos)
      <4>1. i \in InkedIn(Doc.body, pos, Cut(Doc.body, pos))
        BY <1>3, <2>1, <2>2, <2>4, <3>2 DEF InkedIn
      <4> QED
        BY <2>3, <4>1
    <3> QED
      BY <3>1, <3>2
  <2> QED
    BY <1>1, <2>1, <2>2, <2>3, <2>4, MoveStep
<1> QED
  BY <1>4, <1>6, <1>7

-----------------------------------------------------------------------------
(* Every chunk has a score for every query: the vectors are numbers.       *)
ScoresAreNumbers == \A r \in Queries : \A c \in Chunk : Similarity(r.query, c) \in Int

(* The steps of Retrieve, and the entries its filters are to leave.        *)
Admitted(es, r) == {i \in DOMAIN es : Matches(es[i], r.asset_class)}
Fit(es, r) == {i \in Admitted(es, r) : ~Blocklisted(es[i])}
Candidates(es, r) == Kept(es, LAMBDA c : Matches(c, r.asset_class))
Surviving(es, r) == Kept(Candidates(es, r), LAMBDA c : ~Blocklisted(c))
Cited(es, r) == TopK(r.query, Surviving(es, r), r.k)
Dropped(es, r) == Len(Candidates(es, r)) - Len(Surviving(es, r))

Distinct(es) == \A i, j \in DOMAIN es : es[i] = es[j] => i = j

(* The filters leave the fit entries, and the best of those are cited.     *)
LEMMA FitAreLeft ==
  ASSUME NEW T, NEW es \in Seq(T), NEW r, r.k \in Int,
         \A c \in T : Similarity(r.query, c) \in Int
  PROVE  LET fit == Fit(es, r)
         IN  /\ Surviving(es, r) \in Seq(T) /\ Len(Surviving(es, r)) = Cardinality(fit)
             /\ Dropped(es, r) = Cardinality(Admitted(es, r) \ fit)
             /\ Dropped(es, r) \in Nat /\ Cardinality(fit) \in Nat
             /\ Cardinality(fit) = 0 => fit = {}
             /\ Cited(es, r) \in Seq(T)
             /\ Cited(es, r) = << >> <=> Surviving(es, r) = << >> \/ r.k <= 0
             /\ Distinct(es) =>
                  BestChoice(es, fit, [c \in T |-> Similarity(r.query, c)],
                             IF r.k > 0 THEN r.k ELSE 0, Cited(es, r))
<1> DEFINE admitted == Admitted(es, r)
           fit == Fit(es, r)
           good == {c \in T : ~Blocklisted(c)}
           score == [c \in T |-> Similarity(r.query, c)]
           candidates == Candidates(es, r)
           survivors == Surviving(es, r)
           asked == IF r.k > 0 THEN r.k ELSE 0
           n == Cardinality(fit)
<1>1. /\ admitted \in SUBSET DOMAIN es
      /\ \A c \in T : score[c] \in Int /\ score[c] = Similarity(r.query, c)
      /\ asked \in Nat
  BY DEF Admitted
<1>2. fit = Fitting(es, admitted, good)
  BY ElementOfSeq DEF Fit, Fitting, Admitted
<1>3. candidates = KeptAt(es, admitted)
  BY DEF Kept, Candidates, Admitted
<1> HIDE DEF admitted, fit, good, score, asked, n
<1>4. /\ IsFiniteSet(admitted)
      /\ KeptAt(es, admitted) \in Seq(T)
      /\ Len(KeptAt(es, admitted)) = Cardinality(admitted)
  BY <1>1, FitRows
<1>5. survivors = Left(es, admitted, good)
  <2>1. survivors = KeptAt(candidates, {i \in DOMAIN candidates : ~Blocklisted(candidates[i])})
    BY DEF Kept, Surviving
  <2>2. {i \in DOMAIN candidates : ~Blocklisted(candidates[i])} = GoodOf(candidates, good)
    <3>1. candidates \in Seq(T)
      BY <1>3, <1>4
    <3> HIDE DEF candidates
    <3> QED
      BY <3>1, ElementOfSeq DEF GoodOf, good
  <2> QED
    BY <1>3, <2>1, <2>2 DEF Left
<1>6. n \in Nat /\ survivors \in Seq(T)
  BY <1>1, <1>2, <1>5, FitRows DEF n
<1>7. Len(survivors) = n
  <2>1. PICK to : /\ Len(Left(es, admitted, good)) = Cardinality(Fitting(es, admitted, good))
                  /\ Chooses(to, Cardinality(Fitting(es, admitted, good)),
                             Fitting(es, admitted, good))
    BY <1>1, FitRows
  <2> HIDE DEF survivors
  <2> QED
    BY <1>2, <1>5, <2>1 DEF n
<1>8. ByScore(survivors, score) \in Seq(T)
  BY <1>1, <1>6, SortedByScore
<1>9. Len(ByScore(survivors, score)) = n
  BY <1>1, <1>6, <1>7, SortedByScore
<1>10. Descending(survivors, LAMBDA c : Similarity(r.query, c)) = ByScore(survivors, score)
  <2> HIDE DEF survivors
  <2>1. [i \in DOMAIN survivors |-> Similarity(r.query, survivors[i])]
          = [i \in DOMAIN survivors |-> score[survivors[i]]]
    BY <1>1, <1>6, ElementOfSeq
  <2> QED
    BY <2>1 DEF Descending, ByScore
<1>11. Cited(es, r) = Limit(ByScore(survivors, score), asked)
  BY <1>10 DEF TopK, Cited, asked
<1>12. /\ Cited(es, r) \in Seq(T)
       /\ Len(Cited(es, r)) = IF n <= asked THEN n ELSE asked
  <2> HIDE DEF survivors
  <2>1. ASSUME NEW rows \in Seq(T)
        PROVE  /\ Limit(rows, asked) \in Seq(T)
               /\ Len(Limit(rows, asked)) = IF Len(rows) <= asked THEN Len(rows) ELSE asked
    BY <1>1, LimitedRows
  <2>2. /\ Limit(ByScore(survivors, score), asked) \in Seq(T)
        /\ Len(Limit(ByScore(survivors, score), asked)) = IF n <= asked THEN n ELSE asked
    BY <1>8, <1>9, <2>1
  <2> QED
    BY <1>11, <2>2
<1>13. Cited(es, r) = << >> <=> survivors = << >> \/ r.k <= 0
  <2> HIDE DEF survivors
  <2> QED
    BY <1>6, <1>7, <1>12, EmptySeq DEF asked
<1>14. fit \subseteq admitted
  BY DEF fit, admitted, Fit
<1>15. IsFiniteSet(fit) /\ IsFiniteSet(admitted \ fit)
  BY <1>4, <1>14, FS_Subset
<1>16. n = 0 => fit = {}
  BY <1>15, FS_EmptySet DEF n
<1>17. Cardinality(admitted) = n + Cardinality(admitted \ fit) /\ Cardinality(admitted \ fit) \in Nat
  <2>1. fit \cup (admitted \ fit) = admitted /\ fit \cap (admitted \ fit) = {}
    BY <1>14
  <2>2. Cardinality(fit \cup (admitted \ fit)) =
          Cardinality(fit) + Cardinality(admitted \ fit) - Cardinality(fit \cap (admitted \ fit))
    BY <1>15, FS_Union
  <2>3. Cardinality({}) = 0 /\ Cardinality(admitted \ fit) \in Nat
    BY <1>15, FS_EmptySet, FS_CardinalityType
  <2>4. Cardinality(admitted) = n + Cardinality(admitted \ fit) - Cardinality({})
    BY <2>1, <2>2 DEF n
  <2> DEFINE rest == Cardinality(admitted \ fit)
             all == Cardinality(admitted)
  <2> HIDE DEF rest, all
  <2>5. rest \in Nat /\ all = n + rest - 0
    BY <2>3, <2>4 DEF rest, all
  <2>6. rest \in Nat /\ all = n + rest
    BY <1>6, <2>5
  <2> QED
    BY <2>6 DEF rest, all
<1>18. Dropped(es, r) = Cardinality(admitted \ fit)
  <2> DEFINE rest == Cardinality(admitted \ fit)
             all == Cardinality(admitted)
  <2>1. Dropped(es, r) = all - n
    BY <1>3, <1>4, <1>7 DEF Dropped
  <2> HIDE DEF rest, all
  <2>2. Dropped(es, r) = rest
    BY <1>6, <1>17, <2>1 DEF rest, all
  <2> QED
    BY <2>2 DEF rest
<1>19. ASSUME Distinct(es) PROVE BestChoice(es, fit, score, asked, Cited(es, r))
  <2>1. \A i, j \in DOMAIN es : es[i] = es[j] => i = j
    BY <1>19 DEF Distinct
  <2> QED
    BY <1>1, <1>2, <1>5, <1>11, <2>1, BestAreChosen
<1> QED
  BY <1>6, <1>7, <1>12, <1>13, <1>16, <1>17, <1>18, <1>19 DEF n, fit, admitted, score, asked

(* Every result of a retrieval is an error where one is due, or sound.     *)
LEMMA RetrieveIsSound ==
  ASSUME NEW T, NEW es \in Seq(T), Distinct(es), NEW r, r.k \in Int, r.blank \in BOOLEAN,
         \A c \in T : Similarity(r.query, c) \in Int
  PROVE  IF Retrieve(es, r).kind = "result"
           THEN ~r.blank /\ SoundResult(es, r, Retrieve(es, r))
           ELSE r.blank \/ r.k <= 0
<1> DEFINE cited == Cited(es, r)
           fit == Fit(es, r)
           admitted == Admitted(es, r)
           score == [c \in T |-> Similarity(r.query, c)]
           asked == IF r.k > 0 THEN r.k ELSE 0
           band == ClassifyConfidence(Similarity(r.query, cited[1]))
           res == Retrieve(es, r)
<1>1. res = IF r.blank THEN Raised("ValueError")
            ELSE IF Surviving(es, r) = << >> THEN Result(<< >>, "none", Dropped(es, r))
            ELSE IF cited = << >> THEN Raised("IndexError")
            ELSE Result(cited, band, Dropped(es, r))
  BY DEF Retrieve, Candidates, Surviving, Dropped, Cited
<1>2. /\ Dropped(es, r) = Cardinality(admitted \ fit)
      /\ cited = << >> <=> Surviving(es, r) = << >> \/ r.k <= 0
      /\ Cardinality(fit) \in Nat
      /\ Cardinality(fit) = 0 => fit = {}
  BY FitAreLeft
<1>3. BestChoice(es, fit, score, asked, cited)
  BY FitAreLeft
<1>4. Surviving(es, r) = << >> => Cardinality(fit) = 0
  <2>1. Len(Surviving(es, r)) = Cardinality(fit)
    BY FitAreLeft
  <2> QED
    BY <2>1
<1>5. fit \subseteq DOMAIN es /\ \A c \in T : score[c] = Similarity(r.query, c) /\ score[c] \in Int
  BY DEF Fit, Admitted
<1>6. cited \in Seq(T)
  BY FitAreLeft
<1> HIDE DEF cited, fit, admitted, score, asked, band, res
<1>7. ASSUME res = Result(cited, IF cited = << >> THEN "none" ELSE band, Dropped(es, r)),
             cited = << >> => fit = {}
      PROVE  SoundResult(es, r, res)
  <2>1. /\ res.citations = cited /\ res.dropped = Cardinality(admitted \ fit)
        /\ res.confidence = IF cited = << >> THEN "none" ELSE band
    BY <1>2, <1>7 DEF Result
  <2> DEFINE taken == {i \in fit : \E j \in DOMAIN cited : cited[j] = es[i]}
  <2>2. /\ Len(cited) = IF Cardinality(fit) <= asked THEN Cardinality(fit) ELSE asked
        /\ Cardinality(taken) = Len(cited)
        /\ \A i \in taken, j \in fit \ taken : score[es[i]] >= score[es[j]]
        /\ \A i, j \in DOMAIN cited : i < j => score[cited[i]] >= score[cited[j]]
        /\ cited # << >> =>
             \A i \in fit : cited[1] \in {es[j] : j \in fit} /\ score[cited[1]] >= score[es[i]]
    BY <1>3 DEF BestChoice
  <2> HIDE DEF taken
  <2>3. Len(cited) = IF 0 < r.k /\ r.k < Cardinality(fit) THEN r.k ELSE Cardinality(fit)
    <3>1. Cardinality(fit) = 0 \/ r.k > 0
      <4>1. CASE cited = << >>
        BY <1>7, <4>1, FS_EmptySet
      <4>2. CASE cited # << >>
        BY <1>2, <4>2
      <4> QED
        BY <4>1, <4>2
    <3> QED
      BY <1>2, <2>2, <3>1 DEF asked
  <2>4. /\ \A i \in DOMAIN es : score[es[i]] = Similarity(r.query, es[i]) /\ score[es[i]] \in Int
        /\ \A i \in DOMAIN cited : score[cited[i]] = Similarity(r.query, cited[i])
    BY <1>5, <1>6, ElementOfSeq
  <2>5. /\ \A i \in taken, j \in fit \ taken :
             Similarity(r.query, es[i]) >= Similarity(r.query, es[j])
        /\ \A i, j \in DOMAIN cited :
             i < j => Similarity(r.query, cited[i]) >= Similarity(r.query, cited[j])
    BY <1>5, <2>2, <2>4 DEF taken
  <2>6. res.confidence = "none" <=> cited = << >>
    BY <2>1 DEF band, ClassifyConfidence
  <2>7. ASSUME cited # << >>
        PROVE  \E k \in fit :
                 /\ cited[1] = es[k]
                 /\ \A i \in fit : Similarity(r.query, es[k]) >= Similarity(r.query, es[i])
    <3>1. fit # {}
      <4>1. ASSUME fit = {} PROVE FALSE
        <5>1. Cardinality(fit) = 0
          BY <4>1, FS_EmptySet
        <5>2. Len(cited) = 0
          BY <2>3, <5>1
        <5> QED
          BY <1>6, <2>7, <5>2, EmptySeq
      <4> QED
        BY <4>1
    <3>2. PICK k \in fit : cited[1] = es[k]
      BY <2>2, <2>7, <3>1
    <3>3. \A i \in fit : score[es[k]] >= score[es[i]]
      BY <2>2, <2>7, <3>2
    <3>4. \A i \in fit : score[es[i]] = Similarity(r.query, es[i])
      BY <1>5, <2>4
    <3> QED
      BY <3>2, <3>3, <3>4
  <2>8. /\ res.confidence \in {"none", "low", "medium", "high"}
        /\ res.confidence = "high" <=>
             \E i \in fit : Similarity(r.query, es[i]) >= MediumThreshold
        /\ res.confidence \in {"medium", "high"} <=>
             \E i \in fit : Similarity(r.query, es[i]) >= ConfidenceThreshold
    <3>1. CASE cited = << >>
      <4>1. res.confidence = "none" /\ fit = {}
        BY <1>7, <2>1, <3>1
      <4> QED
        BY <4>1
    <3>2. CASE cited # << >>
      <4>1. PICK k \in fit :
              /\ cited[1] = es[k]
              /\ \A i \in fit : Similarity(r.query, es[k]) >= Similarity(r.query, es[i])
        BY <2>7, <3>2
      <4> DEFINE top == Similarity(r.query, es[k])
      <4>2. res.confidence = ClassifyConfidence(top)
        BY <2>1, <3>2, <4>1 DEF band
      <4>3. \A i \in fit : Similarity(r.query, es[i]) \in Int /\ top >= Similarity(r.query, es[i])
        BY <1>5, <2>4, <4>1
      <4>4. top \in Int
        BY <4>3
      <4>5. \A t \in Int : top >= t <=> \E i \in fit : Similarity(r.query, es[i]) >= t
        <5> HIDE DEF top
        <5>1. \A t \in Int, i \in fit : Similarity(r.query, es[i]) >= t => top >= t
          BY <4>3, <4>4
        <5>2. \A t \in Int : top >= t => Similarity(r.query, es[k]) >= t
          BY DEF top
        <5> QED
          BY <5>1, <5>2
      <4>6. /\ top >= MediumThreshold <=>
                 \E i \in fit : Similarity(r.query, es[i]) >= MediumThreshold
            /\ top >= ConfidenceThreshold <=>
                 \E i \in fit : Similarity(r.query, es[i]) >= ConfidenceThreshold
        <5>1. MediumThreshold \in Int /\ ConfidenceThreshold \in Int
          BY DEF MediumThreshold, ConfidenceThreshold
        <5> HIDE DEF top
        <5> QED
          BY <4>5, <5>1
      <4> HIDE DEF top
      <4>7. /\ res.confidence \in {"none", "low", "medium", "high"}
            /\ res.confidence = "high" <=> top >= MediumThreshold
            /\ res.confidence \in {"medium", "high"} <=> top >= ConfidenceThreshold
        BY <4>2, <4>4 DEF ClassifyConfidence, MediumThreshold, ConfidenceThreshold
      <4> QED
        BY <4>6, <4>7
    <3> QED
      BY <3>1, <3>2
  <2> QED
    BY <2>1, <2>2, <2>3, <2>5, <2>6, <2>8
    DEF SoundResult, taken, admitted, fit, Admitted, Fit
<1>8. CASE r.blank
  BY <1>1, <1>8 DEF Raised, res
<1>9. CASE ~r.blank /\ Surviving(es, r) = << >>
  <2>1. res = Result(cited, "none", Dropped(es, r)) /\ cited = << >> /\ fit = {}
    BY <1>1, <1>2, <1>4, <1>9
  <2> QED
    BY <1>7, <1>9, <2>1 DEF Result, res
<1>10. CASE ~r.blank /\ Surviving(es, r) # << >> /\ cited = << >>
  BY <1>1, <1>2, <1>10 DEF Raised, res
<1>11. CASE ~r.blank /\ Surviving(es, r) # << >> /\ cited # << >>
  <2>1. res = Result(cited, band, Dropped(es, r))
    BY <1>1, <1>11
  <2> QED
    BY <1>7, <1>11, <2>1 DEF Result, res
<1> QED
  BY <1>8, <1>9, <1>10, <1>11

-----------------------------------------------------------------------------
(* The other steps.                                                        *)
LEMMA FailedStart ==
  ASSUME IInv, NEW corpus, StartFails(corpus), UNCHANGED backend
  PROVE  IInv'
<1>1. /\ ingests' \in 0..MaxIngests
      /\ UNCHANGED <<stage, docs, at, pos, mine, chunks, file>>
      /\ UNCHANGED <<service, starts, request, result>>
  BY IngestionAssumption DEF StartFails, IInv, TypeOK, backend
<1> QED
  BY <1>1 DEF IInv, TypeOK, CoverInv, NumberInv, FileInv, ServiceInv, ResultInv, Doc

LEMMA CrashStep ==
  ASSUME IInv, Crash, UNCHANGED backend
  PROVE  IInv'
<1>1. /\ stage' = "idle"
      /\ UNCHANGED <<ingests, docs, at, pos, mine, chunks, file>>
      /\ UNCHANGED <<service, starts, request, result>>
  BY DEF Crash, backend
<1> QED
  BY <1>1 DEF IInv, TypeOK, CoverInv, NumberInv, FileInv, ServiceInv, ResultInv, Doc

(* The file is truncated: until it is closed nobody loads it.              *)
LEMMA OpenStep ==
  ASSUME IInv, OpenIndex, UNCHANGED backend
  PROVE  IInv'
<1>1. /\ stage' = "writing" /\ at > Len(docs)
      /\ UNCHANGED <<ingests, docs, at, pos, mine, chunks>>
      /\ UNCHANGED <<service, starts, request, result>>
  BY DEF OpenIndex, backend
<1>2. PICK n \in 0..Len(chunks) : file' = Pickle(FALSE, docs, SubSeq(chunks, 1, n))
  BY DEF OpenIndex
<1>3. TypeOK
  BY DEF IInv
<1>4. SubSeq(chunks, 1, n) \in Seq(Chunk)
  <2>1. chunks \in Seq(Chunk) /\ Len(chunks) \in Nat
    BY <1>3, LenProperties DEF TypeOK
  <2> QED
    BY <2>1, SubSeqProperties
<1>5. file' \in [whole : BOOLEAN, exists : BOOLEAN, docs : Seq(Documents), entries : Seq(Chunk)]
  BY <1>2, <1>3, <1>4 DEF TypeOK, Pickle
<1>6. at' = Len(docs') + 1
  BY <1>1, <1>3, LenProperties DEF TypeOK
<1>7. TypeOK'
  BY <1>1, <1>3, <1>5, <1>6 DEF TypeOK, Doc
<1>8. FileInv'
  BY <1>2 DEF FileInv, Pickle
<1> QED
  BY <1>1, <1>7, <1>8 DEF IInv, CoverInv, NumberInv, ServiceInv, ResultInv, Doc

(* What the closed file holds is all that was chunked.                     *)
LEMMA CloseStep ==
  ASSUME IInv, CloseIndex, UNCHANGED backend
  PROVE  IInv'
<1>1. /\ stage = "writing" /\ stage' = "idle" /\ file' = Pickle(TRUE, docs, chunks)
      /\ UNCHANGED <<ingests, docs, at, pos, mine, chunks>>
      /\ UNCHANGED <<service, starts, request, result>>
  BY DEF CloseIndex, backend
<1>2. TypeOK /\ CoverInv /\ NumberInv
  BY DEF IInv
<1>3. file' \in [whole : BOOLEAN, exists : BOOLEAN, docs : Seq(Documents), entries : Seq(Chunk)]
  BY <1>1, <1>2 DEF TypeOK, Pickle
<1>4. TypeOK'
  BY <1>1, <1>2, <1>3 DEF TypeOK, Doc
<1>5. FileInv'
  <2>1. DOMAIN docs = 1..at - 1
    BY <1>1, <1>2, LenProperties DEF TypeOK
  <2>2. Complete(docs, chunks)
    BY <1>2, <2>1 DEF Complete, CoverInv, NumberInv
  <2>3. file'.docs = docs /\ file'.entries = chunks
    BY <1>1 DEF Pickle
  <2> QED
    BY <2>2, <2>3 DEF FileInv
<1> QED
  BY <1>1, <1>2, <1>4, <1>5 DEF IInv, CoverInv, NumberInv, ServiceInv, ResultInv, Doc

LEMMA BackendStep ==
  ASSUME IInv, BackendFails \/ BackendStarts \/ BackendStops
  PROVE  IInv'
<1>1. TypeOK
  BY DEF IInv
<1>2. /\ UNCHANGED <<stage, ingests, docs, at, pos, mine, chunks, file>>
      /\ starts' \in 0..MaxStarts
  BY <1>1, ServiceAssumption
  DEF BackendFails, BackendStarts, BackendStops, ingestion, pipeline, TypeOK
<1>3. /\ service' # None => service' \in [docs : Seq(Documents), entries : Seq(Chunk)]
      /\ service' = None => request' = None
      /\ request' = None => result' = None
      /\ request' = None
  BY <1>1 DEF BackendFails, BackendStarts, BackendStops, Loadable, TypeOK
<1>4. TypeOK'
  BY <1>1, <1>2, <1>3 DEF TypeOK, Doc
<1>5. CoverInv' /\ NumberInv' /\ FileInv'
  BY <1>2 DEF IInv, CoverInv, NumberInv, FileInv, Doc
<1>6. ServiceInv'
  <2>1. CASE BackendStarts
    <3>1. Complete(file.docs, file.entries)
      BY <2>1 DEF BackendStarts, Loadable, IInv, FileInv
    <3>2. service'.docs = file.docs /\ service'.entries = file.entries
      BY <2>1 DEF BackendStarts
    <3> QED
      BY <3>1, <3>2 DEF ServiceInv
  <2>2. CASE BackendFails \/ BackendStops
    BY <2>2 DEF BackendFails, BackendStops, ServiceInv
  <2> QED
    BY <2>1, <2>2
<1>7. ResultInv'
  BY <1>3 DEF ResultInv
<1> QED
  BY <1>4, <1>5, <1>6, <1>7 DEF IInv

LEMMA AskStep ==
  ASSUME IInv, NEW r \in Queries, Ask(r)
  PROVE  IInv'
<1>1. /\ service # None /\ request' = r /\ result' = Retrieve(service.entries, r)
      /\ UNCHANGED <<stage, ingests, docs, at, pos, mine, chunks, file, service, starts>>
  BY DEF Ask, ingestion, pipeline
<1>2. request' # None
  BY <1>1, ServiceAssumption
<1>3. TypeOK'
  BY <1>1, <1>2 DEF IInv, TypeOK, Doc
<1>4. ResultInv'
  BY <1>1 DEF ResultInv
<1> QED
  BY <1>1, <1>3, <1>4 DEF IInv, CoverInv, NumberInv, FileInv, ServiceInv, Doc

-----------------------------------------------------------------------------
(* Whatever the corpora, the crashes and the restarts: the index in the    *)
(* works covers what was chunked, a closed one is complete, and so is what *)
(* the backend holds, from which it answers.                               *)
THEOREM Inductive == Spec => []IInv
<1>1. IInv /\ [Next]_vars => IInv'
  <2> SUFFICES ASSUME IInv, [Next]_vars PROVE IInv'
    OBVIOUS
  <2>1. CASE IngestionNext /\ UNCHANGED backend
    <3>1. ASSUME NEW corpus \in Corpora, StartFails(corpus) \/ Start(corpus) PROVE IInv'
      BY <2>1, <3>1, FailedStart, StartStep
    <3>2. CASE Work
      BY <2>1, <3>2, ChunkStep, OpenStep, CloseStep DEF Work
    <3>3. CASE Crash
      BY <2>1, <3>3, CrashStep
    <3> QED
      BY <2>1, <3>1, <3>2, <3>3 DEF IngestionNext
  <2>2. CASE BackendFails \/ BackendStarts \/ BackendStops
    BY <2>2, BackendStep
  <2>3. CASE \E r \in Queries : Ask(r)
    BY <2>3, AskStep
  <2>4. CASE UNCHANGED vars
    BY <2>4
    DEF vars, ingestion, pipeline, backend, IInv, TypeOK, CoverInv, NumberInv, FileInv,
        ServiceInv, ResultInv, Doc
  <2> QED
    BY <2>1, <2>2, <2>3, <2>4 DEF Next
<1> QED
  BY InitIInv, <1>1, PTL DEF Spec

(* Every variable of the pipeline and of the backend has its type; every   *)
(* chunk is numbered as it stands and lies within its document.            *)
THEOREM TypeCorrect == Spec => []TypeOK
<1>1. IInv => TypeOK
  BY DEF IInv
<1> QED
  BY Inductive, <1>1, PTL

(* chunk_document loses no letter, whatever the window, the overlap and    *)
(* the fragment size: not at a cut, not at a merge, not at a blank window. *)
THEOREM NoLetterIsLost == Spec => []NothingLost
<1>1. IInv => NothingLost
  BY DEF IInv, CoverInv, NothingLost, Chunking
<1> QED
  BY Inductive, <1>1, PTL

(* The backend never answers from a part of an index, though the pipeline  *)
(* writes in place and may die at any byte.                                *)
THEOREM IndexIsWhole == Spec => []ServesAWholeIndex
<1>1. IInv => ServesAWholeIndex
  BY DEF IInv, ServiceInv, Complete, Unique, ServesAWholeIndex
<1> QED
  BY Inductive, <1>1, PTL

(* Every retrieval returns the best k of the chunks its filters leave,     *)
(* counts the others right, and names their band; it raises only for a     *)
(* blank query or for a k that asks for nothing.                           *)
THEOREM ResultsAreSound ==
  ASSUME ScoresAreNumbers
  PROVE  Spec => []RetrievalIsSound
<1>1. IInv => RetrievalIsSound
  <2> SUFFICES ASSUME IInv, result # None
               PROVE  IF result.kind = "result"
                        THEN ~request.blank /\ SoundResult(service.entries, request, result)
                        ELSE request.blank \/ request.k <= 0
    BY DEF RetrievalIsSound
  <2>1. /\ request \in Queries /\ request # None /\ service # None
        /\ service \in [docs : Seq(Documents), entries : Seq(Chunk)]
    BY DEF IInv, TypeOK
  <2>2. result = Retrieve(service.entries, request)
    BY <2>1 DEF IInv, ResultInv
  <2>3. service.entries \in Seq(Chunk) /\ Distinct(service.entries)
    BY <2>1 DEF IInv, ServiceInv, Complete, Unique, Distinct
  <2>4. /\ request.k \in Int /\ request.blank \in BOOLEAN
        /\ \A c \in Chunk : Similarity(request.query, c) \in Int
    BY <2>1, ServiceAssumption DEF ScoresAreNumbers
  <2> QED
    BY <2>2, <2>3, <2>4, RetrieveIsSound
<1> QED
  BY Inductive, <1>1, PTL
=============================================================================
