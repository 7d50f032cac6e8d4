----------------------------- MODULE ChainProofs -----------------------------
(***************************************************************************)
(* What a turn of the chat promises, for every plan of the mock planner    *)
(* and of an LLM, every index, and whichever tools fail.                   *)
(***************************************************************************)
EXTENDS Chain, RowsProofs

(* The steps that were run.                                                *)
Done == 1..next - 1

(* Every tool step that was run is in the trace, at its place, with what   *)
(* became of it.                                                           *)
TraceInv ==
  \A j \in ToolSteps \cap Done :
    /\ trace[Told(j)].tool = plan[j].tool
    /\ trace[Told(j)].outcome \in {"success", "error"}
    /\ ToolAnswer(plan[j]) = None => trace[Told(j)].outcome = "error"

(* Under ids of their own, the outputs are those of the steps that were    *)
(* run, in order, each of the shape its step gives it; and no step that    *)
(* contradicts itself was run.                                             *)
OutputOf(j) ==
  /\ outputs[j].id = plan[j].id
  /\ plan[j].kind # "mismatched"
  /\ j \in ToolSteps =>
       outputs[j].output = IF trace[Told(j)].outcome = "success" THEN ToolAnswer(plan[j]) ELSE None
  /\ j \in RagSteps => outputs[j].output = [shape |-> "retrieval"]
  /\ plan[j].kind = "compose" => outputs[j].output.shape = "text"

OutputInv ==
  UniqueIds => Len(outputs) = next - 1 /\ \A j \in Done : OutputOf(j)

(* Right after a COMPOSE step its text is that of what is there.           *)
ComposeInv ==
  UniqueIds /\ next > 1 /\ plan[next - 1].kind = "compose" =>
    outputs[next - 1].output.text =
      ComposeAnswer(SubSeq(outputs, 1, next - 2), citations, confidence, dropped, Len(trace) + 1)

(* The tickets are those of the last search that succeeded.                *)
Searched ==
  {j \in Done : plan[j].kind = "search_similar_tickets" /\ trace[Told(j)].outcome = "success"}

SimilarInv ==
  /\ Searched = {} => similar = << >>
  /\ \A j \in Searched :
       (\A i \in Searched : i <= j) => similar = ToolAnswer(plan[j]).rows

(* The citations are those of the retrievals that were run, one after the  *)
(* other, and the confidence is that of the last.                          *)
Asked == RagSteps \cap Done

CitedPairs(j) == UNION {{i} \X DOMAIN Found(i) : i \in RagSteps \cap 1..j}

CiteInv ==
  /\ IsFiniteSet(CitedPairs(next - 1))
  /\ Len(citations) = CitedBy(next - 1)
  /\ \A j \in Asked :
       /\ Retrieve(index, plan[j]).kind = "result"
       /\ SubSeq(citations, CitedBy(j - 1) + 1, CitedBy(j)) = Found(j)
       /\ (\A i \in Asked : i <= j) =>
            /\ confidence = Retrieve(index, plan[j]).confidence
            /\ dropped = Retrieve(index, plan[j]).dropped
  /\ Asked = {} => confidence = "none" /\ dropped = 0

(* What the caller is told is what the turn came to.                       *)
ReplyInv ==
  /\ (reply # None /\ reply.kind = "refused") =>
       \E i \in DOMAIN plan : plan[i].kind = "mismatched"
  /\ (reply # None /\ reply.kind = "unhandled") =>
       \/ reply.error = "OverflowError"
       \/ \E i \in RagSteps : plan[i].blank \/ plan[i].k <= 0
  /\ Answered =>
       /\ next = Len(plan) + 1
       /\ reply.answer = FinalAnswer(outputs, plan)
       /\ reply.citations = citations
       /\ reply.trace = trace
       /\ reply.confidence = confidence
       /\ reply.dropped = dropped
       /\ reply.incident = BuildIncident

IInv ==
  /\ TypeOK /\ TraceInv /\ OutputInv /\ ComposeInv
  /\ SimilarInv /\ CiteInv /\ ReplyInv

-----------------------------------------------------------------------------
(* Sequences of whatever they are sequences of.                            *)
LEMMA SequenceOf ==
  ASSUME NEW T, NEW s \in Seq(T)
  PROVE  IsSequence(s)
<1>1. Len(s) \in Nat /\ DOMAIN s = 1..Len(s) /\ s \in [1..Len(s) -> T]
  BY LenProperties
<1>2. s \in [1..Len(s) -> {s[i] : i \in DOMAIN s}]
  BY <1>1
<1> QED
  BY <1>1, <1>2, SeqDef DEF IsSequence

LEMMA EmptySequence == IsSequence(<< >>) /\ Len(<< >>) = 0 /\ DOMAIN << >> = {}
<1>1. << >> \in Seq({}) /\ Len(<< >>) = 0
  BY EmptySeq
<1>2. IsSequence(<< >>)
  BY <1>1, SequenceOf
<1> QED
  BY <1>1, <1>2, LenProperties

LEMMA SequenceLength ==
  ASSUME NEW s, IsSequence(s)
  PROVE  Len(s) \in Nat /\ DOMAIN s = 1..Len(s)
BY LenProperties DEF IsSequence

LEMMA AppendedSequence ==
  ASSUME NEW s, IsSequence(s), NEW e
  PROVE  /\ IsSequence(Append(s, e))
         /\ Len(Append(s, e)) = Len(s) + 1 /\ DOMAIN Append(s, e) = 1..Len(s) + 1
         /\ \A i \in 1..Len(s) : Append(s, e)[i] = s[i]
         /\ Append(s, e)[Len(s) + 1] = e
<1> DEFINE T == {s[i] : i \in DOMAIN s} \cup {e}
<1>1. s \in Seq(T) /\ e \in T
  BY SeqMonotonic DEF IsSequence
<1> HIDE DEF T
<1>2. /\ Append(s, e) \in Seq(T)
      /\ Len(Append(s, e)) = Len(s) + 1
      /\ \A i \in 1..Len(s) : Append(s, e)[i] = s[i]
      /\ Append(s, e)[Len(s) + 1] = e
  BY <1>1, AppendProperties
<1>3. DOMAIN Append(s, e) = 1..Len(s) + 1
  BY <1>2, LenProperties
<1> QED
  BY <1>2, <1>3, SequenceOf

LEMMA PrefixOfAppended ==
  ASSUME NEW s, IsSequence(s), NEW e
  PROVE  SubSeq(Append(s, e), 1, Len(s)) = s
<1> DEFINE T == {s[i] : i \in DOMAIN s} \cup {e}
           t == Append(s, e)
           n == Len(s)
<1>1. s \in Seq(T) /\ e \in T
  BY SeqMonotonic DEF IsSequence
<1>2. /\ IsSequence(t) /\ Len(t) = n + 1 /\ \A i \in 1..n : t[i] = s[i]
      /\ n \in Nat /\ DOMAIN s = 1..n
  BY AppendedSequence, SequenceLength
<1>3. t \in Seq(T)
  BY <1>1, AppendProperties
<1> HIDE DEF T, t, n
<1>4. SubSeq(t, 1, n) = [i \in 1..n |-> t[i]]
  BY <1>2, <1>3, SubSeqProperties
<1>5. s = [i \in 1..n |-> s[i]]
  BY <1>1, <1>2, LenProperties
<1> QED
  BY <1>2, <1>4, <1>5 DEF t, n

LEMMA JoinedSequence ==
  ASSUME NEW s, IsSequence(s), NEW t, IsSequence(t)
  PROVE  /\ IsSequence(s \o t)
         /\ Len(s \o t) = Len(s) + Len(t) /\ DOMAIN (s \o t) = 1..Len(s) + Len(t)
         /\ \A i \in 1..Len(s) : (s \o t)[i] = s[i]
         /\ \A i \in 1..Len(t) : (s \o t)[Len(s) + i] = t[i]
<1> DEFINE T == {s[i] : i \in DOMAIN s} \cup {t[i] : i \in DOMAIN t}
<1>1. s \in Seq(T) /\ t \in Seq(T)
  BY SeqMonotonic DEF IsSequence
<1> HIDE DEF T
<1>2. /\ s \o t \in Seq(T)
      /\ Len(s \o t) = Len(s) + Len(t)
      /\ \A i \in 1..Len(s) + Len(t) :
           (s \o t)[i] = IF i <= Len(s) THEN s[i] ELSE t[i - Len(s)]
  BY <1>1, ConcatProperties
<1>3. Len(s) \in Nat /\ Len(t) \in Nat
  BY SequenceLength
<1>4. DOMAIN (s \o t) = 1..Len(s) + Len(t)
  BY <1>2, LenProperties
<1>5. IsSequence(s \o t)
  BY <1>2, SequenceOf
<1>6. \A i \in 1..Len(s) : (s \o t)[i] = s[i]
  BY <1>2, <1>3
<1>7. ASSUME NEW i \in 1..Len(t) PROVE (s \o t)[Len(s) + i] = t[i]
  <2>1. Len(s) + i \in 1..Len(s) + Len(t) /\ ~(Len(s) + i <= Len(s)) /\ Len(s) + i - Len(s) = i
    BY <1>3
  <2> QED
    BY <1>2, <2>1
<1> QED
  BY <1>2, <1>4, <1>5, <1>6, <1>7

OldOrOf(id, new, items) ==
  \A i \in DOMAIN new : new[i].id = id \/ (i \in DOMAIN items /\ new[i] = items[i])

LEMMA PrefixOf ==
  ASSUME NEW s, IsSequence(s), NEW n \in Nat, n <= Len(s)
  PROVE  DOMAIN SubSeq(s, 1, n) = 1..n /\ \A i \in 1..n : SubSeq(s, 1, n)[i] = s[i]
<1> DEFINE T == {s[i] : i \in DOMAIN s}
           t == SubSeq(s, 1, n)
<1>1. /\ Len(s) \in Nat /\ DOMAIN s = 1..Len(s)
      /\ \A i \in 1..n : s[i] \in T
  BY SequenceLength
<1> HIDE DEF T
<1>2. /\ t \in Seq(T)
      /\ Len(t) = IF 1 <= n THEN n - 1 + 1 ELSE 0
      /\ \A i \in 1..n - 1 + 1 : t[i] = s[1 + i - 1]
  BY <1>1, SubSeqProperties
<1> HIDE DEF t
<1>3. Len(t) = n /\ n - 1 + 1 = n /\ \A i \in 1..n : 1 + i - 1 = i
  BY <1>2
<1>4. DOMAIN t = 1..n
  BY <1>2, <1>3, LenProperties
<1> QED
  BY <1>2, <1>3, <1>4 DEF t

(* The slices of a concatenation.                                          *)
LEMMA SliceOfFirst ==
  ASSUME NEW s, IsSequence(s), NEW t, IsSequence(t),
         NEW a \in Nat \ {0}, NEW b \in Nat, b <= Len(s)
  PROVE  SubSeq(s \o t, a, b) = SubSeq(s, a, b)
<1> DEFINE T == {s[i] : i \in DOMAIN s} \cup {t[i] : i \in DOMAIN t}
           st == s \o t
<1>1. /\ Len(s) \in Nat /\ DOMAIN s = 1..Len(s)
      /\ \A i \in 1..Len(s) : st[i] = s[i]
  BY SequenceLength, JoinedSequence
<1>2. \A i \in a..b : i \in 1..Len(s)
  BY <1>1
<1>3. \A i \in a..b : s[i] \in T /\ st[i] \in T
  BY <1>1, <1>2
<1> HIDE DEF T, st
<1>4. /\ SubSeq(s, a, b) \in Seq(T) /\ SubSeq(st, a, b) \in Seq(T)
      /\ Len(SubSeq(s, a, b)) = Len(SubSeq(st, a, b))
      /\ Len(SubSeq(s, a, b)) = IF a <= b THEN b - a + 1 ELSE 0
      /\ \A i \in 1..b - a + 1 : SubSeq(s, a, b)[i] = s[a + i - 1]
                                  /\ SubSeq(st, a, b)[i] = st[a + i - 1]
  BY <1>3, SubSeqProperties
<1>5. \A i \in 1..b - a + 1 : s[a + i - 1] = st[a + i - 1]
  <2> TAKE i \in 1..b - a + 1
  <2>1. a + i - 1 \in 1..Len(s)
    BY <1>1
  <2> QED
    BY <1>1, <2>1
<1>6. \A i \in 1..Len(SubSeq(s, a, b)) : i \in 1..b - a + 1
  BY <1>4
<1>7. \A i \in 1..Len(SubSeq(s, a, b)) : SubSeq(s, a, b)[i] = SubSeq(st, a, b)[i]
  BY <1>4, <1>5, <1>6
<1> QED
  BY <1>4, <1>7, SeqEqual DEF st

LEMMA SliceOfSecond ==
  ASSUME NEW s, IsSequence(s), NEW t, IsSequence(t)
  PROVE  SubSeq(s \o t, Len(s) + 1, Len(s) + Len(t)) = t
<1> DEFINE T == {s[i] : i \in DOMAIN s} \cup {t[i] : i \in DOMAIN t}
           st == s \o t
           a == Len(s)
           b == Len(t)
           slice == SubSeq(st, a + 1, a + b)
<1>1. /\ a \in Nat /\ b \in Nat /\ DOMAIN t = 1..b
      /\ \A i \in 1..b : st[a + i] = t[i]
  BY SequenceLength, JoinedSequence
<1>2. t \in Seq(T) /\ \A i \in 1..b : t[i] \in T
  BY <1>1, SeqMonotonic DEF IsSequence
<1> HIDE DEF T, st, a, b
<1>3. \A i \in a + 1..a + b : st[i] \in T
  <2> TAKE i \in a + 1..a + b
  <2>1. i - a \in 1..b /\ a + (i - a) = i
    BY <1>1
  <2> QED
    BY <1>1, <1>2, <2>1
<1>4. a + 1 \in Int /\ a + b \in Int
  BY <1>1
<1>5. /\ slice \in Seq(T)
      /\ Len(slice) = IF a + 1 <= a + b THEN (a + b) - (a + 1) + 1 ELSE 0
      /\ \A i \in 1..(a + b) - (a + 1) + 1 : slice[i] = st[(a + 1) + i - 1]
  BY <1>3, <1>4, SubSeqProperties
<1> HIDE DEF slice
<1>6. Len(slice) = b /\ (a + b) - (a + 1) + 1 = b
  BY <1>1, <1>5
<1>7. \A i \in 1..Len(slice) : slice[i] = t[i]
  <2> TAKE i \in 1..Len(slice)
  <2>1. i \in 1..b /\ (a + 1) + i - 1 = a + i
    BY <1>1, <1>6
  <2> QED
    BY <1>1, <1>5, <1>6, <2>1
<1>8. slice = t
  BY <1>2, <1>5, <1>6, <1>7, SeqEqual DEF b
<1> QED
  BY <1>8 DEF slice, st, a, b

(* A dict keeps what it had, under its ids, and gets one item at most.     *)
LEMMA PutItem ==
  ASSUME NEW items, IsSequence(items), NEW id, NEW output
  PROVE  /\ IsSequence(Put(items, id, output))
         /\ Len(Put(items, id, output)) \in {Len(items), Len(items) + 1}
         /\ OldOrOf(id, Put(items, id, output), items)
         /\ (\A i \in DOMAIN items : items[i].id # id) =>
              Put(items, id, output) = Append(items, [id |-> id, output |-> output])
<1> DEFINE item == [id |-> id, output |-> output]
           new == Put(items, id, output)
<1>1. Len(items) \in Nat /\ DOMAIN items = 1..Len(items)
  BY SequenceLength
<1>2. item.id = id
  OBVIOUS
<1> HIDE DEF item
<1>3. CASE \E i \in DOMAIN items : items[i].id = id
  <2> DEFINE f == [i \in DOMAIN items |-> IF items[i].id = id THEN item ELSE items[i]]
             T == {items[i] : i \in DOMAIN items} \cup {item}
  <2>1. new = f
    BY <1>3 DEF Put, item
  <2>2. f \in [1..Len(items) -> T]
    BY <1>1
  <2>3. f \in Seq(T) /\ Len(f) = Len(items)
    BY <1>1, <2>2, SeqDef
  <2>4. IsSequence(f)
    BY <2>3, SequenceOf
  <2>5. \A i \in DOMAIN f : f[i].id = id \/ (i \in DOMAIN items /\ f[i] = items[i])
    BY <1>2
  <2> HIDE DEF f, new
  <2> QED
    BY <1>3, <2>1, <2>3, <2>4, <2>5 DEF new, OldOrOf
<1>4. CASE \A i \in DOMAIN items : items[i].id # id
  <2>1. new = Append(items, item)
    BY <1>4 DEF Put, item
  <2>2. /\ IsSequence(new) /\ Len(new) = Len(items) + 1 /\ DOMAIN new = 1..Len(items) + 1
        /\ \A i \in 1..Len(items) : new[i] = items[i]
        /\ new[Len(items) + 1] = item
    BY <2>1, AppendedSequence
  <2> HIDE DEF new
  <2>3. \A i \in DOMAIN new : new[i].id = id \/ (i \in DOMAIN items /\ new[i] = items[i])
    <3> TAKE i \in DOMAIN new
    <3>1. i \in 1..Len(items) \/ i = Len(items) + 1
      BY <1>1, <2>2
    <3> QED
      BY <1>1, <1>2, <2>2, <3>1
  <2> QED
    BY <2>1, <2>2, <2>3 DEF new, item, OldOrOf
<1> QED
  BY <1>3, <1>4

-----------------------------------------------------------------------------
(* The plans of the mock planner.                                          *)
LEMMA IfIsSequence ==
  ASSUME NEW T, NEW u \in T, NEW c \in BOOLEAN
  PROVE  If(c, u) \in Seq(T) /\ Len(If(c, u)) \in 0..1
<1>1. CASE c
  <2>1. If(c, u) = <<u>> /\ <<u>> \in Seq(T) /\ Len(<<u>>) = 1
    BY <1>1 DEF If
  <2> HIDE DEF If
  <2> QED
    BY <2>1
<1>2. CASE ~c
  <2>1. If(c, u) = << >> /\ << >> \in Seq(T) /\ Len(<< >>) = 0
    BY <1>2 DEF If
  <2> QED
    BY <2>1
<1> QED
  BY <1>1, <1>2

LEMMA MockPlanIsPlan ==
  ASSUME NEW r \in Requests
  PROVE  /\ IsSequence(MockPlan(r))
         /\ \A i \in DOMAIN MockPlan(r) : IsStep(MockPlan(r)[i])
<1> DEFINE asset == ExtractAsset(r)
           class == IF asset = None THEN None ELSE KeywordIn(asset)
           located == asset # None \/ r.site # None
           search == [kind |-> "tool_call", tool |-> "search_assets", query |-> asset]
           listing == [kind |-> "tool_call", tool |-> "summarize_alarms",
                       site |-> r.site, asset |-> asset, since |-> r.since]
           retrieval == [kind |-> "rag_query", query |-> r.text, blank |-> r.blank, k |-> 5,
                         asset_class |-> class]
           past == [kind |-> "search_similar_tickets", tool |-> "search_similar_tickets",
                    site |-> r.site, asset_class |-> class, limit |-> 5]
           answer == [kind |-> "compose"]
           T == {search, listing, retrieval, past, answer}
           s1 == If(asset # None, search)
           s2 == If(located, listing)
           s3 == If(located, past)
           unnumbered == s1 \o s2 \o <<retrieval>> \o s3 \o <<answer>>
<1>1. \A u \in T, i \in 1..99 : IsStep(Numbered(u, i))
  <2> SUFFICES ASSUME NEW u \in T, NEW i \in 1..99
               PROVE  IsStep(Numbered(u, i))
    OBVIOUS
  <2>1. CASE u = search
    BY <2>1 DEF Numbered, IsStep, ToolKinds, Tools
  <2>2. CASE u = listing
    BY <2>2 DEF Numbered, IsStep, ToolKinds, Tools
  <2>3. CASE u = retrieval
    <3>1. r.blank \in BOOLEAN /\ Scored(r.text)
      BY ChainAssumption
    <3> QED
      BY <2>3, <3>1 DEF Numbered, IsStep, ToolKinds
  <2>4. CASE u = past
    BY <2>4 DEF Numbered, IsStep, ToolKinds, Tools
  <2>5. CASE u = answer
    BY <2>5 DEF Numbered, IsStep, ToolKinds
  <2> QED
    BY <2>1, <2>2, <2>3, <2>4, <2>5
<1>2. MockPlan(r) = [i \in DOMAIN unnumbered |-> Numbered(unnumbered[i], i)]
  BY DEF MockPlan
<1>3. search \in T /\ listing \in T /\ retrieval \in T /\ past \in T /\ answer \in T
  OBVIOUS
<1> HIDE DEF search, listing, retrieval, past, answer, T
<1>4. /\ s1 \in Seq(T) /\ Len(s1) \in 0..1
      /\ s2 \in Seq(T) /\ Len(s2) \in 0..1
      /\ s3 \in Seq(T) /\ Len(s3) \in 0..1
  BY <1>3, IfIsSequence
<1>5. /\ <<retrieval>> \in Seq(T) /\ Len(<<retrieval>>) = 1
      /\ <<answer>> \in Seq(T) /\ Len(<<answer>>) = 1
  BY <1>3
<1> HIDE DEF s1, s2, s3
<1>6. /\ unnumbered \in Seq(T)
      /\ Len(unnumbered) = Len(s1) + Len(s2) + 1 + Len(s3) + 1
  BY <1>4, <1>5, ConcatProperties
<1> HIDE DEF unnumbered
<1> DEFINE n == Len(unnumbered)
<1>7. n \in 0..5
  <2> DEFINE a == Len(s1)
             b == Len(s2)
             c == Len(s3)
  <2>1. a \in 0..1 /\ b \in 0..1 /\ c \in 0..1 /\ n = a + b + 1 + c + 1
    BY <1>4, <1>6
  <2> HIDE DEF a, b, c, n
  <2> QED
    BY <2>1
<1>8. DOMAIN unnumbered = 1..n
  BY <1>6, LenProperties
<1>9. \A i \in DOMAIN unnumbered : unnumbered[i] \in T /\ i \in 1..99
  <2>1. unnumbered \in Seq(T)
    BY <1>6
  <2>2. \A i \in 1..Len(unnumbered) : unnumbered[i] \in T
    BY <2>1, ElementOfSeq
  <2> HIDE DEF n
  <2>3. \A i \in 1..n : i \in 1..99
    BY <1>7
  <2>4. \A i \in 1..n : unnumbered[i] \in T
    BY <2>2 DEF n
  <2> QED
    BY <1>8, <2>3, <2>4
<1> DEFINE S == {Numbered(u, i) : u \in T, i \in 1..99}
<1>10. MockPlan(r) \in Seq(S)
  <2> HIDE DEF n
  <2>1. ASSUME NEW i \in 1..n PROVE Numbered(unnumbered[i], i) \in S
    <3>1. unnumbered[i] \in T /\ i \in 1..99
      BY <1>8, <1>9
    <3> QED
      BY <3>1
  <2> HIDE DEF S
  <2>2. MockPlan(r) \in [1..n -> S]
    BY <1>2, <1>8, <2>1
  <2> QED
    BY <1>7, <2>2, SeqDef
<1>11. IsSequence(MockPlan(r))
  <2> HIDE DEF S
  <2> QED
    BY <1>10, SequenceOf
<1>12. \A i \in DOMAIN MockPlan(r) : MockPlan(r)[i] \in S
  <2> HIDE DEF S
  <2> QED
    BY <1>10, ElementOfSeq, LenProperties
<1> QED
  BY <1>1, <1>11, <1>12

-----------------------------------------------------------------------------
(* Counting the steps of a plan.                                           *)
LEMMA ToldCounts ==
  ASSUME NEW j \in Nat
  PROVE  /\ Told(j) \in Nat
         /\ Told(0) = 0
         /\ Told(j + 1) = IF plan[j + 1].kind \in ToolKinds THEN Told(j) + 1 ELSE Told(j)
         /\ \A i \in 0..j : Told(i) \in Nat /\ Told(i) <= Told(j)
<1> DEFINE S(n) == {i \in 1..n : plan[i].kind \in ToolKinds}
<1>1. \A n \in Nat : IsFiniteSet(S(n)) /\ Told(n) = Cardinality(S(n)) /\ Told(n) \in Nat
  <2> TAKE n \in Nat
  <2>1. IsFiniteSet(1..n) /\ S(n) \subseteq 1..n
    BY FS_Interval
  <2> QED
    BY <2>1, FS_Subset, FS_CardinalityType DEF Told
<1>2. S(0) = {}
  OBVIOUS
<1>3. Told(0) = 0
  BY <1>1, <1>2, FS_EmptySet
<1>4. ASSUME plan[j + 1].kind \in ToolKinds PROVE Told(j + 1) = Told(j) + 1
  <2>1. S(j + 1) = S(j) \cup {j + 1} /\ j + 1 \notin S(j)
    BY <1>4
  <2> HIDE DEF S
  <2>2. Cardinality(S(j) \cup {j + 1}) = Cardinality(S(j)) + 1
    BY <1>1, <2>1, FS_AddElement
  <2>3. Cardinality(S(j + 1)) = Cardinality(S(j)) + 1
    BY <2>1, <2>2
  <2>4. Told(j + 1) = Cardinality(S(j + 1)) /\ Told(j) = Cardinality(S(j))
    BY <1>1
  <2> QED
    BY <2>3, <2>4
<1>5. ASSUME plan[j + 1].kind \notin ToolKinds PROVE Told(j + 1) = Told(j)
  <2>1. S(j + 1) = S(j)
    BY <1>5
  <2> HIDE DEF S
  <2> QED
    BY <1>1, <2>1
<1>6. \A i \in 0..j : Told(i) \in Nat /\ Told(i) <= Told(j)
  <2> TAKE i \in 0..j
  <2>1. i \in Nat /\ S(i) \subseteq S(j)
    OBVIOUS
  <2> HIDE DEF S
  <2>2. Cardinality(S(i)) <= Cardinality(S(j))
    BY <1>1, <2>1, FS_Subset
  <2> QED
    BY <1>1, <2>1, <2>2
<1> QED
  <2> HIDE DEF S
  <2>1. Told(j) \in Nat
    BY <1>1
  <2> QED
    BY <1>3, <1>4, <1>5, <1>6, <2>1

(* The tool steps have traces of their own.                                *)
LEMMA ToldAt ==
  ASSUME NEW n \in Nat, NEW j \in 1..n, plan[j].kind \in ToolKinds
  PROVE  Told(j) \in 1..Told(n)
<1>1. j - 1 \in Nat /\ (j - 1) + 1 = j /\ j \in 0..n
  OBVIOUS
<1>2. Told(j - 1) \in Nat /\ Told(j) = Told(j - 1) + 1
  BY <1>1, ToldCounts
<1>3. Told(n) \in Nat /\ Told(j) <= Told(n)
  BY <1>1, ToldCounts
<1> QED
  BY <1>2, <1>3

(* What a step that retrieves adds to the citations, and one that does not.*)
LEMMA CitedCounts ==
  ASSUME NEW j \in Nat, IsFiniteSet(CitedPairs(j)),
         j + 1 \in RagSteps => IsSequence(Found(j + 1))
  PROVE  /\ IsFiniteSet(CitedPairs(j + 1))
         /\ CitedBy(j) \in Nat
         /\ CitedBy(j + 1) = IF j + 1 \in RagSteps THEN CitedBy(j) + Len(Found(j + 1))
                             ELSE CitedBy(j)
<1> DEFINE new == {j + 1} \X DOMAIN Found(j + 1)
           n == Len(Found(j + 1))
           old == CitedPairs(j)
<1>1. CitedBy(j) = Cardinality(old) /\ CitedBy(j + 1) = Cardinality(CitedPairs(j + 1))
  BY DEF CitedBy, CitedPairs
<1>2. Cardinality(old) \in Nat
  BY FS_CardinalityType
<1>3. CASE j + 1 \in RagSteps
  <2>1. n \in Nat /\ DOMAIN Found(j + 1) = 1..n
    BY <1>3, SequenceLength
  <2>2. IsFiniteSet(new) /\ Cardinality(new) = n
    <3>1. IsFiniteSet({j + 1}) /\ Cardinality({j + 1}) = 1
      BY FS_Singleton
    <3> HIDE DEF n
    <3>2. IsFiniteSet(1..n) /\ Cardinality(1..n) = n
      BY <2>1, FS_Interval
    <3>3. IsFiniteSet(DOMAIN Found(j + 1)) /\ Cardinality(DOMAIN Found(j + 1)) = n
      BY <2>1, <3>2
    <3>4. IsFiniteSet(new) /\ Cardinality(new) = 1 * n
      BY <3>1, <3>3, FS_Product
    <3> QED
      BY <2>1, <3>4
  <2>3. old \cap new = {}
    BY DEF CitedPairs
  <2>4. RagSteps \cap (1..j + 1) = (RagSteps \cap (1..j)) \cup {j + 1}
    BY <1>3
  <2>5. CitedPairs(j + 1) = old \cup new
    BY <2>4 DEF CitedPairs
  <2> HIDE DEF old, new, n
  <2>6. IsFiniteSet(old \cup new)
    BY <2>2, FS_Union DEF old
  <2>7. Cardinality(old \cup new) = Cardinality(old) + Cardinality(new) - Cardinality(old \cap new)
    BY <2>2, FS_Union DEF old
  <2>8. Cardinality(old \cup new) = CitedBy(j) + n - 0
    BY <1>1, <2>2, <2>3, <2>7, FS_EmptySet
  <2>9. CitedBy(j + 1) = CitedBy(j) + n - 0 /\ CitedBy(j) \in Nat
    BY <1>1, <1>2, <2>5, <2>8
  <2>10. CitedBy(j + 1) = CitedBy(j) + n
    BY <2>1, <2>9
  <2> QED
    BY <1>1, <1>2, <1>3, <2>5, <2>6, <2>10 DEF n
<1>4. CASE j + 1 \notin RagSteps
  <2>1. RagSteps \cap (1..j + 1) = RagSteps \cap (1..j)
    BY <1>4
  <2>2. CitedPairs(j + 1) = old
    BY <2>1 DEF CitedPairs
  <2> HIDE DEF old
  <2> QED
    BY <1>1, <1>2, <1>4, <2>2 DEF old
<1> QED
  BY <1>3, <1>4

(* Earlier steps cited no more.                                            *)
LEMMA CitedGrows ==
  ASSUME NEW n \in Nat, IsFiniteSet(CitedPairs(n)), NEW j \in 0..n
  PROVE  IsFiniteSet(CitedPairs(j)) /\ CitedBy(j) \in Nat /\ CitedBy(j) <= CitedBy(n)
<1>1. CitedPairs(j) \subseteq CitedPairs(n)
  BY DEF CitedPairs
<1> QED
  BY <1>1, FS_Subset, FS_CardinalityType DEF CitedBy, CitedPairs

-----------------------------------------------------------------------------
(* The steps of Retrieve, and the entries its filters are to leave.        *)
Admitted(es, r) == {i \in DOMAIN es : Matches(es[i], r.asset_class)}
Fit(es, r) == {i \in Admitted(es, r) : ~Blocklisted(es[i])}
Candidates(es, r) == Kept(es, LAMBDA c : Matches(c, r.asset_class))
Surviving(es, r) == Kept(Candidates(es, r), LAMBDA c : ~Blocklisted(c))
Cited(es, r) == TopK(r.query, Surviving(es, r), r.k)
Dropped(es, r) == Len(Candidates(es, r)) - Len(Surviving(es, r))

Distinct(es) == \A i, j \in DOMAIN es : es[i] = es[j] => i = j

(* The filters leave the fit entries, and the best of those are cited.     *)
LEMMA FitAreLeft ==
  ASSUME NEW T, NEW es \in Seq(T), NEW r, r.k \in Int,
         \A c \in T : Similarity(r.query, c) \in Int
  PROVE  LET fit == Fit(es, r)
         IN  /\ Surviving(es, r) \in Seq(T) /\ Len(Surviving(es, r)) = Cardinality(fit)
             /\ Dropped(es, r) = Cardinality(Admitted(es, r) \ fit)
             /\ Dropped(es, r) \in Nat /\ Cardinality(fit) \in Nat
             /\ Cardinality(fit) = 0 => fit = {}
             /\ Cited(es, r) \in Seq(T)
             /\ Cited(es, r) = << >> <=> Surviving(es, r) = << >> \/ r.k <= 0
             /\ Distinct(es) =>
                  BestChoice(es, fit, [c \in T |-> Similarity(r.query, c)],
                             IF r.k > 0 THEN r.k ELSE 0, Cited(es, r))
<1> DEFINE admitted == Admitted(es, r)
           fit == Fit(es, r)
           good == {c \in T : ~Blocklisted(c)}
           score == [c \in T |-> Similarity(r.query, c)]
           candidates == Candidates(es, r)
           survivors == Surviving(es, r)
           asked == IF r.k > 0 THEN r.k ELSE 0
           n == Cardinality(fit)
<1>1. /\ admitted \in SUBSET DOMAIN es
      /\ \A c \in T : score[c] \in Int /\ score[c] = Similarity(r.query, c)
      /\ asked \in Nat
  BY DEF Admitted
<1>2. fit = Fitting(es, admitted, good)
  BY ElementOfSeq DEF Fit, Fitting, Admitted
<1>3. candidates = KeptAt(es, admitted)
  BY DEF Kept, Candidates, Admitted
<1> HIDE DEF admitted, fit, good, score, asked, n
<1>4. /\ IsFiniteSet(admitted)
      /\ KeptAt(es, admitted) \in Seq(T)
      /\ Len(KeptAt(es, admitted)) = Cardinality(admitted)
  BY <1>1, FitRows
<1>5. survivors = Left(es, admitted, good)
  <2>1. survivors = KeptAt(candidates, {i \in DOMAIN candidates : ~Blocklisted(candidates[i])})
    BY DEF Kept, Surviving
  <2>2. {i \in DOMAIN candidates : ~Blocklisted(candidates[i])} = GoodOf(candidates, good)
    <3>1. candidates \in Seq(T)
      BY <1>3, <1>4
    <3> HIDE DEF candidates
    <3> QED
      BY <3>1, ElementOfSeq DEF GoodOf, good
  <2> QED
    BY <1>3, <2>1, <2>2 DEF Left
<1>6. n \in Nat /\ survivors \in Seq(T)
  BY <1>1, <1>2, <1>5, FitRows DEF n
<1>7. Len(survivors) = n
  <2>1. PICK to : /\ Len(Left(es, admitted, good)) = Cardinality(Fitting(es, admitted, good))
                  /\ Chooses(to, Cardinality(Fitting(es, admitted, good)),
                             Fitting(es, admitted, good))
    BY <1>1, FitRows
  <2> HIDE DEF survivors
  <2> QED
    BY <1>2, <1>5, <2>1 DEF n
<1>8. ByScore(survivors, score) \in Seq(T)
  BY <1>1, <1>6, SortedByScore
<1>9. Len(ByScore(survivors, score)) = n
  BY <1>1, <1>6, <1>7, SortedByScore
<1>10. Descending(survivors, LAMBDA c : Similarity(r.query, c)) = ByScore(survivors, score)
  <2> HIDE DEF survivors
  <2>1. [i \in DOMAIN survivors |-> Similarity(r.query, survivors[i])]
          = [i \in DOMAIN survivors |-> score[survivors[i]]]
    BY <1>1, <1>6, ElementOfSeq
  <2> QED
    BY <2>1 DEF Descending, ByScore
<1>11. Cited(es, r) = Limit(ByScore(survivors, score), asked)
  BY <1>10 DEF TopK, Cited, asked
<1>12. /\ Cited(es, r) \in Seq(T)
       /\ Len(Cited(es, r)) = IF n <= asked THEN n ELSE asked
  <2> HIDE DEF survivors
  <2>1. ASSUME NEW rows \in Seq(T)
        PROVE  /\ Limit(rows, asked) \in Seq(T)
               /\ Len(Limit(rows, asked)) = IF Len(rows) <= asked THEN Len(rows) ELSE asked
    BY <1>1, LimitedRows
  <2>2. /\ Limit(ByScore(survivors, score), asked) \in Seq(T)
        /\ Len(Limit(ByScore(survivors, score), asked)) = IF n <= asked THEN n ELSE asked
    BY <1>8, <1>9, <2>1
  <2> QED
    BY <1>11, <2>2
<1>13. Cited(es, r) = << >> <=> survivors = << >> \/ r.k <= 0
  <2> HIDE DEF survivors
  <2> QED
    BY <1>6, <1>7, <1>12, EmptySeq DEF asked
<1>14. fit \subseteq admitted
  BY DEF fit, admitted, Fit
<1>15. IsFiniteSet(fit) /\ IsFiniteSet(admitted \ fit)
  BY <1>4, <1>14, FS_Subset
<1>16. n = 0 => fit = {}
  BY <1>15, FS_EmptySet DEF n
<1>17. Cardinality(admitted) = n + Cardinality(admitted \ fit) /\ Cardinality(admitted \ fit) \in Nat
  <2>1. fit \cup (admitted \ fit) = admitted /\ fit \cap (admitted \ fit) = {}
    BY <1>14
  <2>2. Cardinality(fit \cup (admitted \ fit)) =
          Cardinality(fit) + Cardinality(admitted \ fit) - Cardinality(fit \cap (admitted \ fit))
    BY <1>15, FS_Union
  <2>3. Cardinality({}) = 0 /\ Cardinality(admitted \ fit) \in Nat
    BY <1>15, FS_EmptySet, FS_CardinalityType
  <2>4. Cardinality(admitted) = n + Cardinality(admitted \ fit) - Cardinality({})
    BY <2>1, <2>2 DEF n
  <2> DEFINE rest == Cardinality(admitted \ fit)
             all == Cardinality(admitted)
  <2> HIDE DEF rest, all
  <2>5. rest \in Nat /\ all = n + rest - 0
    BY <2>3, <2>4 DEF rest, all
  <2>6. rest \in Nat /\ all = n + rest
    BY <1>6, <2>5
  <2> QED
    BY <2>6 DEF rest, all
<1>18. Dropped(es, r) = Cardinality(admitted \ fit)
  <2> DEFINE rest == Cardinality(admitted \ fit)
             all == Cardinality(admitted)
  <2>1. Dropped(es, r) = all - n
    BY <1>3, <1>4, <1>7 DEF Dropped
  <2> HIDE DEF rest, all
  <2>2. Dropped(es, r) = rest
    BY <1>6, <1>17, <2>1 DEF rest, all
  <2> QED
    BY <2>2 DEF rest
<1>19. ASSUME Distinct(es) PROVE BestChoice(es, fit, score, asked, Cited(es, r))
  <2>1. \A i, j \in DOMAIN es : es[i] = es[j] => i = j
    BY <1>19 DEF Distinct
  <2> QED
    BY <1>1, <1>2, <1>5, <1>11, <2>1, BestAreChosen
<1> QED
  BY <1>6, <1>7, <1>12, <1>13, <1>16, <1>17, <1>18, <1>19 DEF n, fit, admitted, score, asked

(* Every result of a retrieval is an error where one is due, or sound.     *)
LEMMA RetrieveIsSound ==
  ASSUME NEW T, NEW es \in Seq(T), Distinct(es), NEW r, r.k \in Int, r.blank \in BOOLEAN,
         \A c \in T : Similarity(r.query, c) \in Int
  PROVE  IF Retrieve(es, r).kind = "result"
           THEN ~r.blank /\ SoundResult(es, r, Retrieve(es, r))
           ELSE r.blank \/ r.k <= 0
<1> DEFINE cited == Cited(es, r)
           fit == Fit(es, r)
           admitted == Admitted(es, r)
           score == [c \in T |-> Similarity(r.query, c)]
           asked == IF r.k > 0 THEN r.k ELSE 0
           band == ClassifyConfidence(Similarity(r.query, cited[1]))
           res == Retrieve(es, r)
<1>1. res = IF r.blank THEN Raised("ValueError")
            ELSE IF Surviving(es, r) = << >> THEN Result(<< >>, "none", Dropped(es, r))
            ELSE IF cited = << >> THEN Raised("IndexError")
            ELSE Result(cited, band, Dropped(es, r))
  BY DEF Retrieve, Candidates, Surviving, Dropped, Cited
<1>2. /\ Dropped(es, r) = Cardinality(admitted \ fit)
      /\ cited = << >> <=> Surviving(es, r) = << >> \/ r.k <= 0
      /\ Cardinality(fit) \in Nat
      /\ Cardinality(fit) = 0 => fit = {}
  BY FitAreLeft
<1>3. BestChoice(es, fit, score, asked, cited)
  BY FitAreLeft
<1>4. Surviving(es, r) = << >> => Cardinality(fit) = 0
  <2>1. Len(Surviving(es, r)) = Cardinality(fit)
    BY FitAreLeft
  <2> QED
    BY <2>1
<1>5. fit \subseteq DOMAIN es /\ \A c \in T : score[c] = Similarity(r.query, c) /\ score[c] \in Int
  BY DEF Fit, Admitted
<1>6. cited \in Seq(T)
  BY FitAreLeft
<1> HIDE DEF cited, fit, admitted, score, asked, band, res
<1>7. ASSUME res = Result(cited, IF cited = << >> THEN "none" ELSE band, Dropped(es, r)),
             cited = << >> => fit = {}
      PROVE  SoundResult(es, r, res)
  <2>1. /\ res.citations = cited /\ res.dropped = Cardinality(admitted \ fit)
        /\ res.confidence = IF cited = << >> THEN "none" ELSE band
    BY <1>2, <1>7 DEF Result
  <2> DEFINE taken == {i \in fit : \E j \in DOMAIN cited : cited[j] = es[i]}
  <2>2. /\ Len(cited) = IF Cardinality(fit) <= asked THEN Cardinality(fit) ELSE asked
        /\ Cardinality(taken) = Len(cited)
        /\ \A i \in taken, j \in fit \ taken : score[es[i]] >= score[es[j]]
        /\ \A i, j \in DOMAIN cited : i < j => score[cited[i]] >= score[cited[j]]
        /\ cited # << >> =>
             \A i \in fit : cited[1] \in {es[j] : j \in fit} /\ score[cited[1]] >= score[es[i]]
    BY <1>3 DEF BestChoice
  <2> HIDE DEF taken
  <2>3. Len(cited) = IF 0 < r.k /\ r.k < Cardinality(fit) THEN r.k ELSE Cardinality(fit)
    <3>1. Cardinality(fit) = 0 \/ r.k > 0
      <4>1. CASE cited = << >>
        BY <1>7, <4>1, FS_EmptySet
      <4>2. CASE cited # << >>
        BY <1>2, <4>2
      <4> QED
        BY <4>1, <4>2
    <3> QED
      BY <1>2, <2>2, <3>1 DEF asked
  <2>4. /\ \A i \in DOMAIN es : score[es[i]] = Similarity(r.query, es[i]) /\ score[es[i]] \in Int
        /\ \A i \in DOMAIN cited : score[cited[i]] = Similarity(r.query, cited[i])
    BY <1>5, <1>6, ElementOfSeq
  <2>5. /\ \A i \in taken, j \in fit \ taken :
             Similarity(r.query, es[i]) >= Similarity(r.query, es[j])
        /\ \A i, j \in DOMAIN cited :
             i < j => Similarity(r.query, cited[i]) >= Similarity(r.query, cited[j])
    BY <1>5, <2>2, <2>4 DEF taken
  <2>6. res.confidence = "none" <=> cited = << >>
    BY <2>1 DEF band, ClassifyConfidence
  <2>7. ASSUME cited # << >>
        PROVE  \E k \in fit :
                 /\ cited[1] = es[k]
                 /\ \A i \in fit : Similarity(r.query, es[k]) >= Similarity(r.query, es[i])
    <3>1. fit # {}
      <4>1. ASSUME fit = {} PROVE FALSE
        <5>1. Cardinality(fit) = 0
          BY <4>1, FS_EmptySet
        <5>2. Len(cited) = 0
          BY <2>3, <5>1
        <5> QED
          BY <1>6, <2>7, <5>2, EmptySeq
      <4> QED
        BY <4>1
    <3>2. PICK k \in fit : cited[1] = es[k]
      BY <2>2, <2>7, <3>1
    <3>3. \A i \in fit : score[es[k]] >= score[es[i]]
      BY <2>2, <2>7, <3>2
    <3>4. \A i \in fit : score[es[i]] = Similarity(r.query, es[i])
      BY <1>5, <2>4
    <3> QED
      BY <3>2, <3>3, <3>4
  <2>8. /\ res.confidence \in {"none", "low", "medium", "high"}
        /\ res.confidence = "high" <=>
             \E i \in fit : Similarity(r.query, es[i]) >= MediumThreshold
        /\ res.confidence \in {"medium", "high"} <=>
             \E i \in fit : Similarity(r.query, es[i]) >= ConfidenceThreshold
    <3>1. CASE cited = << >>
      <4>1. res.confidence = "none" /\ fit = {}
        BY <1>7, <2>1, <3>1
      <4> QED
        BY <4>1
    <3>2. CASE cited # << >>
      <4>1. PICK k \in fit :
              /\ cited[1] = es[k]
              /\ \A i \in fit : Similarity(r.query, es[k]) >= Similarity(r.query, es[i])
        BY <2>7, <3>2
      <4> DEFINE top == Similarity(r.query, es[k])
      <4>2. res.confidence = ClassifyConfidence(top)
        BY <2>1, <3>2, <4>1 DEF band
      <4>3. \A i \in fit : Similarity(r.query, es[i]) \in Int /\ top >= Similarity(r.query, es[i])
        BY <1>5, <2>4, <4>1
      <4>4. top \in Int
        BY <4>3
      <4>5. \A t \in Int : top >= t <=> \E i \in fit : Similarity(r.query, es[i]) >= t
        <5> HIDE DEF top
        <5>1. \A t \in Int, i \in fit : Similarity(r.query, es[i]) >= t => top >= t
          BY <4>3, <4>4
        <5>2. \A t \in Int : top >= t => Similarity(r.query, es[k]) >= t
          BY DEF top
        <5> QED
          BY <5>1, <5>2
      <4>6. /\ top >= MediumThreshold <=>
                 \E i \in fit : Similarity(r.query, es[i]) >= MediumThreshold
            /\ top >= ConfidenceThreshold <=>
                 \E i \in fit : Similarity(r.query, es[i]) >= ConfidenceThreshold
        <5>1. MediumThreshold \in Int /\ ConfidenceThreshold \in Int
          BY DEF MediumThreshold, ConfidenceThreshold
        <5> HIDE DEF top
        <5> QED
          BY <4>5, <5>1
      <4> HIDE DEF top
      <4>7. /\ res.confidence \in {"none", "low", "medium", "high"}
            /\ res.confidence = "high" <=> top >= MediumThreshold
            /\ res.confidence \in {"medium", "high"} <=> top >= ConfidenceThreshold
        BY <4>2, <4>4 DEF ClassifyConfidence, MediumThreshold, ConfidenceThreshold
      <4> QED
        BY <4>6, <4>7
    <3> QED
      BY <3>1, <3>2
  <2> QED
    BY <2>1, <2>2, <2>3, <2>5, <2>6, <2>8
    DEF SoundResult, taken, admitted, fit, Admitted, Fit
<1>8. CASE r.blank
  BY <1>1, <1>8 DEF Raised, res
<1>9. CASE ~r.blank /\ Surviving(es, r) = << >>
  <2>1. res = Result(cited, "none", Dropped(es, r)) /\ cited = << >> /\ fit = {}
    BY <1>1, <1>2, <1>4, <1>9
  <2> QED
    BY <1>7, <1>9, <2>1 DEF Result, res
<1>10. CASE ~r.blank /\ Surviving(es, r) # << >> /\ cited = << >>
  BY <1>1, <1>2, <1>10 DEF Raised, res
<1>11. CASE ~r.blank /\ Surviving(es, r) # << >> /\ cited # << >>
  <2>1. res = Result(cited, band, Dropped(es, r))
    BY <1>1, <1>11
  <2> QED
    BY <1>7, <1>11, <2>1 DEF Result, res
<1> QED
  BY <1>8, <1>9, <1>10, <1>11

(* So of every step of a plan that retrieves.                              *)
LEMMA StepRetrieves ==
  ASSUME NEW es \in Indexes, NEW s, IsStep(s), s.kind = "rag_query"
  PROVE  /\ IF Retrieve(es, s).kind = "result"
              THEN ~s.blank /\ SoundResult(es, s, Retrieve(es, s))
              ELSE s.blank \/ s.k <= 0
         /\ Retrieve(es, s).kind = "result" =>
              /\ IsSequence(Retrieve(es, s).citations)
              /\ Retrieve(es, s).confidence \in Bands
              /\ Retrieve(es, s).dropped \in Nat
<1> DEFINE T == {es[i] : i \in DOMAIN es}
<1>1. es \in Seq(T) /\ Distinct(es)
  BY ChainAssumption DEF IsSequence, Distinct
<1>2. s.k \in Int /\ s.blank \in BOOLEAN /\ \A c \in T : Similarity(s.query, c) \in Int
  BY DEF IsStep, Scored
<1> HIDE DEF T
<1>3. IF Retrieve(es, s).kind = "result"
        THEN ~s.blank /\ SoundResult(es, s, Retrieve(es, s))
        ELSE s.blank \/ s.k <= 0
  BY <1>1, <1>2, RetrieveIsSound
<1>4. Cited(es, s) \in Seq(T)
  BY <1>1, <1>2, FitAreLeft
<1>5. Dropped(es, s) \in Nat
  BY <1>1, <1>2, FitAreLeft
<1>6. IsSequence(Cited(es, s)) /\ IsSequence(<< >>)
  <2>1. << >> \in Seq(T)
    BY EmptySeq
  <2> QED
    BY <1>4, <2>1, SequenceOf
<1> DEFINE band == ClassifyConfidence(Similarity(s.query, Cited(es, s)[1]))
<1>7. Retrieve(es, s) =
        IF s.blank THEN Raised("ValueError")
        ELSE IF Surviving(es, s) = << >> THEN Result(<< >>, "none", Dropped(es, s))
        ELSE IF Cited(es, s) = << >> THEN Raised("IndexError")
        ELSE Result(Cited(es, s), band, Dropped(es, s))
  BY DEF Retrieve, Candidates, Surviving, Dropped, Cited
<1>8. band \in Bands
  BY DEF ClassifyConfidence, Bands
<1> HIDE DEF band
<1>9. ASSUME Retrieve(es, s).kind = "result"
      PROVE  /\ IsSequence(Retrieve(es, s).citations)
             /\ Retrieve(es, s).confidence \in Bands
             /\ Retrieve(es, s).dropped \in Nat
  <2>1. \/ Retrieve(es, s) = Result(<< >>, "none", Dropped(es, s))
        \/ Retrieve(es, s) = Result(Cited(es, s), band, Dropped(es, s))
    BY <1>7, <1>9 DEF Raised
  <2> QED
    BY <1>5, <1>6, <1>8, <2>1 DEF Result, Bands
<1> QED
  BY <1>3, <1>9

-----------------------------------------------------------------------------
(* A turn that begins, and one the planner refuses.                        *)
Fresh ==
  /\ index \in Indexes
  /\ stage \in {"idle", "running"}
  /\ IsSequence(plan)
  /\ \A j \in DOMAIN plan : IsStep(plan[j])
  /\ next = 1
  /\ outputs = << >> /\ trace = << >> /\ citations = << >> /\ similar = << >>
  /\ confidence = "none" /\ dropped = 0
  /\ reply = None \/ (stage = "idle" /\ reply = [kind |-> "unhandled", error |-> "OverflowError"])

LEMMA FreshInv == Fresh => IInv
<1> SUFFICES ASSUME Fresh PROVE IInv
  OBVIOUS
<1> USE DEF Fresh
<1>1. IsSequence(<< >>) /\ Len(<< >>) = 0 /\ DOMAIN << >> = {}
  BY EmptySequence
<1>2. next - 1 = 0 /\ Done = {} /\ Len(plan) \in Nat
  BY SequenceLength DEF Done
<1>3. Told(0) = 0
  BY ToldCounts
<1>4. RagSteps \cap 1..0 = {}
  OBVIOUS
<1>5. CitedPairs(0) = {}
  BY <1>4 DEF CitedPairs
<1>6. CitedBy(0) = 0 /\ IsFiniteSet(CitedPairs(0))
  BY <1>5, FS_EmptySet DEF CitedBy, CitedPairs
<1>7. TypeOK
  BY <1>1, <1>2, <1>3 DEF TypeOK, Bands
<1>8. TraceInv /\ OutputInv /\ ComposeInv /\ SimilarInv
  BY <1>1, <1>2 DEF TraceInv, OutputInv, ComposeInv, SimilarInv, Searched
<1>9. CiteInv
  BY <1>1, <1>2, <1>6 DEF CiteInv, Asked
<1>10. ReplyInv
  BY DEF ReplyInv, Answered
<1> QED
  BY <1>7, <1>8, <1>9, <1>10 DEF IInv

LEMMA InitInv == Init => IInv
<1> SUFFICES ASSUME Init PROVE Fresh
  BY FreshInv
<1>1. IsSequence(<< >>) /\ DOMAIN << >> = {}
  BY EmptySequence
<1> QED
  BY <1>1 DEF Init, Fresh

LEMMA BeginInv == ASSUME IInv, PlanByMock \/ PlanByLLM \/ MockPlanRaises PROVE IInv'
<1> SUFFICES Fresh'
  BY FreshInv, PTL
<1>1. index \in Indexes /\ stage \in {"idle", "running"}
  BY DEF IInv, TypeOK
<1>2. ASSUME NEW steps, Begin(steps), IsSequence(steps), \A j \in DOMAIN steps : IsStep(steps[j])
      PROVE  Fresh'
  BY <1>1, <1>2 DEF Begin, Fresh
<1>3. CASE PlanByMock
  BY <1>2, <1>3, MockPlanIsPlan DEF PlanByMock
<1>4. CASE PlanByLLM
  BY <1>2, <1>4, ChainAssumption DEF PlanByLLM
<1>5. CASE MockPlanRaises
  <2>1. IsSequence(<< >>) /\ DOMAIN << >> = {}
    BY EmptySequence
  <2> QED
    BY <1>1, <1>5, <2>1 DEF MockPlanRaises, Fresh
<1> QED
  BY <1>3, <1>4, <1>5

-----------------------------------------------------------------------------
(* The outcome of a step moves the turn on by one.                         *)
Advances(o) ==
  /\ stage = "running"
  /\ next <= Len(plan)
  /\ outputs' = Put(outputs, plan[next].id, o)
  /\ next' = next + 1
  /\ UNCHANGED <<index, stage, plan, reply>>

LEMMA AdvancedTurn ==
  ASSUME TypeOK, NEW o, Advances(o)
  PROVE  /\ DOMAIN plan = 1..Len(plan) /\ next \in DOMAIN plan /\ IsStep(plan[next])
         /\ next - 1 \in Nat /\ (next - 1) + 1 = next /\ next' - 1 = next
         /\ next' \in 1..Len(plan') + 1
         /\ IsSequence(outputs) /\ IsSequence(outputs')
         /\ Len(outputs') <= next' - 1
         /\ \A i \in DOMAIN outputs' : \E j \in 1..next' - 1 : plan'[j].id = outputs'[i].id
         /\ Done' = Done \cup {next} /\ next \notin Done /\ Done \subseteq DOMAIN plan
         /\ Done = 1..next - 1
         /\ ReplyInv'
<1> USE DEF Advances
<1>1. /\ IsSequence(plan) /\ IsSequence(outputs) /\ next \in 1..Len(plan) + 1
      /\ Len(outputs) <= next - 1
      /\ \A i \in DOMAIN outputs : \E j \in 1..next - 1 : plan[j].id = outputs[i].id
  BY DEF TypeOK
<1>2. /\ Len(plan) \in Nat /\ DOMAIN plan = 1..Len(plan)
      /\ Len(outputs) \in Nat /\ DOMAIN outputs = 1..Len(outputs)
  BY <1>1, SequenceLength
<1>3. /\ next \in DOMAIN plan /\ next - 1 \in Nat /\ (next - 1) + 1 = next /\ next' - 1 = next
      /\ next' \in 1..Len(plan') + 1
      /\ Done' = Done \cup {next} /\ next \notin Done /\ Done \subseteq DOMAIN plan
  BY <1>1, <1>2 DEF Done
<1>4. IsStep(plan[next])
  BY <1>3 DEF TypeOK
<1> DEFINE new == Put(outputs, plan[next].id, o)
<1>5. /\ IsSequence(new)
      /\ Len(new) \in {Len(outputs), Len(outputs) + 1}
      /\ OldOrOf(plan[next].id, new, outputs)
  BY <1>1, PutItem
<1> HIDE DEF new
<1>6. Len(new) <= next
  BY <1>1, <1>2, <1>5
<1>7. \A i \in DOMAIN new : \E j \in 1..next : plan[j].id = new[i].id
  <2> TAKE i \in DOMAIN new
  <2>1. CASE new[i].id = plan[next].id
    <3>1. next \in 1..next
      BY <1>2, <1>3
    <3> QED
      BY <2>1, <3>1
  <2>2. CASE i \in DOMAIN outputs /\ new[i] = outputs[i]
    <3>1. PICK j \in 1..next - 1 : plan[j].id = outputs[i].id
      BY <1>1, <2>2
    <3>2. j \in 1..next
      BY <1>1, <1>2
    <3> QED
      BY <2>2, <3>1, <3>2
  <2> QED
    BY <1>5, <2>1, <2>2 DEF OldOrOf
<1>8. outputs' = new
  BY DEF new
<1>9. reply' = None
  BY DEF TypeOK
<1>10. ReplyInv'
  BY <1>9 DEF ReplyInv, Answered
<1> QED
  BY <1>1, <1>2, <1>3, <1>4, <1>5, <1>6, <1>7, <1>8, <1>10 DEF Done

(* Under ids of their own its output is the next of the outputs.           *)
LEMMA AdvancedOutputs ==
  ASSUME TypeOK, OutputInv, UniqueIds, NEW o, Advances(o)
  PROVE  /\ Len(outputs) = next - 1 /\ DOMAIN outputs = Done /\ Len(outputs') = next
         /\ \A j \in Done : outputs'[j] = outputs[j]
         /\ outputs'[next] = [id |-> plan[next].id, output |-> o]
         /\ outputs' = Append(outputs, [id |-> plan[next].id, output |-> o])
<1>1. /\ IsSequence(outputs) /\ next \in DOMAIN plan /\ next \notin Done /\ Done \subseteq DOMAIN plan
      /\ (next - 1) + 1 = next /\ Done = 1..next - 1
  BY AdvancedTurn
<1>2. Len(outputs) = next - 1 /\ \A j \in Done : outputs[j].id = plan[j].id
  BY DEF OutputInv, OutputOf
<1>3. DOMAIN outputs = Done
  BY <1>1, <1>2, SequenceLength
<1>4. \A i \in DOMAIN outputs : outputs[i].id # plan[next].id
  BY <1>1, <1>2, <1>3 DEF UniqueIds
<1> DEFINE item == [id |-> plan[next].id, output |-> o]
<1>5. outputs' = Append(outputs, item)
  BY <1>1, <1>4, PutItem DEF Advances
<1> HIDE DEF item
<1>6. /\ Len(outputs') = (next - 1) + 1
      /\ \A j \in 1..next - 1 : outputs'[j] = outputs[j]
      /\ outputs'[(next - 1) + 1] = item
  BY <1>1, <1>2, <1>5, AppendedSequence
<1> QED
  BY <1>1, <1>2, <1>3, <1>5, <1>6 DEF item

(* What a step that calls no tool leaves alone.                            *)
LEMMA TraceStays ==
  ASSUME TypeOK, TraceInv, SimilarInv, NEW o, Advances(o), plan[next].kind \notin ToolKinds,
         UNCHANGED <<trace, similar>>
  PROVE  TraceInv' /\ SimilarInv' /\ Len(trace') = Told(next) /\ \A j : Told(j)' = Told(j)
<1>1. /\ next - 1 \in Nat /\ (next - 1) + 1 = next /\ next' - 1 = next
      /\ Done' = Done \cup {next}
  BY AdvancedTurn
<1>2. plan' = plan
  BY DEF Advances
<1>3. Told(next) = Told(next - 1)
  BY <1>1, ToldCounts
<1>4. \A j : Told(j)' = Told(j)
  BY <1>2 DEF Told
<1>5. ToolSteps' \cap Done' = ToolSteps \cap Done
  BY <1>1, <1>2 DEF ToolSteps
<1>6. TraceInv'
  BY <1>2, <1>4, <1>5 DEF TraceInv
<1>7. plan[next].kind # "search_similar_tickets"
  BY DEF ToolKinds
<1>8. Searched' = Searched
  BY <1>1, <1>2, <1>4, <1>7 DEF Searched
<1>9. SimilarInv'
  BY <1>2, <1>8 DEF SimilarInv
<1>10. Len(trace') = Told(next)
  BY <1>3 DEF TypeOK
<1> QED
  BY <1>4, <1>6, <1>9, <1>10

(* What a step that retrieves nothing leaves alone.                        *)
LEMMA CitationsStay ==
  ASSUME TypeOK, CiteInv, NEW o, Advances(o), plan[next].kind # "rag_query",
         UNCHANGED <<citations, confidence, dropped>>
  PROVE  CiteInv'
<1>1. /\ next - 1 \in Nat /\ (next - 1) + 1 = next /\ next' - 1 = next
      /\ Done' = Done \cup {next} /\ Done = 1..next - 1
  BY AdvancedTurn
<1>2. plan' = plan /\ index' = index
  BY DEF Advances
<1>3. next \notin RagSteps
  BY DEF RagSteps
<1>4. IsFiniteSet(CitedPairs(next)) /\ CitedBy(next) = CitedBy(next - 1)
  BY <1>1, <1>3, CitedCounts DEF CiteInv
<1>5. RagSteps' = RagSteps /\ Asked' = Asked
  BY <1>1, <1>2, <1>3 DEF RagSteps, Asked
<1>6. \A j : Found(j)' = Found(j)
  BY <1>2 DEF Found
<1>7. \A j : CitedPairs(j)' = CitedPairs(j)
  BY <1>5, <1>6 DEF CitedPairs
<1>8. \A j : CitedBy(j)' = CitedBy(j)
  BY <1>7 DEF CitedBy, CitedPairs
<1> QED
  BY <1>1, <1>2, <1>4, <1>5, <1>6, <1>7, <1>8 DEF CiteInv

-----------------------------------------------------------------------------
(* A step that calls a tool, whatever becomes of the call.                 *)
LEMMA ToolStepInv ==
  ASSUME IInv, Running(ToolKinds),
         NEW outcome \in {"success", "error"}, NEW o,
         o = IF outcome = "success" THEN ToolAnswer(plan[next]) ELSE None,
         ToolAnswer(plan[next]) = None => outcome = "error",
         Advances(o),
         trace' = Append(trace, TraceStep(outcome)),
         similar' = IF outcome = "success" /\ plan[next].kind = "search_similar_tickets"
                      THEN o.rows ELSE similar,
         UNCHANGED <<citations, confidence, dropped>>
  PROVE  IInv'
<1> USE DEF IInv
<1>1. /\ DOMAIN plan = 1..Len(plan) /\ next \in DOMAIN plan
      /\ next - 1 \in Nat /\ (next - 1) + 1 = next /\ next' - 1 = next
      /\ next' \in 1..Len(plan') + 1
      /\ IsSequence(outputs') /\ Len(outputs') <= next' - 1
      /\ \A i \in DOMAIN outputs' : \E j \in 1..next' - 1 : plan'[j].id = outputs'[i].id
      /\ Done' = Done \cup {next} /\ next \notin Done /\ Done = 1..next - 1
      /\ Done \subseteq DOMAIN plan
      /\ ReplyInv'
  BY AdvancedTurn
<1>2. /\ plan' = plan /\ index' = index /\ stage' = stage /\ reply' = reply
      /\ plan[next].kind \in ToolKinds
  BY DEF Advances, Running, Current
<1>3. plan[next].kind \notin {"rag_query", "compose", "mismatched"}
  BY <1>2 DEF ToolKinds
<1>4. \A j : Told(j)' = Told(j)
  BY <1>2 DEF Told
<1>5. Told(next) = Told(next - 1) + 1 /\ Told(next - 1) \in Nat
  BY <1>1, <1>2, ToldCounts
<1>6. IsSequence(trace) /\ Len(trace) = Told(next - 1)
  BY DEF TypeOK
<1>7. /\ IsSequence(trace') /\ Len(trace') = Told(next)
      /\ \A i \in 1..Told(next - 1) : trace'[i] = trace[i]
      /\ trace'[Told(next)] = TraceStep(outcome)
  BY <1>5, <1>6, AppendedSequence
<1>8. \A j \in ToolSteps \cap Done : trace'[Told(j)] = trace[Told(j)]
  <2> TAKE j \in ToolSteps \cap Done
  <2>1. Told(j) \in 1..Told(next - 1)
    BY <1>1, ToldAt DEF ToolSteps
  <2> QED
    BY <1>7, <2>1
<1>9. ToolSteps' = ToolSteps /\ next \in ToolSteps /\ RagSteps' = RagSteps
  BY <1>1, <1>2 DEF ToolSteps, RagSteps
<1>10. /\ trace'[Told(next)].tool = plan[next].tool
       /\ trace'[Told(next)].outcome = outcome
  BY <1>7 DEF TraceStep, Current
<1>11. TypeOK'
  <2>1. /\ index' \in Indexes /\ stage' \in {"idle", "running"}
        /\ \A j \in DOMAIN plan' : IsStep(plan'[j])
        /\ IsSequence(plan') /\ IsSequence(citations')
        /\ confidence' \in Bands /\ dropped' \in Nat
        /\ stage' = "running" => reply' = None
    BY <1>2 DEF TypeOK
  <2>2. Len(trace)' = Told(next - 1)'
    BY <1>1, <1>4, <1>7
  <2> QED
    BY <1>1, <1>7, <2>1, <2>2 DEF TypeOK
<1>12. TraceInv'
  <2> SUFFICES ASSUME NEW j \in ToolSteps \cap (Done \cup {next})
               PROVE  /\ trace'[Told(j)].tool = plan[j].tool
                      /\ trace'[Told(j)].outcome \in {"success", "error"}
                      /\ ToolAnswer(plan[j]) = None => trace'[Told(j)].outcome = "error"
    BY <1>1, <1>2, <1>4, <1>9 DEF TraceInv
  <2>1. CASE j \in Done
    BY <1>8, <2>1 DEF TraceInv
  <2>2. CASE j = next
    BY <1>10, <2>2
  <2> QED
    BY <2>1, <2>2
<1>13. OutputInv'
  <2> SUFFICES ASSUME UniqueIds
               PROVE  Len(outputs') = next /\ \A j \in Done \cup {next} : OutputOf(j)'
    BY <1>1, <1>2 DEF OutputInv, UniqueIds
  <2>1. /\ Len(outputs') = next
        /\ \A j \in Done : outputs'[j] = outputs[j]
        /\ outputs'[next] = [id |-> plan[next].id, output |-> o]
    BY AdvancedOutputs
  <2>2. ASSUME NEW j \in Done PROVE OutputOf(j)'
    <3>1. OutputOf(j)
      BY DEF OutputInv
    <3>2. j \in ToolSteps => trace'[Told(j)] = trace[Told(j)]
      BY <1>8
    <3> QED
      BY <1>2, <1>4, <1>9, <2>1, <3>1, <3>2 DEF OutputOf
  <2>3. ASSUME NEW j, j = next PROVE OutputOf(j)'
    <3>1. outputs'[j].id = plan[j].id /\ outputs'[j].output = o
      BY <2>1, <2>3
    <3> QED
      BY <1>2, <1>3, <1>4, <1>9, <1>10, <2>3, <3>1 DEF OutputOf, RagSteps
  <2> QED
    BY <2>1, <2>2, <2>3
<1>14. ComposeInv'
  BY <1>1, <1>2, <1>3 DEF ComposeInv
<1>15. Searched' = IF outcome = "success" /\ plan[next].kind = "search_similar_tickets"
                     THEN Searched \cup {next} ELSE Searched
  <2>1. \A j \in Done : plan[j].kind = "search_similar_tickets" =>
          trace'[Told(j)].outcome = trace[Told(j)].outcome
    <3> SUFFICES ASSUME NEW j \in Done, plan[j].kind = "search_similar_tickets"
                 PROVE  j \in ToolSteps \cap Done
      BY <1>8
    <3> QED
      BY <1>1 DEF ToolSteps, ToolKinds
  <2> QED
    BY <1>1, <1>2, <1>4, <1>10, <2>1 DEF Searched
<1>16. SimilarInv'
  <2>1. CASE outcome = "success" /\ plan[next].kind = "search_similar_tickets"
    <3>1. Searched' = Searched \cup {next}
      BY <1>15, <2>1
    <3>2. \A j \in Searched : j \in Int /\ j < next
      BY <1>1 DEF Searched
    <3>3. similar' = ToolAnswer(plan[next]).rows
      BY <2>1
    <3>4. next \in Int
      BY <1>1
    <3>5. ASSUME NEW j \in Searched', \A i \in Searched' : i <= j PROVE j = next
      <4>1. next <= j /\ (j \in Searched \/ j = next)
        BY <3>1, <3>5
      <4>2. j \in Searched => j \in Int /\ j < next
        BY <3>2
      <4> QED
        BY <3>4, <4>1, <4>2
    <3>6. plan' = plan /\ Searched' # {}
      BY <1>2, <3>1
    <3>7. \A j \in Searched' : (\A i \in Searched' : i <= j) =>
            similar' = ToolAnswer(plan'[j]).rows
      BY <3>3, <3>5, <3>6
    <3> QED
      BY <3>6, <3>7 DEF SimilarInv
  <2>2. CASE ~(outcome = "success" /\ plan[next].kind = "search_similar_tickets")
    BY <1>2, <1>15, <2>2 DEF SimilarInv
  <2> QED
    BY <2>1, <2>2
<1>17. CiteInv'
  BY <1>3, CitationsStay
<1> QED
  BY <1>1, <1>11, <1>12, <1>13, <1>14, <1>16, <1>17

LEMMA ToolFailsInv == ASSUME IInv, ToolFails PROVE IInv'
<1>1. Advances(None)
  BY DEF ToolFails, Running, Current, Advances
<1> QED
  BY <1>1, ToolStepInv DEF ToolFails

LEMMA ToolSucceedsInv == ASSUME IInv, ToolSucceeds PROVE IInv'
<1>1. PICK o : o = ToolAnswer(plan[next]) /\ o # None /\ Advances(o)
  BY DEF ToolSucceeds, Running, Current, Advances
<1>2. similar' = IF plan[next].kind = "search_similar_tickets" THEN o.rows ELSE similar
  BY <1>1 DEF ToolSucceeds, Current
<1> QED
  BY <1>1, <1>2, ToolStepInv DEF ToolSucceeds

(* A step that calls no tool, but for what it does to the citations.       *)
LEMMA OtherStep ==
  ASSUME IInv, NEW o, Advances(o),
         IF plan[next].kind = "rag_query" THEN o = [shape |-> "retrieval"] ELSE o.shape = "text",
         plan[next].kind \in {"rag_query", "compose"},
         UNCHANGED <<trace, similar>>,
         IsSequence(citations') /\ confidence' \in Bands /\ dropped' \in Nat
  PROVE  TypeOK' /\ TraceInv' /\ OutputInv' /\ SimilarInv' /\ ReplyInv'
<1> USE DEF IInv
<1>1. /\ DOMAIN plan = 1..Len(plan) /\ next \in DOMAIN plan /\ IsStep(plan[next])
      /\ next - 1 \in Nat /\ (next - 1) + 1 = next /\ next' - 1 = next
      /\ next' \in 1..Len(plan') + 1
      /\ IsSequence(outputs') /\ Len(outputs') <= next' - 1
      /\ \A i \in DOMAIN outputs' : \E j \in 1..next' - 1 : plan'[j].id = outputs'[i].id
      /\ Done' = Done \cup {next} /\ next \notin Done /\ Done = 1..next - 1
      /\ ReplyInv'
  BY AdvancedTurn
<1>2. /\ plan' = plan /\ index' = index /\ stage' = stage /\ reply' = reply
      /\ plan[next].kind \notin ToolKinds
  BY DEF Advances, ToolKinds
<1>3. /\ TraceInv' /\ SimilarInv' /\ Len(trace') = Told(next)
      /\ \A j : Told(j)' = Told(j)
  BY <1>2, TraceStays
<1>4. TypeOK'
  <2>1. /\ index' \in Indexes /\ stage' \in {"idle", "running"}
        /\ \A j \in DOMAIN plan' : IsStep(plan'[j])
        /\ IsSequence(plan') /\ IsSequence(trace')
        /\ stage' = "running" => reply' = None
    BY <1>2 DEF TypeOK
  <2>2. Len(trace)' = Told(next - 1)'
    BY <1>1, <1>3
  <2> QED
    BY <1>1, <2>1, <2>2 DEF TypeOK
<1>5. ToolSteps' = ToolSteps /\ next \notin ToolSteps /\ RagSteps' = RagSteps
  BY <1>2 DEF ToolSteps, RagSteps
<1>6. OutputInv'
  <2> SUFFICES ASSUME UniqueIds
               PROVE  Len(outputs') = next /\ \A j \in Done \cup {next} : OutputOf(j)'
    BY <1>1, <1>2 DEF OutputInv, UniqueIds
  <2>1. /\ Len(outputs') = next
        /\ \A j \in Done : outputs'[j] = outputs[j]
        /\ outputs'[next] = [id |-> plan[next].id, output |-> o]
    BY AdvancedOutputs
  <2>2. ASSUME NEW j \in Done PROVE OutputOf(j)'
    <3>1. OutputOf(j)
      BY DEF OutputInv
    <3> QED
      BY <1>2, <1>3, <1>5, <2>1, <3>1 DEF OutputOf
  <2>3. ASSUME NEW j, j = next PROVE OutputOf(j)'
    <3>1. outputs'[j].id = plan[j].id /\ outputs'[j].output = o
      BY <2>1, <2>3
    <3> QED
      BY <1>1, <1>2, <1>5, <2>3, <3>1 DEF OutputOf, RagSteps
  <2> QED
    BY <2>1, <2>2, <2>3
<1> QED
  BY <1>1, <1>3, <1>4, <1>6

LEMMA ComposeStepInv == ASSUME IInv, Compose PROVE IInv'
<1> DEFINE text == ComposeAnswer(outputs, citations, confidence, dropped, Len(trace) + 1)
           o == [shape |-> "text", text |-> text]
<1>1. /\ Advances(o) /\ plan[next].kind = "compose"
      /\ UNCHANGED <<trace, citations, confidence, dropped, similar>>
  BY DEF Compose, Running, Current, Advances
<1>2. o.shape = "text" /\ o.text = text
  OBVIOUS
<1> HIDE DEF o, text
<1>3. IsSequence(citations') /\ confidence' \in Bands /\ dropped' \in Nat
  BY <1>1 DEF IInv, TypeOK
<1>4. TypeOK' /\ TraceInv' /\ OutputInv' /\ SimilarInv' /\ ReplyInv'
  BY <1>1, <1>2, <1>3, OtherStep
<1>5. CiteInv'
  BY <1>1, CitationsStay DEF IInv
<1>6. ComposeInv'
  <2> SUFFICES ASSUME UniqueIds
               PROVE  outputs'[next].output.text
                        = ComposeAnswer(SubSeq(outputs', 1, next - 1), citations, confidence,
                                        dropped, Len(trace) + 1)
    <3>1. next' - 1 = next /\ next' - 2 = next - 1 /\ plan' = plan
      BY <1>1, AdvancedTurn DEF IInv, Advances
    <3> QED
      BY <1>1, <3>1 DEF ComposeInv, UniqueIds
  <2>1. /\ Len(outputs) = next - 1
        /\ outputs'[next] = [id |-> plan[next].id, output |-> o]
        /\ outputs' = Append(outputs, [id |-> plan[next].id, output |-> o])
    BY <1>1, AdvancedOutputs DEF IInv
  <2>2. IsSequence(outputs)
    BY DEF IInv, TypeOK
  <2>3. SubSeq(outputs', 1, next - 1) = outputs
    BY <2>1, <2>2, PrefixOfAppended
  <2>4. outputs'[next].output = o
    BY <2>1
  <2> QED
    BY <1>2, <2>3, <2>4 DEF text
<1> QED
  BY <1>4, <1>5, <1>6 DEF IInv

-----------------------------------------------------------------------------
(* A turn that ends, or that waits, leaves what it ran.                    *)
LEMMA StoodStill ==
  ASSUME IInv, UNCHANGED <<index, plan, next, locals>>,
         stage' = "idle" \/ UNCHANGED <<stage, reply>>
  PROVE  TypeOK' /\ TraceInv' /\ OutputInv' /\ ComposeInv' /\ SimilarInv' /\ CiteInv'
<1>1. /\ index' = index /\ plan' = plan /\ next' = next /\ outputs' = outputs /\ trace' = trace
      /\ citations' = citations /\ confidence' = confidence /\ dropped' = dropped
      /\ similar' = similar
  BY DEF locals
<1>2. \A j : Told(j)' = Told(j)
  BY <1>1 DEF Told
<1>3. TypeOK'
  BY <1>1, <1>2 DEF IInv, TypeOK
<1>4. ToolSteps' = ToolSteps /\ RagSteps' = RagSteps /\ Done' = Done /\ UniqueIds' = UniqueIds
  BY <1>1 DEF ToolSteps, RagSteps, Done, UniqueIds
<1>5. TraceInv' /\ SimilarInv'
  <2>1. Searched' = Searched
    BY <1>1, <1>2, <1>4 DEF Searched
  <2> QED
    BY <1>1, <1>2, <1>4, <2>1 DEF IInv, TraceInv, SimilarInv
<1>6. OutputInv'
  <2>1. \A j : OutputOf(j)' = OutputOf(j)
    BY <1>1, <1>2, <1>4 DEF OutputOf
  <2> QED
    BY <1>1, <1>4, <2>1 DEF IInv, OutputInv
<1>7. ComposeInv'
  BY <1>1, <1>4 DEF IInv, ComposeInv
<1>8. CiteInv'
  <2>1. \A j : Found(j)' = Found(j)
    BY <1>1 DEF Found
  <2>2. \A j : CitedPairs(j)' = CitedPairs(j)
    BY <1>4, <2>1 DEF CitedPairs
  <2>3. \A j : CitedBy(j)' = CitedBy(j)
    BY <2>2 DEF CitedBy, CitedPairs
  <2>4. Asked' = Asked
    BY <1>4 DEF Asked
  <2> QED
    BY <1>1, <2>1, <2>2, <2>3, <2>4 DEF IInv, CiteInv
<1> QED
  BY <1>3, <1>5, <1>6, <1>7, <1>8

LEMMA RefuseStepInv == ASSUME IInv, RefuseStep PROVE IInv'
<1>1. TypeOK' /\ TraceInv' /\ OutputInv' /\ ComposeInv' /\ SimilarInv' /\ CiteInv'
  BY StoodStill DEF RefuseStep
<1>2. /\ plan' = plan /\ next \in DOMAIN plan /\ plan[next].kind = "mismatched"
      /\ reply' = [kind |-> "refused", error |-> "orchestrator_error"]
  BY SequenceLength DEF RefuseStep, Running, Current, IInv, TypeOK
<1>3. ReplyInv'
  BY <1>2 DEF ReplyInv, Answered
<1> QED
  BY <1>1, <1>3 DEF IInv

LEMMA FinishInv == ASSUME IInv, Finish PROVE IInv'
<1>1. TypeOK' /\ TraceInv' /\ OutputInv' /\ ComposeInv' /\ SimilarInv' /\ CiteInv'
  BY StoodStill DEF Finish
<1>2. next = Len(plan) + 1
  BY SequenceLength DEF Finish, IInv, TypeOK
<1>3. /\ plan' = plan /\ next' = next /\ outputs' = outputs /\ trace' = trace
      /\ citations' = citations /\ confidence' = confidence /\ dropped' = dropped
      /\ similar' = similar
  BY DEF Finish, locals
<1>4. /\ reply'.kind = "answered" /\ reply'.answer = FinalAnswer(outputs, plan)
      /\ reply'.citations = citations /\ reply'.trace = trace
      /\ reply'.confidence = confidence /\ reply'.dropped = dropped
      /\ reply'.incident = BuildIncident
  BY DEF Finish
<1>5. BuildIncident' = BuildIncident
  BY <1>3 DEF BuildIncident
<1>6. ReplyInv'
  BY <1>2, <1>3, <1>4, <1>5 DEF ReplyInv, Answered
<1> QED
  BY <1>1, <1>6 DEF IInv

LEMMA RagStepInv == ASSUME IInv, RagStep PROVE IInv'
<1> DEFINE result == Retrieve(index, plan[next])
           o == [shape |-> "retrieval"]
<1>1. /\ stage = "running" /\ next <= Len(plan) /\ plan[next].kind = "rag_query"
      /\ Retrieved(result) \/ RetrievalRaises(result)
  BY DEF RagStep, Running, Current
<1>2. /\ index \in Indexes /\ IsSequence(citations) /\ next \in 1..Len(plan) + 1
      /\ next \in DOMAIN plan /\ IsStep(plan[next])
  BY <1>1, SequenceLength DEF IInv, TypeOK
<1>3. /\ IF result.kind = "result" THEN ~plan[next].blank ELSE plan[next].blank \/ plan[next].k <= 0
      /\ result.kind = "result" =>
           IsSequence(result.citations) /\ result.confidence \in Bands /\ result.dropped \in Nat
  BY <1>1, <1>2, StepRetrieves
<1>4. next \in RagSteps
  BY <1>1, <1>2 DEF RagSteps
<1> HIDE DEF result
<1>5. ASSUME RetrievalRaises(result) PROVE IInv'
  <2>1. TypeOK' /\ TraceInv' /\ OutputInv' /\ ComposeInv' /\ SimilarInv' /\ CiteInv'
    BY <1>5, StoodStill DEF RetrievalRaises
  <2>2. /\ plan' = plan /\ reply' = [kind |-> "unhandled", error |-> result.error]
        /\ result.kind = "raised"
    BY <1>5 DEF RetrievalRaises
  <2>3. ReplyInv'
    BY <1>3, <1>4, <2>2 DEF ReplyInv, Answered, RagSteps
  <2> QED
    BY <2>1, <2>3 DEF IInv
<1>6. ASSUME Retrieved(result) PROVE IInv'
  <2>1. /\ Advances(o) /\ result.kind = "result"
        /\ citations' = citations \o result.citations
        /\ confidence' = result.confidence /\ dropped' = result.dropped
        /\ UNCHANGED <<trace, similar>>
    BY <1>1, <1>6 DEF Retrieved, Advances, Current
  <2> HIDE DEF o
  <2>2. /\ IsSequence(citations) /\ IsSequence(result.citations)
        /\ IsSequence(citations')
    BY <1>2, <1>3, <2>1, JoinedSequence
  <2>3. TypeOK' /\ TraceInv' /\ OutputInv' /\ SimilarInv' /\ ReplyInv'
    BY <1>1, <1>3, <2>1, <2>2, OtherStep DEF o
  <2>4. /\ next - 1 \in Nat /\ (next - 1) + 1 = next /\ next' - 1 = next
        /\ Done' = Done \cup {next} /\ Done = 1..next - 1
        /\ plan' = plan /\ index' = index
    BY <2>1, AdvancedTurn DEF IInv, Advances
  <2>5. ComposeInv'
    BY <1>1, <2>4 DEF ComposeInv
  <2>6. Found(next) = result.citations
    BY DEF Found, result
  <2>7. /\ IsFiniteSet(CitedPairs(next)) /\ CitedBy(next - 1) \in Nat
        /\ CitedBy(next) = CitedBy(next - 1) + Len(result.citations)
        /\ Len(citations) = CitedBy(next - 1)
    BY <1>4, <2>2, <2>4, <2>6, CitedCounts DEF IInv, CiteInv
  <2>8. Len(citations') = CitedBy(next)
    <3>1. Len(citations \o result.citations) = Len(citations) + Len(result.citations)
      BY <2>2, JoinedSequence
    <3> QED
      BY <2>1, <2>7, <3>1
  <2>9. RagSteps' = RagSteps /\ Asked' = Asked \cup {next} /\ next \notin Asked
    BY <1>4, <2>4 DEF RagSteps, Asked
  <2>10. \A j : Found(j)' = Found(j)
    BY <2>4 DEF Found
  <2>11. \A j : CitedPairs(j)' = CitedPairs(j)
    BY <2>9, <2>10 DEF CitedPairs
  <2>12. \A j : CitedBy(j)' = CitedBy(j)
    BY <2>11 DEF CitedBy, CitedPairs
  <2>13. ASSUME NEW j \in Asked
         PROVE  /\ Retrieve(index, plan[j]).kind = "result"
                /\ SubSeq(citations', CitedBy(j - 1) + 1, CitedBy(j)) = Found(j)
                /\ j < next
    <3>1. /\ j \in 1..next - 1 /\ j \in 0..next - 1 /\ j - 1 \in 0..next - 1 /\ j < next
      BY <2>4 DEF Asked
    <3>2. /\ CitedBy(j - 1) \in Nat /\ CitedBy(j) \in Nat /\ CitedBy(j) <= CitedBy(next - 1)
      BY <2>4, <3>1, CitedGrows DEF IInv, CiteInv
    <3>3. /\ Retrieve(index, plan[j]).kind = "result"
          /\ SubSeq(citations, CitedBy(j - 1) + 1, CitedBy(j)) = Found(j)
      BY DEF IInv, CiteInv
    <3>4. CitedBy(j - 1) + 1 \in Nat \ {0} /\ CitedBy(j) <= Len(citations)
      BY <2>7, <3>2
    <3>5. SubSeq(citations', CitedBy(j - 1) + 1, CitedBy(j))
            = SubSeq(citations, CitedBy(j - 1) + 1, CitedBy(j))
      BY <2>1, <2>2, <3>2, <3>4, SliceOfFirst
    <3> QED
      BY <3>1, <3>3, <3>5
  <2>14. SubSeq(citations', CitedBy(next - 1) + 1, CitedBy(next)) = Found(next)
    BY <2>1, <2>2, <2>6, <2>7, SliceOfSecond
  <2>15. CiteInv'
    <3>1. IsFiniteSet(CitedPairs(next - 1))' /\ Len(citations)' = CitedBy(next - 1)'
      BY <2>4, <2>7, <2>8, <2>11, <2>12
    <3>2. ASSUME NEW j \in Asked'
          PROVE  /\ Retrieve(index', plan'[j]).kind = "result"
                 /\ SubSeq(citations', CitedBy(j - 1) + 1, CitedBy(j)) = Found(j)
                 /\ (\A i \in Asked' : i <= j) =>
                      /\ confidence' = Retrieve(index', plan'[j]).confidence
                      /\ dropped' = Retrieve(index', plan'[j]).dropped
      <4>1. CASE j \in Asked
        <5>1. ~(next <= j) /\ next \in Asked'
          BY <1>2, <2>9, <2>13, <4>1 DEF Asked, RagSteps
        <5> QED
          BY <2>4, <2>13, <4>1, <5>1
      <4>2. CASE j = next
        BY <2>1, <2>4, <2>14, <4>2 DEF result
      <4> QED
        BY <2>9, <4>1, <4>2
    <3>3. Asked' # {}
      BY <2>9
    <3> QED
      BY <2>10, <2>12, <3>1, <3>2, <3>3 DEF CiteInv
  <2> QED
    BY <2>3, <2>5, <2>15 DEF IInv
<1> QED
  BY <1>1, <1>5, <1>6

LEMMA StutterInv == ASSUME IInv, UNCHANGED vars PROVE IInv'
<1>1. TypeOK' /\ TraceInv' /\ OutputInv' /\ ComposeInv' /\ SimilarInv' /\ CiteInv'
  BY StoodStill DEF vars
<1>2. ReplyInv'
  <2>1. /\ plan' = plan /\ next' = next /\ reply' = reply /\ outputs' = outputs /\ trace' = trace
        /\ citations' = citations /\ confidence' = confidence /\ dropped' = dropped
        /\ similar' = similar
    BY DEF vars, locals
  <2>2. BuildIncident' = BuildIncident
    BY <2>1 DEF BuildIncident
  <2> QED
    BY <2>1, <2>2 DEF IInv, ReplyInv, Answered, RagSteps
<1> QED
  BY <1>1, <1>2 DEF IInv

-----------------------------------------------------------------------------
(* The inductive invariant: what the trace, the outputs, the tickets, the  *)
(* citations and the composed text are told by the steps that were run.    *)
THEOREM Inductive == Spec => []IInv
<1>1. Init => IInv
  BY InitInv
<1>2. IInv /\ [Next]_vars => IInv'
  <2> SUFFICES ASSUME IInv, [Next]_vars PROVE IInv'
    OBVIOUS
  <2>1. CASE PlanByMock \/ PlanByLLM \/ MockPlanRaises
    BY <2>1, BeginInv
  <2>2. CASE ToolFails
    BY <2>2, ToolFailsInv
  <2>3. CASE ToolSucceeds
    BY <2>3, ToolSucceedsInv
  <2>4. CASE RagStep
    BY <2>4, RagStepInv
  <2>5. CASE Compose
    BY <2>5, ComposeStepInv
  <2>6. CASE RefuseStep
    BY <2>6, RefuseStepInv
  <2>7. CASE Finish
    BY <2>7, FinishInv
  <2>8. CASE UNCHANGED vars
    BY <2>8, StutterInv
  <2> QED
    BY <2>1, <2>2, <2>3, <2>4, <2>5, <2>6, <2>7, <2>8 DEF Next, Run
<1> QED
  BY <1>1, <1>2, PTL DEF Spec

(* Every variable of the turn has its type, whatever plan it runs and      *)
(* whatever its tools answer: TypeOK of the chain.                         *)
THEOREM TypeCorrect == Spec => []TypeOK
<1>1. IInv => TypeOK
  BY DEF IInv
<1> QED
  BY <1>1, Inductive, PTL

(* The dialogue with the tools is told in full, for every plan: of a       *)
(* request that is not answered the reply says why, and the trace of one   *)
(* that is has every tool the plan called, in order, "success" only where  *)
(* there was an answer.                                                    *)
THEOREM EveryToolIsTold == Spec => []FailedToolsAreTold
<1>1. ASSUME IInv PROVE FailedToolsAreTold
  <2>1. ASSUME Answered
        PROVE  /\ Len(reply.trace) = Told(Len(plan))
               /\ \A j \in ToolSteps :
                    /\ reply.trace[Told(j)].tool = plan[j].tool
                    /\ ToolAnswer(plan[j]) = None => reply.trace[Told(j)].outcome = "error"
    <3>1. reply.trace = trace /\ next = Len(plan) + 1
      BY <1>1, <2>1 DEF IInv, ReplyInv
    <3>2. Len(plan) \in Nat /\ DOMAIN plan = 1..Len(plan) /\ Len(trace) = Told(next - 1)
      BY <1>1, SequenceLength DEF IInv, TypeOK
    <3>3. next - 1 = Len(plan) /\ Done = DOMAIN plan
      BY <3>1, <3>2 DEF Done
    <3>4. ToolSteps \cap Done = ToolSteps
      BY <3>3 DEF ToolSteps
    <3> QED
      BY <1>1, <3>1, <3>2, <3>3, <3>4 DEF IInv, TraceInv
  <2> QED
    BY <1>1, <2>1 DEF IInv, ReplyInv, FailedToolsAreTold
<1> QED
  BY <1>1, Inductive, PTL

(* The citations of an answer are those of its retrievals, one after the   *)
(* other, each of them sound - of the best of the index that its filter    *)
(* and the blocklist leave - and its confidence and count of dropped       *)
(* chunks are those of the last one, for every score and every plan.       *)
THEOREM EveryCitationIsSound == Spec => []CitationsAreSound
<1>1. ASSUME IInv, Answered PROVE CitationsAreSound
  <2>1. /\ reply.citations = citations /\ reply.confidence = confidence
        /\ reply.dropped = dropped /\ reply.incident = BuildIncident
        /\ next = Len(plan) + 1
    BY <1>1 DEF IInv, ReplyInv
  <2>2. /\ Len(plan) \in Nat /\ DOMAIN plan = 1..Len(plan) /\ index \in Indexes
        /\ \A j \in DOMAIN plan : IsStep(plan[j])
    BY <1>1, SequenceLength DEF IInv, TypeOK
  <2>3. next - 1 = Len(plan) /\ Done = DOMAIN plan
    BY <2>1, <2>2 DEF Done
  <2>4. Asked = RagSteps
    BY <2>3 DEF Asked, RagSteps
  <2>5. ASSUME NEW j \in RagSteps
        PROVE  LET own == Retrieve(index, plan[j])
               IN  /\ SoundResult(index, plan[j],
                        Result(SubSeq(reply.citations, CitedBy(j - 1) + 1, CitedBy(j)),
                               own.confidence, own.dropped))
                   /\ (\A i \in RagSteps : i <= j) =>
                        reply.confidence = own.confidence /\ reply.dropped = own.dropped
    <3> DEFINE own == Retrieve(index, plan[j])
               seen == Result(SubSeq(reply.citations, CitedBy(j - 1) + 1, CitedBy(j)),
                              own.confidence, own.dropped)
    <3>1. /\ own.kind = "result"
          /\ SubSeq(citations, CitedBy(j - 1) + 1, CitedBy(j)) = own.citations
          /\ (\A i \in RagSteps : i <= j) => confidence = own.confidence /\ dropped = own.dropped
      BY <1>1, <2>4 DEF IInv, CiteInv, Found
    <3>2. SoundResult(index, plan[j], own)
      BY <2>2, <3>1, StepRetrieves DEF RagSteps
    <3> HIDE DEF own
    <3>3. seen = Result(own.citations, own.confidence, own.dropped)
      BY <2>1, <3>1
    <3> HIDE DEF seen
    <3>4. /\ seen.citations = own.citations /\ seen.confidence = own.confidence
          /\ seen.dropped = own.dropped
      BY <3>3 DEF Result
    <3>5. SoundResult(index, plan[j], seen)
      BY <3>2, <3>4 DEF SoundResult
    <3> QED
      BY <2>1, <3>1, <3>5 DEF seen, own
  <2>6. reply.incident # None => reply.incident.citations = reply.citations
    BY <2>1 DEF BuildIncident
  <2>7. /\ Len(reply.citations) = CitedBy(Len(plan))
        /\ RagSteps = {} => reply.confidence = "none" /\ reply.dropped = 0
    BY <1>1, <2>1, <2>3, <2>4 DEF IInv, CiteInv
  <2> QED
    BY <2>5, <2>6, <2>7 DEF CitationsAreSound
<1>2. IInv => CitationsAreSound
  BY <1>1 DEF CitationsAreSound
<1> QED
  BY <1>2, Inductive, PTL

-----------------------------------------------------------------------------
(* Ids of different steps have different keys.                             *)
LEMMA KeysDiffer ==
  ASSUME NEW v \in 1..99, NEW w \in 1..99, KeyOrder(v) = KeyOrder(w)
  PROVE  v = w
<1>1. ASSUME NEW x \in 1..99
      PROVE  \/ x < 10 /\ KeyOrder(x) = 11 * x
             \/ \E t \in 1..9, u \in 0..9 : x = 10 * t + u /\ x >= 10 /\ KeyOrder(x) = 11 * t + 1 + u
  <2>1. CASE x < 10
    BY <2>1 DEF KeyOrder
  <2>2. CASE x >= 10
    <3>1. x \div 10 \in 1..9 /\ x % 10 \in 0..9 /\ x = 10 * (x \div 10) + (x % 10)
      BY <2>2
    <3>2. KeyOrder(x) = 11 * (x \div 10) + 1 + (x % 10)
      BY <2>2 DEF KeyOrder
    <3> QED
      BY <2>2, <3>1, <3>2
  <2> QED
    BY <2>1, <2>2
<1>2. CASE v < 10 /\ w < 10
  BY <1>2 DEF KeyOrder
<1>3. CASE v < 10 /\ w >= 10
  <2>1. PICK t \in 1..9, u \in 0..9 : KeyOrder(w) = 11 * t + 1 + u
    BY <1>1, <1>3
  <2>2. KeyOrder(v) = 11 * v
    BY <1>3 DEF KeyOrder
  <2>3. 11 * v = 11 * t + 1 + u
    BY <2>1, <2>2
  <2> QED
    BY <2>3
<1>4. CASE v >= 10 /\ w < 10
  <2>1. PICK t \in 1..9, u \in 0..9 : KeyOrder(v) = 11 * t + 1 + u
    BY <1>1, <1>4
  <2>2. KeyOrder(w) = 11 * w
    BY <1>4 DEF KeyOrder
  <2>3. 11 * w = 11 * t + 1 + u
    BY <2>1, <2>2
  <2> QED
    BY <2>3
<1>5. CASE v >= 10 /\ w >= 10
  <2>1. PICK t \in 1..9, u \in 0..9 : v = 10 * t + u /\ KeyOrder(v) = 11 * t + 1 + u
    BY <1>1, <1>5
  <2>2. PICK p \in 1..9, q \in 0..9 : w = 10 * p + q /\ KeyOrder(w) = 11 * p + 1 + q
    BY <1>1, <1>5
  <2>3. 11 * t + u = 11 * p + q
    BY <2>1, <2>2
  <2>4. t = p
    BY <2>3
  <2> QED
    BY <2>1, <2>2, <2>3, <2>4
<1> QED
  BY <1>2, <1>3, <1>4, <1>5

(* The last key of the first n outputs is that of the step that sorts last *)
(* among the first n.                                                      *)
LEMMA LastOfPrefix ==
  ASSUME TypeOK, UniqueIds, NEW n \in Nat \ {0}, n <= Len(plan), NEW items, DOMAIN items = 1..n,
         \A j \in 1..n : items[j].id = plan[j].id,
         NEW k \in 1..n, SortsLast(k, n)
  PROVE  LastKey(items) = k
<1>1. /\ Len(plan) \in Nat /\ DOMAIN plan = 1..Len(plan)
      /\ \A i \in DOMAIN plan : plan[i].id \in 1..99
  BY SequenceLength DEF TypeOK, IsStep
<1>2. \A v \in 1..99 : KeyOrder(v) \in Int
  BY DEF KeyOrder
<1> DEFINE key(i) == KeyOrder(items[i].id)
<1>3. \A i \in 1..n : /\ key(i) \in Int /\ key(i) = KeyOrder(plan[i].id)
                      /\ i \in DOMAIN plan /\ plan[i].id \in 1..99
  <2> TAKE i \in 1..n
  <2>1. i \in DOMAIN plan
    BY <1>1
  <2> QED
    BY <1>1, <1>2, <2>1
<1>4. \A j \in DOMAIN items : key(k) >= key(j)
  <2>1. \A j \in 1..n : KeyOrder(plan[j].id) <= KeyOrder(plan[k].id)
    BY DEF SortsLast
  <2> HIDE DEF key
  <2> QED
    BY <1>3, <2>1
<1>5. \A i \in DOMAIN items : (\A j \in DOMAIN items : key(i) >= key(j)) => i = k
  <2> SUFFICES ASSUME NEW i \in 1..n, key(i) >= key(k) PROVE i = k
    OBVIOUS
  <2>1. KeyOrder(plan[i].id) = KeyOrder(plan[k].id)
    <3>1. key(i) = key(k)
      <4> HIDE DEF key
      <4> QED
        BY <1>3, <1>4
    <3> QED
      BY <1>3, <3>1
  <2>2. plan[i].id = plan[k].id
    BY <1>3, <2>1, KeysDiffer
  <2> QED
    BY <1>3, <2>2 DEF UniqueIds
<1>6. LastKey(items) = CHOOSE i \in DOMAIN items : \A j \in DOMAIN items : key(i) >= key(j)
  BY DEF LastKey
<1> HIDE DEF key
<1> QED
  BY <1>4, <1>5, <1>6

(* The excerpt of a retrieval.                                             *)
LEMMA ExcerptOfRetrieval ==
  ASSUME NEW o, o # None, o.shape = "retrieval"
  PROVE  Excerpt(o) = [as_it_is |-> "retrieval"]
<1>1. Excerpt(o) = CASE o.shape = "text" -> o.text
                     [] o.shape \in {"items", "results"} -> [returned |-> Len(o.rows)]
                     [] o.shape = "data" -> [total |-> o.total]
                     [] o.shape \in {"alarm", "actions", "retrieval"} -> [as_it_is |-> o.shape]
  BY DEF Excerpt
<1>2. o.shape \notin {"text", "items", "results", "data"}
  OBVIOUS
<1>3. Excerpt(o) = [as_it_is |-> o.shape]
  BY <1>1, <1>2
<1> QED
  BY <1>3

(* The answer is the text of the last step.                                *)
LEMMA AnswerIsLast ==
  ASSUME UniqueIds, IsSequence(plan), plan # << >>, plan[Len(plan)].kind = "compose",
         DOMAIN outputs = DOMAIN plan, \A j \in DOMAIN plan : outputs[j].id = plan[j].id
  PROVE  FinalAnswer(outputs, plan) = outputs[Len(plan)].output
<1> DEFINE n == Len(plan)
           composed == {i \in DOMAIN plan : plan[i].kind = "compose"}
           from == CHOOSE i \in composed : \A j \in composed : i >= j
           items == {outputs[i] : i \in DOMAIN outputs}
<1>1. n \in Nat /\ DOMAIN plan = 1..n /\ n # 0
  <2>1. n \in Nat /\ DOMAIN plan = 1..n
    BY SequenceLength
  <2>2. n # 0
    BY EmptySeq DEF IsSequence
  <2> QED
    BY <2>1, <2>2
<1>2. n \in composed /\ \A j \in composed : j <= n /\ j \in Int
  BY <1>1
<1>3. from = n
  <2> HIDE DEF composed, n
  <2>1. \A j \in composed : n >= j
    BY <1>1, <1>2
  <2>2. \A i \in composed : (\A j \in composed : i >= j) => i = n
    BY <1>1, <1>2
  <2> QED
    BY <1>2, <2>1, <2>2
<1>4. outputs[n] \in items /\ outputs[n].id = plan[n].id
  BY <1>1
<1>5. \A item \in items : item.id = plan[n].id => item = outputs[n]
  BY <1>1 DEF UniqueIds
<1>6. (CHOOSE item \in items : item.id = plan[n].id) = outputs[n]
  <2> HIDE DEF items, n
  <2> QED
    BY <1>4, <1>5
<1>7. FinalAnswer(outputs, plan) = (CHOOSE item \in items : item.id = plan[from].id).output
  BY <1>2 DEF FinalAnswer
<1> QED
  BY <1>3, <1>6, <1>7

(* The composed answer of an envelope is that of the envelope.             *)
THEOREM AnswerIsTheEnvelopes == Spec => []AnswerMatchesTheEnvelope
<1>1. ASSUME IInv, Answered, UniqueIds, plan # << >>, plan[Len(plan)].kind = "compose"
      PROVE  AnswerMatchesTheEnvelope
  <2> DEFINE n == Len(plan)
             items == SubSeq(outputs, 1, n - 1)
             text == reply.answer.text
  <2>1. /\ reply.citations = citations /\ reply.confidence = confidence
        /\ reply.dropped = dropped /\ reply.trace = trace /\ next = n + 1
        /\ reply.answer = FinalAnswer(outputs, plan)
    BY <1>1 DEF IInv, ReplyInv
  <2>2. /\ n \in Nat /\ DOMAIN plan = 1..n /\ IsSequence(plan) /\ IsSequence(outputs)
        /\ IsSequence(trace) /\ Len(trace) = Told(next - 1)
        /\ \A j \in DOMAIN plan : IsStep(plan[j])
    BY <1>1, SequenceLength DEF IInv, TypeOK
  <2>3. n # 0
    BY <1>1, <2>2, EmptySeq DEF IsSequence
  <2>4. UniqueIds
    BY <1>1
  <2>5. next - 1 = n /\ next - 2 = n - 1 /\ next > 1 /\ n - 1 \in Nat /\ (n - 1) + 1 = n /\ Done = 1..n
    BY <2>1, <2>2, <2>3 DEF Done
  <2>6. Len(outputs) = n /\ \A j \in 1..n : OutputOf(j)
    BY <1>1, <2>4, <2>5 DEF IInv, OutputInv
  <2>7. DOMAIN outputs = 1..n /\ \A j \in 1..n : outputs[j].id = plan[j].id
    BY <2>2, <2>6, SequenceLength DEF OutputOf
  <2>8. reply.answer = outputs[n].output
    BY <1>1, <2>1, <2>2, <2>4, <2>7, AnswerIsLast
  <2>9. text = ComposeAnswer(items, citations, confidence, dropped, Len(trace) + 1)
    BY <1>1, <2>4, <2>5, <2>8 DEF IInv, ComposeInv
  <2>10. ASSUME NEW k \in 1..n - 1, SortsLast(k, n - 1)
         PROVE  LET s == plan[k]
                IN  CASE s.kind = "rag_query" -> text.findings = [as_it_is |-> "retrieval"]
                      [] s.kind \in ToolKinds ->
                           text.findings = IF reply.trace[Told(k)].outcome = "error" THEN None
                                           ELSE Excerpt(ToolAnswer(s))
                      [] s.kind = "compose" -> TRUE
    <3> DEFINE s == plan[k]
    <3>1. n - 1 \in Nat \ {0} /\ n - 1 <= n /\ k \in 1..n /\ k \in DOMAIN plan
      <4>1. n \in Nat /\ n # 0 /\ k \in 1..n - 1 /\ DOMAIN plan = 1..n
        BY <2>2, <2>3
      <4> HIDE DEF n
      <4> QED
        BY <4>1
    <3>2. DOMAIN items = 1..n - 1 /\ \A j \in 1..n - 1 : items[j] = outputs[j]
      BY <2>2, <2>6, <3>1, PrefixOf
    <3>3. LastKey(items) = k
      <4>1. \A j \in 1..n - 1 : items[j].id = plan[j].id
        BY <2>2, <2>7, <3>2
      <4> HIDE DEF items
      <4>2. /\ TypeOK /\ UniqueIds /\ n - 1 \in Nat \ {0} /\ n - 1 <= Len(plan)
            /\ DOMAIN items = 1..n - 1 /\ k \in 1..n - 1 /\ SortsLast(k, n - 1)
        BY <1>1, <2>10, <3>1, <3>2 DEF IInv
      <4> QED
        BY <4>1, <4>2, LastOfPrefix
    <3>4. items # << >>
      <4> HIDE DEF items
      <4>1. k \in DOMAIN items
        BY <3>2
      <4> QED
        BY <4>1, EmptySequence
    <3>5. text.findings = Excerpt(outputs[k].output)
      <4> HIDE DEF items
      <4>1. text.findings = Excerpt(items[LastKey(items)].output)
        BY <2>9, <3>4 DEF ComposeAnswer
      <4> QED
        BY <3>2, <3>3, <4>1
    <3>6. OutputOf(k) /\ IsStep(s)
      BY <2>2, <2>6, <3>1
    <3>7. CASE s.kind = "rag_query"
      <4>1. outputs[k].output = [shape |-> "retrieval"]
        BY <3>1, <3>6, <3>7 DEF OutputOf, RagSteps
      <4>2. outputs[k].output # None /\ outputs[k].output.shape = "retrieval"
        BY <4>1, ChainAssumption
      <4>3. Excerpt(outputs[k].output) = [as_it_is |-> "retrieval"]
        <5> DEFINE o == outputs[k].output
        <5>1. o # None /\ o.shape = "retrieval"
          BY <4>2
        <5> HIDE DEF o
        <5>2. Excerpt(o) = [as_it_is |-> "retrieval"]
          BY <5>1, ExcerptOfRetrieval
        <5> QED
          BY <5>2 DEF o
      <4>4. text.findings = [as_it_is |-> "retrieval"]
        BY <3>5, <4>3
      <4> QED
        BY <3>7, <4>4 DEF ToolKinds
    <3>8. CASE s.kind \in ToolKinds
      <4>1. k \in ToolSteps \cap Done
        BY <2>5, <3>1, <3>8 DEF ToolSteps
      <4>2. /\ outputs[k].output = IF trace[Told(k)].outcome = "success" THEN ToolAnswer(s) ELSE None
            /\ trace[Told(k)].outcome \in {"success", "error"}
        BY <1>1, <3>6, <4>1 DEF OutputOf, IInv, TraceInv
      <4>3. Excerpt(None) = None
        BY DEF Excerpt
      <4>4. text.findings = IF reply.trace[Told(k)].outcome = "error" THEN None
                            ELSE Excerpt(ToolAnswer(s))
        BY <2>1, <3>5, <4>2, <4>3
      <4>5. s.kind # "rag_query" /\ s.kind # "compose"
        BY <3>8 DEF ToolKinds
      <4> QED
        BY <3>8, <4>4, <4>5
    <3>9. CASE s.kind = "compose"
      BY <3>9 DEF ToolKinds
    <3>10. s.kind # "mismatched"
      BY <3>6 DEF OutputOf
    <3> QED
      BY <3>6, <3>7, <3>8, <3>9, <3>10 DEF IsStep
  <2>11. /\ text.citations = citations /\ text.confidence = confidence
         /\ text.note = dropped /\ text.trace_size = Len(trace) + 1
    BY <2>9 DEF ComposeAnswer
  <2>12. Len(trace) = Cardinality(ToolSteps)
    <3>1. ToolSteps = {i \in 1..n : plan[i].kind \in ToolKinds}
      BY <2>2 DEF ToolSteps
    <3> QED
      BY <2>2, <2>5, <3>1 DEF Told
  <2> HIDE DEF text
  <2>13. /\ text.citations = reply.citations /\ text.confidence = reply.confidence
         /\ text.note = reply.dropped
         /\ Cardinality(RagSteps) = 1 =>
              text.trace_size = Cardinality(ToolSteps) + Cardinality(RagSteps)
    BY <2>1, <2>11, <2>12
  <2> QED
    BY <2>10, <2>13 DEF AnswerMatchesTheEnvelope, text
<1>2. IInv => AnswerMatchesTheEnvelope
  BY <1>1 DEF AnswerMatchesTheEnvelope
<1> QED
  BY <1>2, Inductive, PTL

-----------------------------------------------------------------------------
(* The incident.  The rows of a listing are seeded alarms.                 *)
LEMMA SeedOfAlarms ==
  /\ SeedAlarms \in Seq(Alarms)
  /\ \A x \in Alarms : x.severity \in Severities /\ x.raised_at \in Int
<1>1. Len(SeedAlarms) = 10 /\ DOMAIN SeedAlarms = 1..10
  BY DEF SeedAlarms
<1>2. Alarms = {SeedAlarms[i] : i \in 1..10}
  BY <1>1 DEF Alarms, Range
<1>3. \A i \in 1..10 : SeedAlarms[i].severity \in Severities /\ SeedAlarms[i].raised_at \in Int
  BY DEF SeedAlarms, AnAlarm, At, Severities
<1>4. SeedAlarms \in [1..10 -> Alarms]
  BY <1>1, <1>2 DEF SeedAlarms
<1> QED
  BY <1>2, <1>3, <1>4, SeqDef

LEMMA FilteredAlarms ==
  ASSUME NEW p
  PROVE  ListFiltered(p) \in Seq(Alarms)
<1>1. \A rows \in Seq(Alarms) : \A S \in SUBSET DOMAIN rows : KeptAt(rows, S) \in Seq(Alarms)
  BY KeptAtPositions
<1>2. ListScope(p) \in Seq(Alarms)
  <2> DEFINE S == {i \in DOMAIN SeedAlarms :
                     /\ p.asset_id \in {None, SeedAlarms[i].asset_id}
                     /\ p.severity \in {None, SeedAlarms[i].severity}
                     /\ p.site # None => SeedAlarms[i].asset_id \in AssetIdsIn(p.site, None)}
  <2>1. ListScope(p) = KeptAt(SeedAlarms, S)
    BY DEF ListScope, Kept
  <2> HIDE DEF S
  <2>2. S \in SUBSET DOMAIN SeedAlarms
    BY DEF S
  <2> QED
    BY <1>1, <2>1, <2>2, SeedOfAlarms
<1>3. ASSUME NEW rows \in Seq(Alarms), NEW start
      PROVE  Since(rows, start) \in Seq(Alarms)
  <2> DEFINE S == {i \in DOMAIN rows : rows[i].raised_at >= start}
  <2>1. start \notin {None, Naive} => Since(rows, start) = KeptAt(rows, S)
    BY DEF Since, Kept
  <2>2. start \in {None, Naive} => Since(rows, start) = rows
    BY DEF Since
  <2>3. S \in SUBSET DOMAIN rows
    OBVIOUS
  <2> HIDE DEF S
  <2> QED
    BY <1>1, <2>1, <2>2, <2>3
<1>4. ASSUME NEW rows \in Seq(Alarms), NEW end
      PROVE  Until(rows, end) \in Seq(Alarms)
  <2> DEFINE S == {i \in DOMAIN rows : rows[i].raised_at <= end}
  <2>1. end \notin {None, Naive} => Until(rows, end) = KeptAt(rows, S)
    BY DEF Until, Kept
  <2>2. end \in {None, Naive} => Until(rows, end) = rows
    BY DEF Until
  <2>3. S \in SUBSET DOMAIN rows
    OBVIOUS
  <2> HIDE DEF S
  <2> QED
    BY <1>1, <2>1, <2>2, <2>3
<1> QED
  BY <1>2, <1>3, <1>4 DEF ListFiltered

LEMMA ListingsAreAlarms ==
  ASSUME NEW s, s.tool = "summarize_alarms"
  PROVE  \A k \in DOMAIN ToolAnswer(s).rows : ToolAnswer(s).rows[k].severity \in Severities
<1> DEFINE p == SummaryParameters(s)
           listed == ListFiltered(p)
           score == [x \in Alarms |-> x.raised_at]
           page == Limit(ByScore(listed, score), 25)
<1>1. listed \in Seq(Alarms)
  BY FilteredAlarms
<1>2. \A x \in Alarms : score[x] \in Int
  BY SeedOfAlarms
<1>3. ToolAnswer(s).rows = page
  <2>1. \A i \in DOMAIN listed : score[listed[i]] = listed[i].raised_at
    BY <1>1, ElementOfSeq
  <2>2. [i \in DOMAIN listed |-> listed[i].raised_at] = [i \in DOMAIN listed |-> score[listed[i]]]
    BY <2>1
  <2>3. Descending(listed, LAMBDA x : x.raised_at) = ByScore(listed, score)
    <3> HIDE DEF listed, score
    <3> QED
      BY <2>2 DEF Descending, ByScore
  <2>4. p.page_size = 25
    BY DEF SummaryParameters
  <2>5. ListPage(p) = page
    BY <2>3, <2>4 DEF ListPage
  <2> HIDE DEF page
  <2> QED
    BY <2>5 DEF ToolAnswer, Page
<1> HIDE DEF score, listed
<1>4. page \in Seq(Alarms)
  BY <1>1, <1>2, SortedByScore, LimitedRows
<1> HIDE DEF page
<1> QED
  BY <1>3, <1>4, SeedOfAlarms, ElementOfSeq

(* The shape of an answer tells the tool.                                  *)
LEMMA AnswerShape ==
  ASSUME NEW s, s.tool \in Tools, ToolAnswer(s) # None
  PROVE  /\ ToolAnswer(s).shape = "data" <=> s.tool = "summarize_alarms"
         /\ ToolAnswer(s).shape = "actions" <=> s.tool = "recommend_actions"
BY DEF ToolAnswer, Tools, Page

(* The worst of some severities.                                           *)
LEMMA WorstSeverity ==
  ASSUME NEW items, Severity(items) \subseteq Severities
  PROVE  /\ HighestSeverity(items) \in Severities
         /\ \A t \in Severity(items) : Worth[t] <= Worth[HighestSeverity(items)]
         /\ HighestSeverity(items) # "low" => HighestSeverity(items) \in Severity(items)
<1> DEFINE S == Severity(items)
           Worst(s) == \A t \in S : Worth[s] >= Worth[t]
<1>1. Worth["low"] = 0 /\ Worth["medium"] = 1 /\ Worth["high"] = 2 /\ Worth["critical"] = 3
  BY DEF Worth
<1>2. \A s \in Severities : s \in {"low", "medium", "high", "critical"}
  BY DEF Severities
<1> HIDE DEF S
<1>3. S \subseteq {"low", "medium", "high", "critical"}
  BY <1>2 DEF S
<1>4. ASSUME S # {} PROVE \E s \in S : Worst(s)
  <2>1. CASE "critical" \in S
    BY <1>1, <1>3, <2>1
  <2>2. CASE "critical" \notin S /\ "high" \in S
    BY <1>1, <1>3, <2>2
  <2>3. CASE "critical" \notin S /\ "high" \notin S /\ "medium" \in S
    BY <1>1, <1>3, <2>3
  <2>4. CASE S = {"low"}
    BY <1>1, <2>4
  <2> QED
    BY <1>3, <1>4, <2>1, <2>2, <2>3, <2>4
<1>5. CASE S = {}
  BY <1>5 DEF HighestSeverity, Severities, S
<1>6. CASE S # {}
  <2> DEFINE h == HighestSeverity(items)
  <2>1. h = CHOOSE s \in S : Worst(s)
    BY <1>6 DEF HighestSeverity, S
  <2> HIDE DEF h
  <2>2. h \in S /\ \A t \in S : Worth[h] >= Worth[t]
    BY <1>4, <1>6, <2>1
  <2>3. \A t \in S : Worth[t] \in Int
    BY <1>1, <1>3
  <2> QED
    BY <2>2, <2>3 DEF h, S
<1> QED
  BY <1>5, <1>6

(* The actions are those of the first output that has some.                *)
Recommending(items) ==
  {i \in DOMAIN items : items[i].output # None /\ items[i].output.shape = "actions"}

LEMMA FirstRecommended ==
  ASSUME NEW items, IsSequence(items)
  PROVE  /\ Recommending(items) = {} => RecommendedActions(items) = << >>
         /\ \A j \in Recommending(items) : (\A i \in Recommending(items) : j <= i) =>
              RecommendedActions(items) = items[j].output.actions
<1> DEFINE T == {items[i] : i \in DOMAIN items}
           S == Recommending(items)
           found == KeptAt(items, S)
           n == Cardinality(S)
<1>1. items \in Seq(T) /\ Len(items) \in Nat /\ DOMAIN items = 1..Len(items)
  BY SequenceLength DEF IsSequence
<1>2. RecommendedActions(items) = IF found = << >> THEN << >> ELSE Head(found).output.actions
  BY DEF RecommendedActions, Kept, Recommending
<1>3. S \in SUBSET DOMAIN items /\ IsFiniteSet(S)
  <2>1. IsFiniteSet(DOMAIN items)
    BY <1>1, FS_Interval
  <2> QED
    BY <2>1, FS_Subset DEF Recommending
<1> HIDE DEF T, S
<1>4. PICK at : /\ Chooses(at, n, S)
                /\ \A k, l \in 1..n : k < l => at[k] < at[l]
                /\ found \in Seq(T)
                /\ Len(found) = n
                /\ \A k \in 1..n : found[k] = items[at[k]]
  <2>1. items \in Seq(T) /\ S \in SUBSET DOMAIN items
    BY <1>1, <1>3
  <2> QED
    BY <2>1, KeptAtPositions
<1>5. ASSUME S = {} PROVE RecommendedActions(items) = << >>
  <2>1. n = 0
    BY <1>5, FS_EmptySet
  <2> HIDE DEF found, n
  <2> QED
    BY <1>2, <1>4, <2>1, EmptySeq
<1>6. ASSUME NEW j \in S, \A i \in S : j <= i
      PROVE  RecommendedActions(items) = items[j].output.actions
  <2> HIDE DEF found, n
  <2>1. n \in Nat /\ at \in [1..n -> S] /\ \E k \in 1..n : at[k] = j
    BY <1>4 DEF Chooses
  <2>2. PICK k \in 1..n : at[k] = j
    BY <2>1
  <2>3. 1 \in 1..n /\ at[1] \in S
    BY <2>1, <2>2
  <2>4. j <= at[1] /\ j \in Int /\ at[1] \in Int
    BY <1>1, <1>3, <1>6, <2>3
  <2>5. k = 1
    BY <1>4, <2>1, <2>2, <2>3, <2>4
  <2>6. found[1] = items[j]
    BY <1>4, <2>2, <2>3, <2>5
  <2>7. found # << >> /\ Head(found) = found[1]
    BY <1>4, <2>1, <2>3, EmptySeq, HeadTailProperties
  <2> QED
    BY <1>2, <2>6, <2>7
<1> QED
  BY <1>5, <1>6 DEF S

(* What the incident of an answer says of the plant is what its tools      *)
(* said: the worst of the alarms that were listed, the tickets of the last *)
(* search and the actions of the first recommendation that succeeded.      *)
THEOREM EveryIncidentIsGrounded == Spec => []IncidentIsGrounded
<1>1. ASSUME IInv, Answered, reply.incident # None, UniqueIds
      PROVE  IncidentIsGrounded
  <2> DEFINE n == Len(plan)
             listed == UNION {Range(ToolAnswer(plan[j]).rows) : j \in Heard("summarize_alarms")}
             searches == {j \in Heard("search_similar_tickets") :
                            plan[j].kind = "search_similar_tickets"}
             recommended == Heard("recommend_actions")
  <2>1. /\ reply.trace = trace /\ next = n + 1 /\ reply.incident = BuildIncident
    BY <1>1 DEF IInv, ReplyInv
  <2>2. /\ n \in Nat /\ DOMAIN plan = 1..n /\ IsSequence(outputs)
        /\ \A j \in DOMAIN plan : IsStep(plan[j])
    BY <1>1, SequenceLength DEF IInv, TypeOK
  <2>3. next - 1 = n /\ Done = DOMAIN plan
    BY <2>1, <2>2 DEF Done
  <2>4. Len(outputs) = n /\ \A j \in DOMAIN plan : OutputOf(j)
    BY <1>1, <2>3 DEF IInv, OutputInv
  <2>5. DOMAIN outputs = DOMAIN plan
    BY <2>2, <2>4, SequenceLength
  <2>6. /\ reply.incident.severity = HighestSeverity(outputs)
        /\ reply.incident.similar = [i \in DOMAIN similar |-> similar[i].id]
        /\ reply.incident.actions = RecommendedActions(outputs)
    BY <1>1, <2>1 DEF BuildIncident
  <2>7. ASSUME NEW j \in DOMAIN plan
        PROVE  /\ j \in Heard("summarize_alarms") <=>
                    outputs[j].output # None /\ outputs[j].output.shape = "data"
               /\ j \in Heard("recommend_actions") <=>
                    outputs[j].output # None /\ outputs[j].output.shape = "actions"
               /\ j \in Heard("summarize_alarms") \cup Heard("recommend_actions") =>
                    outputs[j].output = ToolAnswer(plan[j])
    <3>1. OutputOf(j) /\ IsStep(plan[j])
      BY <2>2, <2>4
    <3>2. CASE j \in ToolSteps
      <4>1. plan[j].tool \in Tools
        BY <3>1, <3>2 DEF IsStep, ToolSteps
      <4>2. /\ ToolAnswer(plan[j]) = None => trace[Told(j)].outcome = "error"
            /\ outputs[j].output = IF trace[Told(j)].outcome = "success"
                                     THEN ToolAnswer(plan[j]) ELSE None
        BY <1>1, <2>3, <3>1, <3>2 DEF IInv, TraceInv, OutputOf
      <4>3. trace[Told(j)].outcome = "success" => ToolAnswer(plan[j]) # None
        BY <4>2
      <4>4. ToolAnswer(plan[j]) # None =>
              /\ ToolAnswer(plan[j]).shape = "data" <=> plan[j].tool = "summarize_alarms"
              /\ ToolAnswer(plan[j]).shape = "actions" <=> plan[j].tool = "recommend_actions"
        BY <4>1, AnswerShape
      <4> QED
        BY <2>1, <3>2, <4>2, <4>3, <4>4 DEF Heard
    <3>3. CASE j \notin ToolSteps
      <4>1. outputs[j].output.shape \in {"retrieval", "text"}
        BY <3>1, <3>3 DEF OutputOf, IsStep, ToolSteps, RagSteps
      <4> QED
        BY <3>3, <4>1 DEF Heard
    <3> QED
      BY <3>2, <3>3
  <2>8. Heard("summarize_alarms") = {j \in DOMAIN outputs : outputs[j].output # None
                                                            /\ outputs[j].output.shape = "data"}
    BY <2>5, <2>7 DEF Heard, ToolSteps
  <2>9. Heard("recommend_actions") = Recommending(outputs)
    BY <2>5, <2>7 DEF Heard, ToolSteps, Recommending
  <2> DEFINE rows(j) == ToolAnswer(plan[j]).rows
  <2>10. ASSUME NEW j \in Heard("summarize_alarms")
         PROVE  /\ outputs[j].output.rows = rows(j)
                /\ \A k \in DOMAIN rows(j) : rows(j)[k].severity \in Severities
    <3>1. /\ j \in DOMAIN plan /\ plan[j].kind \in ToolKinds /\ plan[j].tool = "summarize_alarms"
      BY DEF Heard, ToolSteps
    <3> QED
      BY <2>7, <3>1, ListingsAreAlarms
  <2>11. \A v : v \in Severity(outputs) <=>
           \E j \in Heard("summarize_alarms") : \E k \in DOMAIN rows(j) : v = rows(j)[k].severity
    <3> DEFINE H == Heard("summarize_alarms")
    <3>1. Severity(outputs) = UNION {{o.rows[k].severity : k \in DOMAIN o.rows} :
                                       o \in {outputs[j].output : j \in H}}
      BY <2>8 DEF Severity
    <3>2. \A j \in H : outputs[j].output.rows = rows(j)
      BY <2>10
    <3> HIDE DEF H, rows
    <3> QED
      BY <3>1, <3>2 DEF H
  <2>12. \A a : a \in listed <=>
           \E j \in Heard("summarize_alarms") : \E k \in DOMAIN rows(j) : a = rows(j)[k]
    BY DEF Range
  <2>13. Severity(outputs) \subseteq Severities
    BY <2>10, <2>11
  <2>14. /\ \A a \in listed : Worth[a.severity] <= Worth[reply.incident.severity]
         /\ reply.incident.severity # "low" =>
              \E a \in listed : a.severity = reply.incident.severity
    <3> HIDE DEF listed, rows
    <3>1. /\ \A v \in Severity(outputs) : Worth[v] <= Worth[reply.incident.severity]
          /\ reply.incident.severity # "low" => reply.incident.severity \in Severity(outputs)
      BY <2>6, <2>13, WorstSeverity
    <3>2. \A a \in listed : a.severity \in Severity(outputs)
      BY <2>11, <2>12
    <3>3. \A v \in Severity(outputs) : \E a \in listed : a.severity = v
      BY <2>11, <2>12
    <3> QED
      BY <3>1, <3>2, <3>3
  <2>15. searches = Searched
    <3>1. \A j \in DOMAIN plan : plan[j].kind = "search_similar_tickets" =>
            j \in ToolSteps /\ plan[j].tool = "search_similar_tickets"
      BY <2>2 DEF IsStep, ToolSteps, ToolKinds
    <3> QED
      BY <2>1, <2>3, <3>1 DEF Heard, Searched, ToolSteps
  <2>16. /\ searches = {} => reply.incident.similar = << >>
         /\ \A j \in searches : (\A i \in searches : i <= j) =>
              reply.incident.similar = [k \in DOMAIN rows(j) |-> rows(j)[k].id]
    <3> HIDE DEF searches
    <3>1. /\ searches = {} => similar = << >>
          /\ \A j \in searches : (\A i \in searches : i <= j) => similar = rows(j)
      BY <1>1, <2>15 DEF IInv, SimilarInv
    <3>2. ASSUME similar = << >> PROVE [i \in DOMAIN similar |-> similar[i].id] = << >>
      BY <3>2, EmptySequence, EmptySeq
    <3> QED
      BY <2>6, <3>1, <3>2
  <2>17. /\ recommended = {} => reply.incident.actions = << >>
         /\ \A j \in recommended : (\A i \in recommended : j <= i) =>
              reply.incident.actions = ToolAnswer(plan[j]).actions
    <3>1. \A j \in recommended : outputs[j].output = ToolAnswer(plan[j])
      BY <2>7 DEF Heard, ToolSteps
    <3> QED
      BY <2>2, <2>6, <2>9, <3>1, FirstRecommended
  <2> HIDE DEF listed, searches, recommended
  <2> QED
    BY <2>14, <2>16, <2>17 DEF IncidentIsGrounded, listed, searches, recommended
<1>2. IInv => IncidentIsGrounded
  BY <1>1 DEF IncidentIsGrounded
<1> QED
  BY <1>2, Inductive, PTL
=============================================================================
