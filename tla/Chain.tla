-------------------------------- MODULE Chain --------------------------------
(***************************************************************************)
(* One turn of POST /chat inside the backend: the planner makes a plan,    *)
(* the chain runner walks it step by step - a tool of the alarm MCP        *)
(* server, a retrieval, the composed answer - and the incident is          *)
(* projected from what came back.  Turns share nothing that changes: the   *)
(* MCP client opens a session per call and the retrieval service keeps the *)
(* index it loaded.  Ticket drafts of a plan are in module TicketFlow.     *)
(*                                                                         *)
(* The id of a step, "s<n>", is the number n below 100.  An output of a    *)
(* step is told by its shape, the field a reader looks for in the dict.    *)
(***************************************************************************)
EXTENDS AlarmApi, Retrieval

CONSTANTS Requests,      \* what a request holds, by the patterns of the planner
          KeywordIn(_),  \* the asset class named in an asset, or None
          LLMPlans,      \* step lists the LLM planner may come back with
          Indexes,       \* the entries the retrieval service may have loaded
          Beyond         \* a time before the first year of the calendar

Tools ==
  {"search_assets", "summarize_alarms", "search_similar_tickets", "get_alarm",
   "recommend_actions"}

ToolKinds == {"tool_call", "search_similar_tickets"}

IsSequence(s) == s \in Seq({s[i] : i \in DOMAIN s})

(* A query has a score for every entry that may be loaded.                 *)
Scored(query) == \A es \in Indexes : \A i \in DOMAIN es : Similarity(query, es[i]) \in Int

(* A step the schema of a plan lets through.                               *)
IsStep(s) ==
  /\ s.id \in 1..99
  /\ s.kind \in ToolKinds \cup {"rag_query", "compose", "mismatched"}
  /\ s.kind \in ToolKinds => s.tool \in Tools
  /\ s.kind = "search_similar_tickets" => s.tool = "search_similar_tickets"
  /\ s.kind = "rag_query" => s.blank \in BOOLEAN /\ s.k \in Int /\ Scored(s.query)

ASSUME ChainAssumption ==
  /\ Beyond \notin {None, Naive, Blank}
  /\ None # [shape |-> "retrieval"]
  /\ \A es \in Indexes : IsSequence(es) /\ \A i, j \in DOMAIN es : es[i] = es[j] => i = j
  /\ \A r \in Requests : r.blank \in BOOLEAN /\ Scored(r.text)
  /\ \A steps \in LLMPlans : IsSequence(steps) /\ \A i \in DOMAIN steps : IsStep(steps[i])

VARIABLES
  index,      \* the entries of the loaded index
  stage,      \* of the turn
  plan,       \* its steps
  next,       \* the step that is run
  outputs,    \* prior_outputs, a dict: its items in order of insertion
  trace, citations, confidence, dropped, similar,   \* as in ChainRunner.run
  reply       \* what the caller is told

locals == <<outputs, trace, citations, confidence, dropped, similar>>
vars   == <<index, stage, plan, next, locals, reply>>

-----------------------------------------------------------------------------
(* The mock planner.  An asset is a capitalised phrase with a number, else *)
(* a hyphenated word, else something in quotes.                            *)
ExtractAsset(r) ==
  IF r.phrase # None THEN r.phrase
  ELSE IF r.hyphenated # None THEN r.hyphenated ELSE r.quoted

If(condition, step) == IF condition THEN <<step>> ELSE << >>

Numbered(step, id) == [f \in DOMAIN step \cup {"id"} |-> IF f = "id" THEN id ELSE step[f]]

MockPlan(r) ==
  LET asset    == ExtractAsset(r)
      located  == asset # None \/ r.site # None
      class    == IF asset = None THEN None ELSE KeywordIn(asset)
      unnumbered ==
        If(asset # None, [kind |-> "tool_call", tool |-> "search_assets", query |-> asset])
        \o If(located, [kind |-> "tool_call", tool |-> "summarize_alarms",
                        site |-> r.site, asset |-> asset, since |-> r.since])
        \o <<[kind |-> "rag_query", query |-> r.text, blank |-> r.blank, k |-> 5,
              asset_class |-> class]>>
        \o If(located, [kind |-> "search_similar_tickets", tool |-> "search_similar_tickets",
                        site |-> r.site, asset_class |-> class, limit |-> 5])
        \o <<[kind |-> "compose"]>>
  IN  [i \in DOMAIN unnumbered |-> Numbered(unnumbered[i], i)]

(* The order of the ids as strings: s1, s10, s11, ..., s2, s20, ...        *)
KeyOrder(id) == IF id < 10 THEN 11 * id ELSE 11 * (id \div 10) + 1 + (id % 10)

-----------------------------------------------------------------------------
(* What the alarm MCP server answers, when it does: None for an alarm that *)
(* nobody knows, which is a tool error.  The ids of alarms in a plan are   *)
(* segments of a path; for others see module AlarmTools.                   *)
Page(shape, rows, total) == [shape |-> shape, rows |-> rows, total |-> total]

SummaryParameters(s) ==
  [asset_id |-> s.asset, severity |-> None, site |-> s.site,
   start_time |-> s.since, end_time |-> None, page_size |-> 25]

ToolAnswer(s) ==
  CASE s.tool = "search_assets" ->
         LET rows == SearchAssets([query |-> s.query, unit |-> None, limit |-> 10])
         IN  Page("results", rows, Len(rows))
    [] s.tool = "summarize_alarms" ->
         Page("data", ListPage(SummaryParameters(s)), Len(ListFiltered(SummaryParameters(s))))
    [] s.tool = "search_similar_tickets" -> Page("items", SimilarTickets(s), 0)
    [] s.tool = "get_alarm" ->
         IF Known(s.alarm_id) THEN [shape |-> "alarm", alarm |-> AlarmOf(s.alarm_id)] ELSE None
    [] s.tool = "recommend_actions" ->
         IF Known(s.alarm_id)
           THEN [shape |-> "actions", actions |-> Recommendation(AlarmOf(s.alarm_id)).actions]
           ELSE None

(* prior_outputs[id] = output: a key that is there keeps its place.        *)
Put(items, id, output) ==
  IF \E i \in DOMAIN items : items[i].id = id
    THEN [i \in DOMAIN items |-> IF items[i].id = id THEN [id |-> id, output |-> output]
                                 ELSE items[i]]
    ELSE Append(items, [id |-> id, output |-> output])

-----------------------------------------------------------------------------
(* _summary_excerpt: which of its cases an output falls under.             *)
Excerpt(output) ==
  IF output = None THEN None
  ELSE CASE output.shape = "text" -> output.text
         [] output.shape \in {"items", "results"} -> [returned |-> Len(output.rows)]
         [] output.shape = "data" -> [total |-> output.total]
         [] output.shape \in {"alarm", "actions", "retrieval"} -> [as_it_is |-> output.shape]

(* Mutant: the findings are those of the first key.                        *)
FirstKey(items) ==
  CHOOSE i \in DOMAIN items : \A j \in DOMAIN items : KeyOrder(items[i].id) <= KeyOrder(items[j].id)

(* max(prior_outputs.keys()).                                              *)
LastKey(items) ==
  CHOOSE i \in DOMAIN items : \A j \in DOMAIN items : KeyOrder(items[i].id) >= KeyOrder(items[j].id)

ComposeAnswer(items, cited, band, drops, size) ==
  [findings |-> IF items = << >> THEN None ELSE Excerpt(items[LastKey(items)].output),
   citations |-> cited, confidence |-> band, note |-> drops, trace_size |-> size]

(* The output of the last COMPOSE step; without one, of the last step.     *)
FinalAnswer(items, steps) ==
  LET composed == {i \in DOMAIN steps : steps[i].kind = "compose"}
      from     == IF composed # {} THEN CHOOSE i \in composed : \A j \in composed : i >= j
                  ELSE Len(steps)
  IN  IF steps = << >> THEN Blank
      ELSE (CHOOSE item \in {items[i] : i \in DOMAIN items} : item.id = steps[from].id).output

-----------------------------------------------------------------------------
(* The incident.                                                           *)
IncidentShaped(steps) ==
  \E i \in DOMAIN steps : steps[i].kind \in {"tool_call", "search_similar_tickets"}

(* Severities are looked for in the rows of an output; only alarms carry   *)
(* one.  A single alarm that was fetched is no row.                        *)
Severity(items) ==
  UNION {{o.rows[k].severity : k \in DOMAIN o.rows} :
           o \in {items[i].output : i \in {j \in DOMAIN items :
                                             items[j].output # None /\ items[j].output.shape = "data"}}}

Worth == [low |-> 0, medium |-> 1, high |-> 2, critical |-> 3]

HighestSeverity(items) ==
  IF Severity(items) = {} THEN "low"
  ELSE CHOOSE s \in Severity(items) : \A t \in Severity(items) : Worth[s] >= Worth[t]

RecommendedActions(items) ==
  LET found == Kept(items, LAMBDA item : /\ item.output # None
                                         /\ item.output.shape = "actions")
  IN  IF found = << >> THEN << >> ELSE Head(found).output.actions

(* The title and the likely cause name the section of the first citation;  *)
(* the summary is composed anew, from outputs that hold the answer too.    *)
BuildIncident ==
  IF ~IncidentShaped(plan) THEN None
  ELSE [severity |-> HighestSeverity(outputs),
        citations |-> citations,
        section |-> IF citations = << >> THEN None ELSE citations[1].section,
        similar |-> [i \in DOMAIN similar |-> similar[i].id],
        actions |-> RecommendedActions(outputs),
        summary |-> ComposeAnswer(outputs, citations, confidence, dropped, Len(trace))]

-----------------------------------------------------------------------------
Init ==
  /\ index \in Indexes
  /\ stage = "idle"
  /\ plan = << >>
  /\ next = 1
  /\ outputs = << >> /\ trace = << >> /\ citations = << >> /\ similar = << >>
  /\ confidence = "none"
  /\ dropped = 0
  /\ reply = None

(* Mutant: the list of trace steps is the one of the turn before.          *)
BeginWithOldTrace(steps) ==
  /\ stage = "idle"
  /\ stage' = "running"
  /\ plan' = steps
  /\ next' = 1
  /\ outputs' = << >> /\ citations' = << >> /\ similar' = << >>
  /\ confidence' = "none"
  /\ dropped' = 0
  /\ reply' = None
  /\ UNCHANGED <<index, trace>>

(* A request arrives and is planned.                                       *)
Begin(steps) ==
  /\ stage = "idle"
  /\ stage' = "running"
  /\ plan' = steps
  /\ next' = 1
  /\ outputs' = << >> /\ trace' = << >> /\ citations' = << >> /\ similar' = << >>
  /\ confidence' = "none"
  /\ dropped' = 0
  /\ reply' = None
  /\ UNCHANGED index

PlanByMock == \E r \in Requests : r.since # Beyond /\ Begin(MockPlan(r))
PlanByLLM  == \E steps \in LLMPlans : Begin(steps)

(* "The last 9999 years": the subtraction overflows in the planner.        *)
MockPlanRaises ==
  /\ stage = "idle"
  /\ \E r \in Requests : r.since = Beyond
  /\ plan' = << >>
  /\ next' = 1
  /\ outputs' = << >> /\ trace' = << >> /\ citations' = << >> /\ similar' = << >>
  /\ confidence' = "none"
  /\ dropped' = 0
  /\ reply' = [kind |-> "unhandled", error |-> "OverflowError"]
  /\ UNCHANGED <<index, stage>>

Current == plan[next]

Running(kinds) ==
  /\ stage = "running"
  /\ next <= Len(plan)
  /\ Current.kind \in kinds

TraceStep(outcome) == [tool |-> Current.tool, outcome |-> outcome]

(* Mutant: a step that failed leaves no trace.                             *)
ToolFailsUntraced ==
  /\ Running(ToolKinds)
  /\ outputs' = Put(outputs, Current.id, None)
  /\ next' = next + 1
  /\ UNCHANGED <<index, stage, plan, trace, citations, confidence, dropped, similar, reply>>

(* The transport fails, or the tool returns is_error: the step is traced   *)
(* and the chain goes on without an output.                                *)
ToolFails ==
  /\ Running(ToolKinds)
  /\ outputs' = Put(outputs, Current.id, None)
  /\ trace' = Append(trace, TraceStep("error"))
  /\ next' = next + 1
  /\ UNCHANGED <<index, stage, plan, citations, confidence, dropped, similar, reply>>

(* Mutant: tickets that were found are added to those of a search before.  *)
ToolSucceedsAdding ==
  /\ Running(ToolKinds)
  /\ LET output == ToolAnswer(Current)
     IN  /\ output # None
         /\ outputs' = Put(outputs, Current.id, output)
         /\ similar' = IF Current.kind = "search_similar_tickets" THEN similar \o output.rows
                       ELSE similar
  /\ trace' = Append(trace, TraceStep("success"))
  /\ next' = next + 1
  /\ UNCHANGED <<index, stage, plan, citations, confidence, dropped, reply>>

ToolSucceeds ==
  /\ Running(ToolKinds)
  /\ LET output == ToolAnswer(Current)
     IN  /\ output # None
         /\ outputs' = Put(outputs, Current.id, output)
         /\ similar' = IF Current.kind = "search_similar_tickets" THEN output.rows ELSE similar
  /\ trace' = Append(trace, TraceStep("success"))
  /\ next' = next + 1
  /\ UNCHANGED <<index, stage, plan, citations, confidence, dropped, reply>>

(* Mutant: the confidence is that of the first retrieval.                  *)
RetrievedFirst(result) ==
  /\ result.kind = "result"
  /\ outputs' = Put(outputs, Current.id, [shape |-> "retrieval"])
  /\ citations' = citations \o result.citations
  /\ confidence' = IF confidence = "none" THEN result.confidence ELSE confidence
  /\ dropped' = result.dropped
  /\ next' = next + 1
  /\ UNCHANGED <<index, stage, plan, trace, similar, reply>>

Retrieved(result) ==
  /\ result.kind = "result"
  /\ outputs' = Put(outputs, Current.id, [shape |-> "retrieval"])
  /\ citations' = citations \o result.citations
  /\ confidence' = result.confidence
  /\ dropped' = result.dropped
  /\ next' = next + 1
  /\ UNCHANGED <<index, stage, plan, trace, similar, reply>>

(* No handler of the route is for what the retrieval raises: a plain 500,  *)
(* and the turn leaves no trace.                                           *)
RetrievalRaises(result) ==
  /\ result.kind = "raised"
  /\ stage' = "idle"
  /\ reply' = [kind |-> "unhandled", error |-> result.error]
  /\ UNCHANGED <<index, plan, next, locals>>

RagStep ==
  /\ Running({"rag_query"})
  /\ LET result == Retrieve(index, Current)
     IN  Retrieved(result) \/ RetrievalRaises(result)

Compose ==
  /\ Running({"compose"})
  /\ LET text == ComposeAnswer(outputs, citations, confidence, dropped, Len(trace) + 1)
     IN  outputs' = Put(outputs, Current.id, [shape |-> "text", text |-> text])
  /\ next' = next + 1
  /\ UNCHANGED <<index, stage, plan, trace, citations, confidence, dropped, similar, reply>>

(* A step whose kind is not that of its payload, which an LLM may write:   *)
(* the runner raises a ChainError and the turn is refused, with whatever   *)
(* its steps before brought.                                               *)
RefuseStep ==
  /\ Running({"mismatched"})
  /\ stage' = "idle"
  /\ reply' = [kind |-> "refused", error |-> "orchestrator_error"]
  /\ UNCHANGED <<index, plan, next, locals>>

(* The steps are done: the response envelope.                              *)
Finish ==
  /\ stage = "running"
  /\ next > Len(plan)
  /\ stage' = "idle"
  /\ reply' = [kind |-> "answered", answer |-> FinalAnswer(outputs, plan),
               citations |-> citations, trace |-> trace, confidence |-> confidence,
               dropped |-> dropped, incident |-> BuildIncident]
  /\ UNCHANGED <<index, plan, next, locals>>

Run == ToolFails \/ ToolSucceeds \/ RagStep \/ Compose \/ RefuseStep \/ Finish

Next == PlanByMock \/ PlanByLLM \/ MockPlanRaises \/ Run

Spec == Init /\ [][Next]_vars

-----------------------------------------------------------------------------
(* Properties.                                                             *)

Bands == {"none", "low", "medium", "high"}

(* How many of the first j steps of the plan call a tool: the trace of a   *)
(* step that does is the one of that number.                               *)
Told(j) == Cardinality({i \in 1..j : plan[i].kind \in ToolKinds})

ToolSteps == {j \in DOMAIN plan : plan[j].kind \in ToolKinds}
RagSteps  == {j \in DOMAIN plan : plan[j].kind = "rag_query"}

(* Every variable has its type; what was run so far is what the plan said. *)
TypeOK ==
  /\ index \in Indexes
  /\ stage \in {"idle", "running"}
  /\ \A j \in DOMAIN plan : IsStep(plan[j])
  /\ next \in 1..Len(plan) + 1
  /\ \A s \in {plan, outputs, trace, citations} : IsSequence(s)
  /\ Len(outputs) <= next - 1
  /\ \A i \in DOMAIN outputs : \E j \in 1..next - 1 : plan[j].id = outputs[i].id
  /\ confidence \in Bands
  /\ dropped \in Nat
  /\ Len(trace) = Told(next - 1)
  /\ stage = "running" => reply = None

Answered == reply # None /\ reply.kind = "answered"

(* Whichever tools failed, a turn only ever fails for what it asked of the *)
(* index or the calendar, or for a plan that contradicts itself; and an    *)
(* answered one tells of every tool the plan called, in order, "success"   *)
(* only of one that has an answer.  chain.py:12-14 and errors.py:29-31     *)
(* have a ChainError for an MCP server that is unreachable and a RAG       *)
(* service that is broken, docs/api-integration.md:239-240 an mcp_error    *)
(* and a rag_error: _call_mcp turns every exception of a call into a trace *)
(* step (chain.py:276), and what a retrieval raises is neither of those.   *)
FailedToolsAreTold ==
  /\ (reply # None /\ reply.kind = "refused") =>
       \E i \in DOMAIN plan : plan[i].kind = "mismatched"
  /\ (reply # None /\ reply.kind = "unhandled") =>
       \/ reply.error = "OverflowError"
       \/ \E i \in RagSteps : plan[i].blank \/ plan[i].k <= 0
  /\ Answered =>
       /\ Len(reply.trace) = Told(Len(plan))
       /\ \A j \in ToolSteps :
            /\ reply.trace[Told(j)].tool = plan[j].tool
            /\ ToolAnswer(plan[j]) = None => reply.trace[Told(j)].outcome = "error"

(* The steps whose tool succeeded.                                         *)
Heard(tool) ==
  {j \in ToolSteps : plan[j].tool = tool /\ reply.trace[Told(j)].outcome = "success"}

UniqueIds == \A i, j \in DOMAIN plan : plan[i].id = plan[j].id => i = j

(* The incident says of the plant what the tools that succeeded said: its  *)
(* severity is that of an alarm that was listed and none of those is worse *)
(* (low if none was), its similar tickets are those of the last search     *)
(* that succeeded, its actions those of the first recommendation.          *)
IncidentIsGrounded ==
  Answered /\ reply.incident # None /\ UniqueIds =>
    LET listed == UNION {Range(ToolAnswer(plan[j]).rows) : j \in Heard("summarize_alarms")}
        searches == {j \in Heard("search_similar_tickets") :
                       plan[j].kind = "search_similar_tickets"}
        recommended == Heard("recommend_actions")
    IN  /\ \A a \in listed : Worth[a.severity] <= Worth[reply.incident.severity]
        /\ reply.incident.severity # "low" =>
             \E a \in listed : a.severity = reply.incident.severity
        /\ searches = {} => reply.incident.similar = << >>
        /\ \A j \in searches : (\A i \in searches : i <= j) =>
             LET rows == ToolAnswer(plan[j]).rows
             IN  reply.incident.similar = [k \in DOMAIN rows |-> rows[k].id]
        /\ recommended = {} => reply.incident.actions = << >>
        /\ \A j \in recommended : (\A i \in recommended : j <= i) =>
             reply.incident.actions = ToolAnswer(plan[j]).actions

(* The citations of the response are those of all its retrievals, one      *)
(* after the other, each of them sound for its query, filter and k; the    *)
(* confidence and the count of dropped chunks are those of the last one,   *)
(* whatever the ones before had; the incident cites the same.              *)
Found(j) == Retrieve(index, plan[j]).citations

CitedBy(j) == Cardinality(UNION {{i} \X DOMAIN Found(i) : i \in RagSteps \cap 1..j})

CitationsAreSound ==
  Answered =>
    /\ Len(reply.citations) = CitedBy(Len(plan))
    /\ \A j \in RagSteps :
         LET own == Retrieve(index, plan[j])
         IN  /\ SoundResult(index, plan[j],
                  Result(SubSeq(reply.citations, CitedBy(j - 1) + 1, CitedBy(j)),
                         own.confidence, own.dropped))
             /\ (\A i \in RagSteps : i <= j) =>
                  reply.confidence = own.confidence /\ reply.dropped = own.dropped
    /\ RagSteps = {} => reply.confidence = "none" /\ reply.dropped = 0
    /\ reply.incident # None => reply.incident.citations = reply.citations

(* The answer of a plan that ends in a COMPOSE step, with an id for every  *)
(* step: its findings are those of the step whose id sorts last among the  *)
(* ones before - the step before it only when ids sort as they run, where  *)
(* answer.py:42 has "the last tool / RAG output" - and its citations,      *)
(* confidence and note are those beside it in the envelope.  The number of *)
(* MCP and RAG steps it tells (answer.py:45, 62) is right for a plan with  *)
(* one retrieval: it is that of the tool steps and one more.               *)
SortsLast(j, n) == \A i \in 1..n : KeyOrder(plan[i].id) <= KeyOrder(plan[j].id)

AnswerMatchesTheEnvelope ==
  Answered /\ UniqueIds /\ plan # << >> /\ plan[Len(plan)].kind = "compose" =>
    LET text == reply.answer.text
        before == Len(plan) - 1
    IN  /\ text.citations = reply.citations
        /\ text.confidence = reply.confidence
        /\ text.note = reply.dropped
        /\ Cardinality(RagSteps) = 1 =>
             text.trace_size = Cardinality(ToolSteps) + Cardinality(RagSteps)
        /\ \A j \in 1..before : SortsLast(j, before) =>
             LET s == plan[j]
             IN  CASE s.kind = "rag_query" -> text.findings = [as_it_is |-> "retrieval"]
                   [] s.kind \in ToolKinds ->
                        text.findings = IF reply.trace[Told(j)].outcome = "error" THEN None
                                        ELSE Excerpt(ToolAnswer(s))
                   [] s.kind = "compose" -> TRUE
==============================================================================
