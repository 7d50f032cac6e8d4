------------------------------ MODULE MCChain ------------------------------
(* Requests over every combination of what the planner looks for, and      *)
(* plans of an LLM that the mock planner never makes: several retrievals,  *)
(* several searches, one id for two steps, ids that do not sort as they    *)
(* run, a kind that is not its payload's, no COMPOSE step, no step at all. *)
EXTENDS Chain, TLC

(* "bfp 101" is the phrase "Boiler Feed Pump 101", "bfp-101" the word      *)
(* "asset-bfp-101".                                                        *)
MCRequests ==
  [phrase : {None, "bfp 101"}, hyphenated : {None, "bfp-101"}, quoted : {None, "boiler"},
   site : {None, "EastRefinery", "SouthPlant"}, since : {None, At(15, 8, 2)},
   text : {1, 2}, blank : {FALSE}]
  \cup
  [phrase : {None}, hyphenated : {None}, quoted : {None}, site : {None},
   since : {None, Beyond}, text : {1}, blank : {TRUE}]

MCKeywordIn(asset) == IF asset \in {"bfp 101", "boiler"} THEN "boiler" ELSE None

Ask(query, k, class) ==
  [kind |-> "rag_query", query |-> query, blank |-> FALSE, k |-> k, asset_class |-> class]

Tool(tool, arguments) == [kind |-> "tool_call", tool |-> tool] @@ arguments

Listing(site, asset, since) ==
  Tool("summarize_alarms", [site |-> site, asset |-> asset, since |-> since])

Past(site, class, limit) ==
  [kind |-> "search_similar_tickets", tool |-> "search_similar_tickets",
   site |-> site, asset_class |-> class, limit |-> limit]

Answer == [kind |-> "compose"]

Plan(steps, ids) == [i \in DOMAIN steps |-> Numbered(steps[i], ids[i])]

MCLLMPlans ==
  { << >>,
    Plan(<<Ask(1, 1, None), Ask(2, 2, "boiler"), Answer>>, <<1, 2, 3>>),
    Plan(<<Ask(1, 5, "motor"), Listing(None, "motor-m1", None), Answer>>, <<1, 2, 3>>),
    Plan(<<Ask(1, 0, None), Answer>>, <<1, 2>>),
    Plan(<<Past(None, None, 2), Past("EastRefinery", None, 5), Past("SouthPlant", None, 5),
               Answer>>, <<1, 2, 3, 4>>),
    Plan(<<Tool("get_alarm", [alarm_id |-> "bfp-101-001"]),
               Tool("recommend_actions", [alarm_id |-> "bfp-101-001"]),
               Tool("recommend_actions", [alarm_id |-> "bfp-101-003"]),
               Tool("recommend_actions", [alarm_id |-> "alarm-0"]), Answer>>, <<1, 2, 3, 4, 5>>),
    Plan(<<Tool("get_alarm", [alarm_id |-> "alarm-0"]),
               Listing("EastRefinery", None, None), Listing("SouthPlant", None, None)>>,
             <<1, 2, 3>>),
    Plan(<<Ask(1, 5, None), Answer, Listing("EastRefinery", None, None), Answer>>,
             <<8, 9, 10, 11>>),
    Plan(<<Ask(1, 5, None), Listing("EastRefinery", None, None), Answer>>, <<9, 10, 11>>),
    Plan(<<Listing("EastRefinery", None, None), Ask(2, 5, None), Answer>>, <<1, 1, 2>>),
    Plan(<<Listing("EastRefinery", None, None), [kind |-> "mismatched"], Answer>>,
             <<1, 2, 3>>),
    Plan(<<Answer, Listing("NorthPlant", None, At(17, 12, 0))>>, <<1, 1>>) }

AChunk(doc, at, section, class, marked) ==
  [doc_id |-> doc, chunk_index |-> at, section |-> section, asset_class |-> class,
   marked |-> marked]

MCIndexes ==
  { <<AChunk(1, 0, 1, "boiler", FALSE), AChunk(1, 1, 2, "boiler", TRUE),
      AChunk(2, 0, 0, "motor", FALSE), AChunk(3, 0, 1, None, FALSE)>>,
    <<AChunk(1, 0, 1, "boiler", TRUE), AChunk(2, 0, 0, "motor", TRUE)>>,
    <<AChunk(2, 1, 2, "motor", FALSE), AChunk(2, 2, 2, "boiler", TRUE)>> }

MCSimilarity(q, c) == (37 * c.doc_id + 23 * c.chunk_index + 11 * q) % 80

MCBlocklisted(c) == c.marked
=============================================================================
