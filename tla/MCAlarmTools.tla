---------------------------- MODULE MCAlarmTools ----------------------------
(* A call over one representative of every kind of argument:               *)
(* a filter given or not, an alarm that is known or not, a page that cuts, *)
(* a time that cannot be compared; and a second call at the same time.     *)
EXTENDS AlarmTools, TLC

CONSTANTS c1, c2

MCCalls == {c1, c2}

Searches ==
  [tool : {"search_assets"}, query : {"boiler"}, site : {None, "EastRefinery"},
   unit : {"Unit 1"}, limit : {1}]
  \cup
  [tool : {"search_assets"}, query : {"boiler"}, site : {"EastRefinery"},
   unit : {None, Blank}, limit : {10}]

(* Ids with delimiters: one that names another alarm, one with a trailing  *)
(* slash, one that is found nowhere, the list, and another route.          *)
MCDivided ==
  "bfp-101-001?x" :> <<"bfp-101-001">> @@ "bfp-101-001/" :> <<"bfp-101-001", "">> @@
  "a/b" :> <<"a", "b">> @@ "." :> <<".">> @@ "../health" :> <<"..", "health">>

Fetches ==
  [tool : {"get_alarm"}, alarm_id : {"bfp-101-001", Unprintable} \cup DOMAIN MCDivided]
  \cup
  [tool : {"get_alarm", "recommend_actions"}, alarm_id : {"alarm-0", "bfp-101-003"}]

Summaries ==
  [tool : {"summarize_alarms"}, site : {"EastRefinery"}, asset : {None, "bfp-101"},
   severity : {None, "high"}, since : {None, Naive}, until : {None},
   limit : {1}]
  \cup
  [tool : {"summarize_alarms"}, site : {None}, asset : {None},
   severity : {None}, since : {At(15, 9, 0)}, until : {None, At(20, 0, 0)}, limit : {25}]

Tickets ==
  [tool : {"search_similar_tickets"}, site : {None, "EastRefinery"},
   asset_class : {"boiler"}, limit : {1, 5}]

Other == [tool : {"get_alarm"}, alarm_id : {"bfp-101-001"}]

MCArgumentsOf(c) ==
  IF c = c1 THEN Searches \cup Fetches \cup Summaries \cup Tickets ELSE Other

MCBodies ==
  [asset_ids : {{}, {"bfp-101", "motor-m1"}}, site : {None, "EastRefinery"},
   unit : {None}, severities : {{}, {"high"}},
   start_time : {At(15, 9, 0)}, end_time : {At(24, 0, 0)}, threshold : {1}]
  \cup
  [asset_ids : {{}}, site : {None}, unit : {"Unit 1", "Unit 5"}, severities : {{}},
   start_time : {At(15, 9, 0)}, end_time : {At(24, 0, 0)}, threshold : {1, 2}]
=============================================================================
