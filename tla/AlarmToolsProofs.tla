--------------------------- MODULE AlarmToolsProofs ---------------------------
(***************************************************************************)
(* What AlarmTools promises, for every number of calls, of attempts and of *)
(* starts, and that each tool call is one atomic call.                     *)
(***************************************************************************)
EXTENDS AlarmTools, RowsProofs, TLAPS

(* The history of each call has an entry for each call.                    *)
ShapeInv ==
  DOMAIN args = Calls /\ DOMAIN last = Calls /\ DOMAIN answer = Calls

(* Calls run only while the sessions are open, and they are open only over *)
(* an open client.                                                         *)
LifespanInv ==
  /\ phase # "down" => client = "open"
  /\ \A c \in Calls : Running(c) => phase \in {"serving", "leaving"}

(* A call has its arguments once it runs, and attempts left while it runs. *)
CallInv ==
  \A c \in Calls :
    /\ stage[c] = "idle" => args[c] = None /\ attempts[c] = 0
    /\ Running(c) => args[c] \in ArgumentsOf(c) /\ attempts[c] < MaxAttempts

(* A running call has seen failures that may pass; a failure that may pass *)
(* is told when no attempt is left.                                        *)
RetryInv ==
  \A c \in Calls :
    /\ Running(c) /\ last[c] # None => Passing(last[c])
    /\ answer[c] # None /\ answer[c].kind \in {"status", "failed"} =>
         (Passing(last[c]) => attempts[c] = MaxAttempts)

(* A report is that of the body it was asked for.                          *)
ReportInv ==
  \A c \in Calls :
    answer[c] # None /\ answer[c].kind = "report" => answer[c] = Reports(args[c])

IInv == TypeOK /\ ShapeInv /\ LifespanInv /\ CallInv /\ RetryInv /\ ReportInv

-----------------------------------------------------------------------------
(* The path of the list names no alarm.                                    *)
LEMMA OneSegment == ~NamesAlarm(<<"alarms">>)
BY DEF NamesAlarm

(* The request of a tool goes to its own route, but for get_alarm, whose   *)
(* path decides.                                                           *)
LEMMA RouteOf ==
  ASSUME NEW a, a.tool \in Tools
  PROVE  /\ a.tool = "search_assets" => HttpRequest(a).route = "/assets/search"
         /\ a.tool = "get_alarm" =>
              LET path == PathOf(a.alarm_id)
              IN  /\ NamesAlarm(path) => /\ HttpRequest(a).route = "/alarms/"
                                         /\ HttpRequest(a).alarm_id = path[2]
                  /\ ~NamesAlarm(path) =>
                       HttpRequest(a) = IF path = <<"alarms">> THEN Listing(NoFilter)
                                                               ELSE [route |-> "elsewhere"]
         /\ a.tool = "summarize_alarms" => HttpRequest(a) = Listing(a)
         /\ a.tool = "recommend_actions" =>
              /\ HttpRequest(a).route = "/recommendations/operator-actions"
              /\ HttpRequest(a).alarm_id = a.alarm_id
         /\ a.tool = "search_similar_tickets" =>
              HttpRequest(a).route = "/tickets/similar"
BY OneSegment DEF HttpRequest, Tools

LEMMA ListingRoute ==
  ASSUME NEW f
  PROVE  Listing(f).route = "/alarms"
BY DEF Listing

(* What a route answers: 404 only for an id that names no alarm.           *)
LEMMA ServeStatus ==
  ASSUME NEW a, a.tool \in Tools, HttpRequest(a).route # "elsewhere"
  PROVE  LET o == Serve(HttpRequest(a))
             path == PathOf(a.alarm_id)
         IN  /\ o.error = "none"
             /\ o.status \in {200, 404, 500}
             /\ o.status = 404 =>
                  \/ a.tool = "get_alarm" /\ NamesAlarm(path) /\ ~Known(path[2])
                  \/ a.tool = "recommend_actions" /\ ~Known(a.alarm_id)
             /\ o.status = 200 /\ a.tool = "get_alarm" /\ NamesAlarm(path) =>
                  Known(path[2]) /\ o.body = AlarmOf(path[2])
             /\ o.status = 200 /\ a.tool = "recommend_actions" =>
                  Known(a.alarm_id) /\ o.body = Recommendation(AlarmOf(a.alarm_id))
<1>1. CASE a.tool = "search_assets"
  BY <1>1, RouteOf DEF Serve, Response
<1>2. CASE a.tool = "get_alarm" /\ NamesAlarm(PathOf(a.alarm_id))
  BY <1>2, RouteOf DEF Serve, Response
<1>3. CASE a.tool = "get_alarm" /\ ~NamesAlarm(PathOf(a.alarm_id))
  <2>1. HttpRequest(a).route = "/alarms"
    BY <1>3, RouteOf, ListingRoute
  <2> QED
    BY <1>3, <2>1 DEF Serve, Response
<1>4. CASE a.tool = "summarize_alarms"
  BY <1>4, RouteOf, ListingRoute DEF Serve, Response
<1>5. CASE a.tool = "recommend_actions"
  BY <1>5, RouteOf DEF Serve, Response
<1>6. CASE a.tool = "search_similar_tickets"
  BY <1>6, RouteOf DEF Serve, Response
<1> QED
  BY <1>1, <1>2, <1>3, <1>4, <1>5, <1>6 DEF Tools

(* The API answers a request of a call as its route does.                  *)
LEMMA ServedByRoute ==
  ASSUME NEW c \in Calls, NEW a \in ArgumentsOf(c)
  PROVE  Served[HttpRequest(a)] =
           IF HttpRequest(a).route = "elsewhere" THEN Elsewhere ELSE {Serve(HttpRequest(a))}
BY DEF Served

(* The outcomes of an attempt: an answer of the API, or a mishap.          *)
LEMMA OutcomeKinds ==
  ASSUME NEW c \in Calls, NEW a \in ArgumentsOf(c), NEW o \in Outcomes(a)
  PROVE  \/ HttpRequest(a).route # "elsewhere" /\ o = Serve(HttpRequest(a))
         \/ HttpRequest(a).route = "elsewhere" /\ o \in Elsewhere
         \/ o.error = "none" /\ o.status = 503
         \/ o.error = "none" /\ o.status = 200 /\ o.body = Blank
         \/ o.error \in {"ReadTimeout", "ConnectTimeout", "InvalidURL"} /\ o.status = 0
<1>1. o = TransportError("InvalidURL") \/ o \in Served[HttpRequest(a)] \/ o \in Mishaps
  BY DEF Outcomes
<1>2. CASE o = TransportError("InvalidURL")
  BY <1>2 DEF TransportError
<1>3. CASE o \in Served[HttpRequest(a)]
  <2>1. CASE HttpRequest(a).route = "elsewhere"
    BY <1>3, <2>1, ServedByRoute
  <2>2. CASE HttpRequest(a).route # "elsewhere"
    <3>1. Served[HttpRequest(a)] = {Serve(HttpRequest(a))}
      BY <2>2, ServedByRoute
    <3> QED
      BY <1>3, <2>2, <3>1
  <2> QED
    BY <2>1, <2>2
<1>4. CASE o = Response(503, None)
  <2>1. o = [status |-> 503, error |-> "none", body |-> None]
    BY <1>4 DEF Response
  <2> QED
    BY <2>1
<1>5. CASE o = Response(200, Blank)
  BY <1>5 DEF Response
<1>6. CASE o \in {TransportError("ReadTimeout"), TransportError("ConnectTimeout")}
  BY <1>6 DEF TransportError
<1> QED
  BY <1>1, <1>2, <1>3, <1>4, <1>5, <1>6 DEF Mishaps

(* And by status and error.                                                *)
LEMMA OutcomeStatus ==
  ASSUME NEW c \in Calls, NEW a \in ArgumentsOf(c), NEW o \in Outcomes(a)
  PROVE  \/ o.error = "none" /\ o.status \in {200, 307, 404, 405, 422, 500, 503}
         \/ o.error \in {"ReadTimeout", "ConnectTimeout", "InvalidURL"} /\ o.status = 0
<1>1. CASE HttpRequest(a).route # "elsewhere" /\ o = Serve(HttpRequest(a))
  BY <1>1, ServeStatus, ToolsAssumption
<1>2. CASE o \in Elsewhere
  BY <1>2 DEF Elsewhere, Response
<1> QED
  BY <1>1, <1>2, OutcomeKinds

(* The client retries exactly the failures that may pass.                  *)
LEMMA RetriesPassing ==
  ASSUME NEW c \in Calls, NEW a \in ArgumentsOf(c), NEW o \in Outcomes(a)
  PROVE  Retryable(o) <=> Passing(o)
BY OutcomeStatus DEF Retryable, Passing, RETRYABLE_STATUS_CODES, RetryableTransport

(* A tool answers with no report.                                          *)
LEMMA EnvelopeIsNoReport ==
  ASSUME NEW c \in Calls, NEW a \in ArgumentsOf(c), NEW o \in Outcomes(a)
  PROVE  Envelope(a, o).kind # "report"
<1>1. CASE o.error = "none" /\ o.status \in {200, 307, 404, 405, 422, 500, 503}
  BY <1>1 DEF Envelope
<1>2. CASE o.error \in {"ReadTimeout", "ConnectTimeout", "InvalidURL"} /\ o.status = 0
  BY <1>2 DEF Envelope
<1> QED
  BY <1>1, <1>2, OutcomeStatus

-----------------------------------------------------------------------------
(* A list of nothing lists no rows.                                         *)
LEMMA NothingListed ==
  ASSUME NEW S, Lists(<< >>, S)
  PROVE  S = {}
BY ListedRows

(* The seed: no two alarms were raised at the same time.                   *)
Raised == [x \in Alarms |-> x.raised_at]

LEMMA SeedOfAlarms ==
  /\ Lists(SeedAlarms, Alarms)
  /\ \A x \in Alarms : Raised[x] = x.raised_at /\ Raised[x] \in Int
  /\ \A x, y \in Alarms : Raised[x] = Raised[y] => x = y
<1> DEFINE time == <<32, 36, 136, 236, 336, 436, 710, 825, 536, 636>>
<1>1. Len(SeedAlarms) = 10 /\ DOMAIN SeedAlarms = 1..10
  BY DEF SeedAlarms
<1>2. \A i \in 1..10 : SeedAlarms[i].raised_at = time[i] /\ time[i] \in Int
  BY DEF SeedAlarms, AnAlarm, At
<1>3. \A i, j \in 1..10 : time[i] = time[j] => i = j
  OBVIOUS
<1> HIDE DEF time
<1>4. Alarms = {SeedAlarms[i] : i \in 1..10}
  BY <1>1 DEF Alarms, Range
<1>5. SeedAlarms \in Seq(Alarms)
  <2>1. SeedAlarms \in [1..10 -> Alarms]
    BY <1>1, <1>4 DEF SeedAlarms
  <2> QED
    BY <2>1, SeqDef
<1>6. \A i, j \in 1..10 : SeedAlarms[i] = SeedAlarms[j] => i = j
  BY <1>2, <1>3
<1>7. Chooses(SeedAlarms, 10, Alarms)
  <2>1. SeedAlarms \in [1..10 -> Alarms]
    BY <1>1, <1>5, LenProperties
  <2> QED
    BY <1>4, <1>6, <2>1 DEF Chooses
<1>8. \A x \in Alarms : Raised[x] = x.raised_at /\ Raised[x] \in Int
  BY <1>2, <1>4 DEF Raised
<1>9. \A x, y \in Alarms : Raised[x] = Raised[y] => x = y
  BY <1>2, <1>3, <1>4, <1>8
<1> QED
  BY <1>1, <1>5, <1>7, <1>8, <1>9 DEF Lists

LEMMA SeedsOfOthers ==
  /\ SeedAssets \in Seq(Assets)
  /\ SeedTickets \in Seq(Range(SeedTickets))
  /\ \A t \in Range(SeedTickets) : t.similarity \in Int
<1>1. DOMAIN SeedAssets = 1..7 /\ DOMAIN SeedTickets = 1..5
  BY DEF SeedAssets, SeedTickets
<1>2. SeedAssets \in [1..7 -> Assets] /\ SeedTickets \in [1..5 -> Range(SeedTickets)]
  BY <1>1 DEF SeedAssets, SeedTickets, Assets, Range
<1>3. \A i \in 1..5 : SeedTickets[i].similarity \in Int
  BY DEF SeedTickets, ATicket
<1> QED
  BY <1>1, <1>2, <1>3, SeqDef DEF Range

(* What GET /alarms lists, and each of its filters.                        *)
InScope(p) ==
  {x \in Alarms : /\ p.asset_id \in {None, x.asset_id}
                  /\ p.severity \in {None, x.severity}
                  /\ p.site # None => x.asset_id \in AssetIdsIn(p.site, None)}

From(start) == {x \in Alarms : start \notin {None, Naive} => x.raised_at >= start}
UpTo(end)   == {x \in Alarms : end \notin {None, Naive} => x.raised_at <= end}

(* The time filters list those in time.                                    *)
LEMMA TimesList ==
  ASSUME NEW A \in SUBSET Alarms, NEW rows, Lists(rows, A)
  PROVE  /\ \A start : Lists(Since(rows, start), A \cap From(start))
         /\ \A end : Lists(Until(rows, end), A \cap UpTo(end))
<1>1. ASSUME NEW start
      PROVE  Lists(Since(rows, start), A \cap From(start))
  <2>1. CASE start \in {None, Naive}
    <3>1. A \cap From(start) = A
      BY <2>1 DEF From
    <3> QED
      BY <2>1, <3>1 DEF Since
  <2>2. CASE start \notin {None, Naive}
    <3>1. \A i \in DOMAIN rows : rows[i] \in Alarms
      BY ListedRows
    <3>2. {i \in DOMAIN rows : rows[i].raised_at >= start} = GoodOf(rows, From(start))
      BY <2>2, <3>1 DEF GoodOf, From
    <3>3. Since(rows, start) = KeptAt(rows, GoodOf(rows, From(start)))
      BY <2>2, <3>2 DEF Since, Kept
    <3> QED
      BY <3>3, KeptLists
  <2> QED
    BY <2>1, <2>2
<1>2. ASSUME NEW end
      PROVE  Lists(Until(rows, end), A \cap UpTo(end))
  <2>1. CASE end \in {None, Naive}
    <3>1. A \cap UpTo(end) = A
      BY <2>1 DEF UpTo
    <3> QED
      BY <2>1, <3>1 DEF Until
  <2>2. CASE end \notin {None, Naive}
    <3>1. \A i \in DOMAIN rows : rows[i] \in Alarms
      BY ListedRows
    <3>2. {i \in DOMAIN rows : rows[i].raised_at <= end} = GoodOf(rows, UpTo(end))
      BY <2>2, <3>1 DEF GoodOf, UpTo
    <3>3. Until(rows, end) = KeptAt(rows, GoodOf(rows, UpTo(end)))
      BY <2>2, <3>2 DEF Until, Kept
    <3> QED
      BY <3>3, KeptLists
  <2> QED
    BY <2>1, <2>2
<1> QED
  BY <1>1, <1>2

LEMMA FilteredLists ==
  ASSUME NEW p
  PROVE  /\ Lists(ListScope(p), InScope(p))
         /\ Lists(Since(ListScope(p), p.start_time), InScope(p) \cap From(p.start_time))
         /\ Lists(ListFiltered(p),
                  (InScope(p) \cap From(p.start_time)) \cap UpTo(p.end_time))
<1>1. Lists(ListScope(p), InScope(p))
  <2>1. SeedAlarms \in Seq(Alarms) /\ \A i \in DOMAIN SeedAlarms : SeedAlarms[i] \in Alarms
    BY SeedOfAlarms, ElementOfSeq DEF Alarms, Range, Lists
  <2>2. ListScope(p) = KeptAt(SeedAlarms, GoodOf(SeedAlarms, InScope(p)))
    <3>1. {i \in DOMAIN SeedAlarms :
             /\ p.asset_id \in {None, SeedAlarms[i].asset_id}
             /\ p.severity \in {None, SeedAlarms[i].severity}
             /\ p.site # None => SeedAlarms[i].asset_id \in AssetIdsIn(p.site, None)}
          = GoodOf(SeedAlarms, InScope(p))
      BY <2>1 DEF GoodOf, InScope
    <3> QED
      BY <3>1 DEF ListScope, Kept
  <2>3. Alarms \cap InScope(p) = InScope(p)
    BY DEF InScope
  <2>4. Lists(KeptAt(SeedAlarms, GoodOf(SeedAlarms, InScope(p))), Alarms \cap InScope(p))
    BY SeedOfAlarms, KeptLists
  <2> QED
    BY <2>2, <2>3, <2>4
<1>2. InScope(p) \in SUBSET Alarms
  BY DEF InScope
<1>3. Lists(Since(ListScope(p), p.start_time), InScope(p) \cap From(p.start_time))
  BY <1>1, <1>2, TimesList
<1>4. Lists(Until(Since(ListScope(p), p.start_time), p.end_time),
            (InScope(p) \cap From(p.start_time)) \cap UpTo(p.end_time))
  BY <1>2, <1>3, TimesList
<1> QED
  BY <1>1, <1>3, <1>4 DEF ListFiltered

(* GET /alarms, asked for a call, answers with the newest alarms that pass *)
(* its filters; with none at all when a time cannot be compared.           *)
LEMMA ListingIsRight ==
  ASSUME NEW a, a.limit \in Nat, Serve(Listing(a)).status = 200
  PROVE  LET body == Serve(Listing(a)).body
         IN  IF Naive \in {a.since, a.until} THEN body = << >> ELSE IsNewest(body, a)
<1> DEFINE p == Listing(a)
           page == ListPage(p)
           A == (InScope(p) \cap From(p.start_time)) \cap UpTo(p.end_time)
           all == {x \in Alarms : Passes(x, a)}
<1>1. p = [route |-> "/alarms", page_size |-> a.limit, site |-> a.site, asset_id |-> a.asset,
           severity |-> a.severity, start_time |-> a.since, end_time |-> a.until]
  BY DEF Listing
<1>2. /\ p.route = "/alarms" /\ p.page_size = a.limit /\ p.site = a.site
      /\ p.asset_id = a.asset /\ p.severity = a.severity
      /\ p.start_time = a.since /\ p.end_time = a.until
  BY <1>1
<1> HIDE DEF p
<1>3. ~TimeRaises(ListScope(p), p.start_time, p.end_time) /\ Serve(p).body = page
  BY <1>2 DEF Serve, Response, p
<1>4. Lists(ListFiltered(p), A) /\ A \subseteq Alarms
  <2>1. Lists(ListFiltered(p), (InScope(p) \cap From(p.start_time)) \cap UpTo(p.end_time))
    BY ONLY FilteredLists
  <2>2. InScope(p) \subseteq Alarms
    BY ONLY DEF InScope
  <2> QED
    BY <2>1, <2>2
<1>5. page = Limit(ByScore(ListFiltered(p), Raised), a.limit)
  <2>1. \A i \in DOMAIN ListFiltered(p) : Raised[ListFiltered(p)[i]] = ListFiltered(p)[i].raised_at
    BY <1>4, ListedRows, SeedOfAlarms
  <2>2. [i \in DOMAIN ListFiltered(p) |-> ListFiltered(p)[i].raised_at]
        = [i \in DOMAIN ListFiltered(p) |-> Raised[ListFiltered(p)[i]]]
    BY <2>1
  <2>3. Descending(ListFiltered(p), LAMBDA x : x.raised_at)
        = SortedBy(ListFiltered(p), Once([i \in DOMAIN ListFiltered(p) |->
                                            ListFiltered(p)[i].raised_at]))
    BY DEF Descending
  <2> QED
    BY <1>2, <2>2, <2>3 DEF ListPage, ByScore
<1> HIDE DEF A
<1>6. /\ page \in Seq(A)
      /\ Len(page) = IF Cardinality(A) < a.limit THEN Cardinality(A) ELSE a.limit
      /\ \A i \in DOMAIN page : \A x \in A \ {page[j] : j \in 1..i} :
           Raised[page[i]] > Raised[x]
  <2>1. /\ \A x \in A : Raised[x] \in Int
        /\ \A x, y \in A : Raised[x] = Raised[y] => x = y
    BY <1>4, SeedOfAlarms
  <2>2. IsBest(page, A, Raised, a.limit)
    BY <1>4, <1>5, <2>1, PageIsBest
  <2> HIDE DEF page
  <2> QED
    BY <2>2 DEF IsBest
<1> HIDE DEF page
<1>7. \A i \in DOMAIN page : page[i] \in A /\ page[i] \in Alarms
  BY <1>4, <1>6, ElementOfSeq
<1>8. CASE Naive \in {a.since, a.until}
  <2>1. A = {}
    <3>1. CASE a.since = Naive
      <4>1. ListScope(p) = << >>
        BY <1>2, <1>3, <3>1 DEF TimeRaises
      <4>2. Lists(ListScope(p), InScope(p))
        BY ONLY FilteredLists
      <4>3. InScope(p) = {}
        BY <4>1, <4>2, NothingListed
      <4> QED
        BY <4>3 DEF A
    <3>2. CASE a.until = Naive
      <4>1. Since(ListScope(p), p.start_time) = << >>
        BY <1>2, <1>3, <3>2 DEF TimeRaises
      <4>2. Lists(Since(ListScope(p), p.start_time), InScope(p) \cap From(p.start_time))
        BY ONLY FilteredLists
      <4>3. Lists(<< >>, InScope(p) \cap From(p.start_time))
        BY <4>1, <4>2
      <4>4. InScope(p) \cap From(p.start_time) = {}
        BY <4>3, NothingListed
      <4> QED
        BY <4>4 DEF A
    <3> QED
      BY <1>8, <3>1, <3>2
  <2>2. page = << >>
    <3>1. page \in Seq({})
      BY <1>6, <2>1
    <3> QED
      BY <3>1
  <2> QED
    BY <1>3, <1>8, <2>2 DEF p
<1>9. CASE Naive \notin {a.since, a.until}
  <2>1. A = all
    <3>1. ASSUME NEW x \in Alarms PROVE x \in A <=> Passes(x, a)
      <4>1. x.asset_id \in AssetIdsIn(a.site, None) <=>
              \E y \in Assets : y.id = x.asset_id /\ a.site \in {None, y.site}
        BY DEF AssetIdsIn
      <4>2. x \in InScope(p) <=>
              /\ a.asset \in {None, x.asset_id} /\ a.severity \in {None, x.severity}
              /\ a.site # None => \E y \in Assets : y.id = x.asset_id /\ y.site = a.site
        BY <1>2, <4>1 DEF InScope
      <4>3. x \in From(p.start_time) <=> (a.since # None => x.raised_at >= a.since)
        BY <1>2, <1>9 DEF From
      <4>4. x \in UpTo(p.end_time) <=> (a.until # None => x.raised_at <= a.until)
        BY <1>2, <1>9 DEF UpTo
      <4> QED
        BY <4>2, <4>3, <4>4 DEF A, Passes
    <3> QED
      BY <1>4, <3>1
  <2> HIDE DEF all
  <2>2. Range(page) \subseteq all
    BY <1>7, <2>1 DEF Range
  <2>3. \A i \in DOMAIN page : \A x \in all \ {page[j] : j \in 1..i} :
          page[i].raised_at > x.raised_at
    <3> SUFFICES ASSUME NEW i \in DOMAIN page, NEW x \in all \ {page[j] : j \in 1..i}
                 PROVE  page[i].raised_at > x.raised_at
      OBVIOUS
    <3>1. x \in A /\ x \in Alarms /\ x \in A \ {page[j] : j \in 1..i}
      BY <1>4, <2>1
    <3>2. Raised[page[i]] > Raised[x]
      BY <1>6, <3>1
    <3>3. page[i] \in Alarms
      BY <1>7
    <3>4. Raised[page[i]] = page[i].raised_at /\ Raised[x] = x.raised_at
      BY <3>1, <3>3, SeedOfAlarms
    <3> QED
      BY <3>2, <3>4
  <2>4. IsNewest(page, a)
    BY <1>6, <2>1, <2>2, <2>3 DEF IsNewest, all
  <2> QED
    BY <1>3, <1>9, <2>4 DEF p
<1> QED
  BY <1>8, <1>9

(* GET /assets/search answers with assets that match the query and unit.   *)
LEMMA SearchIsRight ==
  ASSUME NEW a, a.tool = "search_assets", a.limit \in Nat,
         Serve(HttpRequest(a)).status = 200
  PROVE  Right(a, Serve(HttpRequest(a)).body)
<1> DEFINE p == HttpRequest(a)
           named == {x \in Assets : a.query \in x.fragments}
           inUnit == {x \in Assets : a.unit \in {None, x.unit}}
           found == KeptAt(SeedAssets, GoodOf(SeedAssets, named))
           rows == KeptAt(found, GoodOf(found, inUnit))
<1>1. p = [route |-> "/assets/search", query |-> a.query, unit |-> a.unit, limit |-> a.limit]
  BY DEF HttpRequest
<1>2. p.route = "/assets/search" /\ p.query = a.query /\ p.unit = a.unit /\ p.limit = a.limit
  BY <1>1
<1> HIDE DEF p
<1>3. Serve(p).body = SearchAssets(p)
  BY <1>2 DEF Serve, Response, p
<1>4. found \in Seq(Assets \cap named)
  BY SeedsOfOthers, KeptAreGood
<1>5. Kept(SeedAssets, LAMBDA x : p.query \in x.fragments) = found
  <2>1. \A i \in DOMAIN SeedAssets : SeedAssets[i] \in Assets
    BY SeedsOfOthers, ElementOfSeq
  <2>2. {i \in DOMAIN SeedAssets : p.query \in SeedAssets[i].fragments}
        = GoodOf(SeedAssets, named)
    BY <1>2, <2>1 DEF GoodOf
  <2> QED
    BY <2>2 DEF Kept
<1> HIDE DEF found
<1>6. Kept(found, LAMBDA x : p.unit \in {None, x.unit}) = rows
  <2>1. \A i \in DOMAIN found : found[i] \in Assets
    BY <1>4, ElementOfSeq
  <2>2. {i \in DOMAIN found : p.unit \in {None, found[i].unit}} = GoodOf(found, inUnit)
    BY <1>2, <2>1 DEF GoodOf
  <2> QED
    BY <2>2 DEF Kept
<1>7. rows \in Seq((Assets \cap named) \cap inUnit)
  BY <1>4, KeptAreGood
<1> HIDE DEF rows
<1>8. SearchAssets(p) = Limit(rows, a.limit)
  BY <1>2, <1>5, <1>6 DEF SearchAssets
<1>9. Limit(rows, a.limit) \in Seq((Assets \cap named) \cap inUnit)
  BY <1>7, LimitedRows
<1>10. \A x \in Range(SearchAssets(p)) : x \in named /\ x \in inUnit
  BY <1>8, <1>9, ElementOfSeq DEF Range
<1> QED
  BY <1>3, <1>10 DEF Right, p

(* GET /tickets/similar answers with tickets of the site and asset class.  *)
LEMMA SimilarAreRight ==
  ASSUME NEW a, a.tool = "search_similar_tickets", a.limit \in Nat
  PROVE  Right(a, Serve(HttpRequest(a)).body)
<1> DEFINE p == HttpRequest(a)
           tickets == Range(SeedTickets)
           good == {t \in tickets : a.site \in {None, t.site}
                                    /\ a.asset_class \in {None, t.asset_class}}
           kept == KeptAt(SeedTickets, GoodOf(SeedTickets, good))
           score == [t \in tickets |-> t.similarity]
           rows == ByScore(kept, score)
<1>1. p = [route |-> "/tickets/similar", site |-> a.site, asset_class |-> a.asset_class,
           limit |-> a.limit]
  BY DEF HttpRequest
<1>2. /\ p.route = "/tickets/similar" /\ p.site = a.site /\ p.asset_class = a.asset_class
      /\ p.limit = a.limit
  BY <1>1
<1> HIDE DEF p
<1>3. Serve(p).body = SimilarTickets(p)
  BY <1>2 DEF Serve, Response, p
<1>4. kept \in Seq(tickets \cap good)
  BY SeedsOfOthers, KeptAreGood
<1>5. Kept(SeedTickets, LAMBDA t : p.site \in {None, t.site}
                                   /\ p.asset_class \in {None, t.asset_class}) = kept
  <2>1. \A i \in DOMAIN SeedTickets : SeedTickets[i] \in tickets
    BY SeedsOfOthers, ElementOfSeq
  <2>2. {i \in DOMAIN SeedTickets : p.site \in {None, SeedTickets[i].site}
                                    /\ p.asset_class \in {None, SeedTickets[i].asset_class}}
        = GoodOf(SeedTickets, good)
    BY <1>2, <2>1 DEF GoodOf
  <2> QED
    BY <2>2 DEF Kept
<1> HIDE DEF kept
<1>6. \A i \in DOMAIN kept : kept[i] \in tickets /\ kept[i] \in good
  BY <1>4, ElementOfSeq
<1>7. Descending(kept, LAMBDA t : t.similarity) = rows
  <2>1. [i \in DOMAIN kept |-> kept[i].similarity] = [i \in DOMAIN kept |-> score[kept[i]]]
    BY <1>6
  <2> QED
    BY <2>1 DEF Descending, ByScore
<1>8. rows \in Seq(tickets \cap good)
  <2>1. \A t \in tickets \cap good : score[t] \in Int
    BY SeedsOfOthers
  <2> HIDE DEF score, good, tickets
  <2> QED
    BY <1>4, <2>1, SortedByScore
<1> HIDE DEF rows
<1>9. SimilarTickets(p) = Limit(rows, a.limit)
  BY <1>2, <1>5, <1>7 DEF SimilarTickets
<1>10. Limit(rows, a.limit) \in Seq(tickets \cap good)
  BY <1>8, LimitedRows
<1>11. \A t \in Range(SimilarTickets(p)) : t \in good
  BY <1>9, <1>10, ElementOfSeq DEF Range
<1> QED
  BY <1>3, <1>11 DEF Right, p

-----------------------------------------------------------------------------
(* The reports.  How many members of A have each of the values of key.     *)
CountOf(A, key) ==
  [k \in {key[x] : x \in A} |-> Cardinality({x \in A : key[x] = k})]

(* The counts of a finite set sum up to the number of its members.         *)
LEMMA CountsSumUp ==
  ASSUME NEW A, IsFiniteSet(A), NEW key
  PROVE  /\ Counted(CountOf(A, key)) = Cardinality(A)
         /\ \A k \in DOMAIN CountOf(A, key) :
              CountOf(A, key)[k] \in Nat /\ CountOf(A, key)[k] >= 1
<1> DEFINE P(k) == {x \in A : key[x] = k}
           K == {key[x] : x \in A}
           counts == CountOf(A, key)
           b == [k \in K |-> CHOOSE f : f \in Bijection(1..counts[k], P(k))]
           U == UNION {{k} \X (1..counts[k]) : k \in K}
           g == [u \in U |-> b[u[1]][u[2]]]
<1>1. DOMAIN counts = K /\ \A k \in K : counts[k] = Cardinality(P(k))
  BY DEF CountOf
<1> HIDE DEF counts
<1>2. ASSUME NEW k \in K
      PROVE  counts[k] \in Nat /\ counts[k] >= 1 /\ ExistsBijection(1..counts[k], P(k))
  <2>1. IsFiniteSet(P(k)) /\ P(k) # {}
    BY <1>2, FS_Subset
  <2> HIDE DEF P, K
  <2>2. counts[k] \in Nat /\ counts[k] # 0
    BY <1>1, <2>1, FS_CardinalityType, FS_EmptySet
  <2>3. PICK n \in Nat : ExistsBijection(1..n, P(k))
    BY <2>1, FS_NatBijection
  <2>4. Cardinality(P(k)) = n
    BY <2>3, FS_CountingElements
  <2> QED
    BY <1>1, <2>2, <2>3, <2>4
<1>3. ASSUME NEW k \in K
      PROVE  /\ b[k] \in [1..counts[k] -> P(k)]
             /\ \A m, n \in 1..counts[k] : b[k][m] = b[k][n] => m = n
             /\ \A x \in P(k) : \E n \in 1..counts[k] : b[k][n] = x
  <2> HIDE DEF P, K
  <2>1. \E f : f \in Bijection(1..counts[k], P(k))
    BY <1>2 DEF ExistsBijection
  <2>2. b[k] \in Bijection(1..counts[k], P(k))
    BY <2>1
  <2> QED
    BY <2>2 DEF Bijection, Injection, IsInjective, Surjection
<1> HIDE DEF b
<1>4. \A u \in U : /\ u[1] \in K /\ u[2] \in 1..counts[u[1]] /\ u = <<u[1], u[2]>>
                   /\ g[u] = b[u[1]][u[2]]
  OBVIOUS
<1>5. \A k \in K : \A n \in 1..counts[k] : <<k, n>> \in U
  OBVIOUS
<1>6. \A u \in U : g[u] \in A /\ key[g[u]] = u[1]
  <2> TAKE u \in U
  <2>1. u[1] \in K /\ u[2] \in 1..counts[u[1]] /\ g[u] = b[u[1]][u[2]]
    BY <1>4
  <2> HIDE DEF g, U, K
  <2>2. b[u[1]][u[2]] \in P(u[1])
    <3> HIDE DEF P
    <3> QED
      BY <1>3, <2>1
  <2> QED
    BY <2>1, <2>2
<1>7. g \in [U -> A]
  BY <1>6
<1>8. \A u, v \in U : g[u] = g[v] => u = v
  <2> SUFFICES ASSUME NEW u \in U, NEW v \in U, g[u] = g[v] PROVE u = v
    OBVIOUS
  <2> HIDE DEF g, U, K
  <2>1. u[1] = v[1]
    BY <1>6
  <2>2. u[2] = v[2]
    BY <1>3, <1>4, <2>1
  <2> QED
    BY <1>4, <2>1, <2>2
<1>9. ASSUME NEW x \in A PROVE \E u \in U : g[u] = x
  <2>1. key[x] \in K /\ x \in P(key[x])
    OBVIOUS
  <2>2. PICK n \in 1..counts[key[x]] : b[key[x]][n] = x
    BY <1>3, <2>1
  <2>3. <<key[x], n>> \in U
    BY <1>5, <2>1
  <2>4. g[<<key[x], n>>] = x
    BY <2>2, <2>3
  <2> QED
    BY <2>3, <2>4
<1> HIDE DEF g
<1>10. ExistsBijection(A, U)
  <2> HIDE DEF U
  <2>1. g \in Bijection(U, A)
    BY <1>7, <1>8, <1>9 DEF Bijection, Injection, IsInjective, Surjection
  <2>2. ExistsBijection(U, A)
    BY <2>1 DEF ExistsBijection
  <2> QED
    BY <2>2, Fun_ExistsBijSymmetric
<1>11. Cardinality(U) = Cardinality(A)
  <2> HIDE DEF U
  <2> QED
    BY <1>10, FS_Bijection
<1>12. Counted(counts) = Cardinality(U)
  BY <1>1 DEF Counted
<1> QED
  BY <1>1, <1>2, <1>11, <1>12 DEF counts

(* Counting the rows of a list is counting what it lists.                  *)
CountRows(rows, key) ==
  [k \in {key[rows[i]] : i \in DOMAIN rows} |->
     Cardinality({i \in DOMAIN rows : key[rows[i]] = k})]

LEMMA CountedRows ==
  ASSUME NEW A, NEW rows, Lists(rows, A), NEW key
  PROVE  CountRows(rows, key) = CountOf(A, key)
<1>1. /\ DOMAIN rows = 1..Len(rows) /\ Len(rows) \in Nat
      /\ \A i \in DOMAIN rows : rows[i] \in A
      /\ \A i, j \in DOMAIN rows : rows[i] = rows[j] => i = j
      /\ \A x \in A : \E i \in DOMAIN rows : rows[i] = x
  BY ListedRows
<1>2. IsFiniteSet(DOMAIN rows)
  BY <1>1, FS_Interval
<1>3. {key[rows[i]] : i \in DOMAIN rows} = {key[x] : x \in A}
  BY <1>1
<1>4. ASSUME NEW k
      PROVE  Cardinality({i \in DOMAIN rows : key[rows[i]] = k})
             = Cardinality({x \in A : key[x] = k})
  <2> DEFINE S == {i \in DOMAIN rows : key[rows[i]] = k}
             T == {x \in A : key[x] = k}
             h == [i \in S |-> rows[i]]
  <2>1. /\ h \in [S -> T]
        /\ \A i, j \in S : h[i] = h[j] => i = j
        /\ \A x \in T : \E i \in S : h[i] = x
    BY <1>1
  <2>2. IsFiniteSet(S)
    BY <1>2, FS_Subset
  <2> HIDE DEF S, T, h
  <2>3. ExistsBijection(S, T)
    BY <2>1 DEF ExistsBijection, Bijection, Injection, IsInjective, Surjection
  <2>4. Cardinality(T) = Cardinality(S)
    BY <2>2, <2>3, FS_Bijection
  <2> QED
    BY <2>4 DEF S, T
<1> QED
  BY <1>3, <1>4 DEF CountRows, CountOf

(* What the reports on a body look at.                                     *)
InReport(p) ==
  {x \in Alarms : /\ p.asset_ids # {} => x.asset_id \in p.asset_ids
                  /\ x.asset_id \in AssetIdsIn(p.site, p.unit)}

Reported(p) == (InReport(p) \cap From(p.start_time)) \cap UpTo(p.end_time)

AssetOf == [x \in Alarms |-> x.asset_id]
SeverityOf == [x \in Alarms |-> x.severity]

LEMMA ReportLists ==
  ASSUME NEW p
  PROVE  Lists(ReportRows(p), Reported(p)) /\ Reported(p) \subseteq Alarms
<1>1. Lists(ReportScope(p), InReport(p))
  <2>1. SeedAlarms \in Seq(Alarms) /\ \A i \in DOMAIN SeedAlarms : SeedAlarms[i] \in Alarms
    BY SeedOfAlarms, ElementOfSeq DEF Lists
  <2>2. {i \in DOMAIN SeedAlarms :
           /\ p.asset_ids # {} => SeedAlarms[i].asset_id \in p.asset_ids
           /\ SeedAlarms[i].asset_id \in AssetIdsIn(p.site, p.unit)}
        = GoodOf(SeedAlarms, InReport(p))
    BY <2>1 DEF GoodOf, InReport
  <2>3. ReportScope(p) = KeptAt(SeedAlarms, GoodOf(SeedAlarms, InReport(p)))
    BY <2>2 DEF ReportScope, Kept
  <2>4. Lists(ReportScope(p), Alarms \cap InReport(p))
    BY <2>3, SeedOfAlarms, KeptLists
  <2>5. Alarms \cap InReport(p) = InReport(p)
    BY DEF InReport
  <2> QED
    BY <2>4, <2>5
<1>2. InReport(p) \in SUBSET Alarms
  BY DEF InReport
<1>3. Lists(Since(ReportScope(p), p.start_time), InReport(p) \cap From(p.start_time))
  BY <1>1, <1>2, TimesList
<1>4. Lists(Until(Since(ReportScope(p), p.start_time), p.end_time), Reported(p))
  BY <1>2, <1>3, TimesList DEF Reported
<1> QED
  BY <1>2, <1>4 DEF ReportRows, Reported

(* Counting by asset, and by severity.                                     *)
LEMMA CountedBy ==
  ASSUME NEW A \in SUBSET Alarms, NEW rows, Lists(rows, A)
  PROVE  /\ CountBy(rows, LAMBDA a : a.asset_id) = CountOf(A, AssetOf)
         /\ CountBy(rows, LAMBDA a : a.severity) = CountOf(A, SeverityOf)
<1>1. \A i \in DOMAIN rows : /\ AssetOf[rows[i]] = rows[i].asset_id
                             /\ SeverityOf[rows[i]] = rows[i].severity
  BY ListedRows DEF AssetOf, SeverityOf
<1>2. CountBy(rows, LAMBDA a : a.asset_id) = CountRows(rows, AssetOf)
  BY <1>1 DEF CountBy, CountRows
<1>3. CountBy(rows, LAMBDA a : a.severity) = CountRows(rows, SeverityOf)
  BY <1>1 DEF CountBy, CountRows
<1> QED
  BY <1>2, <1>3, CountedRows

(* The reports on any body agree.                                          *)
LEMMA ReportsOfBody ==
  ASSUME NEW p
  PROVE  Agree(p, Reports(p))
<1> DEFINE A == Reported(p)
           rows == ReportRows(p)
           counts == CountOf(A, AssetOf)
           r == Reports(p)
<1>1. Lists(rows, A) /\ A \in SUBSET Alarms
  BY ReportLists
<1>2. IsFiniteSet(A) /\ Cardinality(A) = Len(rows) /\ DOMAIN rows = 1..Len(rows)
      /\ Len(rows) \in Nat
  BY <1>1, ListedRows
<1>3. CountBy(rows, LAMBDA a : a.asset_id) = counts
  BY <1>1, CountedBy
<1>4. /\ DOMAIN counts = {AssetOf[x] : x \in A}
      /\ \A id \in DOMAIN counts : counts[id] = Cardinality({x \in A : AssetOf[x] = id})
  BY DEF CountOf
<1>5. /\ Counted(counts) = Cardinality(A)
      /\ \A id \in DOMAIN counts : counts[id] \in Nat /\ counts[id] >= 1
  BY <1>2, CountsSumUp
<1>6. r.candidates = [id \in {k \in DOMAIN counts : counts[k] >= p.threshold} |-> counts[id]]
  BY <1>3 DEF Reports, Candidates
<1>7. /\ r.summary = Summary(p) /\ r.trends = Trends(p) /\ r.flood = FloodWindows(p)
  BY DEF Reports
<1>8. Len(r.trends) = Len(rows)
  <2> DEFINE T == [i \in DOMAIN rows |-> [bucket |-> rows[i].raised_at \div 96,
                                          asset_id |-> rows[i].asset_id,
                                          severity |-> rows[i].severity]]
  <2>1. r.trends = T
    BY <1>7 DEF Trends
  <2>2. DOMAIN T = 1..Len(rows)
    BY <1>2
  <2> HIDE DEF rows, T
  <2> QED
    BY <1>2, <2>1, <2>2
<1>9. Counted(r.summary.kpis) = r.summary.total
      /\ (p.severities = {} => Len(r.trends) = r.summary.total)
  <2> DEFINE good == {x \in Alarms : p.severities # {} => x.severity \in p.severities}
             few == KeptAt(rows, GoodOf(rows, good))
             B == A \cap good
  <2>1. \A i \in DOMAIN rows : rows[i] \in Alarms
    BY <1>1, ListedRows
  <2>2. {i \in DOMAIN rows : p.severities # {} => rows[i].severity \in p.severities}
        = GoodOf(rows, good)
    BY <2>1 DEF GoodOf
  <2>3. Kept(rows, LAMBDA a : p.severities # {} => a.severity \in p.severities) = few
    BY <2>2 DEF Kept
  <2>4. Lists(few, B) /\ B \in SUBSET Alarms
    BY <1>1, KeptLists
  <2>5. r.summary.total = Len(few) /\ r.summary.kpis = CountBy(few, LAMBDA a : a.severity)
    BY <1>7, <2>3 DEF Summary
  <2>6. p.severities = {} => B = A
    BY <1>1
  <2> HIDE DEF few, B, A, rows
  <2>7. IsFiniteSet(B) /\ Cardinality(B) = Len(few)
    BY <2>4, ListedRows
  <2>8. CountBy(few, LAMBDA a : a.severity) = CountOf(B, SeverityOf)
    BY <2>4, CountedBy
  <2>9. Counted(CountOf(B, SeverityOf)) = Cardinality(B)
    BY <2>7, CountsSumUp
  <2> QED
    BY <1>2, <1>8, <2>5, <2>6, <2>7, <2>8, <2>9
<1> HIDE DEF counts, rows, A, r
<1>10. ASSUME p.threshold = 1 PROVE Counted(r.candidates) = Len(r.trends)
  <2>1. {k \in DOMAIN counts : counts[k] >= p.threshold} = DOMAIN counts
    BY <1>5, <1>10
  <2>2. counts = [id \in DOMAIN counts |-> counts[id]]
    BY DEF counts, CountOf
  <2>3. r.candidates = counts
    BY <1>6, <2>1, <2>2
  <2> QED
    BY <1>2, <1>5, <1>8, <2>3
<1>11. ASSUME p.unit = None, NEW id \in DOMAIN r.candidates
       PROVE  r.candidates[id]
              = Len(ListFiltered([asset_id |-> id, severity |-> None, site |-> p.site,
                                  start_time |-> p.start_time, end_time |-> p.end_time]))
  <2> DEFINE q == [asset_id |-> id, severity |-> None, site |-> p.site,
                   start_time |-> p.start_time, end_time |-> p.end_time]
             L == (InScope(q) \cap From(q.start_time)) \cap UpTo(q.end_time)
             M == {x \in A : AssetOf[x] = id}
  <2>1. /\ q.asset_id = id /\ q.severity = None /\ q.site = p.site
        /\ q.start_time = p.start_time /\ q.end_time = p.end_time
    OBVIOUS
  <2>2. id \in DOMAIN counts /\ r.candidates[id] = Cardinality(M)
    BY <1>4, <1>6
  <2> HIDE DEF q
  <2>3. Len(ListFiltered(q)) = Cardinality(L)
    <3>1. Lists(ListFiltered(q), L)
      BY FilteredLists
    <3> HIDE DEF L
    <3> QED
      BY <3>1, ListedRows
  <2>4. PICK y \in A : AssetOf[y] = id
    BY <1>4, <2>2
  <2>5. y \in Alarms /\ y.asset_id = id /\ y \in InReport(p)
    BY <1>1, <2>4 DEF A, Reported, AssetOf
  <2>6. id # None
    BY <2>5, ReportsAssumption
  <2>7. /\ p.asset_ids # {} => id \in p.asset_ids
        /\ id \in AssetIdsIn(p.site, None)
    BY <1>11, <2>5 DEF InReport
  <2>8. ASSUME NEW x \in Alarms PROVE x \in L <=> x \in M
    <3>1. x \in InScope(q) <=> x.asset_id = id
      BY <2>1, <2>6, <2>7 DEF InScope
    <3>2. x.asset_id = id => x \in InReport(p)
      BY <1>11, <2>7 DEF InReport
    <3>3. AssetOf[x] = x.asset_id
      BY DEF AssetOf
    <3> QED
      BY <2>1, <3>1, <3>2, <3>3 DEF A, Reported
  <2>9. L = M
    <3>1. L \in SUBSET Alarms /\ M \in SUBSET Alarms
      BY <1>1 DEF InScope
    <3> HIDE DEF L, M
    <3> QED
      BY <2>8, <3>1
  <2> QED
    BY <2>2, <2>3, <2>9 DEF q
<1>12. ASSUME p.asset_ids = {}, p.site = None PROVE r.flood = r.candidates
  <2> DEFINE inUnit == {x \in Alarms : x.asset_id \in AssetIdsIn(None, p.unit)}
             range == (Alarms \cap From(p.start_time)) \cap UpTo(p.end_time)
             flood == KeptAt(FloodRows(p), GoodOf(FloodRows(p), inUnit))
  <2>1. Lists(FloodRows(p), range)
    <3>1. Lists(Since(SeedAlarms, p.start_time), Alarms \cap From(p.start_time))
      BY SeedOfAlarms, TimesList
    <3>2. Alarms \cap From(p.start_time) \in SUBSET Alarms
      OBVIOUS
    <3> QED
      BY <3>1, <3>2, TimesList DEF FloodRows
  <2>2. \A i \in DOMAIN FloodRows(p) : FloodRows(p)[i] \in Alarms
    <3> HIDE DEF range
    <3> QED
      BY <2>1, ListedRows DEF range
  <2>3. {i \in DOMAIN FloodRows(p) : FloodRows(p)[i].asset_id \in AssetIdsIn(None, p.unit)}
        = GoodOf(FloodRows(p), inUnit)
    BY <2>2 DEF GoodOf
  <2>4. Kept(FloodRows(p), LAMBDA a : a.asset_id \in AssetIdsIn(None, p.unit)) = flood
    BY <2>3 DEF Kept
  <2>5. Lists(flood, range \cap inUnit)
    BY <2>1, KeptLists
  <2>6. range \cap inUnit = A
    BY <1>12 DEF A, Reported, InReport
  <2> HIDE DEF flood
  <2>7. CountBy(flood, LAMBDA a : a.asset_id) = counts
    BY <1>1, <2>5, <2>6, CountedBy DEF counts
  <2> QED
    BY <1>6, <1>7, <2>4, <2>7 DEF FloodWindows
<1> QED
  BY <1>9, <1>10, <1>11, <1>12 DEF Agree, r

-----------------------------------------------------------------------------
LEMMA InitIInv == ASSUME Init PROVE IInv
<1> USE ToolsAssumption
<1>1. TypeOK
  <2>1. probing \in BOOLEAN /\ phase = "down" /\ client = "none"
    BY DEF Init
  <2>2. starts \in 0..MaxStarts /\ attempts \in [Calls -> 0..MaxAttempts]
    BY DEF Init
  <2>3. stage \in [Calls -> {"idle", "called", "in_flight", "backoff", "done"}]
    BY DEF Init
  <2>4. \A c \in Calls : /\ args[c] = None /\ last[c] = None /\ answer[c] = None
                         /\ attempts[c] = 0 /\ stage[c] = "idle"
    BY DEF Init
  <2> QED
    BY <2>1, <2>2, <2>3, <2>4 DEF TypeOK
<1>2. ShapeInv /\ LifespanInv /\ CallInv /\ RetryInv /\ ReportInv
  BY DEF Init, ShapeInv, LifespanInv, CallInv, RetryInv, ReportInv, Running
<1> QED
  BY <1>1, <1>2 DEF IInv

(* The lifespan: the client is closed after the last call has ended.       *)
LEMMA LifespanStep ==
  ASSUME IInv, Lifespan
  PROVE  IInv'
<1> USE ToolsAssumption DEF IInv
<1>1. UNCHANGED <<args, stage, attempts, last, answer>>
  BY DEF Lifespan, AttachClient, EnterSessions, EnterFails, LeaveSessions, CloseClient,
         ProbeStarts, ProbeEnds, call
<1>2. /\ phase' \in {"down", "starting", "serving", "leaving"}
      /\ client' \in {"none", "open", "closed"}
      /\ starts' \in 0..MaxStarts
      /\ probing' \in BOOLEAN
  <2> USE DEF TypeOK
  <2>1. CASE AttachClient
    BY <2>1 DEF AttachClient
  <2>2. CASE EnterSessions \/ EnterFails
    BY <2>2 DEF EnterSessions, EnterFails
  <2>3. CASE LeaveSessions \/ CloseClient
    BY <2>3 DEF LeaveSessions, CloseClient
  <2>4. CASE ProbeStarts \/ ProbeEnds
    BY <2>4 DEF ProbeStarts, ProbeEnds
  <2> QED
    BY <2>1, <2>2, <2>3, <2>4 DEF Lifespan
<1>3. TypeOK'
  BY <1>1, <1>2 DEF TypeOK
<1>4. ShapeInv' /\ CallInv' /\ RetryInv' /\ ReportInv'
  BY <1>1 DEF ShapeInv, CallInv, RetryInv, ReportInv, Running
<1>5. LifespanInv'
  <2>1. \A c \in Calls : Running(c)' = Running(c)
    BY <1>1 DEF Running
  <2>2. phase' # "down" => client' = "open"
    BY DEF Lifespan, AttachClient, EnterSessions, EnterFails, LeaveSessions, CloseClient,
           ProbeStarts, ProbeEnds, LifespanInv, TypeOK
  <2>3. (\E c \in Calls : Running(c)) => phase' \in {"serving", "leaving"}
    BY DEF Lifespan, AttachClient, EnterSessions, EnterFails, LeaveSessions, CloseClient,
           ProbeStarts, ProbeEnds, LifespanInv
  <2> QED
    BY <2>1, <2>2, <2>3 DEF LifespanInv
<1> QED
  BY <1>3, <1>4, <1>5

(* The start of a call, of an attempt, or a report taken elsewhere.        *)
LEMMA BeginStep ==
  ASSUME IInv, NEW c \in Calls,
         \/ \E a \in ArgumentsOf(c) : CallTool(c, a)
         \/ \E p \in Bodies : Report(c, p)
         \/ Attempt(c)
  PROVE  IInv'
<1> USE ToolsAssumption DEF IInv, TypeOK
<1>1. ASSUME NEW a \in ArgumentsOf(c), CallTool(c, a) PROVE IInv'
  <2>1. /\ UNCHANGED <<phase, client, starts, probing, attempts, last, answer>>
        /\ phase = "serving" /\ stage[c] = "idle"
        /\ args' = [args EXCEPT ![c] = a]
        /\ stage' = [stage EXCEPT ![c] = "called"]
    BY <1>1 DEF CallTool, process
  <2>2. \A d \in Calls : d # c => args'[d] = args[d] /\ stage'[d] = stage[d]
    BY <2>1 DEF ShapeInv
  <2>3. args'[c] = a /\ stage'[c] = "called" /\ last[c] = None /\ answer[c] = None
    BY <2>1 DEF ShapeInv, CallInv
  <2>4. TypeOK' /\ ShapeInv'
    BY <2>1, <2>2, <2>3 DEF ShapeInv
  <2>5. LifespanInv' /\ CallInv' /\ RetryInv' /\ ReportInv'
    BY <2>1, <2>2, <2>3 DEF LifespanInv, CallInv, RetryInv, ReportInv, Running
  <2> QED
    BY <2>4, <2>5
<1>2. ASSUME NEW p \in Bodies, Report(c, p) PROVE IInv'
  <2>1. /\ UNCHANGED <<phase, client, starts, probing, attempts, last>>
        /\ stage[c] = "idle"
        /\ args' = [args EXCEPT ![c] = p]
        /\ stage' = [stage EXCEPT ![c] = "done"]
        /\ answer' = [answer EXCEPT ![c] = Reports(p)]
    BY <1>2 DEF Report, process
  <2>2. Reports(p) # None /\ Reports(p).kind = "report"
    BY NoneAssumption DEF Reports
  <2>3. \A d \in Calls : d # c => /\ args'[d] = args[d] /\ stage'[d] = stage[d]
                                  /\ answer'[d] = answer[d]
    BY <2>1 DEF ShapeInv
  <2>4. args'[c] = p /\ stage'[c] = "done" /\ answer'[c] = Reports(p)
    BY <2>1 DEF ShapeInv
  <2>5. TypeOK' /\ ShapeInv'
    BY <2>1, <2>2, <2>3, <2>4 DEF ShapeInv
  <2>6. LifespanInv' /\ CallInv' /\ RetryInv' /\ ReportInv'
    BY <2>1, <2>2, <2>3, <2>4 DEF LifespanInv, CallInv, RetryInv, ReportInv, Running
  <2> QED
    BY <2>5, <2>6
<1>3. CASE Attempt(c)
  <2>1. /\ UNCHANGED <<phase, client, starts, probing, args, attempts, last, answer>>
        /\ phase = "serving" /\ stage[c] \in {"called", "backoff"}
        /\ stage' = [stage EXCEPT ![c] = "in_flight"]
    BY <1>3 DEF Attempt, process
  <2>2. TypeOK' /\ ShapeInv'
    BY <2>1 DEF ShapeInv
  <2>3. LifespanInv' /\ CallInv' /\ RetryInv' /\ ReportInv'
    BY <2>1 DEF LifespanInv, CallInv, RetryInv, ReportInv, Running
  <2> QED
    BY <2>2, <2>3
<1> QED
  BY <1>1, <1>2, <1>3

(* The end of an attempt: tried again, or told.                            *)
LEMMA AttemptEndsStep ==
  ASSUME IInv, NEW c \in Calls, AttemptEnds(c)
  PROVE  IInv'
<1> USE ToolsAssumption DEF IInv, TypeOK
<1>1. PICK o \in Outcomes(args[c]) : TryAgain(c, o) \/ Settle(c, o)
  BY DEF AttemptEnds
<1>2. /\ phase = "serving" /\ stage[c] = "in_flight" /\ Running(c)
      /\ args[c] \in ArgumentsOf(c) /\ args[c].tool \in Tools
      /\ attempts[c] < MaxAttempts
  BY DEF AttemptEnds, CallInv, Running
<1>3. /\ UNCHANGED <<phase, client, starts, probing, args>>
      /\ attempts' = [attempts EXCEPT ![c] = attempts[c] + 1]
      /\ last' = [last EXCEPT ![c] = o]
  BY <1>1 DEF TryAgain, Settle, process
<1>4. Retryable(o) <=> Passing(o)
  BY <1>2, RetriesPassing
<1>5. o # None /\ Envelope(args[c], o) # None /\ Envelope(args[c], o).kind # "report"
  BY <1>2, NoneAssumption, EnvelopeIsNoReport
<1>6. CASE TryAgain(c, o)
  <2>1. /\ stage' = [stage EXCEPT ![c] = "backoff"] /\ answer' = answer
        /\ attempts[c] + 1 < MaxAttempts /\ Passing(o)
    BY <1>4, <1>6 DEF TryAgain, Retry
  <2>2. \A d \in Calls : d # c => /\ stage'[d] = stage[d] /\ last'[d] = last[d]
                                  /\ attempts'[d] = attempts[d]
    BY <1>3, <2>1 DEF ShapeInv
  <2>3. /\ stage'[c] = "backoff" /\ last'[c] = o /\ attempts'[c] = attempts[c] + 1
        /\ answer'[c] = None
    BY <1>2, <1>3, <2>1 DEF ShapeInv
  <2>4. TypeOK' /\ ShapeInv'
    BY <1>2, <1>3, <1>5, <2>1, <2>2, <2>3 DEF ShapeInv
  <2>5. LifespanInv' /\ CallInv' /\ RetryInv' /\ ReportInv'
    BY <1>2, <1>3, <2>1, <2>2, <2>3 DEF LifespanInv, CallInv, RetryInv, ReportInv, Running
  <2> QED
    BY <2>4, <2>5
<1>7. CASE Settle(c, o)
  <2>1. /\ stage' = [stage EXCEPT ![c] = "done"]
        /\ answer' = [answer EXCEPT ![c] = Envelope(args[c], o)]
        /\ Passing(o) => attempts[c] + 1 = MaxAttempts
    BY <1>2, <1>4, <1>7 DEF Settle, Retry
  <2>2. \A d \in Calls : d # c => /\ stage'[d] = stage[d] /\ last'[d] = last[d]
                                  /\ attempts'[d] = attempts[d] /\ answer'[d] = answer[d]
    BY <1>3, <2>1 DEF ShapeInv
  <2>3. /\ stage'[c] = "done" /\ last'[c] = o /\ attempts'[c] = attempts[c] + 1
        /\ answer'[c] = Envelope(args[c], o)
    BY <1>3, <2>1 DEF ShapeInv
  <2>4. TypeOK' /\ ShapeInv'
    BY <1>2, <1>3, <1>5, <2>1, <2>2, <2>3 DEF ShapeInv
  <2>5. LifespanInv' /\ CallInv' /\ RetryInv' /\ ReportInv'
    BY <1>2, <1>3, <1>5, <2>1, <2>2, <2>3 DEF LifespanInv, CallInv, RetryInv, ReportInv, Running
  <2> QED
    BY <2>4, <2>5
<1> QED
  BY <1>1, <1>6, <1>7

LEMMA CancelStep ==
  ASSUME IInv, NEW c \in Calls, Cancelled(c)
  PROVE  IInv'
<1> USE ToolsAssumption DEF IInv, TypeOK
<1>1. /\ UNCHANGED <<phase, client, starts, probing, args, attempts, last>>
      /\ stage' = [stage EXCEPT ![c] = "done"]
      /\ answer' = [answer EXCEPT ![c] = [kind |-> "cancelled"]]
  BY DEF Cancelled, process
<1>2. \A d \in Calls : d # c => stage'[d] = stage[d] /\ answer'[d] = answer[d]
  BY <1>1 DEF ShapeInv
<1>3. /\ stage'[c] = "done" /\ answer'[c] = [kind |-> "cancelled"] /\ answer'[c] # None
  BY <1>1, NoneAssumption DEF ShapeInv
<1>4. TypeOK' /\ ShapeInv'
  BY <1>1, <1>2, <1>3 DEF ShapeInv
<1>5. LifespanInv' /\ CallInv' /\ RetryInv' /\ ReportInv'
  <2>1. answer'[c].kind = "cancelled"
    BY <1>3
  <2> QED
    BY <1>1, <1>2, <1>3, <2>1 DEF LifespanInv, CallInv, RetryInv, ReportInv, Running
<1> QED
  BY <1>4, <1>5

LEMMA StutterStep ==
  ASSUME IInv, UNCHANGED vars
  PROVE  IInv'
BY DEF vars, process, call, IInv, TypeOK, ShapeInv, LifespanInv, CallInv, RetryInv,
       ReportInv, Running

-----------------------------------------------------------------------------
(* The inductive invariant holds in every reachable state.                 *)
THEOREM Inductive == Spec => []IInv
<1>1. IInv /\ [Next]_vars => IInv'
  BY LifespanStep, BeginStep, AttemptEndsStep, CancelStep, StutterStep DEF Next, Work
<1> QED
  BY InitIInv, <1>1, PTL DEF Spec

(* Every variable keeps its type, and exactly the calls that are done have *)
(* an answer.                                                              *)
THEOREM TypeCorrect == Spec => []TypeOK
<1>1. IInv => TypeOK
  BY DEF IInv
<1> QED
  BY Inductive, <1>1, PTL

(* No attempt is under way over a client that is closed.                   *)
THEOREM ClientIsClosedLast == Spec => []ClientOutlivesCalls
<1>1. IInv => ClientOutlivesCalls
  BY DEF IInv, LifespanInv, ClientOutlivesCalls
<1> QED
  BY Inductive, <1>1, PTL

(* A failure that may pass is told only when the attempts are used up, and *)
(* nothing else is tried again, for every number of attempts.              *)
THEOREM RetriesAreSound == Spec => []OnlyPassingFailuresAreRetried
<1>1. IInv => OnlyPassingFailuresAreRetried
  BY DEF IInv, RetryInv, OnlyPassingFailuresAreRetried, ToolCalls
<1> QED
  BY Inductive, <1>1, PTL

(* The reports on a body agree with each other and with the listings,      *)
(* whatever its filters are.                                               *)
THEOREM ReportsAlwaysAgree == Spec => []ReportsAgree
<1>1. IInv => ReportsAgree
  <2> SUFFICES ASSUME IInv, NEW c \in Calls, stage[c] = "done", answer[c].kind = "report"
               PROVE  Agree(args[c], answer[c])
    BY DEF ReportsAgree
  <2>1. answer[c] = Reports(args[c])
    BY DEF IInv, TypeOK, ReportInv
  <2> QED
    BY <2>1, ReportsOfBody
<1> QED
  BY Inductive, <1>1, PTL

-----------------------------------------------------------------------------
(* Refinement.                                                             *)
asked == [c \in Calls |-> IF c \in ToolCalls THEN args[c] ELSE None]
told  == [c \in Calls |-> IF c \in ToolCalls THEN answer[c] ELSE None]

(* Looking up an alarm by its id finds it.                                 *)
LEMMA LookUp ==
  ASSUME NEW id, Known(id)
  PROVE  AlarmOf(id) \in Alarms /\ AlarmOf(id).id = id
BY DEF Known, AlarmOf

(* Naive is not None.                                                      *)
LEMMA NaiveIsNotNone == Naive # None
<1>1. ASSUME Naive = None PROVE FALSE
  <2>1. {None, Naive, Blank} = {None, Blank}
    BY <1>1
  <2>2. Cardinality({None, Blank}) <= 2
    <3>1. CASE None = Blank
      BY <3>1, FS_Singleton
    <3>2. CASE None # Blank
      <4>1. IsFiniteSet({Blank}) /\ Cardinality({Blank}) = 1
        BY FS_Singleton
      <4>2. {None, Blank} = {Blank} \cup {None} /\ None \notin {Blank}
        BY <3>2
      <4>3. Cardinality({Blank} \cup {None}) = 2
        BY <4>1, <4>2, FS_AddElement
      <4> QED
        BY <4>2, <4>3
    <3> QED
      BY <3>1, <3>2
  <2> QED
    BY <2>1, <2>2, ApiAssumption
<1> QED
  BY <1>1

(* The indices of a pair.                                                   *)
LEMMA OneAndTwo == \A n : n = 2 => 1..n = {1, 2}
<1>1. \A i \in Int : i \in 1..2 <=> i = 1 \/ i = 2
  OBVIOUS
<1>2. 1..2 \subseteq Int /\ {1, 2} \subseteq Int
  OBVIOUS
<1>3. 1..2 = {1, 2}
  BY <1>1, <1>2
<1> QED
  BY <1>3

(* The greatest index of a pair.                                            *)
LEMMA GreatestOfTwo ==
  ASSUME NEW S, S = {1, 2}
  PROVE  (CHOOSE i \in S : \A j \in S : j <= i) = 2
<1>1. \E i \in S : \A j \in S : j <= i
  <2>1. 2 \in S /\ \A j \in S : j <= 2
    OBVIOUS
  <2> QED
    BY <2>1
<1>2. (CHOOSE i \in S : \A j \in S : j <= i) \in S
  BY <1>1
<1>3. \A j \in S : j <= (CHOOSE i \in S : \A j_1 \in S : j_1 <= i)
  BY <1>1
<1> QED
  BY <1>2, <1>3

(* The alarm that a 404 names is that of the path, for a path that is one. *)
LEMMA LastOfPath ==
  ASSUME NEW id, id # ""
  PROVE  LastSegment(<<"alarms", id>>) = id
<1> DEFINE path == <<"alarms", id>>
           named == {i \in 1..Len(path) : path[i] # ""}
<1>1. path[1] = "alarms" /\ path[2] = id /\ "alarms" # ""
  OBVIOUS
<1>2. Len(path) = 2
  OBVIOUS
<1> HIDE DEF path
<1>3. 1..Len(path) = {1, 2}
  BY ONLY <1>2, OneAndTwo
<1>4. named = {1, 2}
  BY <1>1, <1>3
<1>5. LastSegment(path)
      = IF named = {} THEN "unknown"
                      ELSE path[CHOOSE i \in named : \A j \in named : j <= i]
  BY DEF LastSegment
<1> HIDE DEF named
<1>6. (CHOOSE i \in named : \A j \in named : j <= i) = 2
  BY ONLY <1>4, GreatestOfTwo
<1> QED
  BY <1>1, <1>4, <1>5, <1>6 DEF path

(* A 404 tells of an alarm that is missing.                                *)
LEMMA NotFoundIsAllowed ==
  ASSUME NEW a, a.tool \in {"get_alarm", "recommend_actions"},
         \/ HttpRequest(a).route = "elsewhere"
         \/ HttpRequest(a).route # "elsewhere" /\ Serve(HttpRequest(a)).status = 404
  PROVE  Missing(a, MissingAlarm(a))
<1>1. a.tool \in Tools
  BY DEF Tools
<1>2. CASE a.tool = "recommend_actions"
  <2>1. HttpRequest(a).route # "elsewhere"
    BY <1>1, <1>2, RouteOf
  <2>2. ~Known(a.alarm_id)
    BY <1>1, <1>2, <2>1, ServeStatus
  <2> QED
    BY <1>2, <2>2 DEF Missing, Known
<1>3. CASE a.tool = "get_alarm"
  <2> DEFINE path == PathOf(a.alarm_id)
  <2>1. CASE HttpRequest(a).route = "elsewhere"
    <3>1. ~NamesAlarm(path)
      BY <1>1, <1>3, <2>1, RouteOf
    <3>2. path # <<"alarms">>
      BY <1>1, <1>3, <2>1, <3>1, RouteOf, ListingRoute
    <3> QED
      BY <1>3, <3>1, <3>2 DEF Missing, Plain
  <2>2. CASE HttpRequest(a).route # "elsewhere" /\ Serve(HttpRequest(a)).status = 404
    <3>1. NamesAlarm(path) /\ ~Known(path[2])
      BY <1>1, <1>3, <2>2, ServeStatus
    <3>2. path # <<"alarms">>
      BY <3>1, OneSegment
    <3>3. Plain(a.alarm_id) => MissingAlarm(a) = a.alarm_id
      <4>1. ASSUME Plain(a.alarm_id) PROVE MissingAlarm(a) = a.alarm_id
        <5>1. path = <<"alarms", a.alarm_id>> /\ path[2] # ""
          BY <4>1 DEF Plain, NamesAlarm
        <5>3. a.alarm_id # ""
          <6> HIDE DEF path
          <6> QED
            BY <5>1
        <5>2. MissingAlarm(a) = LastSegment(path)
          BY <1>3 DEF MissingAlarm
        <5> HIDE DEF path
        <5> QED
          BY <5>1, <5>2, <5>3, LastOfPath
      <4> QED
        BY <4>1
    <3> QED
      BY <1>3, <3>1, <3>2, <3>3 DEF Missing, Known
  <2> QED
    BY <2>1, <2>2
<1> QED
  BY <1>2, <1>3

(* The body of a 200 is what the arguments ask for.                        *)
LEMMA ServedIsRight ==
  ASSUME NEW c \in Calls, NEW a \in ArgumentsOf(c),
         HttpRequest(a).route # "elsewhere", Serve(HttpRequest(a)).status = 200
  PROVE  Right(a, Serve(HttpRequest(a)).body)
<1> DEFINE body == Serve(HttpRequest(a)).body
<1>0. a.tool \in Tools
  BY ToolsAssumption
<1>1. CASE a.tool \in {"search_assets", "search_similar_tickets"}
  <2>1. a.limit \in Nat
    BY <1>1, ToolsAssumption DEF Searching
  <2> QED
    BY <1>1, <2>1, SearchIsRight, SimilarAreRight
<1>2. CASE a.tool = "summarize_alarms"
  <2>1. a.limit \in Nat /\ HttpRequest(a) = Listing(a)
    BY <1>0, <1>2, ToolsAssumption, RouteOf DEF Searching
  <2>2. IF Naive \in {a.since, a.until} THEN body = << >> ELSE IsNewest(body, a)
    BY <2>1, ListingIsRight
  <2> HIDE DEF body
  <2>3. Right(a, body)
    BY <1>2, <2>2 DEF Right
  <2> QED
    BY <2>3 DEF body
<1>3. CASE a.tool = "get_alarm"
  <2> DEFINE path == PathOf(a.alarm_id)
  <2>1. NamesAlarm(path) => body \in Alarms /\ body.id = path[2]
    BY <1>0, <1>3, ServeStatus, LookUp
  <2>2. ASSUME path = <<"alarms">> PROVE IsNewest(body, NoFilter)
    <3>1. ~NamesAlarm(path)
      BY <2>2, OneSegment
    <3>2. HttpRequest(a) = Listing(NoFilter)
      BY <1>0, <1>3, <2>2, <3>1, RouteOf
    <3>3. NoFilter.limit \in Nat /\ Naive \notin {NoFilter.since, NoFilter.until}
      <4>1. Naive # None
        BY NaiveIsNotNone
      <4> QED
        BY <4>1 DEF NoFilter
    <3> QED
      BY <3>2, <3>3, ListingIsRight
  <2> HIDE DEF body
  <2>3. Right(a, body)
    BY <1>3, <2>1, <2>2 DEF Right
  <2> QED
    BY <2>3 DEF body
<1>4. CASE a.tool = "recommend_actions"
  <2>1. Known(a.alarm_id) /\ body = Recommendation(AlarmOf(a.alarm_id))
    BY <1>0, <1>4, ServeStatus
  <2>2. body.alarm_id = a.alarm_id
    BY <2>1, LookUp DEF Recommendation
  <2> HIDE DEF body
  <2>3. Right(a, body)
    BY <1>4, <2>2 DEF Right
  <2> QED
    BY <2>3 DEF body
<1> QED
  BY <1>0, <1>1, <1>2, <1>3, <1>4 DEF Tools

(* Nothing is promised of the body of a path that leaves GET /alarms.      *)
LEMMA ElsewhereIsRight ==
  ASSUME NEW a, a.tool \in Tools, HttpRequest(a).route = "elsewhere", NEW body
  PROVE  a.tool = "get_alarm" /\ Right(a, body)
<1>1. a.tool = "get_alarm"
  BY RouteOf, ListingRoute DEF Tools
<1>2. ~NamesAlarm(PathOf(a.alarm_id))
  BY <1>1, RouteOf
<1>3. PathOf(a.alarm_id) # <<"alarms">>
  BY <1>1, <1>2, RouteOf, ListingRoute
<1> QED
  BY <1>1, <1>2, <1>3 DEF Right

(* What the last attempt of a call becomes is what its arguments allow.    *)
LEMMA EnvelopeIsAllowed ==
  ASSUME NEW c \in Calls, NEW a \in ArgumentsOf(c), NEW o \in Outcomes(a)
  PROVE  Allowed(a, Envelope(a, o))
<1>1. a.tool \in Tools
  BY ToolsAssumption
<1>2. \/ o.error = "none" /\ o.status \in {200, 307, 404, 405, 422, 500, 503}
      \/ o.error \in {"ReadTimeout", "ConnectTimeout", "InvalidURL"} /\ o.status = 0
  BY OutcomeStatus
<1>3. CASE o.error = "InvalidURL"
  <2>1. Envelope(a, o) = [kind |-> "unhandled"]
    <3>1. o.error = "InvalidURL" /\ o.status = 0
      BY <1>2, <1>3
    <3> QED
      BY <3>1 DEF Envelope
  <2> QED
    BY <2>1 DEF Allowed
<1>4. CASE o.error \in {"ReadTimeout", "ConnectTimeout"}
  <2>1. Envelope(a, o) = [kind |-> "failed"]
    <3>1. o.error \notin {"none", "InvalidURL"} /\ o.status = 0
      BY <1>2, <1>4
    <3> QED
      BY <3>1 DEF Envelope
  <2> QED
    BY <2>1 DEF Allowed
<1>5. CASE o.error = "none" /\ o.status \in {307, 405, 422, 500, 503}
  <2>1. Envelope(a, o) = [kind |-> "status", code |-> o.status]
    BY <1>5 DEF Envelope
  <2>2. o.status \notin {200, 404}
    BY <1>5
  <2>3. Envelope(a, o).kind = "status" /\ Envelope(a, o).code = o.status
    BY <2>1
  <2> QED
    BY <2>2, <2>3 DEF Allowed
<1>6. CASE o.error = "none" /\ o.status = 404
  <2>1. \/ HttpRequest(a).route # "elsewhere" /\ o = Serve(HttpRequest(a))
        \/ HttpRequest(a).route = "elsewhere"
    BY <1>6, OutcomeKinds
  <2>2. a.tool \in {"get_alarm", "recommend_actions"}
    BY <1>1, <1>6, <2>1, ServeStatus, ElsewhereIsRight
  <2>3. Missing(a, MissingAlarm(a))
    BY <1>6, <2>1, <2>2, NotFoundIsAllowed
  <2>4. Envelope(a, o) = [kind |-> "not_found", alarm_id |-> MissingAlarm(a)]
    BY <1>6 DEF Envelope
  <2>5. Envelope(a, o).kind = "not_found" /\ Envelope(a, o).alarm_id = MissingAlarm(a)
    BY <2>4
  <2> QED
    BY <2>2, <2>3, <2>5 DEF Allowed
<1>7. CASE o.error = "none" /\ o.status = 200 /\ o.body = Blank
  BY <1>7 DEF Envelope, Allowed
<1>8. CASE o.error = "none" /\ o.status = 200 /\ o.body # Blank
  <2>1. \/ HttpRequest(a).route # "elsewhere" /\ o = Serve(HttpRequest(a))
        \/ HttpRequest(a).route = "elsewhere"
    BY <1>8, OutcomeKinds
  <2>2. Right(a, o.body)
    BY <1>1, <1>8, <2>1, ServedIsRight, ElsewhereIsRight
  <2>3. Envelope(a, o) = [kind |-> "result", body |-> o.body]
    BY <1>8 DEF Envelope
  <2> QED
    BY <2>2, <2>3 DEF Allowed
<1> QED
  BY <1>2, <1>3, <1>4, <1>5, <1>6, <1>7, <1>8

(* A call that has no tool's arguments is none of the abstract server.     *)
LEMMA StepToolCall ==
  ASSUME IInv, [Next]_vars
  PROVE  [Abstract!Next]_Abstract!vars
<1> USE ToolsAssumption
<1>a. /\ DOMAIN args = Calls /\ DOMAIN answer = Calls
      /\ \A c \in Calls : (answer[c] = None) <=> (stage[c] # "done")
      /\ \A c \in Calls : stage[c] = "idle" => args[c] = None
      /\ \A c \in Calls : Running(c) => args[c] \in ArgumentsOf(c)
  BY DEF IInv, ShapeInv, TypeOK, CallInv
<1>1. ASSUME UNCHANGED <<args, answer>> PROVE UNCHANGED Abstract!vars
  BY <1>1 DEF Abstract!vars, ToolCalls
<1>2. ASSUME NEW c \in Calls, NEW a \in ArgumentsOf(c), CallTool(c, a)
      PROVE  Abstract!Next
  <2>1. /\ stage[c] = "idle" /\ args[c] = None /\ answer[c] = None
        /\ args' = [args EXCEPT ![c] = a] /\ answer' = answer
    BY <1>a, <1>2 DEF CallTool
  <2>2. asked[c] = None /\ asked'[c] = a /\ a # None
    BY <1>a, <2>1 DEF asked, ToolCalls
  <2>3. asked' = [asked EXCEPT ![c] = asked'[c]] /\ told' = told
    BY <1>a, <2>1 DEF asked, told, ToolCalls
  <2>4. Abstract!Ask(c)
    BY <2>2, <2>3 DEF Abstract!Ask, asked, told
  <2> QED
    BY <2>4 DEF Abstract!Next
<1>3. ASSUME NEW c \in Calls, NEW p \in Bodies, Report(c, p)
      PROVE  UNCHANGED Abstract!vars
  <2>1. /\ stage[c] = "idle" /\ args[c] = None /\ p \notin ArgumentsOf(c)
        /\ args' = [args EXCEPT ![c] = p]
        /\ answer' = [answer EXCEPT ![c] = Reports(p)]
    BY <1>a, <1>3 DEF Report
  <2>2. asked' = asked /\ told' = told
    BY <1>a, <2>1 DEF asked, told, ToolCalls
  <2> QED
    BY <2>2 DEF Abstract!vars, asked, told
<1>4. ASSUME NEW c \in Calls, NEW new, new # None,
             Running(c), Allowed(args[c], new),
             args' = args, answer' = [answer EXCEPT ![c] = new]
      PROVE  Abstract!Next
  <2>1. args[c] \in ArgumentsOf(c) /\ answer[c] = None /\ args[c] # None
    BY <1>a, <1>4 DEF Running
  <2>2. asked[c] = args[c] /\ told[c] = None /\ told'[c] = new
    BY <1>a, <1>4, <2>1 DEF asked, told, ToolCalls
  <2>3. told' = [told EXCEPT ![c] = told'[c]] /\ asked' = asked
    BY <1>a, <1>4, <2>1 DEF asked, told, ToolCalls
  <2>4. Abstract!Tell(c)
    BY <1>4, <2>1, <2>2, <2>3 DEF Abstract!Tell, asked, told
  <2> QED
    BY <2>4 DEF Abstract!Next
<1>5. ASSUME NEW c \in Calls, AttemptEnds(c)
      PROVE  Abstract!Next \/ UNCHANGED Abstract!vars
  <2>1. PICK o \in Outcomes(args[c]) : TryAgain(c, o) \/ Settle(c, o)
    BY <1>5 DEF AttemptEnds
  <2>2. CASE TryAgain(c, o)
    BY <1>1, <2>2 DEF TryAgain
  <2>3. CASE Settle(c, o)
    <3>1. Running(c) /\ args[c] \in ArgumentsOf(c)
      BY <1>a, <1>5 DEF AttemptEnds, Running
    <3>2. Envelope(args[c], o) # None /\ Allowed(args[c], Envelope(args[c], o))
      BY <3>1, NoneAssumption, EnvelopeIsAllowed
    <3> QED
      BY <1>4, <2>3, <3>1, <3>2 DEF Settle
  <2> QED
    BY <2>1, <2>2, <2>3
<1>6. ASSUME NEW c \in Calls, Cancelled(c)
      PROVE  Abstract!Next
  <2>1. Allowed(args[c], [kind |-> "cancelled"])
    BY DEF Allowed
  <2> QED
    BY <1>4, <1>6, <2>1, NoneAssumption DEF Cancelled
<1>7. CASE Lifespan \/ UNCHANGED vars
  BY <1>1, <1>7
  DEF Lifespan, AttachClient, EnterSessions, EnterFails, LeaveSessions, CloseClient,
      ProbeStarts, ProbeEnds, vars, call
<1>8. ASSUME NEW c \in Calls, Attempt(c) PROVE UNCHANGED Abstract!vars
  BY <1>1, <1>8 DEF Attempt
<1> QED
  BY <1>2, <1>3, <1>5, <1>6, <1>7, <1>8 DEF Next, Work

(* Each tool call is one atomic call, asked once and told once, whatever   *)
(* its attempts, the shutdowns and the other calls do in between: what it  *)
(* is told is allowed by its own arguments.                                *)
THEOREM ImplementsOneCall == Spec => ImplementsToolCall
<1>1. Init => Abstract!Init
  BY ToolsAssumption DEF Init, Abstract!Init, ToolCalls
<1>2. IInv /\ [Next]_vars => [Abstract!Next]_Abstract!vars
  BY StepToolCall
<1> QED
  BY Inductive, <1>1, <1>2, PTL DEF Spec, ImplementsToolCall, Abstract!Spec
=============================================================================
