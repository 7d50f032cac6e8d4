----------------------------- MODULE AlarmTools -----------------------------
(***************************************************************************)
(* The alarm-management MCP server: its five tools, each one HTTP call of  *)
(* the alarm API with bounded retries, in a process that is started and    *)
(* shut down around them.  The handlers are tasks of one event loop.       *)
(*                                                                         *)
(* The MCP SDK checks the arguments of a tool against its input schema     *)
(* before the handler runs, and runs every call in a task of the session   *)
(* manager; a caller that goes away does not stop it.                      *)
(***************************************************************************)
EXTENDS AlarmReports

CONSTANTS Calls,        \* the tool calls, and the reports of other API clients
          ArgumentsOf(_), \* what each of them may be called with
          Divided,      \* what a URL makes of the ids with a delimiter or an escape
          Bodies,       \* what reports are asked for
          MaxAttempts,  \* alarm_api_max_attempts
          MaxStarts     \* bound: how often the process is started

Tools == {"search_assets", "get_alarm", "summarize_alarms", "recommend_actions",
          "search_similar_tickets"}

(* The tools that ask for a page, of one row at least.                     *)
Searching == {"search_assets", "summarize_alarms", "search_similar_tickets"}

ASSUME ToolsAssumption ==
  /\ MaxAttempts \in Nat \ {0}
  /\ MaxStarts \in Nat
  /\ \A c \in Calls : /\ None \notin ArgumentsOf(c) \cup Bodies
                      /\ ArgumentsOf(c) \cap Bodies = {}
                      /\ \A a \in ArgumentsOf(c) :
                           /\ a.tool \in Tools
                           /\ a.tool \in Searching => a.limit \in Nat \ {0}

VARIABLES
  phase,     \* of the lifespan of the process
  client,    \* the AlarmApiClient attached to the server
  starts,    \* how often the process was started
  probing,   \* GET /ready blocks the event loop
  args,      \* the arguments of each call
  stage,     \* where each call is
  attempts,  \* how many HTTP attempts of it have ended
  last,      \* the outcome of the latest
  answer     \* what its caller is told

process == <<phase, client, starts, probing>>
call    == <<args, stage, attempts, last, answer>>
vars    == <<process, call>>

-----------------------------------------------------------------------------
(* get_alarm puts the id into its URL as it is, where "?" and "#" end the  *)
(* path and "/" divides it: Divided gives the segments of such an id.  The *)
(* query behind a "?" is left out, which only GET /alarms would read: no   *)
(* id that reaches the list has one here.                                  *)
Segments(id) == IF id \in DOMAIN Divided THEN Divided[id] ELSE <<id>>

(* httpx resolves the dot segments before it sends a path.                 *)
Resolved(path) ==
  LET upTo[i \in 0..Len(path)] ==
        IF i = 0 THEN << >>
        ELSE CASE path[i] = "."  -> upTo[i - 1]
               [] path[i] = ".." -> SubSeq(upTo[i - 1], 1, Len(upTo[i - 1]) - 1)
               [] path[i] \notin {".", ".."} -> Append(upTo[i - 1], path[i])
  IN  upTo[Len(path)]

PathOf(id) == Resolved(<<"alarms">> \o Segments(id))

NamesAlarm(path) == Len(path) = 2 /\ path[1] = "alarms" /\ path[2] # ""

(* GET /alarms and what a tool, or a path cut short, filters it by.        *)
Listing(f) ==
  [route |-> "/alarms", page_size |-> f.limit, site |-> f.site, asset_id |-> f.asset,
   severity |-> f.severity, start_time |-> f.since, end_time |-> f.until]

NoFilter ==
  [limit |-> 50, site |-> None, asset |-> None, severity |-> None,
   since |-> None, until |-> None]

(* What the tools send: the route and the parameters of its handler.  A    *)
(* tool passes on the optional arguments that were given; search_assets    *)
(* sends the site too, which the route has no parameter for.  The path of  *)
(* get_alarm may reach another route than the one meant.                   *)
HttpRequest(a) ==
  CASE a.tool = "search_assets" ->
         [route |-> "/assets/search", query |-> a.query, unit |-> a.unit, limit |-> a.limit]
    [] a.tool = "get_alarm" /\ NamesAlarm(PathOf(a.alarm_id)) ->
         [route |-> "/alarms/", alarm_id |-> PathOf(a.alarm_id)[2]]
    [] a.tool = "get_alarm" /\ PathOf(a.alarm_id) = <<"alarms">> -> Listing(NoFilter)
    [] a.tool = "get_alarm" /\ ~NamesAlarm(PathOf(a.alarm_id))
                            /\ PathOf(a.alarm_id) # <<"alarms">> -> [route |-> "elsewhere"]
    [] a.tool = "summarize_alarms" -> Listing(a)
    [] a.tool = "recommend_actions" ->
         [route |-> "/recommendations/operator-actions", alarm_id |-> a.alarm_id]
    [] a.tool = "search_similar_tickets" ->
         [route |-> "/tickets/similar", site |-> a.site, asset_class |-> a.asset_class,
          limit |-> a.limit]

Response(status, body) == [status |-> status, error |-> "none", body |-> body]

(* The answer of the route: 404 for an id nobody knows, 500 for what its   *)
(* handler does not catch.                                                 *)
Serve(r) ==
  CASE r.route = "/assets/search" ->
         IF SearchRaises(r) THEN Response(500, None) ELSE Response(200, SearchAssets(r))
    [] r.route = "/alarms" ->
         IF TimeRaises(ListScope(r), r.start_time, r.end_time)
           THEN Response(500, None) ELSE Response(200, ListPage(r))
    [] r.route = "/alarms/" ->
         IF Known(r.alarm_id) THEN Response(200, AlarmOf(r.alarm_id)) ELSE Response(404, None)
    [] r.route = "/recommendations/operator-actions" ->
         IF Known(r.alarm_id) THEN Response(200, Recommendation(AlarmOf(r.alarm_id)))
                              ELSE Response(404, None)
    [] r.route = "/tickets/similar" -> Response(200, SimilarTickets(r))

(* Elsewhere: a route that is no matter of this module, or none, or the    *)
(* redirect that a trailing slash gets.                                    *)
Foreign   == "the body of another route"
Elsewhere == {Response(status, Foreign) : status \in {200, 307, 404, 405, 422}}

(* The API keeps no state: what it answers to a request it always answers. *)
Served ==
  [r \in {HttpRequest(a) : a \in UNION {ArgumentsOf(c) : c \in Calls}} |->
     IF r.route = "elsewhere" THEN Elsewhere ELSE {Serve(r)}]

(* What can go wrong under way: an answer that is not the API's own, and   *)
(* one transport error for each class the client tells apart.  An id with  *)
(* a character no URL may hold never leaves the client.                    *)
TransportError(name) == [status |-> 0, error |-> name, body |-> None]
Mishaps == {Response(503, None), Response(200, Blank),
            TransportError("ReadTimeout"), TransportError("ConnectTimeout")}

Unprintable == "id with a control character"

Outcomes(a) ==
  IF "alarm_id" \in DOMAIN a /\ a.alarm_id = Unprintable /\ a.tool = "get_alarm"
    THEN {TransportError("InvalidURL")}
    ELSE Served[HttpRequest(a)] \cup Mishaps

-----------------------------------------------------------------------------
(* The retry policy.                                                       *)
RETRYABLE_STATUS_CODES == {408, 425, 429, 500, 502, 503, 504}
RetryableTransport == {"ConnectError", "ReadTimeout", "WriteTimeout", "PoolTimeout",
                       "RemoteProtocolError"}

Retryable(o) == o.status \in RETRYABLE_STATUS_CODES \/ o.error \in RetryableTransport

(* Mutant: a lost connection is tried again, a busy server is not.         *)
RetryTransportOnly(o, n) == n < MaxAttempts /\ o.error \in RetryableTransport

Retry(o, n) == n < MaxAttempts /\ Retryable(o)

(* The alarm _raise_for_status names: the last segment of the path.        *)
LastSegment(path) ==
  LET named == {i \in 1..Len(path) : path[i] # ""}
  IN  IF named = {} THEN "unknown" ELSE path[CHOOSE i \in named : \A j \in named : j <= i]

MissingAlarm(a) ==
  IF a.tool = "get_alarm" THEN LastSegment(PathOf(a.alarm_id)) ELSE "operator-actions"

(* What becomes of the last attempt in get_json or post_json, and in the   *)
(* wrapper of register_tool, which translates every other httpx error the  *)
(* client lets through.  A body that is no JSON and an invalid URL are no  *)
(* httpx errors: their message reaches the caller as it is.                *)
Envelope(a, o) ==
  CASE o.error = "InvalidURL" -> [kind |-> "unhandled"]
    [] o.error \notin {"none", "InvalidURL"} -> [kind |-> "failed"]
    [] o.status = 404 -> [kind |-> "not_found", alarm_id |-> MissingAlarm(a)]
    [] o.status = 200 /\ o.body = Blank -> [kind |-> "unhandled"]
    [] o.status = 200 /\ o.body # Blank -> [kind |-> "result", body |-> o.body]
    [] o.status \notin {0, 200, 404} -> [kind |-> "status", code |-> o.status]

Reports(p) ==
  [kind |-> "report", summary |-> Summary(p), trends |-> Trends(p),
   candidates |-> Candidates(p), flood |-> FloodWindows(p)]

(* Python's None is neither an outcome nor an answer.                      *)
ASSUME NoneAssumption ==
  /\ None # [kind |-> "cancelled"]
  /\ \A p \in Bodies : None # Reports(p)
  /\ \A c \in Calls : \A a \in ArgumentsOf(c) : \A o \in Outcomes(a) :
       None # o /\ None # Envelope(a, o)

-----------------------------------------------------------------------------
Init ==
  /\ phase = "down"
  /\ client = "none"
  /\ starts = 0
  /\ probing = FALSE
  /\ args   = [c \in Calls |-> None]
  /\ stage  = [c \in Calls |-> "idle"]
  /\ attempts = [c \in Calls |-> 0]
  /\ last   = [c \in Calls |-> None]
  /\ answer = [c \in Calls |-> None]

(* The lifespan.  The client is built and attached before the session      *)
(* manager is entered; if entering fails, the start fails and the process  *)
(* ends with its client.                                                   *)
AttachClient ==
  /\ phase = "down"
  /\ starts < MaxStarts
  /\ phase' = "starting"
  /\ client' = "open"
  /\ starts' = starts + 1
  /\ UNCHANGED <<probing, call>>

EnterSessions ==
  /\ phase = "starting"
  /\ phase' = "serving"
  /\ UNCHANGED <<client, starts, probing, call>>

EnterFails ==
  /\ phase = "starting"
  /\ phase' = "down"
  /\ client' = "none"
  /\ UNCHANGED <<starts, probing, call>>

Running(c) == stage[c] \in {"called", "in_flight", "backoff"}

(* Mutant: a cancelled task leaves no answer behind.                       *)
CancelledSilently(c) ==
  /\ phase = "leaving"
  /\ Running(c)
  /\ stage' = [stage EXCEPT ![c] = "done"]
  /\ UNCHANGED <<process, args, attempts, last, answer>>

(* Mutant: the client is closed before the session manager is left, the    *)
(* order __main__.py:97 warns of.                                          *)
CloseAndLeave ==
  /\ phase = "serving"
  /\ ~probing
  /\ phase' = "leaving"
  /\ client' = "closed"
  /\ UNCHANGED <<starts, probing, call>>

(* Shutdown: the session manager cancels the tasks of its calls ...        *)
LeaveSessions ==
  /\ phase = "serving"
  /\ ~probing
  /\ phase' = "leaving"
  /\ UNCHANGED <<client, starts, probing, call>>

Cancelled(c) ==
  /\ phase = "leaving"
  /\ Running(c)
  /\ stage' = [stage EXCEPT ![c] = "done"]
  /\ answer' = [answer EXCEPT ![c] = [kind |-> "cancelled"]]
  /\ UNCHANGED <<process, args, attempts, last>>

(* ... and is left when they have ended; the client is closed even if      *)
(* leaving raised.  It stays attached.                                     *)
CloseClient ==
  /\ phase = "leaving"
  /\ \A c \in Calls : ~Running(c)
  /\ phase' = "down"
  /\ client' = "closed"
  /\ UNCHANGED <<starts, probing, call>>

-----------------------------------------------------------------------------
(* GET /ready asks the alarm API with a blocking call: for up to half a    *)
(* second no task of the process goes on.                                  *)
ProbeStarts ==
  /\ phase = "serving"
  /\ ~probing
  /\ probing' = TRUE
  /\ UNCHANGED <<phase, client, starts, call>>

ProbeEnds ==
  /\ probing
  /\ probing' = FALSE
  /\ UNCHANGED <<phase, client, starts, call>>

-----------------------------------------------------------------------------
(* A call of a tool.                                                       *)
CallTool(c, a) ==
  /\ phase = "serving"
  /\ ~probing
  /\ stage[c] = "idle"
  /\ args' = [args EXCEPT ![c] = a]
  /\ stage' = [stage EXCEPT ![c] = "called"]
  /\ UNCHANGED <<process, attempts, last, answer>>

(* An attempt, the first or the one after a backoff.                       *)
Attempt(c) ==
  /\ phase = "serving"
  /\ ~probing
  /\ stage[c] \in {"called", "backoff"}
  /\ stage' = [stage EXCEPT ![c] = "in_flight"]
  /\ UNCHANGED <<process, args, attempts, last, answer>>

(* Mutant: the attempts are not counted.                                   *)
TryAgainForever(c, o) ==
  /\ Retry(o, 1)
  /\ last' = [last EXCEPT ![c] = o]
  /\ stage' = [stage EXCEPT ![c] = "backoff"]
  /\ UNCHANGED <<process, args, attempts, answer>>

TryAgain(c, o) ==
  /\ Retry(o, attempts[c] + 1)
  /\ attempts' = [attempts EXCEPT ![c] = @ + 1]
  /\ last' = [last EXCEPT ![c] = o]
  /\ stage' = [stage EXCEPT ![c] = "backoff"]
  /\ UNCHANGED <<process, args, answer>>

Settle(c, o) ==
  /\ ~Retry(o, attempts[c] + 1)
  /\ attempts' = [attempts EXCEPT ![c] = @ + 1]
  /\ last' = [last EXCEPT ![c] = o]
  /\ stage' = [stage EXCEPT ![c] = "done"]
  /\ answer' = [answer EXCEPT ![c] = Envelope(args[c], o)]
  /\ UNCHANGED <<process, args>>

(* An attempt ends, by its timeout at the latest.                          *)
AttemptEnds(c) ==
  /\ phase = "serving"
  /\ ~probing
  /\ stage[c] = "in_flight"
  /\ \E o \in Outcomes(args[c]) : TryAgain(c, o) \/ Settle(c, o)

(* Another client of the alarm API takes the four reports on one body.     *)
Report(c, p) ==
  /\ stage[c] = "idle"
  /\ stage' = [stage EXCEPT ![c] = "done"]
  /\ args' = [args EXCEPT ![c] = p]
  /\ answer' = [answer EXCEPT ![c] = Reports(p)]
  /\ UNCHANGED <<process, attempts, last>>

-----------------------------------------------------------------------------
Lifespan ==
  \/ AttachClient \/ EnterSessions \/ EnterFails
  \/ LeaveSessions \/ CloseClient
  \/ ProbeStarts \/ ProbeEnds

Work(c) == Attempt(c) \/ AttemptEnds(c) \/ Cancelled(c)

Next ==
  \/ Lifespan
  \/ \E c \in Calls :
       \/ \E a \in ArgumentsOf(c) : CallTool(c, a)
       \/ \E p \in Bodies : Report(c, p)
       \/ Work(c)

(* Every attempt and every probe has a timeout, a backoff ends, and the    *)
(* event loop comes round to every task that is ready.  Probes may come so *)
(* often that a task finds the loop blocked again and again, but not at    *)
(* every turn: strong fairness.                                            *)
Fairness ==
  /\ WF_vars(ProbeEnds)
  /\ \A c \in Calls : SF_vars(Attempt(c)) /\ SF_vars(AttemptEnds(c)) /\ WF_vars(Cancelled(c))

Spec == Init /\ [][Next]_vars /\ Fairness

-----------------------------------------------------------------------------
(* Properties.                                                             *)

(* Every variable has its type, and exactly the calls that are done have   *)
(* an answer.                                                              *)
TypeOK ==
  /\ phase \in {"down", "starting", "serving", "leaving"}
  /\ client \in {"none", "open", "closed"}
  /\ starts \in 0..MaxStarts
  /\ probing \in BOOLEAN
  /\ \A c \in Calls : args[c] \in ArgumentsOf(c) \cup Bodies \cup {None}
  /\ stage \in [Calls -> {"idle", "called", "in_flight", "backoff", "done"}]
  /\ attempts \in [Calls -> 0..MaxAttempts]
  /\ \A c \in Calls : last[c] = None <=> attempts[c] = 0
  /\ \A c \in Calls : (answer[c] = None) <=> (stage[c] # "done")

ToolCalls == {c \in Calls : args[c] \in ArgumentsOf(c)}

(* No tool call has an attempt under way over a client that is closed,     *)
(* whenever the process is told to stop: __main__.py:97, "closing the      *)
(* client before the session manager tears down means in-flight tool calls *)
(* could try to use a closed client".                                      *)
ClientOutlivesCalls ==
  \A c \in Calls : Running(c) => client = "open"

(* A failure the code counts as passing is told to the caller only when    *)
(* every attempt ended in one; and nothing else is ever tried again, not   *)
(* an unknown alarm, not a failure that is final.  A connection that times *)
(* out is final here, as retry.py:67-73 has it; docs/api-integration.md:64 *)
(* lists httpx.ConnectTimeout among the errors that are retried.           *)
Passing(o) ==
  o.status \in {500, 503} \/ o.error = "ReadTimeout"

OnlyPassingFailuresAreRetried ==
  \A c \in ToolCalls :
    /\ Running(c) /\ last[c] # None => Passing(last[c])
    /\ answer[c] # None /\ answer[c].kind \in {"status", "failed"} =>
         (Passing(last[c]) => attempts[c] = MaxAttempts)

(* The sum of some counts, as the number of the things they count.         *)
Counted(counts) == Cardinality(UNION {{k} \X (1..counts[k]) : k \in DOMAIN counts})

(* What the reports r on one body p owe each other.                        *)
Agree(p, r) ==
  LET total == r.summary.total
      listed(id) == ListFiltered([asset_id |-> id, severity |-> None, site |-> p.site,
                                  start_time |-> p.start_time, end_time |-> p.end_time])
  IN  /\ Counted(r.summary.kpis) = total
      /\ p.severities = {} => Len(r.trends) = total
      /\ p.threshold = 1 => Counted(r.candidates) = Len(r.trends)
      /\ p.unit = None => \A id \in DOMAIN r.candidates : r.candidates[id] = Len(listed(id))
      /\ p.unit # None /\ p.asset_ids = {} /\ p.site = None => r.flood = r.candidates

(* The reports of the API count the same alarms: the summary, its KPIs,    *)
(* the trend rows, the candidates when one alarm makes one, the windows of *)
(* a flood, and GET /alarms for the same filters.                          *)
ReportsAgree ==
  \A c \in Calls :
    stage[c] = "done" /\ answer[c].kind = "report" => Agree(args[c], answer[c])

(* Every tool call ends: in an answer, or with the process.                *)
EveryCallEnds ==
  \A c \in Calls : stage[c] = "called" ~> stage[c] = "done"

(* What the arguments of a call allow as its answer, told in terms of the  *)
(* seeded alarms: the newest of those that pass every filter, the alarm    *)
(* that was named, "not found" only when there is none.  For get_alarm the *)
(* alarm that was named is the one in the path: an id with a "?", a "#" or *)
(* a dot segment may name another alarm than that of the id, or the list   *)
(* of all, and nothing is promised for a path that leaves GET /alarms.     *)
Passes(x, a) ==
  /\ a.asset \in {None, x.asset_id}
  /\ a.severity \in {None, x.severity}
  /\ a.site # None => \E y \in Assets : y.id = x.asset_id /\ y.site = a.site
  /\ a.since # None => x.raised_at >= a.since
  /\ a.until # None => x.raised_at <= a.until

IsNewest(rows, a) ==
  LET all == {x \in Alarms : Passes(x, a)}
  IN  /\ Range(rows) \subseteq all
      /\ Len(rows) = IF Cardinality(all) < a.limit THEN Cardinality(all) ELSE a.limit
      /\ \A i \in DOMAIN rows : \A x \in all \ {rows[j] : j \in 1..i} :
           rows[i].raised_at > x.raised_at

Right(a, body) ==
  CASE a.tool = "search_assets" ->
         \A x \in Range(body) : a.query \in x.fragments /\ a.unit \in {None, x.unit}
    [] a.tool = "get_alarm" ->
         /\ NamesAlarm(PathOf(a.alarm_id)) =>
              body \in Alarms /\ body.id = PathOf(a.alarm_id)[2]
         /\ PathOf(a.alarm_id) = <<"alarms">> => IsNewest(body, NoFilter)
    [] a.tool = "summarize_alarms" ->
         IF Naive \in {a.since, a.until} THEN body = << >> ELSE IsNewest(body, a)
    [] a.tool = "recommend_actions" -> body.alarm_id = a.alarm_id
    [] a.tool = "search_similar_tickets" ->
         \A t \in Range(body) : a.site \in {None, t.site} /\ a.asset_class \in {None, t.asset_class}

(* An id that goes into the path as one segment, unchanged.                *)
Plain(id) == PathOf(id) = <<"alarms", id>> /\ NamesAlarm(PathOf(id))

Missing(a, alarm_id) ==
  CASE a.tool = "recommend_actions" -> ~\E x \in Alarms : x.id = a.alarm_id
    [] a.tool = "get_alarm" ->
         /\ PathOf(a.alarm_id) # <<"alarms">>
         /\ ~\E x \in Alarms : NamesAlarm(PathOf(a.alarm_id)) /\ x.id = PathOf(a.alarm_id)[2]
         /\ Plain(a.alarm_id) => alarm_id = a.alarm_id

Allowed(a, told) ==
  CASE told.kind = "result" -> Right(a, told.body)
    [] told.kind = "not_found" -> /\ a.tool \in {"get_alarm", "recommend_actions"}
                                  /\ Missing(a, told.alarm_id)
    [] told.kind = "status" -> told.code \notin {200, 404}
    [] told.kind \in {"failed", "unhandled", "cancelled"} -> TRUE

(* Every tool call is one atomic call of the abstract server: asked once,  *)
(* told once, and told only what its arguments allow.                      *)
Abstract ==
  INSTANCE ToolCall
    WITH asked <- [c \in Calls |-> IF c \in ToolCalls THEN args[c] ELSE None],
         told  <- [c \in Calls |-> IF c \in ToolCalls THEN answer[c] ELSE None]

ImplementsToolCall == Abstract!Spec
=============================================================================
