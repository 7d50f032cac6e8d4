# Formal models of the Incident and Ticket Enrichment Copilot

TLA+ specifications of the copilot in this repository, the TLC configurations that check them on small instances, and
proofs that TLAPS checks. Paths below are relative to `src/`.

## 1. The system

An operator chats with a Streamlit GUI. The GUI calls a FastAPI backend, whose planner turns a question into a list of
steps and whose chain runs them against two MCP servers and a retrieval index. The answer carries a structured incident.
From it the operator can draft a ticket, which is filed only after an explicit approval.

```
operator - GUI (Streamlit) --HTTP--> backend (FastAPI, one event loop)
                                       |- conversation store, planner (LLM), chain, RAG index (in process)
                                       |--MCP--> alarm-management server --HTTP--> alarm API (simulator)
                                       `--MCP--> ticketing server        --HTTP--> ticket service (ticket_mock)
```

| Component | State | Operations | What makes it hard |
|---|---|---|---|
| Ticket service, `connectors/ticket_mock` | ticket table, id counter, audit list, one lock | `POST /tickets/draft`, search, get, audit page | handlers on a thread pool; three separate lock sections per handler; volatile store |
| Ticketing MCP server, `mcp-servers/ticketing` | an HTTP client | `create_ticket_draft`, `search_tickets` | 5 s timeout, late success |
| Alarm MCP server, `mcp-servers/alarm-management` | an HTTP client, a session manager | five read tools, retry with backoff, lifespan, health | which failures are retried and how each ends; shutdown under running calls; a probe that blocks the event loop |
| Alarm API, `connectors/alarm_api` | a fixed seed | queries, reports, calculations | the same filters written out in every report |
| Backend, `apps/backend` | conversations in memory | `/chat` (planner, chain, answer, incident), `/tickets/preview`, `/tickets/draft` | coroutines interleave at every await; failures swallowed into trace steps |
| GUI, `apps/frontend` | Streamlit session state | chat turn, edit, stage, approve, cancel | a run is stopped by the next interaction; dialogs that come back |
| RAG, `rag` | a pickled index | ingest, retrieve | a file written in place; size boundaries of the chunker |
| Core, `core` | settings, log context | | |

What makes each correct, in one line: the **ticket service** never loses, overwrites or doubles a ticket, and each has
exactly one audit row; the **create path** files at most one ticket per call and never names a wrong one; the **GUI**
sends what the approver saw, and a payload leaves it with its outcome; the **conversation** stays the dialogue the
operator saw; the **alarm tools** end every call once, with what its arguments allow; a **chat turn** tells which tools
failed and says nothing the others did not say; **ingestion** loses no text, **retrieval** cites the best of what is
allowed, from a whole index.

## 2. Modules

| Module | Models | Role |
|---|---|---|
| `TicketLedger` | what `POST /tickets/draft` promises | abstract specification |
| `TicketStore` | `store.py` and `routers/tickets.py` of the ticket service | detailed specification, implements `TicketLedger` |
| `TicketFlow` | the create path over GUI client, backend, MCP server and ticket service | composes the hops; the service is the ledger |
| `GuiSession` | the session state of `apps/frontend/ui.py` | how an operator comes to approve |
| `Conversation` | `POST /chat`, `ConversationStore`, `LLMPlanner`, the conversation id the GUI keeps | overlapping turns |
| `Rows` | slices, the filtering comprehension and the stable sort of Python, without recursion | shared by every search and ranking |
| `TicketSearch` | `search.py` of the ticket service | on top of `TicketStore`, whose table it reads |
| `AlarmApi`, `AlarmReports` | `seed.py`, `store.py` and the routes of the alarm API | operators, used by `AlarmTools` and `Chain` |
| `ToolCall` | what a tool of the alarm MCP server promises | abstract specification |
| `AlarmTools` | tools, client, retry, registry, lifespan and probe of the alarm MCP server | detailed specification, implements `ToolCall` |
| `Chunker` | one turn of the loop of `chunk_document` | operators, used by `Ingestion` |
| `Ingestion` | the pipeline and its index file | state machine, may die at any step |
| `Retrieval` | `RetrievalService.retrieve` | operators, used by `RagService` and `Chain` |
| `RagService` | the backend that loads the index and answers from it | composes `Ingestion` and `Retrieval` |
| `Chain` | `MockPlanner`, `ChainRunner.run`, the answer and the incident of `/chat` | composes `AlarmApi` and `Retrieval` |
| `MC...` | | small instances for TLC |
| `RowsProofs` | | lemmas on `Rows`, used by the proofs of `TicketSearch`, `AlarmTools`, `RagService` and `Chain` |
| `TicketStoreProofs` | | theorems about `TicketStore` and `TicketSearch` |
| `TicketFlowProofs`, `GuiSessionProofs`, `ConversationProofs`, `AlarmToolsProofs`, `RagServiceProofs`, `ChainProofs` | | theorems about the module of that name; those of `RagService` include `Ingestion` |

An operator whose name or comment says *Mutant* is a plausible bug of the definition after it, kept to show that each
property depends on the code; no specification uses it.

### TicketStore

`tickets`, `offset`, `audit` and `lock` are the fields of `TicketStore`; `pc` and `tid` are where each handler stands
and its local `ticket_id`; `body` is the request. The handler is `Reject` (403), or `IncrementOffset` and `ReturnId`
(the two halves of `next_id`, under the lock), `FailValidation` (pydantic rejects the `Ticket`, 500) or `Create`,
`AppendAudit`, `Answer`. FastAPI runs plain `def` endpoints on a thread pool, so handlers interleave between these
steps. Each of `create` and `append_audit` is one mutation under the lock and one step. `Restart` may come anywhere.
Numbers stand for `TKT-n`; the uuid and the time a handler draws are identified with the request that draws them.

### TicketFlow

One *call* is one run of the chain's `CREATE_TICKET_DRAFT` step. `back`, `tool` and `svc` say where it stands at
the backend, at the ticketing MCP server and at the ticket service; `ledger`, `offset` and `id` are the service seen
as the atomic ledger that `TicketStore` is shown to implement. Each hop blocks, may be given up at any moment
(`CreateRaises`, `BackendSwallows`, `ToolGivesUp`), and goes on at the callee. Two origins: an approval, always with
`approved=True`, and a chat plan of the LLM whose arguments, the flag included, the chain passes on.
`_call_mcp` swallows every failure, so `BackendSwallows` answers 200 without an id.

### GuiSession

`modal`, `result` and `banner` are the session-state keys `ticket_modal`, `ticket_result` and `last_error`; `latest` is
the latest assistant message, `form` the text in the draft widgets, `dialog` what an open dialog displays. The
behaviour of Streamlit is taken from how `ui.py` uses it:

- an interaction while a run blocks in an HTTP call is `pending`, and stops that run at its next use of `st` or of the
  session state, so a run can stop between two writes: those of a chat turn (`ChatStopped`), those of Cancel
  (`CancelDrops`, `CancelClears`) and those of Approve (`CreateReturns` writes the panel, `AnswerDrops` drops the payload);
  `DialogStopped` comes before the first or between the two;
- a button of the dialog runs the dialog's function only, every other widget runs the script;
- what runs next depends on the click: the dialog again, with the button pressed (`StoppedByApprove`, `StoppedByCancel`), or,
  when no payload is staged any more, the guard at its head and then the whole script (`StoppedAfterDrop`);
- the dialog's own close button runs nothing, so the payload stays staged and the next full run opens the dialog again;
- whether a keyed widget keeps its text when its default changes depends on the version (`pyproject.toml` admits
  every one from 1.39): both are possible in the model.

`settled` and `cut` are history: which stagings have an outcome, and which of those a run wrote that was stopped before it
dropped them.

### Conversation

The chat handler is a coroutine: one step of the model is what it does between two awaits. `Arrive` is
`get_or_create` and the copy of the history for the prompt; `PlanValid`, `PlanInvalid` and `PlanFails` are the answers
of the LLM to at most `max_retries + 1` attempts; `ChainFails` and `Finish` end the chain, and `Finish` makes
both appends, between which nothing is awaited. The GUI (`Send`, `Told`, `GivesUp`) asks one question at a time, and
keeps the id of its latest answer (`thread`). It gives up after 30 s, or when its script is stopped, while the handler
goes on: a late request or a late handler then overlaps with the next. Conversation ids are fresh uuids, so sessions
share nothing and one session is enough. `POST /tickets/draft` records its turn under an id of its own that no
client sends again; it is left out here.

### TicketSearch

A search copies the table under the lock and ranks the copy, so it is an operator, `Search`, on the state of
`TicketStore`. What is added is `order`, the insertion order of the dict, which decides between rows that score the same.
`OrderFollows` derives it from each step of the store. Scores are counted in tenths.

### AlarmApi, AlarmReports, ToolCall and AlarmTools

The seed is in the model as it is, times in quarters of an hour. A text is the set of fragments a query may look for.
`SearchAssets`, `ListPage`, `AlarmOf`, `Recommendation` and `SimilarTickets` are the routes the five tools call,
`Summary`, `Trends`, `Candidates` and `FloodWindows` the reports. Comparing with a time without a zone raises in Python as soon
as there is a row to compare with (`TimeRaises`); a blank unit has no last word (`SearchRaises`). `Serve` is the router, and `Served` the table of what it answers to the
requests of an instance.

In `AlarmTools`, `phase` and `client` are the lifespan of the process: `AttachClient`, `EnterSessions` or `EnterFails`,
`LeaveSessions`, `Cancelled`, `CloseClient`. A call goes through `CallTool`, `Attempt` and `AttemptEnds`, which
either tries again (`TryAgain`) or settles (`Settle`, `Envelope`). `Outcomes` is what an attempt may end in: the answer of the
API, an error answer, a body that is no JSON, one transport error of each class the client tells apart. `ProbeStarts` and
`ProbeEnds` are the readiness probe, a blocking call under which no task goes on. `Report` is another client of the
API that takes the four reports of one body.

`get_alarm` puts its id into the path of the URL as it is (`tools.py:140`). `Divided` says what segments a URL makes of an id with
a delimiter or an escape, `Resolved` drops the dot segments as httpx does, and `HttpRequest` sends the path that is left: to
`GET /alarms/{id}` with the id of the path, to the list of all alarms, or `Elsewhere`, to a route that is not modelled or to none. What
stands behind a "?" is left out: only the list would read it, and no id that reaches the list has one. A "not found" names the
last segment of the path (`LastSegment`).

### Chunker, Ingestion, Retrieval and RagService

A body is a sequence of newlines and letters; a space, which `strip` drops and a cut passes over, has no counterpart, so a
blank that ends no line is not represented. A chunk is the list of the spans of its document it was made of, so
that what it covers can be told. One step of `Ingestion` is one turn of the loop (`ChunkWindow`, `SkipBlank`) or a document that
fits in a window (`ChunkShort`). The file is opened, which truncates it, and closed when all bytes are there (`OpenIndex`,
`CloseIndex`); in between it holds any prefix of the entries. `Crash` comes anywhere. `RagService` adds a backend that
starts only from a file that loads (`BackendStarts`, `BackendFails`), keeps what it loaded, and answers (`Ask`). Cosine
similarity is an operator with values in hundredths; a pattern of the injection blocklist is a mark at some place of
the text, found only if it lies within one span.

### Chain

One turn: a plan, by the mock planner from what its patterns found in the request (`PlanByMock`) or any list of steps an
LLM may write (`PlanByLLM`), then one step per iteration of the loop. A tool answers what the API answers
(`ToolSucceeds`) or fails for any reason (`ToolFails`), which is traced and otherwise ignored; a retrieval that raises ends the turn
(`RetrievalRaises`), and so does a step whose payload is of another kind (`RefuseStep`). `Finish` builds the envelope.
`outputs` is the dict `prior_outputs` with its order, because three readers scan it: `ComposeAnswer` takes the value of the greatest key
as strings (`LastKey`, `KeyOrder`), `HighestSeverity` all rows, `RecommendedActions` the first match. Create steps of a plan are in `TicketFlow`.

## 3. Runs

| Run | Instance | Size | What it shows |
|---|---|---|---|
| `ticket_store` | 3 handlers, 2 incidents, 1 seeded ticket, 1 restart, page limit 2 | 201,216 states | type invariant; audit rows and tickets match; no orphan ticket; an answer is backed; what was filed is found by search; nothing overwritten; audit pages only grow; every request ends; `TicketLedger` is implemented |
| `ticket_flow` | 2 calls, 2 incidents, 1 assignee, 1 restart | 112,488 states | one ticket per call; a success shown is true; the service follows its ledger |
| `gui_session` | 2 incidents, 2 stagings | 341,715 states | what was shown is sent; a failed turn shows its banner; a payload leaves with its outcome |
| `conversation` | 3 turns, 2 attempts, 1 restart | 11,384 states | turns stay paired; answered means recorded, failed means not; the prompt holds the dialogue; conversations grow; the session keeps its id; every turn ends |
| `alarm_tools` | the seed, 2 overlapping calls, 3 attempts, 27 argument records, 12 report bodies, 1 start | 90,417 states | the client outlives the calls; only passing failures are retried, and all the way; reports agree; every call ends; `ToolCall` is implemented |
| `rag` | 16 corpora of 1 or 2 short documents, 2 runs of the pipeline, 1 start of the backend, window 5, overlap 3, least chunk 3 | 47,424 states | no letter is lost; a whole index is served; a retrieval is sound; the pipeline ends |
| `chain` | 98 requests, 12 LLM plans, 3 indexes | 4,634 states | failed tools are told; the incident is grounded; citations are sound; the answer matches the envelope |
| `audit_paging` | as `ticket_store` | violation | finding 1 |
| `unconfirmed_ticket`, `swallowed_failure`, `fields_above` | as `ticket_flow` | violation | findings 2 to 4 |
| `chunk_tail` | as `rag`, window 7, overlap 5, least chunk 4 | violation | finding 5 |

**Bounds.** Three handlers let one allocate while another stores and a third audits, which is as deep as the
handler's races go: every property of the store relates at most two handlers. Handlers that arrive after a restart meet
a counter that starts over. The page limit 2 is below the three rows the run creates, as 200 is
below the rows of a long day. Two calls let a late end of the first overlap with all of the second. Two incidents and
two stagings let a dismissed dialog come back over another incident, and an approval follow another. Three turns are
one that was answered, one the GUI gave up on, and one that overlaps with its late end; two attempts are the code's
`max_retries=1`. One restart is enough to lose what another process built; `MaxRestarts`, `MaxCalls`, `MaxStagings` and
`MaxTurns` only cap counters.

The seed of the alarm API is the real one. Of the second call of `alarm_tools` only that it overlaps matters, so it has one
argument; the first has every kind of argument the routes tell apart: a filter given or not, an alarm known or not, a page
that cuts, a time that cannot be compared, an id no URL can hold, ids that a URL divides or resolves to another alarm, the
list, another route. Three attempts are the default of the settings.
The documents of `rag` are longer than the window by up to three characters and the tail is any pattern of blanks and letters, so
that every relation of cut, overlap and least size occurs. The ratio of overlap to window in `chunk_tail` is above a
half, the committed settings (800, 100, 80) creep in the same way, only for longer. A plan of `chain` has at most five
steps; ids up to 11 reach the place where strings and numbers are ordered differently. The LLM plans
are those the mock planner never makes: several retrievals or searches, repeated ids, a `k` of 0, no compose step, no step at all.

**Symmetry** of the incidents is used in `ticket_flow` and `gui_session`, which check safety only.

**Fairness.** `ticket_store`: weak fairness of each handler - the operating system schedules every thread that can
run, and the lock is never held while waiting. Weak fairness is enough because `ReturnId` follows
`IncrementOffset` without another lock. `conversation`: weak fairness of each handler that is inside the planner or
the chain - every HTTP call they await has a timeout, after which the event loop resumes the coroutine. Arrivals,
restarts, and anything the operator does, are not fair. `alarm_tools`: every attempt has a timeout, a backoff ends and so
does a probe, after which the event loop comes round to every ready task; but a probe may be running at each moment one looks, so
the steps of a call are strongly fair, `ProbeEnds` and `Cancelled` weakly. Starts, shutdowns and probes are not fair.
`rag`: weak fairness of the steps of the pipeline, one process that waits for nothing; not of starts and crashes. The other runs state no liveness: a blocked hop may stay blocked
for as long as its timeout allows, and nothing obliges an operator.

**Deadlock** is checked in every passing run but `alarm_tools` and `rag`, whose processes are started a bounded number of times
and may then be down for good; their liveness properties say that nothing hangs before. Elsewhere a service with nothing to do (`Quiesced`) or an operator who leaves
(`Leave`) is a stuttering step, and only enabled when no one waits; the GUI session always has a next interaction, the chain a next turn.

## 4. Findings

1. `connectors/ticket_mock/store.py:64-66` says the GUI can page through the audit log with `limit`. The endpoint
   returns the first `limit` rows (`routers/tickets.py:90`) and has no offset: newer rows are on no page.
2. `orchestrator/plan.py:108-109` says the chain sets `approved` only when the user has confirmed. The chain passes on
   what the plan holds (`chain.py:176`), and a plan of the LLM may hold it.
3. `docs/api-integration.md:242` lists a 502 `ticket_mcp_error` for a rejected create. `chain.py:276` swallows the
   error and the route answers 200 with no ticket id.
4. The approval dialog says the ticket is persisted "with the fields above" (`ui.py:779`), of which the
   assignee is one (`ui.py:747-748`). `build_draft` and `Ticket` drop it.
5. `rag/ingestion/chunker.py:3-4` says the chunks are of near-fixed length. When the cut less the overlap is no progress
   the window moves on by one character (`chunker.py:223-225`): at the end of every long document, where the window has come to the
   end of the body, and after a newline within the overlap of its start. The tail is chunked again and again, and its last
   fragments are merged into one chunk. Run over the six corpus documents, the code makes 332 chunks, one of 1,316 characters;
   `rag/ingestion/index.py:15` and `docs/rag-design.md:149` expect some 25 to 40.

Disagreements met while modelling that no run is spent on; the model does what the code does:

- `search_assets` sends a `site` (`tools.py:87-88`) to a route that has no such parameter.
- The 404 of `recommend_actions` names `operator-actions`, the last segment of the path, as the alarm.
- `get_alarm` is described as fetching one alarm by id, or telling "Alarm <id> not found." (`tools.py:121-125`). An id with a "?", a
  "#", a "/" or a dot segment changes the path (`tools.py:140`): it fetches another alarm, the list of all, or
  another route's body, or is told of another id. `ImplementsToolCall` promises what the path allows.
- `docs/api-integration.md:64` lists `httpx.ConnectTimeout` among the errors that are retried. `retry.py:67-73` does not, and
  `OnlyPassingFailuresAreRetried` counts it as final. The second layer of retries in `MCPClient` (`docs/api-integration.md:68-70`)
  does not exist either.
- An unreachable MCP server or a broken RAG service is said to end the turn in a `ChainError` (`chain.py:12-14`,
  `errors.py:29-31`), with 502 `mcp_error` or `rag_error` (`docs/api-integration.md:239-240`). `_call_mcp` turns every exception of a
  call into a trace step (`chain.py:276`), and what a retrieval raises is caught nowhere: a 200, or a plain 500.
  `FailedToolsAreTold` says what the code does.
- Retrieval is said to always carry a confidence band "rather than raising" (`service.py:200-203`). With `k <= 0` and any chunk left
  to cite it takes the first of no citations (`service.py:255`): an IndexError. `RetrievalIsSound` admits it, and asks for the band of
  the best score everywhere else.
- `trace_size` is said to be the number of MCP and RAG steps (`answer.py:45`, `61-62`). The chain passes the number of MCP
  steps plus one (`chain.py:236`), which is that number with exactly one retrieval. `AnswerMatchesTheEnvelope` asks for it then only.
- A run of the dialog that a click stops after `ui.py:816/820` and before 826 has written the panel and leaves the payload
  staged: its dialog comes back over an answered payload, and a second Approve files a second ticket. `PayloadLeavesWithItsOutcome` admits this
  window and no other way for an answered payload to stay.
- `httpx.InvalidURL` and a body that is no JSON are not httpx errors, so their text reaches the caller untranslated.
- The backoff's jitter is documented as +-10 %; tenacity adds 0 to 0.1 s.
- Trends are documented as one row per day and severity; the code gives one per alarm. `rolling_window`, `lag`,
  `min_support` and `bucket` are not looked at.
- A `since` without a zone makes the alarm API answer 500, which the client then retries.
- Ticket search documents the status as soft and ties broken by id; the status is a hard filter and ties keep insertion order.
- The backend embeds queries with the deterministic model whichever model built the index (`wiring.py:157`).
- The findings are said to be those of the last output (`answer.py:42`). They are those of the greatest id as a string (`answer.py:72`):
  from ten steps on, or with ids an LLM chose, not those of the last step.
- The summary of the incident is composed anew, from outputs that hold the answer, and with another trace size.
- `MockPlanner` passes phrases such as "BFP-101" on as an `asset_id`; no seeded id matches, so no alarm is listed and the severity is low.
- "The last 9999 years" overflows in the planner: a plain 500.

## 5. Proofs

TLAPS checks that every safety invariant, every action property and both refinements of the passing runs hold for
every value of the constants that the assumptions admit: any number of requests, calls, turns, attempts, restarts, runs of
the pipeline; any set of incidents; any corpus, window, overlap and least chunk; any plan of the kinds of step the schema has, in any number and order.

| Module | Theorem | States |
|---|---|---|
| `TicketStoreProofs` | `Inductive` | `Spec => []IInv` |
| | `TypeCorrect` | `Spec => []TypeOK` |
| | `AuditIsSound`, `NoOrphans`, `AnswersAreBacked` | `Spec => []AuditIntegrity`, `[]NoOrphanTicket`, `[]AnswerIsBacked` |
| | `TicketsAreNeverOverwritten`, `AuditPagesOnlyGrow` | `Spec => NeverOverwritten`, `AuditPagesGrow` |
| | `Refinement` | `Spec => ImplementsLedger` |
| | `OrderIsTheTable`, `FiledTicketsAreFound` | `SearchSpec => []OrderInv`, `[]FiledIsFound` |
| `TicketFlowProofs` | `Inductive`, `TypeCorrect` | `Spec => []IInv`, `[]TypeOK` |
| | `AtMostOnce`, `PanelTellsTheTruth` | `Spec => []OneTicketPerCall`, `[]SuccessIsTrue` |
| | `PathFollowsLedger` | `Spec => ServiceFollowsLedger` |
| `GuiSessionProofs` | `Inductive`, `TypeCorrect` | `Spec => []IInv`, `[]TypeOK` |
| | `OperatorApprovesWhatIsSent`, `FailureIsVisible`, `PayloadsLeaveSettled` | `Spec => []WhatWasShownIsSent`, `[]FailedTurnShowsBanner`, `[]PayloadLeavesWithItsOutcome` |
| `ConversationProofs` | `Inductive`, `TypeCorrect` | `Spec => []IInv`, `[]TypeOK` |
| | `ConversationsAreDialogues`, `RecordsMatchAnswers`, `PlannerKnowsTheDialogue` | `Spec => []TurnsArePaired`, `[]AnsweredIsRecorded`, `[]PromptHoldsDialogue` |
| | `HistoryIsKept`, `ThreadIsKept` | `Spec => ConversationGrows`, `SessionKeepsThread` |
| `AlarmToolsProofs` | `Inductive`, `TypeCorrect` | `Spec => []IInv`, `[]TypeOK` |
| | `ClientIsClosedLast`, `RetriesAreSound`, `ReportsAlwaysAgree` | `Spec => []ClientOutlivesCalls`, `[]OnlyPassingFailuresAreRetried`, `[]ReportsAgree` |
| | `ImplementsOneCall` | `Spec => ImplementsToolCall` |
| `RowsProofs` | `KeptAtPositions`, `SortedPositions`, `BestAreChosen`, `PageIsBest` | what the filter, the stable sort, two filters with sort and slice, and a page of a sorted list return |
| `RagServiceProofs` | `Inductive`, `TypeCorrect` | `Spec => []IInv`, `[]TypeOK` |
| | `NoLetterIsLost`, `IndexIsWhole` | `Spec => []NothingLost`, `[]ServesAWholeIndex` |
| | `ResultsAreSound` | `ScoresAreNumbers` implies `Spec => []RetrievalIsSound` |
| `ChainProofs` | `Inductive`, `TypeCorrect` | `Spec => []IInv`, `[]TypeOK` |
| | `EveryToolIsTold`, `EveryIncidentIsGrounded` | `Spec => []FailedToolsAreTold`, `[]IncidentIsGrounded` |
| | `EveryCitationIsSound`, `AnswerIsTheEnvelopes` | `Spec => []CitationsAreSound`, `[]AnswerMatchesTheEnvelope` |

**Assumptions.** Each module names its own, and TLC evaluates all of them on the instance it checks. Most only say that
`None` is not one of the values it stands beside, that caps are natural numbers, and that inputs have the fields the
code reads. Those with content:

- `StoreAssumption`: seeded ids are not above the first offset (`store.py` starts the counter behind its seed);
  `SearchAssumption`: the seed order lists the seeded ids once each.
- `ToolsAssumption`: a page limit is at least 1, as the fields of `tools.py` demand; at least one attempt is made.
- `ReportsAssumption`: every alarm of the seed has an asset.
- `ChunkerAssumption`: the overlap is less than the window, which `chunker.py` checks; `IngestionAssumption`: the ids of
  documents are numbers and their headers lie in their bodies.
- `ChainAssumption`: ids of steps are `s1` to `s99`, a bound of the model (`plan.py` takes any text, of which the chain uses
  equality and the order of strings), `k` is an integer, and no chunk is twice in an index (which `ServiceInv`
  proves of every index a backend loads).

One theorem has a hypothesis of its own: `ResultsAreSound` needs that the similarity of a query and any chunk is a number
(`ScoresAreNumbers`). It is not an `ASSUME` because the set of chunks is infinite and TLC could not evaluate it. Cosine
similarity gives a float, and the model counts it in hundredths.

Few of the invariants the runs check are inductive alone. What was added, and why:

**TicketStore.** That `Create` never lands on an existing ticket needs that the ids of different handlers differ
(`IdsDistinct`), which needs that no id is above the counter and that it is above all of them while a handler is inside
`next_id` (`IdRange`), which needs that only one handler is there at a time (`LockInv`). `TableInv` ties each ticket to
the one handler that made it, and `AuditInv` each row, from which `AuditIntegrity`, `NoOrphanTicket` and
`AnswerIsBacked` follow without another induction. `GateInv` says only approved requests get past the 403; the
refinement needs it to map `AppendAudit` to `Record`. The refinement maps an audit row to a ledger row and reads the
row's incident from the ticket table, so it holds only because tickets are never overwritten. `OrderInv`, inductive with
`IInv`, says that the order of the dict lists the table; `FiledIsFound` then is a fact about filter and sort.

**TicketFlow.** That a success on the panel is true is a statement about five places a call may be at. `HopInv` relates
neighbouring hops, `LedgerInv` the service with the ledger, `ReplyInv` every id under way with the service. `StartInv`
says which calls exist, so that a fresh one has filed nothing. `LedgerInv` makes a row a function of its call, so no call has two.

**GuiSession.** That what was shown is sent holds at the step that sends, because `DialogInv` says that an open dialog
displays the staged payload and `ClickInv` that a click on Approve keeps it open until it is served. `FormInv` excepts
the chat turn, which a stopped run may leave with the new answer and the old form. `StagingInv` says that what is staged is the
latest staging, and that its outcome is written while its run stands between the two writes of Approve; with it, an approved
payload that is gone was settled, and a settled one that is not is being dropped or its run was stopped there.

**Conversation.** A handler that runs beside others appends to the conversation it named when it arrived (`NamedInv`),
and each stored turn is that of exactly one handler which ended (`RecordInv`). The GUI's side is `ThreadInv` and
`ScreenInv`: what was on screen when a question was typed is told and in the conversation the question names. Only with
both sides does the prompt of a late handler hold the dialogue.

**AlarmTools.** `LifespanInv` puts the client around the sessions and the sessions around the calls. `CallInv` and
`RetryInv` say what a running call has seen. `ReportInv` reduces `ReportsAgree` to a fact about one body: the listing
behind every report is the same set of alarms in some order, and its counts, as many counted things as there are alarms in each
group, add up to it by a bijection (`CountsSumUp`, which needs no induction over a fold). The refinement maps a call to
one atomic step when it settles; what that step may tell is proved route by route (`ListingIsRight`, `SearchIsRight`,
`SimilarAreRight`, `ServedByRoute`, `ElsewhereIsRight`), for `get_alarm` by the path its id comes to (`LastOfPath`), with filters, sort and page from `RowsProofs`.

**Ingestion and RagService.** `CoverInv` is the invariant of the loop of `chunk_document`: all letters before the window
are in a chunk. Its step is arithmetic of `Cut`, `Stripped` and `Advance`: a window never moves past the end of what it
just chunked, and skips only blanks; a fragment that is too small goes to the chunk before it. `NumberInv` says that ids
of chunks are unique, so that a retrieval is ranked over distinct entries. `FileInv` and `ServiceInv` carry both through
the file, which may be truncated at any byte, and into the backend; `ResultInv` makes a result that of the index held.

**Chain.** `TraceInv`, `OutputInv`, `SimilarInv` and `CiteInv` say of the steps that were run what each left in the four
locals the loop threads along; `ComposeInv` keeps what the text of a COMPOSE step was made from, until the next step.
`ReplyInv` says what a turn came to. `CitedBy` counts citations as a set of pairs, so that no sum over a prefix is needed.
`IncidentIsGrounded` reads the outputs through three scans, of which `FirstRecommended` and the lemmas on listings say what they find.

**RowsProofs** is what all searches share. The filter and the sort of `Rows` are defined by counting who comes
before each row, and shown, for every sequence, to return the rows that pass, each once and in order (`KeptAtPositions`), and
every row once, best first, equal ones in their old order (`SortedPositions`).

Only model-checked: `EveryRequestEnds`, `EveryTurnEnds`, `EveryCallEnds` and `IngestionEnds`, since liveness under
fairness needs ENABLED, which is out of the prover's reach; and the five violation runs, which are counterexamples.

## 6. Not modelled, and why

- Rendering, wording, logging (with the log context of the registry), authentication headers: they change no state the
  properties speak of. `theme.py` is nothing else.
- Text patterns: what `MockPlanner` finds in a request and what the injection blocklist finds in a chunk are given, in every
  combination, not computed. Embeddings are numbers of an operator.
- How long a backoff lasts: time is not counted.
- The calculations and KPI definitions of the alarm API, which no part of the system calls, and the correlation, which is
  empty for the seed.
- The lifespan and the probe of the ticketing MCP server, which are those of the alarm server over again.
- `core` (types, settings), `scripts`, `postman`, `docs`.

## 7. Plan

In place: all modules of section 2, their runs, and the theorems of section 5. What may follow:

1. `ScoresAreNumbers` as a fact about the chunks of the loaded corpora only, so that TLC can evaluate it.
2. The ranking of the alarm API's asset search and of the past tickets stated once, with the ticket service's own.
3. The GUI hazards without a property (a failed preview, a panel that stays on screen): they need the panel's incident in `GuiSession`.
4. Spaces beside newlines in `Chunker`, and the query behind a "?" in the id of `get_alarm`.
