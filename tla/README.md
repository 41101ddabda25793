# morign in TLA+

morign is a chat backend in Go: web clients and messaging platforms (WeCom,
Feishu) send questions, an agent loop answers them with a language model and
tools, and PostgreSQL and Redis keep turns, conversations, memories, skills, a
catalogue of APIs and a knowledge base. This directory holds TLA+ models of its
stateful parts, TLC instances that check them, and TLAPS proofs of every safety
property the instances check.

`tlc -config X.cfg M` checks a run of `PROJECT.json`; `tlapm X.tla` checks the
proofs of `ChatTurnProofs`, `AgentLoopProofs`, `ImportTaskProofs`,
`RegistryProofs`, `WecomWSProofs`, `InboundProofs`, `StoresProofs` and
`ConversationProofs`. `PROJECT.json` maps every definition to the lines it models and
lists the hazards the properties are for.

## 1. Inventory

| Part | State | Operations | What is hard | What makes it correct | Module |
|---|---|---|---|---|---|
| **Chat turns** (`handle_turn.go`, `convo_x.go`) | table `convo_chat_turn`: status, answer, digest, owner by idempotency key | claim (insert, read, rerun), finish, reclaim at start | duplicate deliveries between database calls, crashes, clients that leave, failing calls, another process running InitDB | one execution at a time, genuine replays, no abandoned turn, settled turns final | `ChatTurn`, abstract `TurnClaim` |
| **Import queue** (`import_worker.go`, `corpus_x.go`) | `corpus_import`, documents, vectors, the worker's counters | upload, recover, claim, process a line, write back | crashes in the middle of a file, failing calls, two processes at once, concurrent `kb_create` | counters balance, nothing lost, order, every upload finishes | `ImportTask` |
| **Agent loop, tool executor** (`agent/`) | message list, round, results of a batch, sequence counter | model call, concurrent tool calls, collection, events to the caller | concurrent completion, panics, consumers that stop, the round limit | every tool call has one answer, in order; bounded rounds | `AgentLoop` |
| **LLM clients** (`llm/`) | stream position, gathered tool calls, stop reason, usage | conversion of messages, one push per event | streams cut off, consumers that stop | pairing of calls and results, whole answers, one end, nothing after it | `LLMStream`, abstract `EventStream` |
| **Conversation history** (`conversation.go`, `runner.go`) | Redis list and session key, raw rows | append with replace and trim, mapping, reset | separate Redis calls, two turns of a conversation, expiry | paired rows, a reset forgets, only the same question replaced | `History` |
| **Tool registry, policy** (`tools/`) | tools, invokers, MCP servers, channel sets, four locks | add, remove, activate, deactivate, list, invoke | checks before and registration after network calls, locks held over calls | unique names, no closed client served, visible = callable, no deadlock | `Registry` |
| **WeCom websocket** (`wecom/websocket.go`) | connection, missed pongs, pending acknowledgements | connect, heartbeat, read, send and wait, stream, stop | reconnects racing with sends, timeouts racing with answers | nobody waits for ever, nobody is forgotten, only silence closes | `WecomWS` |
| **Channels, platform handler** (`channels/`, `handle_platform.go`) | dedup keys, deliveries | check, dedup, download, command, claim, stream, reply, record | redelivery, dedup that fails open, replies that fail | one answer, one record, no message lost to the dedup, streams end | `Inbound` |
| **Tool records** (`tool_executor.go`, `convo_record_x.go`) | `convo_tool_record` | preview, spill, upsert, page, access check | two writers of a row, digits in a notice, page boundaries | a preview fits, the pages are the whole, only the owner reads | `Records` |
| **Documents** (`corpus_x.go`, `main.go`) | documents and vectors | create, import, change, delete, embed, search | read-then-write, failing embeddings | an import has done what it passed, documents are found by their title | `Corpus` |
| **Memory** (`convo_x.go`) | `convo_memory` and vectors | store, recall, reinforce, change, forget, embed | vectors apart from rows, keys that match alike | only own memories seen and deleted, vectors missing only for a cause | `Memory` |
| **Skills** (`skills_x.go`) | rows, files | create, import, change, delete, list, read | names change hands between two steps | only the owner changes, what is seen was visible, columns mirror the text | `Skills` |
| **Capabilities** (`capability_x.go`) | rows, vectors, marks, cache | import, mark, clean up, embed, search | several rows of an operation, vectors apart from rows | only marked or tagged rows go, vectors follow rows | `Capability` |
| **Auth, OAuth, users; generated CRUD; prompts; settings, server** | | | | | not modelled, section 7 |

The parts meet in one request. A channel adapter (`Inbound`) hands a message to
the handler, which claims a turn (`ChatTurn`), runs the agent loop (`AgentLoop`)
over the LLM client (`LLMStream`) and the tool registry (`Registry`), hands tool
results to the runner (`Records`) and the answer to the history (`History`), and
finishes the turn; WeCom answers leave through `WecomWS`. Tools read and write
`Corpus`, `Memory`, `Skills`, `Capability`. The import queue (`ImportTask`)
shares the knowledge base with `kb_create`.

## 2. Plan

Built so far, in this order: `ChatTurn`, `TurnClaim`, `ImportTask`, `AgentLoop`;
then `LLMStream` with `EventStream`, `History`, `Registry`, `WecomWS`, `Inbound`;
then the stores `Memory`, `Capability`, `Skills`, `Corpus`, `Records`, composed
in `Stores`; then proofs of the first three, of `Registry`, `WecomWS`, `Inbound`
and of the stores; last those of `History` and `LLMStream`. For these, what the
two modules had cut and filtered by recursive operators became sets counted by
their cardinality, and the conversions of messages and of whole answers one step
per element.

No safety property of a run is left without a theorem. What remains outside the
proofs is liveness (section 6), and outside the models what section 7 lists.

## 3. The modules and the code

A module `X` has its state and steps, `XProps` its properties, `XProofs` the
theorems; `MCX` has what an instance for TLC needs besides its `.cfg`, and where
that is nothing the run checks `XProps`. Every module states its type invariant,
and it is a theorem.

**`ChatTurn`.** `turn` is the table `convo_chat_turn` by idempotency key; `req`
the request a delivery carries; `pc` the place of its goroutine between two
database calls of `acquireTurn`; `toolRan` the `turnToolTracker`; `cancelled`
the request's context. `Insert` is `CreateTurn` (a plain INSERT, arbitrated by
the unique index), `SetRunning` and `Rerun` the updates after it, `ReadExisting`
the read and the whole `switch` on the existing row, `FinishTurn` the mapping of
an outcome to a final status. Each of the four calls has a failing twin in which
the write may have reached the database all the same. `BreakStream`,
`StreamCutOff` and `StartStreamFails` are the ways the streaming handlers leave
the agent loop early. `Crash`, `Restart`, `RestartWithoutReclaim` and
`ForeignInitDB` are the life of the process and of command-line processes over
the same database. **`TurnClaim`** is what an idempotency key promises, without
rows and calls: a key is free, held by one, answered or sealed;
`ChatTurnProps!Claims` maps rows and goroutines onto it.

**`ImportTask`.** `status`, `file`, `stored` are the columns of `corpus_import`;
`docs` and `vecs` the titles with a document and with a vector; `place`, `line`,
`count`, `verdict` the locals of a worker. `Upload`, `Recover`, `Claim`,
`LookUp`, `Create`, `Vector`, `WriteBack` are one database or embedding call
each. `StartBeside` starts a process while another one runs; its recovery takes
the other's task away from it.

**`AgentLoop`.** `pc` and `round` are the control of `Run` and `RunNonStreaming`;
`msgs` the messages the loop has added; `calls`, `base`, `stage`, `result` the
batch of `ExecuteToolCalls`, one goroutine per slot; `nextSeq` the
`ToolSeqCounter`; `records` the rows of the turn. A goroutine takes three steps:
`Check` (type, arguments, hook), `Invoke` (the tool's effect), `Settle` (spill
and return). A panic is one of the failures of `Invoke`; `runtime.Goexit` is the
outcome that leaves no result. `Collect` is what follows `wg.Wait`, `Deliver` one
result event at the caller with its upsert, `Continue` the end of a round.

**`LLMStream`.** One call of a client: `ToAnthropicMessages` is one round of the
loop that converts the messages (`at` counts them), `Prepare` its end,
`SendFails` and `Respond` the request. A streamed answer is then parsed line by
line, with `calls`, `stopReason` and `usage` the parser's state and `Yield` the
consumer's `yield`, which may return false; calling it once more is the panic of
a range function that has ended. `ChatPart` and `Chat` gather a whole answer. The
messages a call starts from are those the agent loop keeps, results right after
their calls (`ConversationsAssumption`; `MessagesArePaired` is the theorem about
the loop), with the ids of one message distinct, which is the provider's part.
**`EventStream`** is what such a range promises: events, one end, nothing after
the consumer has left.

**`History`.** `hist` is the Redis list of a conversation, the mapping of a
session key another key, `rows` the raw messages. `ReadLast`, `Pop`, `Push`,
`Expire`, `Trim` are the commands of `AddHistory`, `Bind` the lookup and the
SET of the mapping, `Reset` the deletion of it; `Ask` what `RecentlyWithTokens`
gives the prompt, kept in `context` as the set of those exchanges.

**`Registry`.** An operation (`op[o]`) goes through `AddServer` or
`RemoveServer` step by step: names checked under the read lock, the server
contacted without a lock, the tools registered under `toolsMu` and `serversMu`.
A caller asks for its tools (`ToolsFor`), has one decided on (`Allows`) and runs
it with the lock the code holds then.

**`WecomWS`.** `loop` is the goroutine of the connection, `hearts` the heartbeats
of all connections so far, `sender` the callers of `Send` and of streamed
replies, `pending` and `box` the table of waiting callers and their channels,
`wire` the frames the server has yet to answer.

**`Inbound`.** `delivery[d]` is one delivery of a message on its way through
`Screen` (checks and dedup of the four adapters), `Fetch` (media), `Command`
(reset), `Session`, `Claim`, the stream or the reply, and `Record`. `turn` is the
row of the message, `shown` what its sender sees.

**The stores.** Each of `Corpus`, `Memory`, `Skills`, `Capability`, `Records`
has its tables as functions from ids to rows and, per actor, a request with its
place between two statements. **`Stores`** composes them: they share the
database but no row, no step of one reads or writes what another keeps, so a
behaviour keeps to one of them (`store`) and one run checks all five.
**`StoresProps`** states what they promise together (only one's own is shown and
changed, what is derived from a row follows the row) as conjunctions of what each
of them promises.

## 4. Runs

| Run | Instance | Shows |
|---|---|---|
| `turn_spaced` | 3 deliveries, a web and a channel key, 6 kinds of request, 1 failing call, 1 crash, 1 foreign InitDB; deliveries of a key do not overlap while claiming | replays genuine; effects repeat only after a recorded failure; an unfinished row nobody executes has one of two causes; the handlers implement `TurnClaim`: one executor also across reruns, settled turns final |
| `turn_live` | 3 channel messages, with and without a key, 1 crash | complete answers, every turn settles |
| `import_worker` | 2 workers, 2 uploads (shared and repeated titles, invalid and broken lines), 1 fault, 1 crash, 1 `kb_create`, 1 start beside a running worker | counters balance, no line lost, successes searchable, also when a task is processed twice; until a call fails every upload finishes |
| `agent_loop` | 2 rounds of up to 2 calls, 1 failing record call | pairing, records and handles, no late tool; the loop ends even when goroutines do without a result |
| `llm_stream` | both providers, 32 conversations of two rounds, 7 lines, 2 calls | results paired with calls in the request; answers and calls whole; a cut stream runs no tool; `EventStream` implemented unless the consumer stops at `message_start` |
| `history` | 3 turns of web and channel, 2 at a time, list limit 1, 1 fault, 1 reset, 1 expiry | paired rows, a reset forgets, only the same question gives way |
| `registry` | 2 requests (activate, deactivate, channel attach and detach), 1 server, 1 channel, 1 caller | unique names, closed clients not served (`ListsAreSound`); visible = callable and allowed (`OnePolicy`); no deadlock |
| `wecom_ws` | 2 connections, 1 sender of 2 pieces or chunks, 2 missed pongs | callers are told of lost connections, the table is exact, only silence closes and it does, calls return, Stop ends the loop (`EverythingEnds`) |
| `inbound` | 1 message of 9 kinds, 3 deliveries, 4 adapters, 2 deltas, 1 crash, failing downloads, sends, resets and turn writes | one answer and one record (`HandledOnce`), a second chance after a failure, streams end |
| `stores` | 2 overlapping actors, alike keys and names, a user and a keeper, 1 fault; see below | `ImportedIsThere`, `DerivedFollows`, `OnlyOwnShown`, `OnlyOwnChanged`, `ShownAreCandidates`, `OnlyMissedOrTaggedGo`, `PreviewFits`, `PagesAreTheWhole` |

Two runs expect a violation (section 5): `turn_rerun_race`, `stream_after_stop`.

A mutant of the code, listed in `PROJECT.json`, violates each of these properties,
and one each of the parts of a property that is a conjunction.

Bounds. Three deliveries are enough for a first run, a rerun and a bystander that
replays; a claim concerns two deliveries at a time. One fault, crash and foreign
InitDB each already meet every pair of database calls. An import file has an
invalid line, a broken one and a title of its own twice; one start beside a
running worker puts any of its steps between any two of the other's. Two rounds
show whatever one batch leaves for the next, two calls every order of a pair of
goroutines; the theorems of section 6 cover the other sizes. A list limit of one
makes every second exchange a trim. Two requests of the registry and a caller
meet at every lock. Two connections are a reconnect; a third repeats the second.

Stores: four requests on three documents with one fault (`Corpus`); three
requests, reads included, on two keys that match alike (`Memory`); four requests
on one name, of two owners (`Skills`); two commands on an empty or once-imported
catalogue of three operations (`Capability`); two calls with the numbers of the
code, results of 8001 characters and limits that leave room for no notice, for
the shortest, for a longer one and for whole pages (`Records`). Limits on results
are one or two, so they bite.

Symmetry is used over deliveries, turns and actors, whose names appear in no
definition, and never in a run with a liveness property.

`CHECK_DEADLOCK` is off everywhere: requests are finite in number, and a system
with nothing left to do stops.

Fairness. `turn_live`: a goroutine at a database call or in the agent loop goes
on (the Go scheduler and the limit on rounds, for a provider that answers) and
the process is started again. `import_worker`: a worker, whose loop polls, takes
its next step and is started again; nothing makes it start beside another one.
`agent_loop`: the model answers or fails and tools return; `wg.Wait` has no
timeout of its own, so a tool that never returns does stop a turn. `registry`:
goroutines go on and whoever waits for a free lock gets it, which is what
`sync.RWMutex` gives. `wecom_ws`: the loop, the heartbeats and the callers go on
and timers fire; the server and the network owe nothing.

## 5. Disagreements between code and text

Two are shown by runs:

| Run | Claim | What the code does |
|---|---|---|
| `turn_rerun_race` | only one of the repeated requests of a key executes (convo_x.go:688) | two redeliveries of a failed turn both read it and both set it running |
| `stream_after_stop` | the stream ends when the consumer leaves the range loop | after a stop at `message_start` the Anthropic parser (anthropic.go:463) pushes the next event, which panics |

The others were met while modelling; the models take these steps, and the
properties are stated around them:

- A failing `StartStream` leaves the turn running (handle_platform.go:261), a web
  client that leaves between the insert and the update leaves it queued
  (handle_turn.go:52): the two causes of `UnfinishedHasCause`.
- A failed SSE write ends the loop without an error; the cut answer is recorded
  as succeeded and replayed (handle_convo.go:327). `SucceededIsComplete` is
  checked for answers that are not streamed.
- With ids `toolu_<index>` (anthropic.go:356) a call of a later round updates the
  record of an earlier one (convo_record_x.go:87). `FallbackIds` turns it on; no
  run does.
- The results of `tool_result_read` are recorded (event_adapter.go:34), though
  plan 004 (line 240) says that reads make no record.
- A question asked again stands twice, and a usage event leaves an empty item in
  the history (conversation.go:151-154, handle_convo.go:309).
- `tool_result_read` returns the total length and the offset only in its result
  map, which `toolResultText` drops (plan 004:366 says that it reports them). A
  user who is not known reads rows without an owner of the same session, against
  the comment of `ReadToolRecord`. That pages are never cut
  (convo_record_x.go:21) holds for `TOOL_RESULT_MAX_CHARS` of 8000 and more; the
  notice of a spilled result comes on top of the limit.
- capability_x.go:449 speaks of a unique constraint that does not exist: two
  imports at once make two rows of an operation, of which one is updated from
  then on. The mark of a missed operation is not taken back when a document lists
  it again. A negative limit of a search is not refused.
- A skill's columns can be set by a request without a text, although the schema
  says that they always mirror it; such requests are left out of `SkillPut`.
- The export ends after 90 documents (main.go:154); the embedding command takes
  the first 90, not those without a vector (docs/WORKFLOWS.md:261-263); an import
  run again after a failed embedding updates but never embeds
  (docs/WORKFLOWS.md:248-259).

Behaviour nothing in the repository speaks of, which the models take as it is and
a reader of the code may want to know of:

- Two requests for one server whose tools differ in between both register; nothing
  can close the first one's connection any more (registry.go:410). Activating a
  connected server leaves its row `connecting` (handle_mcps_x.go:65), and a server
  that was never connected cannot be deactivated (handle_mcps_x.go:107).
- A WeCom server that falls silent before it answers the subscription is never
  given up (websocket.go:225). An acknowledgement without a `cmd` counts as a
  heartbeat's answer (websocket.go:277), and its caller reports success after the
  timeout.
- Commands come before the claim, so a redelivered reset resets again
  (handle_platform.go:159).
- Two first messages of a chat make two conversations (conversation.go:46).
- A memory that was changed is found by its old text until an embedding command
  (convo_x.go:530), and the limit of a recall cuts off before the rows of others
  are left out (convo_x.go:297).
- A stream that ends by the token limit in the middle of a call hands the call on
  (openai.go:352).

## 6. Proofs

All theorems hold for every value of the constants that meets the named
assumptions of the modules. An assumption gives types (finite sets, naturals, what
a request or a file consists of) and says that a mark a record uses for "none" is
no name: a document has a title, a memory and a skill an owner, a server a name,
which the code requires. Where a theorem needs more, its statement assumes it.

`ChatTurnProofs`, for deliveries that overlap freely:

- `TypeCorrect`. `TypeOK` is inductive together with `ClaimsAreKeyed` (only a
  delivery with a key is in the middle of a claim): without it a claim could
  write a row for `NoKey`.
- `FirstRunIsExclusive`. Inductive with `RowsExist`: whoever holds a key has a
  row, so an insert succeeds only for a key nobody holds. Lemma `Moves` lists the
  few ways a step can change phases and rows; the step is proved over it and not
  over the actions.
- `ReplaysAreGenuine`. `ReplayInv` says that a delivery that passed the checks
  matches its row (`ClaimantsMatch`), that an answer in a row comes from a
  delivery that matched it (`AnswersMatch`), and that a replayed answer matches
  its receiver (`ReplaysMatch`). `AdmissionStays`: the digest and owner of a row
  never change, so what was checked stays true across reruns and reclaims.

- `UnfinishedIsExplained`. Its step needs only the types: each way out of the
  handlers is checked against the causes it may leave.
- `SucceededIsWhole`, under `NoKeyedStream` (no request with a key is answered by
  a stream): a stream the consumer leaves ends without an error, and
  `turn_live` has the same restriction.

For deliveries that do not overlap while they claim a key (`Spaced`; what happens
otherwise is `turn_rerun_race`, section 5):

- `SpacedIsExclusive`. `SpacedInv`: one claimant, who therefore finds what it has
  read (`RerunRows`), and one holder, whose row says so (`HeldRows`). Only a row
  recorded failed or cancelled is rerun, and a holder's row is neither.
- `EffectsRepeatOnlyThen`, from `EffectsKept`: where tools ran, the execution still
  runs, or nobody holds the key and its row cannot be rerun, or a run of it was
  recorded failed.
- `ClaimIsImplemented`, the refinement of `TurnClaim`: `Claims` is mapped step by
  step, a step of the handlers to a step of the claim or to none.

`AgentLoopProofs`, for any number of rounds, batch size and number of failing
calls:

- `LoopTypeCorrect`, with `Filled` (after a batch every call has a result).
- `NoToolIsLate`, from `Quiet`: outside the batch all slots have returned or
  were never started.
- `EffectsAreTracked`, from `Tracking`: a goroutine past the hook has set the flag.
- `ResultsInOrder`, from `Numbering`: the numbers of a batch start at the count of
  the results delivered before it.
- `MessagesArePaired`, from `AlwaysPaired`, which holds at every moment because
  `Collect` adds a batch in one piece (`CollectedPlaces` says what stands where).
- `HandlesStayReadable`, from `HandlesKept` and `RowsStay`: no step removes a row,
  its call id or its full text.
- `TerminationHidesNoFailure`, from `Ending`.
- `InvokedIsRecorded`, from `Recording`: an invoked call is still in its batch,
  among the results to deliver, or recorded.

`ImportTaskProofs`, for any number of workers, uploads, lines, faults and
overlapping starts:

- `TypeCorrect`, with `AtWork`: a worker stands in the file of its task, inside it
  while it creates a document.
- `CountersAlwaysBalance`, from `Counting`: at line n a worker has counted n - 1
  lines, each in one class; what another worker counted before is replaced and not
  added to.
- `EmbeddedByOne`: a document without a vector is waited for by the tool or by the
  one worker that inserted it.
- `NoLineIsLost` and `SuccessesAreSearchable`, from `LostCounted` and
  `SuccessCounted`, which bound the cardinality of the lines without a document by
  the failures, and the successes by the titles with a vector, line by line; the
  second needs `OneEmbedder`, or a repeated title would be counted twice.

`RegistryProofs`, for any number of requests, servers, tools, channels and
callers: `TypeCorrect`, `ListsStaySound`, `PolicyIsOne`, from `RegistryInv`. It says
which steps of a request hold which lock (`LocksInv`), that invokers, categories
and listed tools have the same names and that a server knows every tool of its
client (`ToolsInv`, `ServersInv`), which set a channel's request made and may
still join (`SetsInv`, `MakersInv`), that a client stays open until its tools are
out (`OpenInv`), and what a call was decided on (`CallsInv`).

`WecomWSProofs`, for any number of callers, connections, pieces and any limit of
missed answers: `TypeCorrect`, `TableStaysExact` and `LostIsAlwaysTold`, and the
action property `GivenUpForSilence`. In `WecomInv`, `TableInv` says that a caller
that asks is in the table or has its answer and not both, `ToldInv` that nobody is
in it for a connection that is gone, and `HeartInv` that no missed answer counts
for the live connection that was not missed on it, although all heartbeats share
one counter.

`InboundProofs`, for any number of messages, deliveries, pieces and restarts:
`TypeCorrect`, `MessagesAreHandledOnce`, `NobodyLosesTheMessage`,
`StreamsAreFinished`, from `InboundInv`. It follows a turn from the delivery that
claims it to the answer: while a delivery runs, the turn is its own (`TurnsInv`);
whatever was shown or recorded is of the delivery that has the turn for good
(`AnswersInv`), so no other one can add to it.

`StoresProofs`, for any number of overlapping requests, rows, users and faults.
Each store has an invariant of its own:

- `SkillInv`: between finding a row and changing it, the row is the login's as long
  as it is there, because no request changes an owner. From it `OwnSkillsChanged`,
  `SeenWasVisible`, `ColumnsMirrorText`.
- `MemInv`: the same for memories, and what a running embedding command has been
  through and has yet to come to are different rows (`Apart`), so what it has
  embedded stays found (`SyncedIsFound`).
- `CapInv`: a row that one task alone has had in hand since it read it is there and
  as the task knows it; two tasks with a row in hand make it contested
  (`Exclusive`), and every row that is not contested or outdated has exactly its
  vector (`Follows`).
- `DocInv`: what an import knows of its next step (the document it will overwrite
  still has the key of the line, or both keys are excepted), that the last of the
  passed lines of a key is in the knowledge base (`Stands`), and that a document
  has its vector or somebody who is about to add it (`Findable`). `DocKeep` is
  what a step may do to the documents others look at; each action is shown to
  keep it, and to leave its own request with what it should hold.

`StoresAreTheirs` reduces a behaviour of all stores to one of each, and from it
follow the properties the run `stores` checks: `OwnIsShown`,
`OwnersChangeTheirs`, `DerivedStaysDerived`, `StoresKeepTheirPromises`.

Also in `StoresProofs`, for any settings, lengths, page sizes and number of calls
of the tool records:

- `PreviewsFit`, the arithmetic of `truncateToolResult`: the numbers in a notice
  are never longer than those it was measured with (`DigitsGrow`, `NoticeGrows`),
  so what is left for the text and the notice make up the limit at most.
- `RecordsTypeCorrect`, `PreviewsStayFit`, `PagesMakeTheWhole`, `ReadsStayOwn`,
  all from `RecIInv`. Its core is `RowsInv` and `CallsInv`: a row belongs to one
  call and a call has at most one row, so there is room for every row
  (`RoomForOne`, by the pigeonhole principle) and none is ever overwritten; with
  it `HandleInv` (a handle leads to a row as long as the result, of which the
  model has the beginning) is kept by every step. `OneReader` reduces a step to
  its own reader; `PagesProceed` says that a page which is not the end is not
  empty.

`ConversationProofs`, for any number of turns, list limit, failing commands,
resets and expiries:

- `HistoryTypeCorrect`, with `PlaceInv`: what a turn has at each of its places.
- `RecordsPaired` in `RowsArePaired`, from `PairInv`: a turn at its answer has
  written its question (`QuestionWritten`), and an answered item in a list has its
  row, is about to have it, or a command of its turn failed (`AnswerComes`). Items
  and rows belong to turns of their own conversation (`OwnInv`).
- `ResetsForget`, from `ForgetInv`: a conversation is named by the turn that made
  it, so the one a channel turn is in, or would be in if it came now (`Meant`),
  holds nobody it has forgotten; a reset empties the mapping and with it what
  newcomers could be in.
- `OnlySameQuestionGoes`, an action property, from `LastInv`: what `ReadLast` saw
  is still the last question, unless another turn persists into the conversation.

and for answers of any length, any number of calls and any paired messages:

- `StreamTypeCorrect`, `AnswersAreWhole`, `CutsRunNothing`, from `StreamInv`. Its
  `CallsInv` says that the calls gathered so far are those of the lines so far,
  argument by argument (`ChunkGathered` where fragments carry an index,
  `BlockGathered` where they belong to the call opened last); `TextInv` that
  a consumer that is still there was handed every text; `EndInv` that an end with
  calls is not a cut. `LineSteps` reduces the ten kinds of line to what they add to
  the calls and hand over.
- `RequestsArePaired`, from `ConvertInv`: between two rounds of the conversion all
  is paired (`Settled`) or the last message with calls has the first `at - a` of
  its results in the user message after it (`Awaits`). It needs that results
  follow their calls; distinct ids make each answered once.
- `StreamsAsPromised`, the refinement of `EventStream`, assuming that the consumer
  does not stop at `message_start`: `RangeInv` says that a call that still reads
  has its consumer, and every step maps to one of the range or to none. Without the
  assumption it is false, which is `stream_after_stop` (section 5). The others do
  not need it: they hold of the call that panics, too.

The invariants were checked by TLC on the instances of section 4 before they were
proved. Two proofs corrected a model: in `Inbound`, `Claim` had overlapping
alternatives of a CASE, of which TLC takes the first and a prover any; and the
assumptions of the stores and the registry did not exclude that a name is the mark
for none.

Only model-checked: liveness (`TurnsSettle`, `UploadsFinish`, `LoopEnds`,
`AllReturn`, `EverythingEnds`), which is out of the prover's reach.

## 7. What is abstracted or left out

- Texts are model values or lengths: an answer is known by the delivery that
  produced it and by being whole or cut, a tool result by what becomes of it.
- `ChatTurn`: `UpdateChatTurn` reads a row and writes the differing columns; it is
  one step. The agent loop is its outcome; `AgentLoop` shows that the flag
  `toolRan` it relies on is set in time and that no tool acts after the end. Free
  overlap of deliveries is covered by the theorems and by `turn_rerun_race`.
- `AgentLoop`: a tool that is refused by the policy counts as invoked, which only
  widens what the properties must hold for.
- `ImportTask`: deletion of tasks and the limit on stored error details are left
  out. A worker that dies beside a running one leaves its task `processing` until
  the next start, so `UploadsFinish` is stated for processes that do not overlap.
- `LLMStream`: ids and texts are counted; providers number calls densely; a stray
  unreadable line stands for any. Options, audit log, `Generate`, `Embedding` are
  left out.
- `History`: raw rows are a set; the columns of the session row and presets are
  left out. At most two turns persist at the same time.
- `Registry`: names that differ only in case are one; the policy reads the sets of
  all channels in one step; tool bodies, schemas and descriptions are left out.
- `WecomWS`: a heartbeat's count and ping are one step; a running timer may fire
  at any time.
- `Inbound`: a step of the turn machine is one step; the content of media, user
  names and the platform's access token are left out.
- `Memory`: texts are near when their contents are equal; one embedding command
  at a time; scores and categories only order results.
- `Capability`: read and write of an update are one step; the invoker, which
  sends one request and keeps nothing, is left out.
- `Skills`: transactions are one step; whether the files of a row an upsert runs
  into are replaced depends on the library, and both are in the model.
- `Corpus`: a search is a function of the vectors; read and write of a change are
  one step; lines of a queued import are creations.
- `Records`: a stray read at any offset is the last of its call.
- Not modelled: **authentication, OAuth and users** (an external library and the
  identity provider; the repository adds a cache of users and tokens in Redis
  whose loss costs a new sign-in); **generated CRUD** beyond what the modules use;
  **prompts** (text layout); **server, routes, settings** (wiring).
