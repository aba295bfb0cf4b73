# Verification of smeshariki-ai

TLA+ models, TLC configurations and TLAPS proofs for the backend and the chat
page of smeshariki-ai: a FastAPI service that answers the requests of a dialog
with a language model, one run at a time per dialog, streams the answer to the
subscribers over SSE, and keeps dialogs, reports, accounts and a knowledge base
in PostgreSQL and Redis. Paths below are relative to the repository; `ai/` is
short for `backend/src/smeshariki_ai/`.

## 1. The system

| Component | State it keeps | Operations | What makes it correct |
|---|---|---|---|
| Event broker, `ai/application/event_broker.py`, `events.py` | registered subscriptions per dialog; per subscription a bounded queue and a closed flag; the broker's closed flag | subscribe, unsubscribe, publish, close_dialog, shutdown; receive on a subscription | publish reaches exactly the open subscriptions; queues stay within their capacity; an open subscription has no gaps; a closed one always ends for its reader |
| Dialog service, `ai/application/agent_service.py` | accepting flag, state lock, tail task per dialog, set of tasks; one asyncio task per accepted request | start_dialog, delete_dialog, submit, subscribe, unsubscribe, shutdown; the task `_run_after`, its callback `_task_done` | runs of a dialog are serialised, save in order and answer with the whole history; the events of a dialog are the runs one after another; every accepted request ends; shutdown leaves nothing |
| History store, `ai/db/history.py`, `ai/dialogs/` | dialogs, messages, ratings, reports | create, get, append, delete; rating; report, report news | pairs are appended atomically and in order; one report per answer; news is shown until seen |
| Administration, `ai/db/reports.py`, `ai/db/admin_stats.py`, `ai/admin/` | status of reports | set_status, list, statistics (read only) | a report reviewed again is news again |
| SSE endpoint, `ai/api/app.py` | the generator of one response | generate_events | every event in order, heartbeats, end on revoked session, no subscription left behind |
| Accounts, `ai/auth/`, `ai/db/stores.py`, `ai/cache/`, `ai/api/auth.py` | users, refresh sessions in families, blacklist, attempt counters | register, login, refresh, logout, change_password, authenticate | a refresh token is used once, and a family never has two usable ones |
| Agent, `ai/agent/` | the context and iteration of one run | Agent.run, ToolRegistry.execute, LiteLLM stream parsing | the text streamed is the text returned; each call of the model is answered by its own result; provider and agent accept what the other makes |
| Knowledge, `ai/rag/` | aggregates, loads, revisions | check, load, lookup | loads are atomic, idempotent and consistent; a lookup sees a committed state |
| Chat page, `frontend/src/script.js`, `agent-api.js` | ready, processing, submitting, switching, buffered events, timer, the event source | create, open, delete a story; submit; stream events, reconnect, check the session | one dialog at a time; the form is locked only while an answer is owed |
| Session renewal, `frontend/src/auth-session.js`, `auth-api.js` | the cookies all tabs share, the Web Lock | check, renew, withSession, sign in, sign out | no tab is signed out by another tab's renewal; a renewal ends |
| Administration, login and password pages; configuration, logging, migrations, container | | | not modelled: forms over one request, and wiring |

How they interact. The HTTP layer calls the dialog service, the account service
and the administration; the dialog service owns a task per request and calls
the history store, the agent and the broker; the SSE endpoint subscribes
through the dialog service and reads the subscription; the lifespan of the HTTP
application shuts the dialog service down, which shuts the broker down. Inside
the process everything runs on one asyncio event loop, so the hard behaviour is
in the suspensions: between two awaits anything else may run, a task may be
cancelled at each of them and even before its first step, and a transaction may
commit although its caller was cancelled. Across processes PostgreSQL and Redis
decide which of two requests wins. What is hard to test is listed with its line
in `PROJECT.json` under `hazards`.

## 2. Modules

| Module | Models |
|---|---|
| `EventBroker` | the broker and its subscriptions |
| `AgentService` | the dialog service, its runs and the store's dialogs and messages, composed with `EventBroker` |
| `HistoryStore` | what the history store promises: the contract as `InMemoryHistoryStore` keeps it, one operation at a time |
| `PostgresHistory` | the store in PostgreSQL, one action per SQL statement; implements `HistoryStore` |
| `KnowledgeRules` | knowledge sets, the rules a set obeys, what a load changes, what a lookup shows; no state |
| `KnowledgeStore` | what the knowledge store promises: a load is one step, as in `InMemoryKnowledgeStore` |
| `PostgresKnowledge` | loads and lookups in PostgreSQL, by statement; implements `KnowledgeStore` |
| `AnswerStream` | what one run of the agent promises its caller: fragments, then an answer that is those fragments, or none |
| `AgentLoop` | one run of the agent: the loop, the tools, LiteLLM's stream chunk by chunk and any other provider; implements `AnswerStream` |
| `AuthSessions` | the server's side of sign-in: refresh sessions, blacklist, cookies, by statement |
| `BrowserTabs` | tabs of one browser that renew their session against `AuthSessions` |
| `ChatPage` | the chat page with its calls, event sources, timer and session check, against the routes |
| `EventBrokerProofs`, `AgentServiceProofs`, `AgentOrderProofs`, `AgentLoopProofs`, `BrowserTabsProofs`, `ChatPageProofs`, `PostgresKnowledgeProofs`, `PostgresHistoryProofs` | theorems about them |
| `MC...` | bounds, packages and symmetry for TLC |

### EventBroker

Every broker method holds one asyncio lock and never suspends while it holds it
(`put_nowait`, `get_nowait` and set operations only), so a call is one atomic
step: `Subscribe`, `Unsubscribe`, `Publish`, `CloseDialog`, `Shutdown`.
`Receive` is the step in which the reader's `queue.get()` returns. A
subscription's `_closed` flag is `reason[s] # "open"`; the reason itself is what
the code logs. `queue` holds events and the `_CLOSED` sentinel; `Drained` and
`Discarded` are the two ways `close()` treats what is pending, including the
event a full queue gives up for the sentinel. `offered`, `received` and `ended`
are history variables: what was published while the subscription was
registered, what the reader got, and that it got `None`.

A call that finds nothing to do (publishing to a closed broker, a second
unsubscribe, a second shutdown) changes nothing and needs no action.

### AgentService

One action is the code between two suspensions. The states of a request are in
`pc`:

    idle -> checked -> scheduled -> (waiting ->) reading -> loading
         -> streaming -> appending -> committed -> done | failed | cancelled

`SubmitCheck` is the await of `history_store.get` in `submit`, `Submit` the rest
under the state lock: it reads the tail into `prev`, becomes the tail and joins
`tasks`. `FirstStep` says that asyncio runs the first steps of tasks in the
order they were created (`ticket`). `Wait`/`Begin` are `await previous_task` and
`message_start`; `CheckHistory` and `LoadHistory` the two statements of
`history_store.get`; `Delta` a fragment; `Respond` the end of the agent's
stream; `Commit` the COMMIT of `history_store.append` in the database, which
happens while the task is suspended; `Finish` the return of the await and
`message_end`. `RunFails` is the `except Exception` branch, at any of those
awaits. `TaskDone` is the done callback, which the loop calls later than the
task's end.

Cancellation is asyncio's: `ShutdownBegin` cancels every task that has not
ended; a task that did not start yet ends at its first step with nothing
published (`CancelBeforeStart`), a running one publishes `message_error`
(`CancelRunning`), and a waiting one ends only after the task it awaits, which
its cancellation cancels too (`CancelWaiting`). `ShutdownFinish` is what follows
`gather`, down to the broker's shutdown.

The broker's operations are conjuncts of these actions
(`Broker == INSTANCE EventBroker WITH Events <- RunEvents`). Publishing cannot
suspend, because the broker's lock is never contended, so it is part of the step
that publishes. `published` is a history variable with what was published per
dialog, and an event names its run, which the real event does not: it is only
there to state the order.

Left out of it: users and ownership (a call for a foreign dialog finds nothing
and changes nothing), the contents of messages, logging. A restarted process is
`Init` with dialogs stored before; what they hold is a prefix no run changes.
The state lock is granted in any order, where asyncio grants it first come first
served. It is assumed that a run's clean-up does not replace `CancelledError` by
another exception. A transaction that commits after its caller has already
reported an error is represented by one that committed just before.

### HistoryStore and PostgresHistory

`HistoryStore` is the abstract specification: `dialogs`, `messages`, `title`,
`feedback` and `reports` are the dictionaries of `InMemoryHistoryStore`, and
each operation is one action, because that store does it under one lock. An
exchange stands for the request and the answer of one `append`, for their texts
and, with the role, for their identifiers.

`PostgresHistory` is `ai/db/history.py` with the status change of
`ai/db/reports.py`, shared by several server processes. A *client* is a
coroutine inside a call; `pc` is the statement it executes next, and one action
is one statement at READ COMMITTED, the last one together with the commit. What
the schema does for the code is in the actions: `lock` is the row a dialog's
`SELECT ... FOR UPDATE` holds, `Delete` waits for it and cascades, the foreign
key guards `SetFeedback`, the unique `message_id` guards `Reportable`.
`append` is `LockDialog`, `ReadLastPosition`, `InsertMessages`; a rating or a
report starts with `OwnAnswer`, which holds no lock, so the answer may be
deleted before the second statement. `Rollback` is a lost connection or a
cancelled caller at any statement. `Ordered(d)` is `ORDER BY position`; with it
the instance `Store` maps the rows to the contract's sequences, and
`ImplementsStore` says that every call takes effect as one operation of the
contract, or not at all.

`owed` (in a report) and `refused` are history: that a concluded review was not
yet dismissed by the user, and which answers got `ReportExistsError`. Left out:
users (a foreign dialog or report is not found and nothing changes), texts,
times, lists and pages, which read one snapshot.

### KnowledgeRules, KnowledgeStore and PostgresKnowledge

A knowledge set is a function from entities to contents, and `KnowledgeRules`
translates `ai/rag/integrity.py` on it. Three kinds stand for the six of the
code, one for each shape of rule: characters, whose names no other character
has; places (locations and artifacts), whose names are unique within a variant
of the canon; episodes, whose season and number are unique within their work.
`names` are the normalized name, aliases and id. `refs` are an episode's cast
and places and a place's residents, which must exist in the right canon. `ties`
are the relationships of a character, each in some canons, and the interactions
of an episode: a relationship needs both characters in its canons
(`RelationshipsMatch`), an interaction needs both in the cast
(`InteractionsAmongCast`), and neither is told twice (`SameTie`), also not from
the other side when it is mutual. Both are sets, so two that differ only in
their description are one. Works and canons are fixed; sources and the rule that
a film has one episode are left out.

`KnowledgeStore` has one action, `Load`: merge, check, journal, summarise.
`PostgresKnowledge` is the transaction of `ai/rag/postgres.py`. A loader's
`step` is what it executes next: `LockKnowledge` (the advisory lock), `ReadAll`
with the check of the merged set, `StartLoad` (the identity of `rag_loads`,
which a rollback does not return), and the three halves of `save`:
`DeleteChildren`, `UpsertRoots`, `InsertChildren`. Between them an aggregate is
incomplete in `working[l]`, which is what the transaction sees and nobody else.
What of it is missing depends on its kind, as the mappers of
`ai/rag/postgres_mappers.py` say (`Children`): a character's names, canons and
relationships and a place's names, canons and members are child rows, while an
episode keeps its title, work and number in its root row and only its cast,
places and interactions are child rows (`RootRow`, `WithChildren`).
`FinishLoad` is the revisions, the summary and COMMIT. `LoadLost` breaks the
connection anywhere before it; `FinishLoad` with `told = "unavailable"` is a
connection that breaks after the COMMIT and before its acknowledgement. What
one transaction writes between two statements nobody else reads is one action.
Unique and foreign keys that the rules already imply never fire and are not
modelled; the unique season and number of an episode can, because it is checked
row by row while the set is half written, and is in `UpsertFails`.

A lookup is `FindMatches` (the statement that takes the REPEATABLE READ
snapshot), then `ReadNames` on that snapshot, or, without a match,
`HasKnowledge`, which has a snapshot of its own. `asked` and `lost` are history:
the last load a lookup could see, and whether the connection really failed.

### AnswerStream and AgentLoop

`AgentService` publishes fragments first and saves the agent's answer
afterwards. `AnswerStream` is what it relies on: the answer, if there is one, is
exactly the fragments streamed. `AgentLoop` shows that `Agent.run` keeps it.

The agent and its provider are generators that the consumer drives, so one
action is one chunk or one event through both. `Request` is the start of an
iteration with the request to the model (`Refused` is `_map_message`, which
raises for a tool message that lacks what it answers). With the provider
"litellm" the chunks are `BlankChunk`, `TextChunk`, `CallChunk`, `BadChunk` and
`LastChunk`, and `content`, `pieces` and `choice` are the locals of
`LiteLLMProvider.stream`; with "other", any implementation of `LLMProvider`,
events come in any order and any shape (`OtherText`, `OtherResponse`,
`OtherFails`). `FinalAnswer`, `CallsTool` and `InvalidResponse` are what the
runtime does when the stream has ended, `Execute` is `ToolRegistry.execute`,
where every failure of a tool is a result, and `Cancel` the cancellation of the
task at any await. A text is a sequence of fragments and joining is
concatenation. Of a call's arguments only whether they parse and validate is
left, as a choice.

### AuthSessions and BrowserTabs

A refresh session is the row of one single-use token, and the access token
issued with it carries its number: `Sessions` are both. `at[r]` is where the
handler of a request stands between two awaits. `Rotate` is the INSERT and the
UPDATE of `rotate()`, whose row stays locked until `Commit` or `Rollback`
(`Locked`); the UPDATE looks at `revoked_at` again after it waited. `RevokeStart`
and `RevokeEnd` are the one UPDATE of `revoke_family()` under READ COMMITTED: it
sees the rows committed when it starts, waits for locked ones, and so misses a
replacement that a rotation inserts meanwhile. `Blacklist` is Redis.
`ChangePassword` on another device ends the sessions of the browser.
`CommitLost` is a COMMIT whose acknowledgement is lost.

`BrowserTabs` adds the browser. `jar` is the pair of cookies, `tab[t]` what a
tab waits for, `turns` the queue of the Web Lock. `Check` is `me()` or an
operation of `withSession()`; a 401 makes the tab ask for its turn
(`FirstAnswered`), then ask `me()` again under the lock (`TakeTurn`,
`SecondAnswered`), renew (`RefreshAnswered`) and run the operation again
(`RetryAnswered`). Every answer changes the jar when it arrives (`Arrives`),
also that of a closed tab (`LateAnswer`). `excuses` is history: what happened
since the sign-in that may end the session, such as a logout, a change of
password elsewhere, an answer to a renewal that was lost, a tab closed while it
renewed, or answers of two sign-ins that crossed (a late 401 clears the cookies
of a newer login, `ai/api/auth.py:197`). Registration, passwords, the limiter
and the look-up of users only decide whether a login succeeds.

### ChatPage

One action is one task of the page: a click (`NewStory`, `Open`, `Delete`,
`Submit`), the retry timer, the continuation of an awaited call
(`CreateOk` ... `PostFailed`, with `Renews` and `GoesToLogin` for
`withSession()`), an event of an EventSource (`Dispatch`, `Refuse`, `Lose`,
`StreamEnds`) or the end of the session check (`Verified`). The variables of the
page have their names in `script.js`. `calls` holds one call per operation, with
the state of its answer; `Serve` is the server, which may have done what a lost
answer does not say, and `Renews` reads `dialogId` again for a request that is
sent again. Of the server there are the dialogs, how many runs each still owes,
and the streams: `ready`, then what is published while the stream is open, no
replay. `OtherTab` submits to or deletes the same dialogs. `tangled` records
that `createDialog()` began while another operation was under way, `missed`
that the end of a run never reached the page.

## 3. Runs

| Run | Shows |
|---|---|
| `event_broker` | Two dialogs, two subscriptions, two events, queues of two, at most three events published while a subscription is open: enough for a queue to fill, overflow, be drained while full, and be read in between. Callers do anything in any order; readers are fair. |
| `agent_runs` | Two dialogs, three requests, one fragment each, no subscriber: two runs in one dialog beside one in another, or three in one (the chain's first, middle and last), with failures, deletions, creation holding the lock and a shutdown anywhere. Symmetry over dialogs and over requests (safety only). |
| `agent_stream` | One dialog, two requests, one subscriber with a queue of two and no fragments, under fairness: what the reader gets, the refinement of the broker's specification, and liveness. No symmetry. |
| `agent_error_but_saved` | A counterexample: the answer is committed, then the run ends with `message_error`. |
| `postgres_history` | Two dialogs, two exchanges, two clients, one score: two appends to one dialog or one to each, an append against a deletion, a rating or a report against a deletion or the same report from elsewhere, reviews and news in between, rollbacks anywhere; invariants and the refinement. Symmetry over all three sets; no temporal operator but the refinement's box. |
| `postgres_knowledge` | Two loaders, one lookup, three load ids and four packages of one world: one that creates it, one that renumbers the episodes and lets the characters exchange their names, one that extends it and depends on it, one that takes a character out of a canon, which breaks a relationship another character tells of, or the cast of an episode. Loads of each against each, rejected, broken before and after COMMIT, repeated without a change, with a lookup beside them; invariants and the refinement. Symmetry over the loaders. |
| `knowledge_renumbered` | A counterexample with one loader: an acceptable package that moves an episode to the number of another it also moves is reported as an unavailable database. |
| `agent_loop` | Two iterations, two fragments, one tool whose name sent twice is no tool, a history of at most one pair, texts of at most two pieces: both providers, text and calls in every order, every failure, and a second request after a tool; invariants and the refinement of `AnswerStream`. |
| `browser_tabs` | Two tabs, another device, three sessions and two troubles: two tabs renew together, a token is renewed twice, reuse meets a rotation, a logout or a login overlaps a renewal, answers are lost before or after the COMMIT, tabs are closed at every step. Symmetry over the tabs (safety only). |
| `browser_tabs_live` | The same with one trouble, without symmetry, under fairness: every renewal ends. |
| `chat_page` | A stored story and a new one, two requests, one trouble: every overlap of clicks, continuations, timer, checks and events, with a call, a stream or the session failing once, or another tab using the dialog; safety and, under fairness, that the form unlocks. |
| `chat_page_switched` | A counterexample: a retry of `createDialog()` fires while a story is being opened. |

Bounds. `MaxOffered` (MCEventBroker) bounds how many events are published to a
subscription; one more than the queue's capacity reaches every branch of
`offer` and `close`, and a queue of two is the smallest for which "the newest
event survives" differs from "an event survives". `MaxDeltas` bounds the
fragments of a run; the code treats every fragment alike, so one shows all there
is to see of ordering. Three requests are needed because the faults of the
chain, such as popping the tail of a later request, need a third to arrive.
In the store nothing is bounded but the sets: an exchange is appended once, an
answer reported once, so a pair of either meets every branch. One score is
enough because a rating is replaced, never compared.
`LoadIds` bounds how many loads get an identity. Three are a load that creates,
one that changes, and a third that meets a revision that is not an entity's
first, with two of them at work at a time; two loaders are enough because a
third would wait for the same lock.

`MaxIterations` is the code's own limit; two iterations have a first, a last and
one that follows a tool. `MaxText` bounds the pieces of a text, an identifier or
a name, `MaxPairs` the history; two pieces tell joining from replacing.
`MaxSessions` bounds the rows of refresh sessions: three are a session renewed
twice, or renewed once beside a new login; when none is left a rotation fails as
if the database did, and a login is refused. `MaxTroubles` is a budget for what
the environment does at will (failures, losses, closed tabs, logouts, a change
of password, another tab's actions): the properties are about the overlap of one
or two of these with the code's own steps, and what the code does by itself costs
nothing. In `ChatPage`, `MaxPosts` bounds accepted requests; `MaxSources` the
EventSource objects, which are used again once they are closed: an untangled
page never has more than two in use, so three never bite.

`chat_page` has the constraint `Followed`: states that are tangled, or whose page
has gone to the login page, are checked but not followed further. Both last once
they hold, and every property of the run excuses them, `FormUnlocks` by name, so
a behaviour that enters them cannot violate any property later, and no behaviour
outside them is cut.

Fairness. The event loop resumes every ready coroutine, so the reader's
`Receive` and every step of a task are weakly fair; a database call or the
agent's stream answers or fails, so `Task(r)`, which always has a failing
alternative, is fair as a whole: nothing says that a run succeeds. The creation
of a dialog ends one way or the other. Nobody is obliged to submit, delete,
subscribe or shut down. `_task_done` is part of `Task(r)`: after the last step
of a run it is the only step left, so it happens.

In `BrowserTabs` the steps of a handler, the arrival of an answer (or its loss,
which also ends the wait) and the turn of the tab at the head of the Web Lock's
queue are fair; users, time and failures are not. In `ChatPage` calls are
answered and continued, a run ends (`RunEnds` of `AgentService`, which the run
`agent_stream` checks) and events that arrived are dispatched; nothing says that
a lost stream is opened again, and `FormUnlocks` needs it not.

Deadlock checking is off where the system may stop: after a shutdown with
every stream ended nothing is left to do.

## 4. Proofs

For every set of dialogs, requests, subscriptions, events, clients, tabs, loaders
and packages, for every positive queue size and number of iterations, from the
assumptions named in the modules: `QueueSizeAssumption` and `SentinelAssumption`
(EventBroker), `ServiceAssumption` (AgentService), `LoopAssumption` (AgentLoop),
`SessionsAssumption` and `TabsAssumption`, `PageAssumption` (ChatPage),
`KindsAssumption` and `LoadAssumption`, `ClientsAssumption`. They say that sizes are positive, that the
sentinel is no event and "none" no member of the sets it is used beside, and, of
`LoadAssumption`, that packages are knowledge sets.

**Broker.** `BrokerInv` is inductive: types, the registry (`RegisteredIffOpen`),
the capacity, the sentinel, the absence of gaps, and two facts they need, that a
subscription which does not exist yet is untouched and that a closed broker has
nothing registered. The step lemma `StepOfOneSubscription` reduces every action
to the four things it can do to one subscription (nothing, take an event, close,
hand over the head), and `QueueStep` shows that each keeps that subscription's
part of the invariant. `RegistryCorrect`, `QueueNeverOverfull`,
`SentinelAlwaysLast` and `NoGapWhileOpen` follow. `ClosingLosesLittle` takes
what each way of closing does to the sequence delivered: dropping the queue
leaves a prefix, draining it costs the head of a full queue and nothing else.

**Chain of runs.** `OneActiveRun` is not inductive: that two runs are not both
past the await depends on what each waits for. `ChainInv` adds that tickets are
unique and belong to accepted requests, that nothing is cancelled before
shutdown, that whatever is unfinished is not newer than its dialog's tail
(`UnfinishedTracked`), that a run still waiting waits for a run at least as new
as any unfinished earlier one (`WaitsForNewest`), and that a run past the await
has finished runs behind it (`EarlierOver`). The core is `NothingEarlierRuns`:
when the awaited run is over and was not cancelled, so is everything before it.

**History.** `HistoryInv` adds to `ChainInv` what is read and saved: a saved pair
belongs to a run of its dialog that committed it and that has nothing earlier
left to save (`SavedBehind`), a committed pair is stored while its dialog is
(`CommittedIsSaved`), and `DialogsKnown`, that a deleted dialog is never created
again. `SavedInOrder` follows because a new pair is newer than all that are
saved, `ContextComplete` because only the one active run of a dialog commits.

**Events.** A cancelled run may end before an earlier one does not even wait for
it, so the order of events needs more than the chain: `StoryInv` says which run
spoke last in a dialog (`Speaking`), that a terminal event came last when none
speaks (`Silent`), that a waiting run awaits one that had its first step
(`WaitersBehind`), and that a waiting run whose predecessor was cancelled has
nothing unfinished behind that one (`CancelledBehind`). `EventsTellOneStory` and
`OutcomeTold` follow.

**Composition.** `ServiceUsesBroker` shows that the service's behaviours, seen
through the broker's variables, are behaviours of `EventBroker`; so
`BrokerInvariantInService`, and with the chain's invariant
`ShutdownLeavesNothing`. `EndMeansSaved` joins all of them: what a subscription
holds was published to its dialog (`OnlyTold`, from `ManagedHolds` and
`PublishedHolds` of the broker), a published `message_end` is of a run that is
done (`ToldByRuns`), and the pair of such a run is stored.

**Agent.** `TypeInv` types the runtime's locals at each suspension. `TextInv`
relates the text of the iteration to the text of the run: earlier iterations
streamed nothing, because a tool is called only without text. With it
`AgentKeepsItsPromise` shows step by step that `AgentLoop` implements
`AnswerStream`. `ProviderInv` says what LiteLLM's stream holds of the response it
will yield, `MappableInv` that every message of the context can be sent;
`AgentAndProviderFit` follows. `ContextInv` is `CallsAnswered` with what each
phase knows of the last call.

**Sessions.** `OneActivePerFamily` holds because a replacement is pending while
its predecessor's row is locked. `Inv` of `BrowserTabsProofs` says that a pending
row belongs to exactly one rotation, whose token is the family's active one
(`Rotations`), that a revocation only revokes what is active in its families
(`Revocations`), and that a family is named by its first session (`Families`).

That tabs do not waste a token (`TabsDoNotWasteTokens`) is proved from `Peace`,
which is `Inv` with two parts. `Ground` holds always: where each request can
stand (`Routes`) and what its response can say (`Replies`), that every token
somebody holds is of a committed row (`Held`) and a token on its way is in
nobody else's hands (`Issued`), what a revocation may touch (`Snapshots`), that
an operation is refused for its token only (`Refusals`), and that who renews has
the Web Lock (`Turned`). `Peaceful` holds while `excuses` is empty (`Good`): the
family of the jar's token is not revoked and not on the blacklist, its token is
active or the response with the next one is on its way, and no request that
carries a token of the family disturbs it (`Undisturbed`): it is a check, or
the one renewal, of that very token. Every event that could break `Good` gives
an excuse in the same step, and every step that gives none keeps it. From it
`TabsAreSignedOutForAReason` follows step by step: without an excuse the 401
that leads to the login page is not of this session.

**Chat page.** `Typed` is `TypeOK` with what the continuations read: a call that
succeeded names a dialog, and a dialog has no more runs than requests were
accepted. `Orderly` is the order of an untangled page that was not left.
`Streaming`: every source but the connection is closed, the connection is of the
dialog the page shows, what it carries is of that dialog, and a text in it is
followed by the end of a run or by a run that goes on. `Story`: the messages
shown and the events buffered are of that dialog. `Awaited`: the calls of
`createDialog()` and `openDialog()` are in flight only while `switching`, alone,
and a request only while `submitting`, for that dialog. `Owed`: a form that is
locked, or about to be, has the end of a run before it. `StoriesAreNotMixed` and
`LockedFormIsOwedAnEnd` are consequences of these. That `createDialog()` does not
ask for `busy()` is why `tangled` must be excused; `chat_page_switched` shows
what happens then.

**Knowledge.** `AlwaysIntegral` is about committed rows that one loader writes in
three parts: `Exclusive` (who works holds the advisory lock), `Checked` (what it
read is what is still stored, and the merged set obeys the rules) and `Written`
(each part of `save` leaves the aggregates as the step says) make it inductive.
`Journaled` numbers the revisions of an entity 1, 2, ... up to the stored one;
that a later number is of a later load needs `Youngest`: the sequence is only
advanced under the lock, so an unfinished load has a greater id than every
committed one. From it follow `JournalIsHistory` and the refinement
`LoadsAreAtomic`, in which a load takes effect at its `COMMIT` and every other
statement is a stutter. For lookups, `NewestState` says that the stored tables
are what the journal tells of the newest load and `EarlierStates` that a later
load changes nothing of what it tells of an older one; so an answer stays the
answer of the state its snapshot had (`Answers`).

**History store.** `Holds` (who is past `SELECT ... FOR UPDATE` holds the row's
lock), `Dense` and `Counted` (the position read under the lock is still the
last), `Pairs`, `Saved`, `Reported` and `News` are the invariant from which
`PositionsStayDense`, `AnswersReportedOnce` and `NewsUntilSeen` follow. For the
refinement `CallsAreAtomic`, `Placed` says that with dense positions the row with
position `k` is the `k`-th message the contract knows, so appending two rows is
appending two messages (`AppendedInOrder`) and the request of an answer is the
same for both (`RequestsAgree`). `Kept` (a dialog somebody appends to is stored)
and `Rated` (what is rated is an answer that exists) are what the contract's
guards still need at the statement that takes effect.

Only model-checked: liveness (`RunEnds`, `ShutdownReturns`,
`ShutdownEndsStreams`, `RenewalEnds`, `FormUnlocks`), which the prover does not
reach. Every other property of the passing runs, invariant, action property or
refinement, is stated by a theorem.

## 5. Not modelled, and what could follow

- The SSE endpoint's own steps: `wait_for(receive())` cancelled by the heartbeat,
  a client that disconnects before the generator starts, and the order in which
  the HTTP server ends open responses and the lifespan. They depend on asyncio
  and on the server, not on this code's state; `ChatPage` has the streams as the
  page sees them.
- Passwords, registration and the attempt limiter: they let a login or a change
  of password through or not. A login that verified the old password while
  `change_password` runs may create a session afterwards; nothing is promised.
- The pages' ratings, reports, news, administration and login forms: one request
  each, and no state shared with the dialog.
- Package files, YAML, statistics, configuration, logging,
  migrations: parsing, wiring and queries without interleavings.

Next would be the sign-in itself (registration, change of password and the
attempt limiter beside overlapping logins), and the server's side of one SSE
response.

## 6. Disagreements met

`PROJECT.json` lists under `findings`, each with a run that shows it:

- an error is reported for a saved answer, against REQ-013 of
  `specs/changes/agent-sse-test-ui/spec.md` (`agent_error_but_saved`);
- episodes that exchange their numbers cannot be loaded, and the database is
  reported as unavailable, against `docs/rag.md` (`knowledge_renumbered`);
- `createDialog()` asks only for `unloading`: when its retry timer fires, or the
  deletion of the open story is answered, while another story is being opened,
  the page shows that story, sends requests to the new dialog and keeps two
  EventSources, against `specs/changes/chat-sidebar-layout/spec.md:56` and the
  comment at `frontend/src/script.js:78` (`chat_page_switched`).

Met on the way, each visible in a module and without a run of its own:

- `close_dialog` on a full queue drops the oldest event (`Drained`), although its
  docstring says that queued events are kept (`ai/application/event_broker.py:28`);
- a request cancelled before its task's first step reports nothing
  (`CancelBeforeStart`), although `docs/dialogs.md:63-64` says that the subscribers
  get `message_error` on a cancellation;
- a report whose answer is deleted between the two statements of `add_report` is
  answered 409 as a second report (`Reportable`), against `docs/dialogs.md:222`;
- `handleConnectionError()` does not ask which source failed, and a check that
  cannot reach the server leaves a closed source closed (`HandlesError`,
  `Verified`): the page then stays without a stream until another story is
  opened;
- a `message_end` lost with the stream leaves the page processing until a story
  is opened or created (`missed`); `docs/dialogs.md` says that events are not
  replayed, so this is as documented;
- `docs/dialogs.md:45-69` describes drafts that live in memory until the first
  successful run (`DialogDrafts`), and `docs/dialogs.md:248-250` says that there
  are none any more; the code has none, and stores a dialog when it is created
  (`StartDialog`, `DialogCreated`);
- deleting the open story while a request is submitted can lock the form of the
  new one (`DeleteOk`, then `PostOk`).
