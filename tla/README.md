# Verification of obsidian-ai

obsidian-ai is a platform for agents built on language models: a FastAPI backend
(`src/backend`) runs chats, teams, workflows, schedules and messaging channels, keeps its state
in SQLite or MongoDB, and lets a person approve what an agent is about to do. This directory
holds TLA+ models of the parts of the backend in which several actors meet (the event loop's
tasks, HTTP requests, timers, the database, restarts), the TLC configurations that check them
on small instances, and proofs checked by TLAPS.

Run from this directory: `tlc -workers 2 -config approval.cfg MCApprovalNode` (the module of
each run is in section 3), `tlapm ApprovalNodeProofs.tla`.

`PROJECT.json` lists the components, the runs, the source lines every definition stands for,
the mutants that show that each property can fail, the hazards and the theorems.

Contents: 1 inventory, 2 modules and the code, 3 runs, 4 fairness, 5 theorems, 6 where code and
expectation differ, 7 what is not modelled, 8 how the project grew and what it has left.

## 1. Inventory

Everything happens in one process with one asyncio event loop, unless said otherwise. What is
not behind an `await` is atomic. That makes the choice of the database important: the SQLite
calls are synchronous (they do not suspend the handler), the MongoDB calls are awaited, so that
every one of them lets other tasks run. Nearly every feature is written twice, once for each,
and most modules carry the choice in a variable `store` that `Init` fixes, so that one run
checks both.

| Component | State it keeps | Operations | How it meets the others |
|---|---|---|---|
| **Workflow approval nodes** (`dag_executor.py`, `routers/workflow_runs_router.py`) | approval records; `workflow_hitl_events`, from `"<run>:<node>"` to an `asyncio.Event` | pause, wake, time out; approve, deny | executor and endpoints share the records and the dictionary, nothing else |
| **DAG engine** (`dag_executor.py`) | edge groups, messages that branches share, superstep, event queue, the run's row | execute a step, deliver, read an event, finish, disconnect | started by a user's stream, by a schedule, or by an agent's tool |
| **Graph validation** (`topological_validate`) | a colour per node, the recursion | the search | first thing the engine's builder does |
| **Chat human-in-the-loop** (`routers/chat_router.py`, `services/agent_runner.py`) | `hitl_approvals`, `_hitl_events` under two keys, what the stream's database session remembers | ask, poll, wake, time out, be dropped; respond, approve, reject; close at start-up | tool calls of chats and channels |
| **Tool proposals** (`chat_router.py`, `tools_router.py`, `builtin_tools.py`) | `tool_proposals`, their events, `tool_definitions` | propose, approve, reject, time out; the user's own edits of the toolkit; `create_dynamic_tool` | chat calls write the toolkit that later chats load |
| **Asynchronous background jobs** (`async_job_poller.py`, `async_job_tools.py`) | job rows with poll counts, interval jobs in the scheduler's own store, messages | register, poll, expire, announce, re-register at start-up, delete with the agent | poll an MCP tool, ask a model, write into a session |
| **WhatsApp message batching** (`services/whatsapp_service.py`) | contacts and sessions, a buffer, timer, task and lock per session | receive, flush, group, launch, interrupt, deliver | runs agents; history shared with the web |
| **Workflow schedules** (`scheduler.py`, `scheduler_executor.py`, `routers/schedule_router.py`) | schedule rows; the scheduler's jobs, which survive the process | create, update, delete, fire, load at start-up | start linear and graph runs |
| **Linear workflow execution** (`workflow_runs_router.py`, `scheduler_executor.py`) | a run's row and its steps | four executors: scheduled or by a user, SQLite or Mongo | started by schedules and by a user's stream |
| **Agent versions and published API** (`versions_router.py`, `agent_api_router.py`, `agents_router.py`, `services/agent_runner.py`) | the agent, its versions, the publication pinned to one | create, import, edit, snapshot, rollback, publish, invoke, delete, prune | edits come from the API, the optimizer and built-in tools |
| **Optimizer and evals** (`optimizer.py`, `eval_engine.py` and their routers) | rows and tasks of optimization runs and evaluations | sweep, collect, analyze, propose, validate, review; evaluate; delete | an accepted proposal edits the agent |
| **Chat streaming and context compaction** (`chat_router.py`) | the session's rows, the list given to the model | ask, compact, stream with or without MCP, reply in one piece, leave | turns of one session may overlap |
| **Team chat and delegation** (`chat_router.py`, `team_delegation_tools.py`) | per member: attempts, nested calls | coordinate, route, collaborate, delegate, retry | within a turn |
| **Knowledge bases and retrieval** (`rag_service.py`, `routers/knowledge_router.py`) | bases, document rows, points of the vector index | upsert, ingest, add, delete, search | chats retrieve from the bases an agent is bound to |
| **Start-up and schema migration** (`main.py`, `models.py`, `models_mongo.py`) | tables and columns, indexes, data that is moved | create, alter, back-fill, deduplicate, index, copy models | before any request is served |
| Sessions, messages and memory | rows | create, read, update, delete; memory reflection | not modelled by themselves |
| MCP client, tools and sandbox | connections | call a tool | an outcome chosen freely in the models |
| Authentication, authorization, secrets and rate limits | users, keys, counters | decide over one request | before the handlers that are modelled |
| Idempotency cache | cached answers | look up, store | nothing calls it |
| Language model providers | none | complete, stream, embed | an outcome chosen freely in the models |
| WhatsApp bridge (`src/wa-bridge`) | sockets | forward messages | sends the messages of `WhatsAppBatching` |
| Frontend | | | its requests are the models' requests |

What is hard about each, and when it is correct:

- **Approval nodes.** A timeout races an answer, two answers race, executions of one node share
  an event, Mongo handlers have gaps. *Correct when* the gate opens only for a recorded
  approval of that execution or by its own configuration, one answer at most is confirmed, the
  record tells the verdict, whoever got a confirmation sees the node go on.
- **DAG engine, graph validation.** Executions of a superstep overlap, fan-ins collect over
  several supersteps, a switch delivers to one target, failures pass on, the reader writes the
  row while the runner works. *Correct when* exactly the acyclic graphs are run, joins wait,
  nothing runs twice, only the chosen branch runs, the final status is neither too good nor too
  bad, a reader that stays sees the run end.
- **Chat human-in-the-loop.** Several ways to wait in one code base, calls side by side on one
  database session, SQLAlchemy's identity map, disconnects that cancel the timeout with the
  wait. *Correct when* no call runs without an approval of its own, the model is told "denied"
  only if somebody denied, the record tells what became of the call.
- **Tool proposals.** The tool is stored before the proposal is marked, the handler reads a row
  that may be out of date, providers repeat call identifiers. *Correct when* nothing reaches
  the toolkit without an approval, names stay unique, the agent hears the user's verdict.
- **Asynchronous jobs.** Verdict and message are two writes; over Mongo a poll reads before two
  awaits and writes after them. *Correct when* a job is announced once and truthfully, a
  verdict has its message, polling ends.
- **Batching.** Messages arrive during each await of a flush; a message interrupts an agent at
  any await, but not its delivery. *Correct when* each message is stored once, an agent knows
  what the chat said before, no message is left without an agent that saw it.
- **Schedules and linear runs.** Row and job live in two databases; executors read the workflow
  while it is edited or deleted. *Correct when* the job follows the row, a run's row and its
  steps tell one story, every run that begins ends.
- **Versions and published API.** Edits cross, `publish_agent` runs in a thread and asks twice,
  versions are pruned and identifiers reused. *Correct when* a configuration that is replaced
  can be got back, what is published was live, an invocation keeps its version.
- **Optimizer and evals.** A pipeline of tasks that nothing resumes, over rows that others
  delete. *Correct when* reviewers see a complete proposal, reviews stand, runs settle.
- **Chat turns and teams.** Overlapping turns compact the same session; members fail, retry and
  delegate in a circle; a failure after the answer was saved. *Correct when* the model is shown
  or given a summary of everything, a client that was told "done" finds one whole answer, every
  turn ends.
- **Knowledge.** Two writes, one of them to an index without transactions, with an embedding
  between them. *Correct when* a search finds the text of the row, keys are unique, what was
  deleted is not found.
- **Start-up.** A stop between any two statements, over any earlier schema. *Correct when* what
  is served has everything the code declares, and no data changed its meaning.

## 2. Modules and the code

| Module | What it is |
|---|---|
| `HumanGate` | abstract: a gate is shut until it opens, which needs somebody's approval or its own configuration, or is refused, and then it stays so |
| `ApprovalNode`, `MCApprovalNode`, `ApprovalNodeProofs` | the approval node of a workflow run; implements `HumanGate` |
| `TopoValidate` | the cycle check |
| `DagRun` | one run of a DAG workflow: executors, runner, reader |
| `DagWorkflow`, `MCDagWorkflow`, `DagWorkflowProofs` | `TopoValidate` and `DagRun` composed: a run from the search to its final row, by a user or by an agent |
| `ChatHitl`, `MCChatHitl`, `ChatProofs` | approval of tool calls in a chat session; implements `HumanGate` |
| `ToolProposals`, `MCToolProposals`, `ToolProposalsProofs` | proposals of tools and edits, and the toolkit |
| `AsyncJobs`, `MCAsyncJobs`, `SchedulerProofs` | background jobs and their poller |
| `WhatsAppBatching`, `MCWhatsAppBatching`, `ChatProofs` | the messages of one WhatsApp chat |
| `ChatTurn`, `MCChatTurn`, `ChatProofs` | the turns of one chat session, of an agent or a team |
| `ScheduledRuns`, `MCScheduledRuns`, `SchedulerProofs` | schedules, the scheduler's jobs, the runs of linear workflows |
| `AgentVersions`, `MCAgentVersions`, `AgentVersionsProofs` | one agent, its versions, its publication |
| `PromptOptimizer`, `MCPromptOptimizer`, `PromptOptimizerProofs` | optimization runs and evaluations of one agent |
| `KnowledgeIndex`, `MCKnowledgeIndex`, `KnowledgeIndexProofs` | bases, documents, vector index |
| `Migration`, `MCMigration` | start-up of an older database |

The MC modules give constants their values and, where they are symmetric, name the symmetry. A
definition whose name is that of another with a suffix (`Older_Greedy` for `Older`) is that
definition with a plausible bug, used to show that a property can fail; no specification uses
it.

**ApprovalNode.** `Pause` is `_process` up to its wait, `Conclude` its `finally` and what
follows; `WakeAndDecide`/`TimeOutAtOnce` are the SQLite handler, which reads or closes the
record in the step in which it wakes, and `Wake`/`Decide`/`TimeOut`/`Expire` the Mongo handler,
which suspends in between. `Resolve` is an endpoint on SQLite, `Check`/`Write`/`Signal` on
Mongo; `Refuse` is their 404. `Restart` drops events, executions and requests and keeps the
records, because startup looks at no workflow approvals. `TimeOutAtOnce` is allowed when the
event is set already: with Python 3.12's `wait_for` a timer that falls into the iteration of
the event that was set wins. The requests of a behaviour are chosen in `Init`.

**TopoValidate, DagRun, DagWorkflow.** One action per turn of the recursive `dfs`, with the
recursion as a stack and loops in any order. `StartNode` to `Receivers` are
`build_maf_workflow`: which steps become fan-ins, which switch cases, where the default leads.
`execs` are handler executions, `heap` the message objects; `Begin` of a single message works
on the sender's object and `Begin` of a fan-in on a merged copy, as `handle_single` and
`handle_list` do. `Deliver`, `Converge` and `GiveUp` are the runner (external: the framework's
superstep rule, as the code uses it); `ReadEvent`, `Finish`, `Disconnect` the reader.
`DagWorkflow` puts the search before the engine and adds `execute_workflow`, by which an agent
runs a workflow: it chains steps without dependencies and answers "completed". A "work" step
stands for agent, map and approval nodes; it completes, fails or raises.

**ChatHitl.** `Sites` says where the session waits: in the middleware (SQLite chat), in the
channel runner, or in a loop that waits for its event (chats with MCP servers, Mongo). The
first two use `_wait_for_approval_or_db_poll` (`Poll`, `Settle`), the third has a `wait_for` of
its own (`Wake`, `GiveUp`, `Close`). `cached` is the identity map: a query answers with the
object the handler holds until a commit in that session expires it (`CommitAndRead`);
`SiblingCommits` is another tool of the same answer doing so. Keys are data (`KeyOf`).
`AskInVain` is the channel on Mongo, where the driver's database object refuses to be a truth
value. `Drop` is a client that disconnects, `Restart` the startup that denies what is pending.

**ToolProposals.** The same waiting as `ChatHitl` (`Seen` is the identity map), but an approval
(`Approve`) writes the tool, then the row, then sets the event in `slot`; `StopInApproval` is a
process that stops between the two commits. `CreateTool`, `UpdateTool`, `DeleteTool` are the
user's own endpoints, `CreateDynamicTool` the built-in tool. A tool's `text` names who wrote
it, which is what `OnlyApprovedTools` is about. Identifiers are as SQLite gives them: one more
than the highest, so reused.

**AsyncJobs.** `Register` is `schedule_async_check`; `Call` to `Unschedule` are a poll, of
either store. With SQLite everything between two awaits is one step: `HeldSteps` are places
inside such a step that exist only because the process may stop there, and while one is
occupied nobody else moves (`NobodyHeld`). `DeleteAgent`/`DeleteJobs`/`DropJobs` and
`DeleteServer` act under polls; `Restart` takes pending jobs up again.

**WhatsAppBatching.** A message passes `Arrives`, `FindContact`, `LinkContact`, `Buffer`; a
flush `StartFlush`, `StoreNext`, `Ready`, `Launch`; an agent `ReadHistory`, `Think`, `SaveReply`,
`SendReply`, `LeaveShield`. `Interrupt` cancels the task the session knows of, and `outer` is a
task that waits in `asyncio.shield`, whose cancellation does not reach the delivery. SQLite has
no buffer: `Receive`, `Lock`, `ReadAll`, `Reply` are the handler with its per-session lock.

**ChatTurn.** `rows` is the messages table, `context` the list the model is given, split in
what a summary covers and what is there word for word (`Compacted` is
`_compact_context_if_needed`). `AskQuestion` to `StartAgent` are `_chat_sqlite`; `Chunk`, `PlainEnds`,
`PlainBreaks` the plain stream; `RoundTools`, `RoundsEnd`, `RoundError`, `RoundRaises` the loop
with MCP servers; `Complete`, `TailRaises` what follows the save. Team modes are `Select`,
`Relay…` and `Member…`/`Delegate…`/`Synthesis…`. One SQLite session means that nothing else
moves between the awaits.

**ScheduledRuns.** `entry` (a schedule's row) and `job` are the two databases; `pending` are edits
that are in the rows and have not touched the job yet, `leaving` deletions that have removed the
job and not yet the row. Over MongoDB anything may come between; over SQLite a handler runs
through, and only the end of the process does (`Through`). `Startup` is `_load_active_schedules`.
`astray` is an observer: the schedules whose last edit or deletion crossed another, was refused
or was cut off.
`Fire` and `Begin` are the scheduler; `ScheduledSqlite`, `ScheduledMongo`, `UserSqlite`,
`UserMongo` the four linear executors, which differ in what they do with steps they do not know,
and `GraphErrs` and `GraphEnds` a DAG run from outside (its inside is `DagRun`), which may leave
its steps in any mix of states. A step is committed as running before its client is built: from
`Ask` on it is in its own `try` (`asked`), and what fails before (`Stumble`: the key, the
configuration, the provider) writes the run's row and leaves the step as it was. Names that `AsyncJobs` has too
carry a prefix (`SchedulesSpec`, `JobRestored`), so that one module can prove about both.

**AgentVersions.** SQLite handlers are one step each (`EditSqlite`, `RollbackSqlite`,
`AcceptSqlite`, `DeleteSqlite`); over Mongo the same handlers suspend (`EditReads`,
`FindsLast`, `Snaps`, `Writes`, …). Publication (`PublishReads`, `PublishNew`, `PublishLatest`)
is a thread beside the loop, with two queries; an invocation takes its version, runs, and
repairs an answer that does not fit its contract with a second run. `calm` records that no
version was deleted under a request, `lives` which configurations were live meanwhile: they
observe, no action reads them.

**PromptOptimizer.** `Trigger`, `Sweep` start runs; `Load` to `Decide` is the pipeline,
`EvalBegins` to `EvalFails` the engine that it nests and that users start. Deletions of rows,
suite, provider and agent may come between any two steps; a task that finds its row gone goes
on.

**KnowledgeIndex.** A request holds the lock of its base while it writes a row and its points,
with the embedding between them. `Point`s of the same document and text coincide. `torn` and
`late` observe which documents and bases had crossing or failing changes.

**Migration.** `Script` is the list of statements of `_run_sqlite_migrations` in their order,
each of which is tried and committed alone with its errors swallowed; `Early` are the schemas
an earlier version may have left. `Stop` comes between any two steps. The requests that edit
tools, bases and models between two starts are there because they make the states that the next
start has to bring up to date.

### Map

`PROJECT.json` names for each definition the lines it stands for; together they cover a little
over 30% of the implementation. The definitions that model code outside `src/` (the agent
framework's runner, SQLite's row identifiers) are marked external.

## 3. Runs

| Run | Module | Instance | Distinct states | Shows |
|---|---|---|---|---|
| `approval` | MCApprovalNode | 3 executions, two joined on one node and one on a node that approves on timeout; 2 requests | 177 556 | a gate opens by a vote, one confirmation, the record tells, a confirmed answer ends the wait, `HumanGate` implemented |
| `dag_flows` | MCDagWorkflow | every graph over 3 steps (self-loops and a dependency that does not exist included) and one workflow of each of 9 shapes; 3 supersteps; by user or agent | 95 440 | the search is exact, joins wait, nothing twice, branches respected, the status right, the run ends |
| `chat` | MCChatHitl | 2 calls, 2 requests, all places to wait | 194 912 | no call runs unapproved, refusals are honest, records tell, confirmed answers end the wait, `HumanGate` implemented |
| `async_jobs` | MCAsyncJobs | 2 jobs, 2 polls, 1 stop | 120 847 | one honest message, a verdict has its message, polling ends |
| `batching` | MCWhatsAppBatching | 3 messages, 3 messages/failures/stops together | 84 944 | stored once, agents know the chat, nobody ignored |
| `turns` | MCChatTurn | 2 turns, a team of 2, 2 rounds, 2 earlier rows, 1 kept | 335 364 | nothing forgotten by compaction, one reply, every turn ends |
| `schedules` | MCScheduledRuns | 1 schedule, 1 user's run, 2 steps, 1 round, 3 changes | 247 122 | jobs follow rows, rows and steps agree, runs settle |
| `versions` | MCAgentVersions | 2 configurations, 2 requests, 3 versions | 2 071 932 | changes can be undone, publications were live, invocations keep their version |
| `optimizer` | MCPromptOptimizer | 1 optimization, 1 user's evaluation | 522 780 | a review is complete and stands, runs settle |
| `knowledge` | MCKnowledgeIndex | 2 requests, 2 texts, 2 bases, 3 rows or points | 2 960 697 | a search finds the row's text, keys are unique, deletions leave nothing |
| `proposals` | MCToolProposals | 2 proposals, 2 names, 2 keys, 2 tools | 840 054 | only approved tools, the verdict is heard |
| `migration` | MCMigration | 2 names, 2 models, 1 agent, 2 tools, 2 bases, 2 stops | 1 283 079 | what is served is upgraded, and means what it meant |

All pass. Each takes from half a minute to a few minutes with two workers.

**Why the bounds are enough.** Races here are between two parties over one row, plus at most
one more that shares a key with it: two requests (or turns, proposals, clients) and two or
three things to ask about meet all of them. In particular:

- *approval, chat*: two answers and a timeout on one record, and another execution under the
  same event key (`approval`). The calls of `chat` have keys of their own (`OwnKeys` of
  `MCChatHitl`), because the loops that only wait for their event are not safe without (section
  6); that calls which poll may share keys is `GateSafe`. The theorems say the same for any
  number.
- *dag_flows*: the 9 shapes have each kind of edge group and combinations: joins in a row, a
  short cut around a join, a switch with both branches, with a default, with a fallback, without
  any branch (the choice is then the empty string; that the framework builds such a switch is
  assumed), a branch of two steps, and no End node. 3 supersteps (50 in the code) lets all finish but one,
  which is given up. `ValidateExact` proves the search for any graph.
- *async_jobs*: one job's poll against another's deletion, with the count at its limit after
  two polls (120 in the code). *batching*: one message that is being answered, one that is
  being flushed, one that arrives; each failure or stop takes the place of a message in
  `Events`. `PageLimit` (100) is never reached and kept as in the code.
- *turns*: with one message kept and two earlier, every turn compacts, and the other turn's
  rows come between. Rounds (10 in the code) run out after two.
- *schedules*: three changes (edits, deletions, starts by users and crashes together) allow a
  creation and two edits that cross, or an edit that a crash cuts off before the next start-up.
- *versions*: three versions are the published one, the newest, and one that a crossing request
  adds; *optimizer*: one run with the two evaluations it nests and one beside them;
  *knowledge*: two bases are one deleted and its successor, three rows or points one document
  in two texts beside another (`Docs` is empty: the root document stands for the named ones).
- *proposals*: two tools are the one that is there and the one proposed. *migration*: the
  schema varies one table or column at a time, since every statement touches one table and
  fails or works by what that table has; all columns and all tables missing are there too. Two
  stops make a start that finds what an interrupted one left.

Bounds by name: `MaxSupersteps`, `MaxPolls`, `MaxStops`, `Msgs`, `Events`, `PageLimit`, `Keep`,
`MaxRounds`, `Past`, `Steps`, `Changes`, `MaxVersions`, `MaxKbs`, `MaxStored`, `MaxTools`,
`MaxBases`, `Restarts`, and the sizes of the sets. There are no state constraints. Symmetry is
used for interchangeable requests, texts, names, keys and models, and in no run with a liveness
property.

**Deadlock** is checked in `approval`, `dag_flows`, `chat`, `async_jobs` and `batching`, whose
modules end in a step that says that nothing is left to do. The other runs set `CHECK_DEADLOCK
FALSE`: their users may stop asking, and bounded inputs run out. That nobody is stuck is
checked there by `EveryTurnEnds` and the two `RunsSettle`; `versions`, `knowledge`, `proposals`
and `migration` have no promise of progress.

`TypeOK` of each module is in no run. It is proved for all modules but `Migration`, where it
documents what the variables hold.

**Properties that need an explanation.**

- `AckResumes` (twice) must not be saved by the timeout, so timers are not fair (section 4). In
  `ApprovalNode` it excludes executions that share a node (`Alone`; section 6).
- `RefusalHonest` excludes the places that read a status that is out of date (`Stale`).
- `MessageFollows`, `OneReply`, `NobodyIgnored`, `RunsSettle` name in their formula the
  failures after which the code promises nothing: a stop between two writes, a flush that
  raised, an evaluation deleted under SQLite. A run reaches states on both sides of each
  exception.
- `ChangesCanBeUndone` excludes crossing requests over Mongo only; over SQLite it has no
  exception.

## 4. Fairness

All liveness is under weak fairness, which an asyncio event loop gives: it runs every ready
task, and the calls that a task waits for (database, model, tool) return or raise, most of them
with a timeout of their own. What people do (ask, answer, edit, delete, leave) and stops of the
process are never fair.

- `ApprovalNode`, `ChatHitl`: the steps of a handler whose event is set, and of a request that
  was begun. Timers are excluded, and in `ChatHitl` polls too, so that it is the event that
  must end the wait.
- `DagWorkflow`: the search or a build that fails, the engine, the reader. Fairness of
  executions rests on the timeouts every node has; nothing obliges a client to disconnect.
- `AsyncJobs`: `Firing` (the scheduler fires an interval job that is due) and `Going` (a poll
  goes on).
- `WhatsAppBatching`: the timer (`StartFlush`), flushes and agents, and handlers that began.
- `ChatTurn`: `Work(t)`, the steps of a turn that was accepted.
- `ScheduledRuns`: `Advance` (a run goes on), `Begin` (a job that fired starts its run), and
  `Sync` or `Remove` (the database answers a request that was begun); none obliges a trigger to
  fire, a node of a graph to fail or the process to come back.
- `PromptOptimizer`: pipelines, engines and the requests that wait for them.

The other specifications are checked for safety only.

## 5. Theorems

All are proved for every value of the constants, under the assumptions that the modules name.
Each safety proof has an invariant that is stronger than the property, because what the
property says does not by itself survive a step.

**`ApprovalNodeProofs`**
- `TypeCorrect`: `[]TypeOK`, inductive by itself.
- `GateSafe`: gates open, and deny, only for a recorded vote. `GateInv` adds two facts: a
  record with a vote in it was written by a request with that vote (`RecordIsCast`), which is
  what a verdict is read from; and only a finished execution has a verdict. `CastGrows` says
  that a vote, once cast, stays cast, so that the witnesses survive every step. No assumption
  on keys: an event set by mistake does no harm, because the record decides.
- `OneAnswer` (SQLite): at most one confirmation per question. Inductive with "a confirmed
  request has closed its record, and a closed record is never pending again".
- `RecordTells` (SQLite, a node executed once): the record that is left is the vote that was
  followed, or "expired" beside the timeout's decision. `RecordInv`: no request is between check
  and write, an event is set only once its record is closed, and a key holds the event of an
  execution of its own node.
- `AnswersReachTheirNode`: if executions have nodes of their own (`OwnKeys`), no question
  survives its execution and a confirmed answer has set the right event. `WakeInv` ties the
  dictionary to the program counters. The assumption is needed: see section 6.
- `NodesAreGates`: `Spec => ImplementsGate`. Each action maps to opening, refusing or hearing a
  gate, or to a stutter.

**`ChatProofs`** (three specifications, an invariant or two for each)
- `TypeCorrect` (this and the next four are about `ChatHitl`): needs, beside `TypeOK`, that a
  call that waits has a record.
- `GateSafe`: no execution without an approval of that call, and no call ends with an open
  question. `GateInv` says that "approved" in the store or in a session's copy was cast, that a
  copy with a vote never goes with a pending record, and that where only the event is waited
  for it is set after the record. The last needs keys that differ (`InlineKeys`, about the
  loops only). Polling calls may share keys.
- `RecordHonest` (its content is about SQLite): what the record says is what happened, and a
  confirmed denial is final, also where the status read is out of date.
- `RefusalsAreHonest`: where the record is read afresh a refusal in time rests on a denial.
- `CallsAreGates`: `Spec => ImplementsGate`.
- `BatchingTypeCorrect`, `MessagesStoredOnce` (`WhatsAppBatching`, both by `BatchingInv`):
  a flush is named by its first message, a message has one place in all flushes and the buffer
  together (`Collected`), and what is stored of each flush is its first `saved` messages, in
  order (`Recorded`). `StoredOnce` follows, but is not inductive: it does not say which of a
  flush's messages the next step stores.
- `AnswersAreInformed`, by the same: with SQLite only the first in line may read, so every earlier reply is in
  the table by then (`InLine`). With Mongo it holds while the table fits in a page of
  `find_by_session`, which returns the oldest rows: an agent of a longer chat does not
  see the newest ones (section 6). The run stays below the page.
- `OneAnswerEach` (`ChatTurn`), by `TurnsInv`: a turn has saved nothing before its answer and
  then one whole answer, behind its question (`Replied`); a member whose call is over has
  answered or failed as often as it may (`Routed`); the contributors of a collaborating team are
  its members before the current one (`Relayed`), so at the end all but the last.
- `NothingIsForgotten`, `TurnsTypeCorrect` (`ChatTurn`), by `ListsInv` on top of it: the list of
  a turn is the dialogue up to its question, maybe with the results of other agents at its end,
  whole or cut once (`Listed`). That the dialogue stays what it was while other turns commit
  rests on rows that are only added and keep their roles (`RowsGrow`); that the question is its
  next item, on rows being listed by their rank (`Ordered`, `OrderedGrows`), which needs no
  induction over the table.

**`ToolProposalsProofs`**
- `TypeCorrect`, by one step per action; who writes the toolkit is put into lemmas.
- `ToolsApproved`: the invariant has that the toolkit is `Unique` in identifiers and names,
  that the event in a slot belongs to a proposal of that key (`Filed`), and for each proposal
  that a tool with its text has a vote and that the status of its row is the vote (`Decided`).
  A new tool's identifier is fresh by `Greatest`.
- `VerdictHeard`: adds for each proposal what its handler was told (`Told`).

**`SchedulerProofs`** (what APScheduler drives; two specifications, two invariants)
- `AsyncJobs`: `TypeCorrect`, `AnnouncedOnce`, `MessagesFollow`, `DeletedAreQuiet` share one
  invariant: for each job, nothing is posted before the verdict is in the row, and only one poll
  gets to write it (`Announced`). The type of the count says that no poll is counted beyond
  `max_polls + 1`.
- `ScheduledRuns`: `SchedulesTypeCorrect`; `StoriesFit`, by `RunsInv`: beside the story itself,
  a linear run under way is not settled yet. One lemma (`Turns`) says what an executor may make
  of its run's steps, and each of the four executors is shown to do no more.
- `JobsFollowRows`, by `JobsInv`: of a schedule that nothing led astray, the only edit on its way
  equals the row and a deletion is alone, so that when neither is under way the job fits
  (`Straight`); a schedule that was never created has nothing under way (`Created`); and while
  the process is down nothing is, so that start-up meets only rows and jobs.

**`AgentVersionsProofs`**
- `TypeCorrect`: no number and no identifier passes the count of versions inserted (`Tabled`,
  `Requested`, `Settled`), so that the next identifier is fresh.
- `InvocationPinned`, `ChangesUndone`, `PublishKeepsLive`: the invariant says of each request
  where its pending snapshot is (`Placed`, `Undoable`), that its version still holds what it
  read (`Pinned`) and that the live configuration is among those it observed (`Truthful`). A
  step of one request keeps the facts of the others because they "follow" it: their own record
  does not change, or only in what they observe.

**`DagWorkflowProofs`** (any set of workflows, any graph, any limit of supersteps)
- `ValidateExact`: the search accepts and refuses correctly. `SearchInv` has three parts: the
  stack is a path of the grey nodes; what is black depends on black nodes only; no set of black
  nodes has a cycle. A node of the stack that is met again closes the cycle, which is the part
  of the path above it. `RunsTheAcyclic` is the same of the search inside a run.
- `RowStaysFailed`: the run's row never turns from "failed" to "completed". A row that says
  "failed" while events are read rests on an error that was counted (`FailureCounted`), and
  `all_ok` is false from then on.
- `TypeCorrect`: every message names steps of the workflow only, every execution has the message
  it works on. The execution identifiers that `Deliver` gives out are shown to be new.
- `TurnsKept`: no step runs before its turn. `InTurn` follows a message from the step that sends
  it: what an object says is done was run (`JoinsAreFull`), and a branch target works on the
  object that chose it (`BranchesAreChosen`). The statement had to be made sharper before it
  could be proved: the default of a switch may be a join, and then starts without waiting; the
  first output may be the default of a switch without labels; an execution of the condition
  must be the only one, because a second chooses anew on the same object.
- `StepsRunOnce`: without conditions no step runs twice, and a runner that converges has run
  every step that the start reaches. The search has left an acyclic graph; every execution but
  the first has taken one message of each dependency (`EachOnce`) and every message sent is
  taken or waits in the fan-in of a step that has not run (`Waiting`), so a step runs again only
  if a step before it did. A step after an End never runs, because an End sends nothing on:
  `EndsAreLast` names that.
- `VerdictsAreHonest`: a run says "completed" only if nothing failed or was left behind. `Told`:
  each result is in the reader's hands, in its queue or in a message; `FirstIsLast`: without
  conditions a first result stands; `Concluded`: the reader's last write is the verdict on all
  that it was told.

**`PromptOptimizerProofs`**
- `TypeCorrect`, `ReviewsAreComplete`, `ReviewsStand`: `ReviewInv` says of each run what every
  stage of its pipeline has behind it (patterns, then a prompt, then the score of an evaluation
  that is over), and that a verdict is under way only on a run whose pipeline is past its last
  write to the row. Nothing else keeps a pipeline from going back on a review, because it never
  reads the status it writes.

**`KnowledgeIndexProofs`**
- `TypeCorrect`, `OneBaseOneRow`, `SearchesFollowRows`, `NothingIsLeft` share `IndexInv`.
  `Undisturbed`: an update that crossed no other, in a base that has rows of its document, is
  the only one, has cleared the index for the document and has its own text in a row; so when
  its points arrive they are what a row says. `Cleared`: a base that is neither active nor about
  to be emptied has no row, no point and no request under way, unless one was when it was
  deleted or the index refused.
- The base may be deleted while it is written; all facts are therefore of a base *and* a
  document, and say nothing once the rows are gone.

**Assumptions on constants.** Bounds are natural numbers. `WorkflowsAssumption`: no workflow is
empty, because whoever starts a run refuses one without steps (`workflow_runs_router.py` 597,
`builtin_tools.py` 572, `scheduler_executor.py` 45). `KnowledgeAssumption`: `Blank` is a
text without words and so none of the others, and `Loose` stands for the documents without an
identifier and so is none. `ScheduledRunsAssumption`: the expression that only one parser
accepts is not one that both accept. `ChatTurnAssumption`: a team has a member, and none twice,
because its agents come from one query by identifier (`chat_router.py` 2511), and the mark of
earlier rows is no turn. `InlineKeys` and `OwnKeys` are hypotheses of the theorems
that need them.

**Only model-checked**
- All liveness (`AckResumes`, `RunEnds`, `PollingEnds`, `NobodyIgnored`, `EveryTurnEnds`, both
  `RunsSettle`), which is out of the prover's reach.
- `RunsOnce` of workflows with conditions; `StepsRunOnce` is about the others.
- `StartUpgrades` of `Migration`: not attempted yet (section 8).

## 6. Where code and expectation differ

Met while modelling. No run ends in a counterexample: the models do what the code does, and the
properties name these cases as their exceptions or do not speak of them. Line numbers are of
`src/backend`.

*Approval nodes and chat approvals*
- Joined executions of one node share the event's key, so that a confirmed answer may wake the
  wrong one or none (`dag_executor.py` 456, `workflow_runs_router.py` 577).
- Over Mongo a denial may be confirmed although the node has approved itself on timeout
  (`workflow_runs_router.py` 555).
- Startup closes no workflow approvals and no workflow runs (`main.py` 1069).
- Over SQLite the waiting handler reads the object of its own session, so that an approved call
  may be refused (`chat_router.py` 104); `test_maf_chat_streaming.py` 245 does not see it,
  because handler and endpoint share a session there. The stale read never runs a denied call
  (`RecordHonest`).
- A stream that is dropped leaves its question pending until the next start (`chat_router.py`
  283).
- The loops that only wait for their event run a call whose record is still pending
  (`chat_router.py` 3407). With identifiers that repeat from turn to turn
  (`llm/google_provider.py` 207) another answer can set that event.
- `if mongo_db and approval_id` (`chat_router.py` 75) asks Motor's database for its truth
  value, which raises.

*DAG engine*
- A join with a branch target among its dependencies gets plain edges, starts with its first
  dependency and runs once per message (`dag_executor.py` 781).
- Only the direct targets of a branch not taken are marked as skipped (402); steps not reached
  from the start are never run; a failed step still sends its message (346); a client that
  leaves leaves the row at "running".
- `execute_workflow` answers "completed" for a run that failed (`builtin_tools.py` 655) and
  chains roots that the workflow meant to be independent (568).

*Tool proposals*
- A tool may be stored while its agent is told that it was rejected (`chat_router.py` 220); a
  timeout that races an approval overwrites the row with "rejected"; a stop between the two
  commits leaves the tool with a rejected proposal.
- An edit approved after its tool was deleted and the identifier reused changes another tool.

*Chat turns*
- An embedding provider that refuses fails the request after the question was committed, which
  leaves a question without an answer.
- `_chat_mongo` uses the undefined name `user` (`chat_router.py` 4191) after committing the
  user's message: the Mongo streaming and team functions (4340-5488) are not reached.
- `find_by_session` of Mongo takes the first 100 messages (`models_mongo.py` 751).

*Schedules and linear runs*
- croniter and CronTrigger accept different expressions (`schedule_router.py` 104). What leads a
  job astray is in `astray`: updates that cross over MongoDB, a deletion that is refused and has
  removed the job already, a crash between the row and the job. Start-up puts right the jobs of
  active rows only; one of an inactive or deleted row fires on and finds nothing to run.
- A step is committed as running before its client is built: a key that cannot be decrypted, a
  configuration that is not JSON or a provider that cannot be created fails the run and leaves
  the step saying "running" (`scheduler_executor.py` 131-140, 597-606;
  `workflow_runs_router.py` 752, 1431). `StoryFits` allows that and no other.
- A schedule that is deleted during its run over SQLite: a linear run has the step just completed
  marked failed; a graph, and a run that has stored its verdict, keep it, while `last_run_at` and
  the handler's own attempt to say "failed" are lost (`scheduler_executor.py` 389, 248).
- The scheduled linear executor has no case for start, end and condition steps
  (`scheduler_executor.py` 107), the user's SQLite one none for conditions.

*Versions, API, optimizer*
- `publish_agent` checks and pins with two queries (`agent_api_router.py` 202) and writes into
  a version (205), which `models.py` 420 calls immutable.
- The version that is published can be deleted or pruned after 72 hours, and SQLite may give
  its identifier again (`services/agent_runner.py` 224); so may a deleted agent's identifier,
  whose publication stays.
- Over Mongo crossing edits lose a configuration or give a number twice (`models.py` 417).
- Accepting a proposal fails when the newest snapshot equals the live configuration
  (`optimizer_router.py` 285); accepting and rejecting that cross over Mongo may leave
  "rejected" with the prompt in place.
- Over SQLite the request that starts an evaluation closes its session under the task, which
  then settles nothing if it had read the row (`eval_router.py` 312, `eval_engine.py` 76); a
  deleted nested evaluation leaves the optimization "validating"; nothing resumes either at
  start-up.
- `DELETE /versions/agents/{agent_id}/prune` is shadowed by another route.

*Knowledge*
- Updates that cross leave two texts of one document, until the next update; an embedding that
  fails leaves a row that says indexed, without points.
- `delete_document` does not delete the points, nor does a blank text: what was deleted is
  still found. A base deleted while it is indexed leaves points that bound agents retrieve.
- Over Mongo the second of two first upserts fails with a duplicate key (500), and the unique
  index counts explicit nulls, so that a user's second base without `app_id` is refused
  (`models_mongo.py` 1112, `knowledge_router.py` 630); SQLite does not.

*Start-up*
- SQLite copies the provider's model into every agent without one at each start, Mongo only
  where the field does not exist. `workflow_runs.running_nodes_json` is added but not declared.

*Outside the models*
- `delete_session` calls `_reflect_and_store_*` with four arguments, the functions take five
  (`sessions_router.py` 220, `chat_router.py` 2181): the error is swallowed and a deleted
  session is never reflected on. Reflection takes the first 40 messages where it says the last
  40.

## 7. Not modelled

- **Sessions, messages and memory**: create, read, update and delete of one row at a time. The
  rows of a session are in `ChatTurn` and `WhatsAppBatching`. Reflection is one model call and
  one write.
- **MCP client, tools and sandbox; language model providers; WhatsApp bridge**: adapters to
  other processes, input and output without state to relate. Where a call changes state a model
  has, its action is there; elsewhere its outcome is chosen freely.
- **Authentication, authorization, secrets and rate limits**: decisions over one request, which
  unit tests cover; no protocol between actors. The models let every request through.
- **Idempotency cache**: nothing calls it. **Frontend**: its calls are the models' requests.
- *In modelled components*: the Mongo chat functions that cannot be reached; texts, prompts,
  rankings and token counts; groups and media of WhatsApp; chunking and ranking in retrieval;
  when an approval card reaches the client; transient errors of SQLite in `Migration`
  ("database is locked"), whose swallowing would leave a column out until the next start.

## 8. How the project grew, and what it has left

First the approval nodes, the engine and the chat approvals, because three actors meet there
and the stakes are highest; then, in the order of their hazards, jobs, batching, turns,
schedules, versions, optimizer, knowledge, proposals and start-up. `HumanGate` is the abstract
specification that two modules implement; `DagWorkflow` composes two.

Left, in order of worth:

1. `StartUpgrades` of `Migration`: its script is a sequence of known length, whose effect on one
   table is a fact for each of its positions.
2. Memory reflection with sessions that are deleted under it, composed with `ChatTurn`.
3. `ToolProposals` as an implementation of `HumanGate`: its gate is the toolkit's entry.
