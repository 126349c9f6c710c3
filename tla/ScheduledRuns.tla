--------------------------- MODULE ScheduledRuns ---------------------------
(***************************************************************************)
(* Workflow schedules, the scheduler's jobs that stand for them, and the   *)
(* runs they start; with the runs that users start from the workflow page, *)
(* which share the linear execution.  Schedules are rows of the            *)
(* application's database; jobs live in the scheduler's own store, survive *)
(* the process, and are brought in line with the rows at start-up and      *)
(* after each edit (schedule_router, main, scheduler_executor,             *)
(* workflow_runs_router).                                                  *)
(***************************************************************************)
EXTENDS Naturals, FiniteSets

CONSTANTS Schedules,    \* schedules
          Users,        \* runs started by a user, through the event stream
          Crons,        \* expressions that both cron parsers accept
          BadCron,      \* one that passes _validate_cron and not build_cron_trigger
          NoJob,
          Steps,        \* steps of the workflow
          MaxRounds,    \* MAX_ROUNDS, of tool calls in one step
          Changes       \* bound on edits, deletions, starts by users and crashes together

ASSUME ScheduledRunsAssumption ==
    /\ Steps \in Nat \ {0} /\ MaxRounds \in Nat /\ Changes \in Nat
    /\ BadCron \notin Crons /\ NoJob \notin Crons \cup {BadCron}
    /\ Schedules \cap Users = {}

VARIABLES
    up,        \* the process runs
    database,  \* the application's database
    shape,     \* of the workflow: linear (with a start step, with a condition), or a graph
    entry,     \* each schedule's row: there, is_active, cron_expr
    job,       \* the cron of the job the scheduler holds for it
    pending,   \* edits that are in the rows and have not touched the job yet
    leaving,   \* schedules whose job a deletion has removed, and whose row it is about to
    astray,    \* observer: an edit or a deletion of it crossed another, was refused or cut off
    phase,     \* of each executor: none, checked, working
    status,    \* of each run's row
    steps,     \* the status of each of its steps
    rounds,    \* rounds of tools of its current step
    asked,     \* the client for its current step is built: the step's own try has begun
    changes    \* edits, deletions, starts by users and crashes so far

fixed == <<database, shape>>
runs == <<phase, status, steps, rounds, asked>>
table == <<entry, job, pending, leaving, astray>>
scheduleVars == <<up, fixed, table, runs, changes>>

Runs == Schedules \cup Users
AllCrons == Crons \cup {BadCron}
Absent == [there |-> FALSE, active |-> FALSE, cron |-> NoJob]
Fresh == [i \in 1..Steps |-> "pending"]
StepStates == {"pending", "running", "completed", "failed", "skipped"}

SchedulesInit ==
    /\ up = FALSE
    /\ database \in {"sqlite", "mongo"}
    /\ shape \in {"linear", "marked", "routed", "graph"}
    /\ entry = [s \in Schedules |-> Absent]
    /\ job = [s \in Schedules |-> NoJob]
    /\ pending = {} /\ leaving = {} /\ astray = {}
    /\ phase = [r \in Runs |-> "none"]
    /\ status = [r \in Runs |-> "none"]
    /\ steps = [r \in Runs |-> Fresh]
    /\ rounds = [r \in Runs |-> 0]
    /\ asked = [r \in Runs |-> FALSE]
    /\ changes = 0

Change == changes < Changes /\ changes' = changes + 1

-----------------------------------------------------------------------------
\* scheduler.add_job(replace_existing=True): an expression the scheduler cannot parse is only
\* logged, and the job stays what it was.
Registered(old, cron) == IF cron = BadCron THEN old ELSE cron
Synced(old, active, cron) == IF active THEN Registered(old, cron) ELSE NoJob

\* Whether an edit or a deletion of s is under way, and what a further one makes of the observer.
Busy(s) == s \in leaving \/ \E p \in pending : p.of = s
Noted(s) == astray' = IF Busy(s) THEN astray \cup {s} ELSE astray \ {s}

\* With MongoDB a handler gives way at each call of the database; with SQLite it runs through, and
\* only the end of the process comes between its commit and the job.
Through == database = "mongo" \/ (pending = {} /\ leaving = {})

\* What was written is to reach the job.
Follow(s, active, cron) == pending' = pending \cup {[of |-> s, active |-> active, cron |-> cron]}

\* An identifier is given once. A schedule created inactive leaves the scheduler alone.
Create(s) ==
    /\ up /\ Change /\ entry[s] = Absent
    /\ \E a \in BOOLEAN, c \in AllCrons :
         /\ entry' = [entry EXCEPT ![s] = [there |-> TRUE, active |-> a, cron |-> c]]
         /\ IF a THEN Follow(s, a, c) ELSE UNCHANGED pending
    /\ UNCHANGED <<up, fixed, job, leaving, astray, runs>>

Update(s) ==
    /\ up /\ Change /\ entry[s].there
    /\ \E a \in BOOLEAN, c \in AllCrons :
         entry' = [entry EXCEPT ![s].active = a, ![s].cron = c] /\ Follow(s, a, c)
    /\ Noted(s)
    /\ UNCHANGED <<up, fixed, job, leaving, runs>>

Sync ==
    /\ up
    /\ \E p \in pending :
         /\ job' = [job EXCEPT ![p.of] = Synced(@, p.active, p.cron)]
         /\ pending' = pending \ {p}
    /\ UNCHANGED <<up, fixed, entry, leaving, astray, runs, changes>>

\* The job goes before the row, and before the row is known to be the caller's; then the row goes,
\* or the deletion is refused.
Delete(s) ==
    /\ up /\ Change /\ entry[s] # Absent /\ s \notin leaving
    /\ job' = [job EXCEPT ![s] = NoJob]
    /\ leaving' = leaving \cup {s}
    /\ Noted(s)
    /\ UNCHANGED <<up, fixed, entry, pending, runs>>

Remove(s) ==
    /\ up /\ s \in leaving
    /\ leaving' = leaving \ {s}
    /\ \/ entry' = [entry EXCEPT ![s].there = FALSE] /\ UNCHANGED astray
       \/ UNCHANGED entry /\ astray' = IF entry[s].there THEN astray \cup {s} ELSE astray
    /\ UNCHANGED <<up, fixed, job, pending, runs, changes>>

MayRun(s) == entry[s].there /\ entry[s].active

\* Start-up: a job for every active row, replacing what the store kept; jobs of other rows stay.
JobRestored_KeepOld(s) == IF MayRun(s) /\ job[s] = NoJob
                          THEN Registered(job[s], entry[s].cron) ELSE job[s]
JobRestored(s) == IF MayRun(s) THEN Registered(job[s], entry[s].cron) ELSE job[s]

Startup ==
    /\ ~up /\ up' = TRUE
    /\ job' = [s \in Schedules |-> JobRestored(s)]
    /\ astray' = {s \in astray : ~MayRun(s)}
    /\ UNCHANGED <<fixed, entry, pending, leaving, runs, changes>>

\* A crash or a stop (scheduler.shutdown(wait=False)): executors and requests are gone, no run's
\* row is touched.
Crash ==
    /\ up /\ Change /\ up' = FALSE
    /\ phase' = [r \in Runs |-> "none"]
    /\ pending' = {} /\ leaving' = {}
    /\ astray' = astray \cup {s \in Schedules : Busy(s)}
    /\ UNCHANGED <<fixed, entry, job, status, steps, rounds, asked>>

-----------------------------------------------------------------------------
\* The trigger fires; the scheduler runs one instance of a job at a time. A row that is gone or
\* inactive starts nothing.
Fire(s) ==
    /\ up /\ job[s] # NoJob /\ phase[s] = "none" /\ MayRun(s)
    /\ phase' = [phase EXCEPT ![s] = "checked"]
    /\ UNCHANGED <<up, fixed, table, status, steps, rounds, asked, changes>>

\* The run's row, after the workflow was loaded (which may be gone).
Begin(s) ==
    /\ phase[s] = "checked"
    /\ \/ /\ phase' = [phase EXCEPT ![s] = "working"]
          /\ status' = [status EXCEPT ![s] = "running"]
          /\ steps' = [steps EXCEPT ![s] = Fresh]
       \/ /\ phase' = [phase EXCEPT ![s] = "none"]
          /\ UNCHANGED <<status, steps>>
    /\ UNCHANGED <<up, fixed, table, rounds, asked, changes>>

\* A user starts a run (POST /workflows/{id}/run), once.
RunByUser(u) ==
    /\ up /\ Change /\ phase[u] = "none" /\ status[u] = "none"
    /\ phase' = [phase EXCEPT ![u] = "working"]
    /\ status' = [status EXCEPT ![u] = "running"]
    /\ UNCHANGED <<up, fixed, table, steps, rounds, asked>>

-----------------------------------------------------------------------------
Linear == shape # "graph"
Working(r) == phase[r] = "working"
Over == {"completed", "skipped"}

\* The step whose turn it is, and what it is: only the first may be a marker or a condition.
At(r, i) == Working(r) /\ Linear /\ steps[r][i] = "pending"
            /\ \A j \in 1..(i - 1) : steps[r][j] \in Over
Marker(i) == shape = "marked" /\ i = 1
Condition(i) == shape = "routed" /\ i = 1
ForAgent(i) == ~Marker(i) /\ ~Condition(i)

MarkStep(r, i, s) == steps' = [steps EXCEPT ![r][i] = s]

\* _update_run: the row may have been deleted meanwhile.
Written(r, s) == [status EXCEPT ![r] = IF @ = "deleted" THEN @ ELSE s]
Stop(r, verdict) == /\ phase' = [phase EXCEPT ![r] = "none"]
                    /\ status' = Written(r, verdict)
                    /\ rounds' = [rounds EXCEPT ![r] = 0]
                    /\ UNCHANGED asked
Stay == UNCHANGED <<phase, status>>
Elsewhere == UNCHANGED <<up, fixed, table, changes>>

\* A step without an agent or a provider fails before it starts.
Unprovided(r, i) == MarkStep(r, i, "failed") /\ Stop(r, "failed") /\ Elsewhere

StartStep(r, i) ==
    /\ MarkStep(r, i, "running") /\ asked' = [asked EXCEPT ![r] = FALSE]
    /\ UNCHANGED rounds /\ Stay /\ Elsewhere

\* A start or an end step passes its input on; a condition picks a branch, the first when the
\* model cannot be asked; a step behind the branch that was not picked is skipped.
PassStep(r, i) == MarkStep(r, i, "completed") /\ UNCHANGED <<rounds, asked>> /\ Stay /\ Elsewhere
Route(r, i) == MarkStep(r, i, "completed") /\ UNCHANGED <<rounds, asked>> /\ Stay /\ Elsewhere
Skip(r, i) == MarkStep(r, i, "skipped") /\ UNCHANGED <<rounds, asked>> /\ Stay /\ Elsewhere

\* An exception outside the try of a step (the agent of a step that has none is read; the key is
\* decrypted, the configuration parsed, the client built): the row says "failed", and every step
\* what it said before.
Stumble(r) == Stop(r, "failed") /\ UNCHANGED steps /\ Elsewhere

\* The client, its tools and its MCP servers are there.
Ask(r) ==
    /\ asked' = [asked EXCEPT ![r] = TRUE]
    /\ UNCHANGED <<steps, rounds>> /\ Stay /\ Elsewhere

\* A step's agent calls tools, round after round up to the limit.
MayCall(r) == rounds[r] < MaxRounds
CallTools(r, i) ==
    /\ MayCall(r)
    /\ rounds' = [rounds EXCEPT ![r] = IF @ < MaxRounds THEN @ + 1 ELSE 0]
    /\ UNCHANGED <<steps, asked>> /\ Stay /\ Elsewhere

\* A scheduled run over SQLite reads its schedule again after it has committed a step: deleted
\* meanwhile, the step just completed is marked failed instead.
Orphaned(r) == r \in Schedules /\ database = "sqlite" /\ ~entry[r].there

StepCompletes(r, i) ==
    /\ MarkStep(r, i, "completed") /\ rounds' = [rounds EXCEPT ![r] = 0]
    /\ asked' = [asked EXCEPT ![r] = FALSE] /\ Stay /\ Elsewhere

\* Mutants: the step is left as it was; the row is.
StepFails_Unmarked(r, i) ==
    /\ UNCHANGED steps /\ Stop(r, "failed") /\ Elsewhere
StepFails_Unsaid(r, i) ==
    /\ MarkStep(r, i, "failed") /\ Stop(r, "running") /\ Elsewhere

StepFails(r, i) ==
    /\ MarkStep(r, i, "failed") /\ Stop(r, "failed") /\ Elsewhere

\* The step under way: its client, then rounds of tools, then its answer or an error.
AgentStep(r, i) ==
    /\ Working(r) /\ Linear /\ steps[r][i] = "running"
    /\ \/ ~asked[r] /\ (Ask(r) \/ Stumble(r))
       \/ asked[r] /\ \/ CallTools(r, i)
                      \/ ~Orphaned(r) /\ StepCompletes(r, i)
                      \/ StepFails(r, i)

Finish(r) ==
    /\ Working(r) /\ Linear /\ \A i \in 1..Steps : steps[r][i] \in Over
    /\ Stop(r, "completed") /\ UNCHANGED steps /\ Elsewhere

\* The executors. A schedule's have no case for markers and conditions.
ScheduledSqlite(r) ==
    /\ r \in Schedules /\ database = "sqlite"
    /\ \/ Finish(r)
       \/ \E i \in 1..Steps :
            \/ AgentStep(r, i)
            \/ At(r, i) /\ ForAgent(i) /\ (Unprovided(r, i) \/ StartStep(r, i))
            \/ At(r, i) /\ ~ForAgent(i) /\ Stumble(r)

ScheduledMongo(r) ==
    /\ r \in Schedules /\ database = "mongo"
    /\ \/ Finish(r)
       \/ \E i \in 1..Steps :
            \/ AgentStep(r, i)
            \/ At(r, i) /\ ForAgent(i) /\ (Unprovided(r, i) \/ StartStep(r, i))
            \/ At(r, i) /\ ~ForAgent(i) /\ Stumble(r)

\* The executor of a user's run over SQLite has no case for a condition, and finds no agent.
UserSqlite(r) ==
    /\ r \in Users /\ database = "sqlite"
    /\ \/ Finish(r)
       \/ \E i \in 1..Steps :
            \/ AgentStep(r, i)
            \/ At(r, i) /\ ForAgent(i) /\ StartStep(r, i)
            \/ At(r, i) /\ ~Marker(i) /\ Unprovided(r, i)
            \/ At(r, i) /\ Marker(i) /\ PassStep(r, i)

UserMongo(r) ==
    /\ r \in Users /\ database = "mongo"
    /\ \/ Finish(r)
       \/ \E i \in 1..Steps :
            \/ AgentStep(r, i)
            \/ At(r, i) /\ ForAgent(i) /\ (Unprovided(r, i) \/ StartStep(r, i))
            \/ At(r, i) /\ Marker(i) /\ PassStep(r, i)
            \/ At(r, i) /\ Condition(i) /\ Route(r, i)
            \/ At(r, i) /\ i > 1 /\ shape = "routed" /\ Skip(r, i)

\* A graph is drained (DagRun models its inside); the row says "failed" from the first error on.
GraphErrs(r) ==
    /\ Working(r) /\ ~Linear
    /\ status' = Written(r, "failed")
    /\ UNCHANGED <<phase, steps, rounds, asked>> /\ Elsewhere

\* Its verdict, with the steps the engine leaves: some completed, and others skipped; those of a
\* failed graph may as well have failed, never begun (it could not be built) or still say running
\* (the runner raised). When the schedule was deleted meanwhile, the note of its last run fails
\* after the verdict is stored, and so does the attempt to say so.
GraphEnds(r) ==
    /\ Working(r) /\ ~Linear
    /\ \E v \in {"completed", "failed"}, plan \in [1..Steps -> StepStates] :
         /\ v = "completed" => status[r] # "failed" /\ \A i \in 1..Steps : plan[i] \in Over
         /\ Stop(r, v) /\ steps' = [steps EXCEPT ![r] = plan]
    /\ Elsewhere

\* The user's client leaves the stream, which cancels the generator.
LeaveRun(u) ==
    /\ Working(u) /\ Change
    /\ phase' = [phase EXCEPT ![u] = "none"]
    /\ UNCHANGED <<up, fixed, table, status, steps, rounds, asked>>

\* DELETE /workflow-runs/{id}; scheduled runs have no session, so no list shows them.
DeleteRun(u) ==
    /\ up /\ Change /\ status[u] \notin {"none", "deleted"}
    /\ status' = [status EXCEPT ![u] = "deleted"]
    /\ UNCHANGED <<up, fixed, table, phase, steps, rounds, asked>>

-----------------------------------------------------------------------------
Advance(r) == ScheduledSqlite(r) \/ ScheduledMongo(r) \/ UserSqlite(r) \/ UserMongo(r) \/ GraphEnds(r)

SchedulesNext ==
    \/ Startup \/ Crash \/ Sync \/ \E s \in Schedules : Remove(s)
    \/ /\ Through
       /\ \/ \E s \in Schedules : Create(s) \/ Update(s) \/ Delete(s) \/ Fire(s) \/ Begin(s)
          \/ \E u \in Users : RunByUser(u) \/ LeaveRun(u) \/ DeleteRun(u)
          \/ \E r \in Runs : Advance(r) \/ GraphErrs(r)

SchedulesSpec == SchedulesInit /\ [][SchedulesNext]_scheduleVars

\* While the process runs, the event loop drives what was started, the database answers and the
\* model calls of a step return; nothing promises that a trigger fires, that a node of a
\* graph fails or that the process comes back.
FairSchedules ==
    /\ SchedulesSpec
    /\ \A r \in Runs : WF_scheduleVars(Through /\ Advance(r))
    /\ \A s \in Schedules : WF_scheduleVars(Through /\ Begin(s))
    /\ WF_scheduleVars(Sync \/ \E s \in Schedules : Remove(s))

-----------------------------------------------------------------------------
(* Types. *)
SchedulesTypeOK ==
    /\ up \in BOOLEAN /\ database \in {"sqlite", "mongo"}
    /\ shape \in {"linear", "marked", "routed", "graph"} /\ changes \in 0..Changes
    /\ entry \in [Schedules -> [there : BOOLEAN, active : BOOLEAN, cron : AllCrons \cup {NoJob}]]
    /\ job \in [Schedules -> Crons \cup {NoJob}]
    /\ pending \subseteq [of : Schedules, active : BOOLEAN, cron : AllCrons]
    /\ leaving \subseteq Schedules /\ astray \subseteq Schedules
    /\ phase \in [Runs -> {"none", "checked", "working"}]
    /\ status \in [Runs -> {"none", "running", "completed", "failed", "deleted"}]
    /\ steps \in [Runs -> [1..Steps -> StepStates]]
    /\ rounds \in [Runs -> 0..MaxRounds] /\ asked \in [Runs -> BOOLEAN]

(* A run's row and its steps tell the same story at every moment. A completed run has only steps
   that were completed or skipped. Of a linear workflow: a failed run has a step that was not, and
   one it leaves as running was never put to the model (an error of a model or of a tool always
   marks its step; what goes wrong while the client is built marks none); a step has begun only
   after all before it are over; only a user's run with a condition skips. *)
StoryFits ==
    \A r \in Runs :
      /\ status[r] = "completed" => \A i \in 1..Steps : steps[r][i] \in Over
      /\ Linear =>
           /\ status[r] = "failed" => /\ \E i \in 1..Steps : steps[r][i] \notin Over
                                      /\ \A i \in 1..Steps : steps[r][i] = "running" => ~asked[r]
           /\ \A i, j \in 1..Steps : i < j /\ steps[r][j] # "pending" => steps[r][i] \in Over
           /\ (\E i \in 1..Steps : steps[r][i] = "skipped") => r \in Users /\ database = "mongo"

(* Every run that has begun comes to an end, and an executor that ends while the process runs
   has settled its run: only a crash, or the client of a user's run leaving, can abandon a row
   as running. *)
RunsSettle ==
    /\ \A r \in Runs : phase[r] = "working" ~> phase[r] = "none"
    /\ [][\A s \in Schedules : phase[s] = "working" /\ phase'[s] = "none" /\ up' =>
                                 status'[s] \in {"completed", "failed"}]_scheduleVars

\* The job the row asks for; an expression the scheduler cannot parse asks for none in particular.
JobFits(s) == IF MayRun(s) THEN entry[s].cron \in Crons => job[s] = entry[s].cron
              ELSE job[s] = NoJob

(* The scheduler holds for every schedule the job its row asks for, through edits, deletions,
   crashes and start-ups (_sync_apscheduler_job, _remove_apscheduler_job, _load_active_schedules).
   Three things lead a job astray, and nothing else does: edits and deletions of one schedule that
   cross, a deletion that is refused, and a crash between the row and the job. The next edit or
   deletion that crosses no other puts it right, and so does the next start-up if the schedule
   is active. *)
JobsFollow == \A s \in Schedules : s \in astray \/ Busy(s) \/ JobFits(s)
=============================================================================
