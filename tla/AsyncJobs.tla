------------------------------- MODULE AsyncJobs -------------------------------
(* Background checks of long-running MCP jobs: schedule_async_check stores an   *)
(* AsyncJob row and registers an interval job with APScheduler; every firing    *)
(* runs poll_async_job_sqlite or poll_async_job_mongo, which calls the MCP tool, *)
(* asks the agent's model for a verdict and, on a genuine one, marks the row,   *)
(* posts a message into the session and removes the interval job.               *)
(*                                                                              *)
(* With SQLite everything between two awaits of a handler is one step of the    *)
(* event loop; the states in HeldSteps are places inside such a step, kept      *)
(* apart only because the process may stop there.  With Mongo every database    *)
(* call suspends its handler.  APScheduler's job store is a database: interval  *)
(* jobs survive a restart.                                                      *)
EXTENDS Naturals, Sequences

CONSTANTS
    Job,      \* the checks that are asked for
    MaxPolls, \* AsyncJob.max_polls, 120 in the code
    MaxStops  \* bound: how often the process stops

ASSUME MaxPollsAssumption == MaxPolls \in Nat \ {0}
ASSUME MaxStopsAssumption == MaxStops \in Nat

Stores == {"sqlite", "mongo"}
Outcomes == {"completed", "failed", "expired"}
RowStates == {"absent", "pending", "deleted"} \cup Outcomes
PollStates == {"idle", "registering", "leaving", "looking", "calling", "counting",
               "judging", "marking", "resolved", "posted"}

VARIABLES
    store,    \* DATABASE_TYPE, fixed for the life of the system
    provider, \* does the agent's provider configuration work ("broken": create_provider raises)
    row,      \* AsyncJob.status, and whether the row exists
    polls,    \* AsyncJob.poll_count
    timer,    \* does APScheduler hold the interval job
    pc,       \* where the poll of each job is; max_instances = 1
    verdict,  \* what that poll is about to write
    posted,   \* the messages about each job, by their label
    server,   \* is the MCP server of the jobs still configured
    agent,    \* "here", "going" (its row and messages are deleted, its jobs not yet), "gone"
    stops,    \* how often the process has stopped
    lost      \* observer: it stopped between marking and posting

rigid == <<store, provider>>
jobVars == <<row, polls, timer, pc, verdict, posted>>
worldVars == <<server, agent, stops, lost>>
vars == <<store, provider, row, polls, timer, pc, verdict, posted, server, agent, stops, lost>>

TypeOK ==
    /\ store \in Stores
    /\ provider \in {"works", "broken"}
    /\ row \in [Job -> RowStates]
    /\ polls \in [Job -> 0 .. MaxPolls + 1]
    /\ timer \in [Job -> BOOLEAN]
    /\ pc \in [Job -> PollStates]
    /\ verdict \in [Job -> Outcomes]
    /\ posted \in [Job -> Seq(Outcomes)]
    /\ server \in BOOLEAN
    /\ agent \in {"here", "going", "gone"}
    /\ stops \in 0 .. MaxStops
    /\ lost \in [Job -> BOOLEAN]

Init ==
    /\ store \in Stores
    /\ provider \in {"works", "broken"}
    /\ row = [j \in Job |-> "absent"]
    /\ polls = [j \in Job |-> 0]
    /\ timer = [j \in Job |-> FALSE]
    /\ pc = [j \in Job |-> "idle"]
    /\ verdict = [j \in Job |-> "expired"]
    /\ posted = [j \in Job |-> <<>>]
    /\ server = TRUE
    /\ agent = "here"
    /\ stops = 0
    /\ lost = [j \in Job |-> FALSE]

--------------------------------------------------------------------------------
(* Steps of the event loop *)

\* Inside a step of the event loop, where nobody else runs.
HeldSteps == IF store = "sqlite" THEN {"registering", "resolved", "posted"} ELSE {}

LoopFree(j) == \A i \in Job \ {j} : pc[i] \notin HeldSteps

Goto(j, place) == pc' = [pc EXCEPT ![j] = place]

\* Mongo: {"$set": ...} on a row that is gone changes nothing and raises nothing.
SetRow(j, status) ==
    row' = [row EXCEPT ![j] = IF @ = "deleted" THEN @ ELSE status]

\* poll_count of this poll: read at its start, and written by nobody else.
Count(j) == polls[j] + 1

SetCount(j) ==
    polls' = [polls EXCEPT ![j] = IF row[j] = "deleted" THEN @ ELSE Count(j)]

\* Mutant: the count is not stored when a poll comes to nothing.
KeepCount_Not(j) == UNCHANGED polls

\* The count of a poll that found no verdict.
KeepCount(j) == SetCount(j)

--------------------------------------------------------------------------------
(* schedule_async_check *)

\* The arguments name a server that was connected when the turn began (it may
\* be deleted by now, and so may the agent): store the row.
Persist(j) ==
    /\ pc[j] = "idle" /\ row[j] = "absent" /\ LoopFree(j)
    /\ row' = [row EXCEPT ![j] = "pending"]
    /\ Goto(j, "registering")
    /\ UNCHANGED <<polls, timer, verdict, posted>>
    /\ UNCHANGED worldVars /\ UNCHANGED rigid

\* scheduler.add_job, and the model is told that a message will come.
Register(j) ==
    /\ pc[j] = "registering" /\ LoopFree(j)
    /\ timer' = [timer EXCEPT ![j] = TRUE]
    /\ Goto(j, "idle")
    /\ UNCHANGED <<row, polls, verdict, posted>>
    /\ UNCHANGED worldVars /\ UNCHANGED rigid

--------------------------------------------------------------------------------
(* One poll *)

Due(j) == timer[j] /\ pc[j] = "idle" /\ LoopFree(j)

\* Mutant: the poll does not look at the status.
Open_Any(j) == row[j] # "deleted"

Open(j) == row[j] = "pending"

\* _unschedule of a poll that finds its job gone or resolved.
StopAtOnce(j) ==
    /\ store = "sqlite" /\ Due(j) /\ ~Open(j)
    /\ timer' = [timer EXCEPT ![j] = FALSE]
    /\ UNCHANGED <<row, polls, pc, verdict, posted>>
    /\ UNCHANGED worldVars /\ UNCHANGED rigid

\* Mutant: a job that expires or fails without a verdict is not announced.
Mark_Silent(j, status) ==
    /\ SetRow(j, status)
    /\ verdict' = [verdict EXCEPT ![j] = status]
    /\ SetCount(j)
    /\ Goto(j, "posted")

\* Mark the row and go on to post the message.
Mark(j, status) ==
    /\ SetRow(j, status)
    /\ verdict' = [verdict EXCEPT ![j] = status]
    /\ SetCount(j)
    /\ Goto(j, "resolved")

Exhausted(j) == Count(j) > MaxPolls

\* SQLite, up to the first await: too many polls, no server, or on to the tool.
GiveUp(j) ==
    /\ store = "sqlite" /\ Due(j) /\ Open(j) /\ Exhausted(j)
    /\ Mark(j, "expired")
    /\ UNCHANGED <<timer, posted>>
    /\ UNCHANGED worldVars /\ UNCHANGED rigid

ServerGone(j) ==
    /\ store = "sqlite" /\ Due(j) /\ Open(j) /\ ~Exhausted(j) /\ ~server
    /\ Mark(j, "failed")
    /\ UNCHANGED <<timer, posted>>
    /\ UNCHANGED worldVars /\ UNCHANGED rigid

Call(j) ==
    /\ store = "sqlite" /\ Due(j) /\ Open(j) /\ ~Exhausted(j) /\ server
    /\ Goto(j, "calling")
    /\ UNCHANGED <<row, polls, timer, verdict, posted>>
    /\ UNCHANGED worldVars /\ UNCHANGED rigid

\* Mongo: what the poll makes of the row it has read, one await later.
Load(j) ==
    /\ store = "mongo" /\ Due(j)
    /\ \/ ~Open(j) /\ Goto(j, "leaving") /\ UNCHANGED verdict
       \/ /\ Open(j) /\ Exhausted(j)
          /\ Goto(j, "marking") /\ verdict' = [verdict EXCEPT ![j] = "expired"]
       \/ Open(j) /\ ~Exhausted(j) /\ Goto(j, "looking") /\ UNCHANGED verdict
    /\ UNCHANGED <<row, polls, timer, posted>>
    /\ UNCHANGED worldVars /\ UNCHANGED rigid

Leave(j) ==
    /\ pc[j] = "leaving" /\ LoopFree(j)
    /\ timer' = [timer EXCEPT ![j] = FALSE]
    /\ Goto(j, "idle")
    /\ UNCHANGED <<row, polls, verdict, posted>>
    /\ UNCHANGED worldVars /\ UNCHANGED rigid

\* MCPServerCollection.find_by_id
FindServer(j) ==
    /\ pc[j] = "looking" /\ LoopFree(j)
    /\ IF server THEN Goto(j, "calling") /\ UNCHANGED verdict
       ELSE Goto(j, "marking") /\ verdict' = [verdict EXCEPT ![j] = "failed"]
    /\ UNCHANGED <<row, polls, timer, posted>>
    /\ UNCHANGED worldVars /\ UNCHANGED rigid

\* The tool call raises.  SQLite commits the count; on a deleted row that
\* commit raises in its turn, which is logged.
ToolFails(j) ==
    /\ pc[j] = "calling" /\ LoopFree(j)
    /\ IF store = "sqlite" THEN Goto(j, "idle") /\ KeepCount(j)
       ELSE Goto(j, "counting") /\ UNCHANGED polls
    /\ UNCHANGED <<row, timer, verdict, posted>>
    /\ UNCHANGED worldVars /\ UNCHANGED rigid

\* The tool answers.  SQLite commits result and count first (and ends here when
\* the row is gone); an agent without a provider gives "pending", a provider
\* configuration that does not work raises.
ToolAnswers(j) ==
    /\ pc[j] = "calling" /\ LoopFree(j)
    /\ IF store = "sqlite"
       THEN /\ KeepCount(j)
            /\ Goto(j, IF row[j] = "deleted" \/ agent # "here" \/ provider = "broken"
                       THEN "idle" ELSE "judging")
       ELSE /\ UNCHANGED polls
            /\ Goto(j, CASE agent # "here" -> "counting"
                         [] provider = "broken" -> "idle"
                         [] OTHER -> "judging")
    /\ UNCHANGED <<row, timer, verdict, posted>>
    /\ UNCHANGED worldVars /\ UNCHANGED rigid

\* _classify_completion: PENDING, anything unclear, or an error of the model.
JudgePending(j) ==
    /\ pc[j] = "judging" /\ LoopFree(j)
    /\ Goto(j, IF store = "sqlite" THEN "idle" ELSE "counting")
    /\ UNCHANGED <<row, polls, timer, verdict, posted>>
    /\ UNCHANGED worldVars /\ UNCHANGED rigid

\* SQLite: the commit matched a row; otherwise it raises and the poll ends.
RowStillThere(j) == row[j] # "deleted"

\* COMPLETE or FAILED.
JudgeFinal(j, status) ==
    /\ pc[j] = "judging" /\ LoopFree(j)
    /\ CASE store = "mongo" -> 
              /\ Goto(j, "marking") /\ verdict' = [verdict EXCEPT ![j] = status]
              /\ UNCHANGED row
         [] store = "sqlite" /\ RowStillThere(j) ->
              /\ SetRow(j, status) /\ verdict' = [verdict EXCEPT ![j] = status]
              /\ Goto(j, "resolved")
         [] OTHER -> Goto(j, "idle") /\ UNCHANGED <<row, verdict>>
    /\ UNCHANGED <<polls, timer, posted>>
    /\ UNCHANGED worldVars /\ UNCHANGED rigid

\* Mongo: AsyncJobCollection.update
WriteCount(j) ==
    /\ pc[j] = "counting" /\ LoopFree(j)
    /\ KeepCount(j)
    /\ Goto(j, "idle")
    /\ UNCHANGED <<row, timer, verdict, posted>>
    /\ UNCHANGED worldVars /\ UNCHANGED rigid

WriteVerdict(j) ==
    /\ pc[j] = "marking" /\ LoopFree(j)
    /\ Mark(j, verdict[j])
    /\ UNCHANGED <<timer, posted>>
    /\ UNCHANGED worldVars /\ UNCHANGED rigid

\* _post_job_message
Post(j) ==
    /\ pc[j] = "resolved" /\ LoopFree(j)
    /\ posted' = [posted EXCEPT ![j] = Append(@, verdict[j])]
    /\ Goto(j, "posted")
    /\ UNCHANGED <<row, polls, timer, verdict>>
    /\ UNCHANGED worldVars /\ UNCHANGED rigid

\* _unschedule
Unschedule(j) ==
    /\ pc[j] = "posted" /\ LoopFree(j)
    /\ timer' = [timer EXCEPT ![j] = FALSE]
    /\ Goto(j, "idle")
    /\ UNCHANGED <<row, polls, verdict, posted>>
    /\ UNCHANGED worldVars /\ UNCHANGED rigid

--------------------------------------------------------------------------------
(* The world around *)

NobodyHeld == \A j \in Job : pc[j] \notin HeldSteps

\* Somebody deletes the MCP server.
DeleteServer ==
    /\ server /\ NobodyHeld
    /\ server' = FALSE
    /\ UNCHANGED <<agent, stops, lost>>
    /\ UNCHANGED jobVars /\ UNCHANGED rigid

DropJobs == row' = [j \in Job |-> IF row[j] = "absent" THEN "absent" ELSE "deleted"]

\* delete_agent: with SQLite the agent, its messages and its jobs in one commit.
DeleteAgent ==
    /\ agent = "here" /\ NobodyHeld
    /\ IF store = "sqlite" THEN agent' = "gone" /\ DropJobs
       ELSE agent' = "going" /\ UNCHANGED row
    /\ UNCHANGED <<polls, timer, pc, verdict, posted, server, stops, lost>>
    /\ UNCHANGED rigid

\* Mongo: the jobs some awaits later.
DeleteJobs ==
    /\ agent = "going" /\ NobodyHeld
    /\ agent' = "gone"
    /\ DropJobs
    /\ UNCHANGED <<polls, timer, pc, verdict, posted, server, stops, lost>>
    /\ UNCHANGED rigid

\* _load_pending_async_jobs
Restored == [j \in Job |-> timer[j] \/ row[j] = "pending"]

\* The process stops and starts again: the polls under way are gone, and a
\* deletion that was cut short is not taken up again.
Restart ==
    /\ stops < MaxStops /\ stops' = stops + 1
    /\ pc' = [j \in Job |-> "idle"]
    /\ timer' = Restored
    /\ lost' = [j \in Job |-> lost[j] \/ pc[j] = "resolved"]
    /\ agent' = IF agent = "going" THEN "gone" ELSE agent
    /\ UNCHANGED <<row, polls, verdict, posted, server>>
    /\ UNCHANGED rigid

\* Every check that was asked for is over.
Quiet ==
    /\ \A j \in Job : pc[j] = "idle" /\ ~timer[j] /\ row[j] # "pending"
    /\ UNCHANGED vars

Firing(j) == StopAtOnce(j) \/ GiveUp(j) \/ ServerGone(j) \/ Call(j) \/ Load(j)

Going(j) ==
    \/ Register(j) \/ Leave(j) \/ FindServer(j)
    \/ ToolFails(j) \/ ToolAnswers(j)
    \/ JudgePending(j) \/ (\E status \in {"completed", "failed"} : JudgeFinal(j, status))
    \/ WriteCount(j) \/ WriteVerdict(j) \/ Post(j) \/ Unschedule(j)

Next ==
    \/ \E j \in Job : Persist(j) \/ Firing(j) \/ Going(j)
    \/ DeleteServer \/ DeleteAgent \/ DeleteJobs
    \/ Restart
    \/ Quiet

Spec == Init /\ [][Next]_vars

\* The interval fires, tools and models answer or fail in the end, and the event
\* loop goes on; nothing is assumed of what they answer.
FairSpec == Spec /\ \A j \in Job : WF_vars(Firing(j)) /\ WF_vars(Going(j))

--------------------------------------------------------------------------------
(* Properties *)

\* Whatever polls, deletions and restarts do, a job is announced at most once,
\* and the announcement says what its row says: a poll that starts after the
\* verdict was written finds it and stops (`job.status != "pending"`).
OneHonestMessage ==
    \A j \in Job :
        /\ Len(posted[j]) <= 1
        /\ posted[j] # <<>> => row[j] \in {posted[j][1], "deleted"}

\* A resolved job has its message, or is just getting it; the one exception is a
\* process that stopped between the two writes.
MessageFollows ==
    \A j \in Job :
        row[j] \in Outcomes => posted[j] # <<>> \/ pc[j] = "resolved" \/ lost[j]

\* With SQLite a job that was deleted together with its agent posts nothing any
\* more, not even from a poll that was waiting for its tool or its model.
DeletedStaysQuiet ==
    [][\A j \in Job : 
        store = "sqlite" /\ row[j] = "deleted" => posted'[j] = posted[j]]_vars

Running(j) == timer[j] \/ row[j] = "pending"

\* No job is polled for ever or left pending without being polled, whatever the
\* tool and the model answer: it is resolved, deleted or used up by max_polls,
\* unless with Mongo its provider raises each time (then a poll never stores its
\* count).  A process that stopped takes its pending jobs up again.
PollingEnds ==
    \A j \in Job :
        (Running(j) /\ (store = "sqlite" \/ provider = "works")) ~> ~Running(j)

================================================================================
