---------------------------- MODULE SchedulerProofs ----------------------------
(* What the scheduler of the process drives.  Schedules and the runs they start: *)
(* that a job follows the row of its schedule, and that a run's row and its      *)
(* steps agree, for any schedules, users, expressions, steps and changes.        *)
(* Background jobs: that they keep their types and are announced at most once,   *)
(* for any jobs, any max_polls, both stores and any number of stops.  The two    *)
(* share the scheduler and nothing else; each has its own specification and its  *)
(* own invariant.                                                                *)
EXTENDS AsyncJobs, ScheduledRuns, TLAPS

--------------------------------------------------------------------------------
(* Schedules and runs *)

RowRecords == [there : BOOLEAN, active : BOOLEAN, cron : AllCrons \cup {NoJob}]
Edits == [of : Schedules, active : BOOLEAN, cron : AllCrons]
Plans == [1..Steps -> StepStates]
Verdicts == {"none", "running", "completed", "failed", "deleted"}

\* The types of the schedules, and of the runs.
TableOK ==
    /\ up \in BOOLEAN /\ entry \in [Schedules -> RowRecords]
    /\ job \in [Schedules -> Crons \cup {NoJob}]
    /\ pending \subseteq Edits /\ leaving \subseteq Schedules /\ astray \subseteq Schedules
RunsOK ==
    /\ database \in {"sqlite", "mongo"} /\ shape \in {"linear", "marked", "routed", "graph"}
    /\ changes \in 0..Changes
    /\ phase \in [Runs -> {"none", "checked", "working"}] /\ status \in [Runs -> Verdicts]
    /\ steps \in [Runs -> Plans] /\ rounds \in [Runs -> 0..MaxRounds]
    /\ asked \in [Runs -> BOOLEAN]

\* A schedule that was never created has the row that says so, and nothing is done to it.
Created(s) == entry[s].cron = NoJob => entry[s] = Absent /\ ~Busy(s)

\* What was last written of a schedule that is not astray is what the one edit under way has yet
\* to tell the scheduler; a deletion under way is alone; and when nothing is, the job fits.
Straight(s) ==
    /\ \A p \in pending : p.of = s =>
          entry[s].there /\ p.active = entry[s].active /\ p.cron = entry[s].cron
    /\ s \in leaving => job[s] = NoJob /\ \A p \in pending : p.of # s
    /\ Busy(s) \/ JobFits(s)

\* The inductive invariant of the schedules: between a stop and a start-up nothing is under way.
JobsInv ==
    /\ ~up => pending = {} /\ leaving = {}
    /\ \A s \in Schedules : Created(s) /\ (s \in astray \/ Straight(s))

\* The steps of a run are taken in their order.
InOrder(plan) == \A i, j \in 1..Steps : i < j /\ plan[j] # "pending" => plan[i] \in Over

\* What a run's row, its steps and its executor may say together.
Fits(r, plan, p, s, a) ==
    /\ s = "completed" => \A i \in 1..Steps : plan[i] \in Over
    /\ Linear =>
         /\ s = "failed" => /\ \E i \in 1..Steps : plan[i] \notin Over
                            /\ a => \A i \in 1..Steps : plan[i] # "running"
         /\ InOrder(plan)
         /\ (\E i \in 1..Steps : plan[i] = "skipped") => r \in Users /\ database = "mongo"
         /\ p = "working" => s \in {"running", "deleted"}
Story(r) == Fits(r, steps[r], phase[r], status[r], asked[r])

\* The inductive invariant of the runs: StoryFits, and that a linear run under way is not settled,
\* which is what lets its executor settle it.
RunsInv == RunsOK /\ \A r \in Runs : Story(r)

\* The type invariant, with names for its sets.
LEMMA Types == SchedulesTypeOK <=> TableOK /\ RunsOK
  BY DEF SchedulesTypeOK, TableOK, RunsOK, RowRecords, Edits, Plans, Verdicts

\* What the assumptions on the constants say of the sets above.
LEMMA Naming ==
  /\ Schedules \subseteq Runs /\ Users \subseteq Runs
  /\ \A s \in Schedules : s \notin Users
  /\ NoJob \notin AllCrons /\ BadCron \notin Crons /\ Crons \subseteq AllCrons
  /\ Steps \in Nat /\ Steps > 0 /\ MaxRounds \in Nat /\ Changes \in Nat
  BY ScheduledRunsAssumption DEF Runs, AllCrons

\* The steps of a new run.
LEMMA NothingBegun == Fresh \in Plans /\ InOrder(Fresh) /\ \A i \in 1..Steps : Fresh[i] = "pending"
  BY DEF Fresh, Plans, StepStates, InOrder

\* Synchronising a job gives it an expression or takes it away.
LEMMA SyncedJob ==
  ASSUME NEW old \in Crons \cup {NoJob}, NEW active \in BOOLEAN, NEW cron \in AllCrons \cup {NoJob}
  PROVE  /\ Registered(old, cron) \in Crons \cup {NoJob}
         /\ Synced(old, active, cron) \in Crons \cup {NoJob}
         /\ cron \in Crons => Registered(old, cron) = cron
  BY Naming DEF Registered, Synced, AllCrons

--------------------------------------------------------------------------------
(* Schedules and their jobs *)

\* Nothing that is said of a schedule depends on another's row, job and edits.
LEMMA Others ==
  ASSUME TableOK, JobsInv, TableOK', NEW t \in Schedules, entry'[t] = entry[t], job'[t] = job[t],
         \A p : p.of = t => (p \in pending' <=> p \in pending),
         t \in leaving' <=> t \in leaving, t \in astray => t \in astray'
  PROVE  Created(t)' /\ (t \in astray' \/ Straight(t)')
<1>1. Created(t) /\ (t \in astray \/ Straight(t))
  BY DEF JobsInv
<1>2. Busy(t)' <=> Busy(t)
  BY DEF Busy
<1>3. JobFits(t)' <=> JobFits(t)
  BY DEF JobFits, MayRun
<1> QED
  BY <1>1, <1>2, <1>3 DEF Created, Straight

\* Schedule s gets row x, which is there and says a and c.
Writes(s, x, a, c) == /\ x \in RowRecords /\ x.there /\ x.active = a /\ x.cron = c
                      /\ entry' = [entry EXCEPT ![s] = x]

\* A row is written and its job is to follow, unless the schedule is new and inactive.
LEMMA WrittenRow ==
  ASSUME TableOK, JobsInv, NEW s \in Schedules, NEW a \in BOOLEAN, NEW c \in AllCrons,
         up, up' = up, UNCHANGED <<job, leaving>>,
         NEW x, Writes(s, x, a, c),
         \/ Follow(s, a, c) /\ Noted(s)
         \/ Follow(s, a, c) /\ entry[s] = Absent /\ UNCHANGED astray
         \/ ~a /\ entry[s] = Absent /\ UNCHANGED <<pending, astray>>
  PROVE  TableOK' /\ JobsInv'
<1> DEFINE e == [of |-> s, active |-> a, cron |-> c]
<1>1. e \in Edits /\ c # NoJob
  BY Naming DEF Edits
<1>2. /\ entry'[s].there /\ entry'[s].active = a /\ entry'[s].cron = c
      /\ \A t \in Schedules \ {s} : entry'[t] = entry[t]
  BY DEF TableOK, Writes
<1>3. TableOK'
  BY <1>1 DEF TableOK, Follow, Noted, Writes
<1>4. ASSUME NEW t \in Schedules, t # s
      PROVE  Created(t)' /\ (t \in astray' \/ Straight(t)')
  <2>1. \A p : p.of = t => (p \in pending' <=> p \in pending)
    BY <1>4 DEF Follow
  <2>2. t \in astray => t \in astray'
    BY <1>4 DEF Noted
  <2> QED
    BY <1>2, <1>3, <1>4, <2>1, <2>2, Others
<1>5. Created(s)'
  BY <1>1, <1>2 DEF Created
<1>6. Absent.cron = NoJob
  BY DEF Absent
<1>7. entry[s] = Absent => ~Busy(s)
  BY <1>6 DEF JobsInv, Created
<1>8. ASSUME s \notin astray' PROVE Straight(s)'
  <2>1. ~Busy(s)
    BY <1>7, <1>8 DEF Noted
  <2>2. s \notin leaving' /\ \A p \in pending : p.of # s
    BY <2>1 DEF Busy
  <2>3. CASE Follow(s, a, c)
    <3>1. pending' = pending \cup {e} /\ e.of = s /\ e.active = a /\ e.cron = c
      BY <2>3 DEF Follow
    <3> HIDE DEF e
    <3>2. Busy(s)'
      BY <3>1 DEF Busy
    <3> QED
      BY <1>2, <2>2, <3>1, <3>2 DEF Straight
  <2>4. CASE ~a /\ entry[s] = Absent /\ UNCHANGED <<pending, astray>>
    <3>1. JobFits(s) /\ ~MayRun(s)
      BY <1>8, <2>1, <2>4 DEF JobsInv, Straight, MayRun, Absent
    <3>2. JobFits(s)'
      BY <1>2, <2>4, <3>1 DEF JobFits, MayRun
    <3> QED
      BY <2>2, <2>4, <3>2 DEF Straight
  <2> QED
    BY <2>3, <2>4
<1> QED
  BY <1>3, <1>4, <1>5, <1>8 DEF JobsInv

\* A deletion takes the job, then the row.
LEMMA Deletes ==
  ASSUME TableOK, JobsInv, NEW s \in Schedules, Delete(s) \/ Remove(s)
  PROVE  TableOK' /\ JobsInv'
<1>1. entry \in [Schedules -> RowRecords] /\ entry[s] \in RowRecords /\ up /\ up' = up
      /\ Created(s) /\ (s \in astray \/ Straight(s)) /\ pending' = pending
  BY DEF TableOK, JobsInv, Delete, Remove
<1>2. CASE Delete(s)
  <2>1. /\ entry' = entry /\ job' = [job EXCEPT ![s] = NoJob] /\ leaving' = leaving \cup {s}
        /\ Noted(s) /\ entry[s] # Absent /\ s \notin leaving
    BY <1>2 DEF Delete
  <2>2. TableOK'
    BY <1>1, <2>1 DEF TableOK, Noted
  <2>3. job'[s] = NoJob /\ \A t \in Schedules \ {s} : job'[t] = job[t]
    BY <2>1 DEF TableOK
  <2>4. ASSUME NEW t \in Schedules, t # s
        PROVE  Created(t)' /\ (t \in astray' \/ Straight(t)')
    BY <1>1, <2>1, <2>2, <2>3, <2>4, Others DEF Noted
  <2>5. Created(s)'
    BY <1>1, <2>1 DEF Created
  <2>6. s \in astray' \/ Straight(s)'
    BY <1>1, <2>1, <2>3 DEF Noted, Busy, Straight
  <2> QED
    BY <1>1, <2>2, <2>4, <2>5, <2>6 DEF JobsInv
<1>3. CASE Remove(s)
  <2> DEFINE x == [entry[s] EXCEPT !.there = FALSE]
  <2>1. /\ job' = job /\ leaving' = leaving \ {s} /\ s \in leaving
        /\ \/ entry' = [entry EXCEPT ![s] = x] /\ astray' = astray
           \/ entry' = entry /\ astray' = IF entry[s].there THEN astray \cup {s} ELSE astray
    <3>1. [entry EXCEPT ![s].there = FALSE] = [entry EXCEPT ![s] = x]
      BY <1>1
    <3> QED
      BY <1>3, <3>1 DEF Remove
  <2>2. x \in RowRecords /\ ~x.there /\ x.cron = entry[s].cron
    BY <1>1 DEF RowRecords
  <2> HIDE DEF x
  <2>3. TableOK'
    BY <1>1, <2>1, <2>2 DEF TableOK
  <2>4. /\ entry'[s] \in {x, entry[s]} /\ \A t \in Schedules \ {s} : entry'[t] = entry[t]
        /\ s \notin astray' => ~entry'[s].there /\ s \notin astray
    BY <1>1, <2>1, <2>2
  <2>5. ASSUME NEW t \in Schedules, t # s
        PROVE  Created(t)' /\ (t \in astray' \/ Straight(t)')
    BY <1>1, <2>1, <2>3, <2>4, <2>5, Others
  <2>6. Created(s)'
    BY <1>1, <2>1, <2>2, <2>4 DEF Created, Busy
  <2>7. ASSUME s \notin astray' PROVE Straight(s)'
    <3>1. job[s] = NoJob /\ \A p \in pending : p.of # s
      BY <1>1, <2>1, <2>4, <2>7 DEF Straight
    <3>2. JobFits(s)'
      BY <2>1, <2>4, <2>7, <3>1 DEF JobFits, MayRun
    <3> QED
      BY <1>1, <2>1, <3>1, <3>2 DEF Straight
  <2> QED
    BY <1>1, <2>3, <2>5, <2>6, <2>7 DEF JobsInv
<1> QED
  BY <1>2, <1>3

\* The scheduler is told of an edit.
LEMMA Syncs ==
  ASSUME TableOK, JobsInv, Sync
  PROVE  TableOK' /\ JobsInv'
<1> PICK p \in pending : /\ job' = [job EXCEPT ![p.of] = Synced(@, p.active, p.cron)]
                         /\ pending' = pending \ {p}
  BY DEF Sync
<1> DEFINE s == p.of
           j == Synced(job[s], p.active, p.cron)
<1>1. /\ s \in Schedules /\ p.active \in BOOLEAN /\ p.cron \in AllCrons
      /\ up /\ UNCHANGED <<up, entry, leaving, astray>>
  BY DEF TableOK, Edits, Sync
<1>2. j \in Crons \cup {NoJob} /\ job' = [job EXCEPT ![s] = j]
  BY <1>1, SyncedJob DEF TableOK
<1>3. TableOK' /\ job'[s] = j /\ \A t \in Schedules \ {s} : job'[t] = job[t]
  BY <1>1, <1>2 DEF TableOK
<1>4. ASSUME NEW t \in Schedules, t # s
      PROVE  Created(t)' /\ (t \in astray' \/ Straight(t)')
  <2>1. \A q : q.of = t => (q \in pending' <=> q \in pending)
    BY <1>4
  <2> QED
    BY <1>1, <1>3, <1>4, <2>1, Others
<1>5. Created(s)'
  BY <1>1 DEF JobsInv, Created, Busy
<1>6. ASSUME s \notin astray PROVE Straight(s)'
  <2>1. /\ \A q \in pending : q.of = s =>
             entry[s].there /\ q.active = entry[s].active /\ q.cron = entry[s].cron
        /\ s \notin leaving
    BY <1>1, <1>6 DEF JobsInv, Straight
  <2>2. \A q \in pending : q.of = s => q = p
    BY <1>1, <2>1 DEF TableOK, Edits
  <2>3. entry[s].there /\ p.active = entry[s].active /\ p.cron = entry[s].cron
    BY <2>1
  <2>4. p.cron \in Crons => Registered(job[s], p.cron) = p.cron
    BY <1>1, SyncedJob DEF TableOK
  <2>5. j = IF p.active THEN Registered(job[s], p.cron) ELSE NoJob
    BY DEF Synced
  <2> HIDE DEF j
  <2>6. JobFits(s)'
    BY <1>1, <1>3, <2>3, <2>4, <2>5 DEF JobFits, MayRun
  <2> QED
    BY <1>1, <2>1, <2>2, <2>6 DEF Straight
<1> QED
  BY <1>1, <1>3, <1>4, <1>5, <1>6 DEF JobsInv

\* A stop cuts off what is under way; a start-up looks at every row.
LEMMA StopsAndStarts ==
  ASSUME TableOK, JobsInv, Startup \/ Crash
  PROVE  TableOK' /\ JobsInv'
<1>1. CASE Startup
  <2>1. /\ ~up /\ up' = TRUE /\ job' = [s \in Schedules |-> JobRestored(s)]
        /\ astray' = {s \in astray : ~MayRun(s)} /\ UNCHANGED <<entry, pending, leaving>>
        /\ pending = {} /\ leaving = {}
    BY <1>1 DEF Startup, JobsInv
  <2>2. ASSUME NEW s \in Schedules
        PROVE  /\ JobRestored(s) \in Crons \cup {NoJob}
               /\ MayRun(s) /\ entry[s].cron \in Crons => JobRestored(s) = entry[s].cron
    <3>1. entry[s].cron \in AllCrons \cup {NoJob} /\ job[s] \in Crons \cup {NoJob}
      BY DEF TableOK, RowRecords
    <3> QED
      BY <3>1, SyncedJob DEF JobRestored
  <2>3. TableOK'
    BY <2>1, <2>2 DEF TableOK
  <2>4. ASSUME NEW s \in Schedules PROVE Created(s)' /\ (s \in astray' \/ Straight(s)')
    <3>1. ~Busy(s) /\ ~Busy(s)' /\ Created(s) /\ (s \in astray \/ JobFits(s))
      BY <2>1 DEF Busy, JobsInv, Straight
    <3>2. job'[s] = JobRestored(s) /\ (~MayRun(s) => job'[s] = job[s])
      BY <2>1 DEF JobRestored
    <3>3. s \in astray' \/ JobFits(s)'
      BY <2>1, <2>2, <3>1, <3>2 DEF JobFits, MayRun
    <3> QED
      BY <2>1, <3>1, <3>3 DEF Created, Straight
  <2> QED
    BY <2>1, <2>3, <2>4 DEF JobsInv
<1>2. CASE Crash
  <2>1. /\ up' = FALSE /\ pending' = {} /\ leaving' = {} /\ UNCHANGED <<entry, job>>
        /\ astray' = astray \cup {s \in Schedules : Busy(s)}
    BY <1>2 DEF Crash
  <2>2. TableOK'
    BY <2>1 DEF TableOK
  <2>3. ASSUME NEW s \in Schedules PROVE Created(s)' /\ (s \in astray' \/ Straight(s)')
    <3>1. ~Busy(s)' /\ (JobFits(s)' <=> JobFits(s))
      BY <2>1 DEF Busy, JobFits, MayRun
    <3> QED
      BY <2>1, <3>1 DEF JobsInv, Created, Straight
  <2> QED
    BY <2>1, <2>2, <2>3 DEF JobsInv
<1> QED
  BY <1>1, <1>2

\* Edits, deletions, start-ups and crashes keep the invariant of the jobs.
LEMMA JobsKept ==
  ASSUME TableOK, JobsInv,
         \/ \E s \in Schedules : Create(s) \/ Update(s) \/ Delete(s) \/ Remove(s)
         \/ Sync \/ Startup \/ Crash
  PROVE  TableOK' /\ JobsInv'
<1>1. ASSUME NEW s \in Schedules, Create(s) PROVE TableOK' /\ JobsInv'
  <2> PICK a \in BOOLEAN, c \in AllCrons :
         /\ entry' = [entry EXCEPT ![s] = [there |-> TRUE, active |-> a, cron |-> c]]
         /\ IF a THEN Follow(s, a, c) ELSE UNCHANGED pending
    BY <1>1 DEF Create
  <2> DEFINE x == [there |-> TRUE, active |-> a, cron |-> c]
  <2>1. /\ entry[s] = Absent /\ up /\ up' = up /\ UNCHANGED <<job, leaving>> /\ astray' = astray
        /\ Follow(s, a, c) \/ (~a /\ UNCHANGED pending)
    BY <1>1 DEF Create
  <2>2. x \in RowRecords /\ x.there /\ x.active = a /\ x.cron = c
    BY DEF RowRecords
  <2>3. entry' = [entry EXCEPT ![s] = x]
    OBVIOUS
  <2> HIDE DEF x
  <2>4. Writes(s, x, a, c)
    BY <2>2, <2>3 DEF Writes
  <2> QED
    BY <2>1, <2>4, WrittenRow
<1>2. ASSUME NEW s \in Schedules, Update(s) PROVE TableOK' /\ JobsInv'
  <2> PICK a \in BOOLEAN, c \in AllCrons :
         entry' = [entry EXCEPT ![s].active = a, ![s].cron = c] /\ Follow(s, a, c)
    BY <1>2 DEF Update
  <2> DEFINE x == [entry[s] EXCEPT !.active = a, !.cron = c]
  <2>1. up /\ up' = up /\ UNCHANGED <<job, leaving>> /\ Noted(s) /\ entry[s].there
    BY <1>2 DEF Update
  <2>2. x \in RowRecords /\ x.there = entry[s].there /\ x.active = a /\ x.cron = c
    BY DEF TableOK, RowRecords
  <2>3. entry' = [entry EXCEPT ![s] = x]
    BY DEF TableOK, RowRecords
  <2> HIDE DEF x
  <2>4. Writes(s, x, a, c)
    BY <2>1, <2>2, <2>3 DEF Writes
  <2> QED
    BY <2>1, <2>4, WrittenRow
<1> QED
  BY <1>1, <1>2, Deletes, Syncs, StopsAndStarts

--------------------------------------------------------------------------------
(* Runs *)

\* Run r goes on to a plan, a phase, a status and a client of its own.
GoesTo(r, plan, p, s, a) ==
    /\ steps' = [steps EXCEPT ![r] = plan] /\ phase' = [phase EXCEPT ![r] = p]
    /\ status' = [status EXCEPT ![r] = s] /\ asked' = [asked EXCEPT ![r] = a]

\* It may, when what it comes to say fits.
LEMMA RunStep ==
  ASSUME RunsInv, NEW r \in Runs, NEW plan \in Plans, NEW p \in {"none", "checked", "working"},
         NEW s \in Verdicts, NEW a \in BOOLEAN, Fits(r, plan, p, s, a), GoesTo(r, plan, p, s, a),
         rounds' \in [Runs -> 0..MaxRounds], UNCHANGED fixed, changes' \in 0..Changes
  PROVE  RunsInv'
<1>1. /\ RunsOK /\ steps \in [Runs -> Plans] /\ asked \in [Runs -> BOOLEAN]
      /\ phase \in [Runs -> {"none", "checked", "working"}] /\ status \in [Runs -> Verdicts]
      /\ \A q \in Runs : Story(q)
  BY DEF RunsInv, RunsOK
<1>2. UNCHANGED <<database, shape>>
  BY DEF fixed
<1>3. RunsOK'
  BY <1>1, <1>2 DEF RunsOK, GoesTo
<1>4. ASSUME NEW q \in Runs PROVE Story(q)'
  <2>1. CASE q = r
    <3>1. steps'[q] = plan /\ phase'[q] = p /\ status'[q] = s /\ asked'[q] = a
      BY <1>1, <2>1 DEF GoesTo
    <3> QED
      BY <1>2, <2>1, <3>1 DEF Story, Fits, Linear
  <2>2. CASE q # r
    <3>1. /\ steps'[q] = steps[q] /\ phase'[q] = phase[q] /\ status'[q] = status[q]
          /\ asked'[q] = asked[q] /\ Story(q)
      BY <1>1, <2>2 DEF GoesTo
    <3> QED
      BY <1>2, <3>1 DEF Story, Fits, Linear
  <2> QED
    BY <2>1, <2>2
<1> QED
  BY <1>3, <1>4 DEF RunsInv

\* What only moves executors, and none of them to work, leaves every story as it was.
LEMMA Beside ==
  ASSUME RunsInv, UNCHANGED <<fixed, status, steps, rounds, asked>>, changes' \in 0..Changes,
         phase' \in [Runs -> {"none", "checked", "working"}],
         \A r \in Runs : phase'[r] = "working" => phase[r] = "working"
  PROVE  RunsInv'
<1>1. UNCHANGED <<database, shape>>
  BY DEF fixed
<1>2. RunsOK'
  BY <1>1 DEF RunsInv, RunsOK
<1>3. ASSUME NEW r \in Runs PROVE Story(r)'
  BY <1>1 DEF RunsInv, Story, Fits, Linear
<1> QED
  BY <1>2, <1>3 DEF RunsInv

\* Edits, deletions, triggers, start-ups and crashes.
LEMMA SchedulesStep ==
  ASSUME RunsInv,
         \/ \E s \in Schedules : Create(s) \/ Update(s) \/ Delete(s) \/ Remove(s) \/ Fire(s)
         \/ Sync \/ Startup \/ Crash \/ \E u \in Users : LeaveRun(u)
         \/ UNCHANGED scheduleVars
  PROVE  RunsInv'
<1>1. changes \in 0..Changes /\ phase \in [Runs -> {"none", "checked", "working"}]
  BY DEF RunsInv, RunsOK
<1>2. ASSUME Change PROVE changes' \in 0..Changes
  BY <1>1, <1>2, Naming DEF Change
<1>3. ASSUME NEW s \in Schedules, Create(s) \/ Update(s) \/ Delete(s)
      PROVE  UNCHANGED <<fixed, runs>> /\ Change
  BY <1>3 DEF Create, Update, Delete
<1>4. ASSUME Sync \/ Startup \/ \E s \in Schedules : Remove(s)
      PROVE  UNCHANGED <<fixed, runs>> /\ UNCHANGED changes
  BY <1>4 DEF Sync, Startup, Remove
<1>5. CASE UNCHANGED <<fixed, runs>> /\ changes' \in 0..Changes
  BY <1>1, <1>5, Beside DEF runs
<1>6. CASE Crash
  BY <1>1, <1>2, <1>6, Beside DEF Crash
<1>7. ASSUME NEW s \in Schedules, Fire(s) PROVE RunsInv'
  BY <1>1, <1>7, Naming, Beside DEF Fire
<1>8. ASSUME NEW u \in Users, LeaveRun(u) PROVE RunsInv'
  BY <1>1, <1>2, <1>8, Naming, Beside DEF LeaveRun
<1>9. CASE UNCHANGED scheduleVars
  BY <1>1, <1>5, <1>9 DEF scheduleVars
<1> QED
  BY <1>1, <1>2, <1>3, <1>4, <1>5, <1>6, <1>7, <1>8, <1>9

\* The executor of a linear workflow turns to a plan, and stops with a verdict or works on.
LEMMA Turns ==
  ASSUME RunsInv, NEW r \in Runs, Working(r), Linear, Elsewhere, NEW plan \in Plans, InOrder(plan),
         steps' = [steps EXCEPT ![r] = plan],
         (\E i \in 1..Steps : plan[i] = "skipped") => r \in Users /\ database = "mongo",
         \/ /\ Stay /\ rounds' \in [Runs -> 0..MaxRounds]
            /\ \E b \in BOOLEAN : asked' = [asked EXCEPT ![r] = b]
         \/ Stop(r, "completed") /\ \A i \in 1..Steps : plan[i] \in Over
         \/ /\ Stop(r, "failed") /\ \E i \in 1..Steps : plan[i] \notin Over
            /\ asked[r] => \A i \in 1..Steps : plan[i] # "running"
  PROVE  RunsInv'
<1>1. /\ phase \in [Runs -> {"none", "checked", "working"}] /\ status \in [Runs -> Verdicts]
      /\ asked \in [Runs -> BOOLEAN] /\ asked = [asked EXCEPT ![r] = asked[r]]
      /\ rounds \in [Runs -> 0..MaxRounds] /\ changes \in 0..Changes
      /\ phase[r] = "working" /\ status[r] \in {"running", "deleted"}
  BY DEF RunsInv, RunsOK, Story, Fits, Working
<1>2. UNCHANGED fixed /\ changes' \in 0..Changes
  BY <1>1 DEF Elsewhere
<1>3. ASSUME Stay, rounds' \in [Runs -> 0..MaxRounds],
             NEW b \in BOOLEAN, asked' = [asked EXCEPT ![r] = b]
      PROVE  RunsInv'
  <2>1. GoesTo(r, plan, phase[r], status[r], b)
    BY <1>1, <1>3 DEF Stay, GoesTo
  <2>2. Fits(r, plan, phase[r], status[r], b)
    BY <1>1 DEF Fits
  <2>3. phase[r] \in {"none", "checked", "working"} /\ status[r] \in Verdicts
    BY <1>1
  <2> QED
    BY <1>2, <1>3, <2>1, <2>2, <2>3, RunStep
<1>4. ASSUME NEW v \in {"completed", "failed"}, Stop(r, v),
             v = "completed" => \A i \in 1..Steps : plan[i] \in Over,
             v = "failed" => /\ \E i \in 1..Steps : plan[i] \notin Over
                             /\ asked[r] => \A i \in 1..Steps : plan[i] # "running"
      PROVE  RunsInv'
  <2> DEFINE w == IF status[r] = "deleted" THEN "deleted" ELSE v
  <2>1. rounds' \in [Runs -> 0..MaxRounds]
    BY <1>1, <1>4, Naming DEF Stop
  <2>2. GoesTo(r, plan, "none", w, asked[r])
    BY <1>1, <1>4 DEF Stop, Written, GoesTo
  <2>3. w \in Verdicts /\ asked[r] \in BOOLEAN
    BY <1>1 DEF Verdicts
  <2>4. Fits(r, plan, "none", w, asked[r])
    BY <1>4 DEF Fits
  <2> HIDE DEF w
  <2> QED
    BY <1>2, <2>1, <2>2, <2>3, <2>4, RunStep
<1> QED
  BY <1>3, <1>4

\* A step in its turn is written without breaking the order.
LEMMA Marked ==
  ASSUME RunsInv, Linear, NEW r \in Runs, NEW i \in 1..Steps, NEW s \in StepStates,
         steps[r][i] \in {"pending", "running"}, \A j \in 1..(i - 1) : steps[r][j] \in Over
  PROVE  LET plan == [steps[r] EXCEPT ![i] = s]
         IN  /\ plan \in Plans /\ InOrder(plan) /\ plan[i] = s
             /\ \A j \in (1..Steps) \ {i} : plan[j] = steps[r][j] /\ plan[j] # "running"
             /\ (\E j \in 1..Steps : plan[j] = "skipped") =>
                    s = "skipped" \/ (r \in Users /\ database = "mongo")
             /\ \A t \in {s} : MarkStep(r, i, t) => steps' = [steps EXCEPT ![r] = plan]
<1> DEFINE plan == [steps[r] EXCEPT ![i] = s]
<1>1. /\ steps[r] \in Plans /\ Steps \in Nat /\ InOrder(steps[r])
      /\ (\E j \in 1..Steps : steps[r][j] = "skipped") => r \in Users /\ database = "mongo"
  BY Naming DEF RunsInv, RunsOK, Story, Fits
<1>2. plan \in Plans /\ plan[i] = s /\ \A j \in (1..Steps) \ {i} : plan[j] = steps[r][j]
  BY <1>1 DEF Plans
<1>3. ASSUME NEW j \in 1..Steps, j > i PROVE steps[r][j] = "pending"
  BY <1>1, <1>3 DEF InOrder, Over
<1>4. ASSUME NEW j \in 1..Steps, j < i PROVE steps[r][j] \in Over
  BY <1>1, <1>4
<1>5. \A j \in (1..Steps) \ {i} : steps[r][j] # "running"
  BY <1>1, <1>3, <1>4 DEF Over
<1> HIDE DEF plan
<1>6. InOrder(plan)
  <2> SUFFICES ASSUME NEW k \in 1..Steps, NEW j \in 1..Steps, k < j, plan[j] # "pending"
               PROVE  plan[k] \in Over
    BY DEF InOrder
  <2>1. j <= i
    BY <1>1, <1>2, <1>3
  <2>2. k < i /\ k # i
    BY <1>1, <2>1
  <2> QED
    BY <1>2, <1>4, <2>2
<1>7. (\E j \in 1..Steps : plan[j] = "skipped") =>
        s = "skipped" \/ (r \in Users /\ database = "mongo")
  BY <1>1, <1>2
<1>8. \A t \in {s} : MarkStep(r, i, t) => steps' = [steps EXCEPT ![r] = plan]
  BY DEF MarkStep, plan
<1> QED
  BY <1>2, <1>5, <1>6, <1>7, <1>8 DEF plan

\* A run begins or its row is deleted.
LEMMA RunsStep ==
  ASSUME RunsInv,
         \/ \E s \in Schedules : Begin(s)
         \/ \E u \in Users : RunByUser(u) \/ DeleteRun(u)
  PROVE  RunsInv'
<1>1. /\ rounds \in [Runs -> 0..MaxRounds] /\ changes \in 0..Changes
      /\ phase \in [Runs -> {"none", "checked", "working"}]
      /\ \A r \in Runs :
           /\ steps = [steps EXCEPT ![r] = steps[r]] /\ steps[r] \in Plans
           /\ asked = [asked EXCEPT ![r] = asked[r]] /\ asked[r] \in BOOLEAN
           /\ phase = [phase EXCEPT ![r] = phase[r]]
           /\ phase[r] \in {"none", "checked", "working"}
           /\ Fits(r, steps[r], phase[r], status[r], asked[r])
  BY DEF RunsInv, RunsOK, Story
<1>2. ASSUME Change PROVE changes' \in 0..Changes
  BY <1>1, <1>2, Naming DEF Change
<1>3. ASSUME NEW s \in Schedules, Begin(s) PROVE RunsInv'
  <2>1. s \in Runs /\ UNCHANGED <<fixed, rounds, asked, changes>>
    BY <1>3, Naming DEF Begin
  <2>2. CASE /\ phase' = [phase EXCEPT ![s] = "working"] /\ steps' = [steps EXCEPT ![s] = Fresh]
             /\ status' = [status EXCEPT ![s] = "running"]
    <3>1. Fits(s, Fresh, "working", "running", asked[s]) /\ Fresh \in Plans
      BY NothingBegun DEF Fits
    <3>2. GoesTo(s, Fresh, "working", "running", asked[s]) /\ asked[s] \in BOOLEAN
      BY <1>1, <2>1, <2>2 DEF GoesTo
    <3>3. "running" \in Verdicts /\ "working" \in {"none", "checked", "working"}
      BY DEF Verdicts
    <3>4. rounds' \in [Runs -> 0..MaxRounds] /\ UNCHANGED fixed /\ changes' \in 0..Changes
      BY <1>1, <2>1
    <3> QED
      BY <2>1, <3>1, <3>2, <3>3, <3>4, RunStep
  <2>3. CASE phase' = [phase EXCEPT ![s] = "none"] /\ UNCHANGED <<status, steps>>
    <3>1. /\ phase' \in [Runs -> {"none", "checked", "working"}]
          /\ \A r \in Runs : phase'[r] = "working" => phase[r] = "working"
      BY <1>1, <2>1, <2>3
    <3> QED
      BY <1>1, <2>1, <2>3, <3>1, Beside
  <2> QED
    BY <1>3, <2>2, <2>3 DEF Begin
<1>4. ASSUME NEW u \in Users, RunByUser(u) PROVE RunsInv'
  <2>1. /\ u \in Runs /\ phase' = [phase EXCEPT ![u] = "working"] /\ status[u] = "none"
        /\ status' = [status EXCEPT ![u] = "running"] /\ Change
        /\ UNCHANGED <<fixed, steps, rounds, asked>>
    BY <1>4, Naming DEF RunByUser
  <2>2. Fits(u, steps[u], "working", "running", asked[u])
    BY <1>1, <2>1 DEF Fits
  <2>3. /\ GoesTo(u, steps[u], "working", "running", asked[u])
        /\ steps[u] \in Plans /\ asked[u] \in BOOLEAN
        /\ "running" \in Verdicts /\ "working" \in {"none", "checked", "working"}
    BY <1>1, <2>1 DEF Verdicts, GoesTo
  <2>4. rounds' \in [Runs -> 0..MaxRounds] /\ UNCHANGED fixed /\ changes' \in 0..Changes
    BY <1>1, <1>2, <2>1
  <2> QED
    BY <2>1, <2>2, <2>3, <2>4, RunStep
<1>5. ASSUME NEW u \in Users, DeleteRun(u) PROVE RunsInv'
  <2>1. /\ u \in Runs /\ status' = [status EXCEPT ![u] = "deleted"] /\ Change
        /\ UNCHANGED <<fixed, phase, steps, rounds, asked>>
    BY <1>5, Naming DEF DeleteRun
  <2>2. Fits(u, steps[u], phase[u], "deleted", asked[u])
    BY <1>1, <2>1 DEF Fits
  <2>3. /\ GoesTo(u, steps[u], phase[u], "deleted", asked[u])
        /\ steps[u] \in Plans /\ asked[u] \in BOOLEAN
        /\ phase[u] \in {"none", "checked", "working"} /\ "deleted" \in Verdicts
    BY <1>1, <2>1 DEF Verdicts, GoesTo
  <2>4. rounds' \in [Runs -> 0..MaxRounds] /\ UNCHANGED fixed /\ changes' \in 0..Changes
    BY <1>1, <1>2, <2>1
  <2> QED
    BY <2>1, <2>2, <2>3, <2>4, RunStep
<1> QED
  BY <1>3, <1>4, <1>5

\* A step that is failed with its run.
LEMMA FailedTogether ==
  ASSUME RunsInv, NEW r \in Runs, NEW i \in 1..Steps, Working(r), Linear, Elsewhere,
         steps[r][i] \in {"pending", "running"}, \A j \in 1..(i - 1) : steps[r][j] \in Over,
         MarkStep(r, i, "failed"), Stop(r, "failed")
  PROVE  RunsInv'
<1> DEFINE plan == [steps[r] EXCEPT ![i] = "failed"]
<1>1. "failed" \in StepStates
  BY DEF StepStates
<1> HIDE DEF plan
<1>2. /\ plan \in Plans /\ InOrder(plan) /\ steps' = [steps EXCEPT ![r] = plan]
      /\ (\E j \in 1..Steps : plan[j] = "skipped") => r \in Users /\ database = "mongo"
      /\ plan[i] = "failed" /\ \A j \in (1..Steps) \ {i} : plan[j] # "running"
  BY <1>1, Marked DEF plan
<1>3. plan[i] \notin Over /\ \A j \in 1..Steps : plan[j] # "running"
  BY <1>2 DEF Over
<1> QED
  BY <1>2, <1>3, Turns

\* A step that is written while its run goes on.
LEMMA MarkedOnly ==
  ASSUME RunsInv, NEW r \in Runs, NEW i \in 1..Steps, Working(r), Linear, Elsewhere,
         steps[r][i] \in {"pending", "running"}, \A j \in 1..(i - 1) : steps[r][j] \in Over,
         NEW s \in {"running", "completed", "skipped"}, MarkStep(r, i, s), Stay,
         s = "skipped" => r \in Users /\ database = "mongo",
         rounds' \in [Runs -> 0..MaxRounds], \E b \in BOOLEAN : asked' = [asked EXCEPT ![r] = b]
  PROVE  RunsInv'
<1> DEFINE plan == [steps[r] EXCEPT ![i] = s]
<1>1. s \in StepStates
  BY DEF StepStates
<1> HIDE DEF plan
<1>2. /\ plan \in Plans /\ InOrder(plan) /\ steps' = [steps EXCEPT ![r] = plan]
      /\ (\E j \in 1..Steps : plan[j] = "skipped") => r \in Users /\ database = "mongo"
  BY <1>1, Marked DEF plan
<1> QED
  BY <1>2, Turns

\* The step under way.
LEMMA AgentStepKeeps ==
  ASSUME RunsInv, NEW r \in Runs, NEW i \in 1..Steps, AgentStep(r, i)
  PROVE  RunsInv'
<1>1. /\ steps \in [Runs -> Plans] /\ rounds \in [Runs -> 0..MaxRounds] /\ asked \in [Runs -> BOOLEAN]
      /\ steps[r] \in Plans /\ steps = [steps EXCEPT ![r] = steps[r]] /\ InOrder(steps[r])
      /\ Working(r) /\ Linear /\ steps[r][i] = "running" /\ Steps \in Nat /\ MaxRounds \in Nat
      /\ (\E j \in 1..Steps : steps[r][j] = "skipped") => r \in Users /\ database = "mongo"
  BY Naming DEF RunsInv, RunsOK, Story, Fits, AgentStep
<1>2. \A j \in 1..(i - 1) : steps[r][j] \in Over
  BY <1>1 DEF InOrder
<1>3. \E b \in BOOLEAN : asked = [asked EXCEPT ![r] = b]
  BY <1>1
<1>4. CASE Ask(r) \/ CallTools(r, i)
  <2>1. rounds' \in [Runs -> 0..MaxRounds] /\ Stay /\ Elsewhere /\ steps' = steps
    BY <1>1, <1>4 DEF Ask, CallTools
  <2>2. \E b \in BOOLEAN : asked' = [asked EXCEPT ![r] = b]
    BY <1>3, <1>4 DEF Ask, CallTools
  <2> QED
    BY <1>1, <2>1, <2>2, Turns
<1>5. CASE ~asked[r] /\ Stumble(r)
  <2>1. Stop(r, "failed") /\ Elsewhere /\ steps' = steps /\ steps[r][i] \notin Over
    BY <1>1, <1>5 DEF Stumble, Over
  <2> QED
    BY <1>1, <1>5, <2>1, Turns
<1>6. CASE StepCompletes(r, i)
  <2>1. /\ MarkStep(r, i, "completed") /\ Stay /\ Elsewhere
        /\ rounds' = [rounds EXCEPT ![r] = 0] /\ asked' = [asked EXCEPT ![r] = FALSE]
    BY <1>6 DEF StepCompletes
  <2>3. rounds' \in [Runs -> 0..MaxRounds]
    BY <1>1, <2>1
  <2>4. \E b \in BOOLEAN : asked' = [asked EXCEPT ![r] = b]
    BY <2>1
  <2>2. steps[r][i] \in {"pending", "running"} /\ "completed" \in {"running", "completed", "skipped"}
    BY <1>1
  <2> QED
    BY <1>1, <1>2, <2>1, <2>2, <2>3, <2>4, MarkedOnly
<1>7. CASE StepFails(r, i)
  BY <1>1, <1>2, <1>7, FailedTogether DEF StepFails
<1> QED
  BY <1>4, <1>5, <1>6, <1>7 DEF AgentStep

\* What can become of the step whose turn it is.
LEMMA TurnKeeps ==
  ASSUME RunsInv, NEW r \in Runs, NEW i \in 1..Steps, At(r, i),
         \/ Unprovided(r, i) \/ StartStep(r, i) \/ PassStep(r, i) \/ Route(r, i) \/ Stumble(r)
         \/ Skip(r, i) /\ r \in Users /\ database = "mongo"
  PROVE  RunsInv'
<1>1. /\ rounds \in [Runs -> 0..MaxRounds] /\ asked \in [Runs -> BOOLEAN]
      /\ steps[r] \in Plans /\ steps = [steps EXCEPT ![r] = steps[r]] /\ InOrder(steps[r])
      /\ Working(r) /\ Linear /\ steps[r][i] = "pending" /\ Steps \in Nat
      /\ \A j \in 1..(i - 1) : steps[r][j] \in Over
      /\ (\E j \in 1..Steps : steps[r][j] = "skipped") => r \in Users /\ database = "mongo"
  BY Naming DEF RunsInv, RunsOK, Story, Fits, At
<1>2. \A j \in 1..Steps : steps[r][j] # "running"
  <2> SUFFICES ASSUME NEW j \in 1..Steps, steps[r][j] = "running" PROVE FALSE
    OBVIOUS
  <2>1. j < i \/ j = i \/ i < j
    BY <1>1
  <2> QED
    BY <1>1, <2>1 DEF InOrder, Over
<1>3. \E b \in BOOLEAN : asked = [asked EXCEPT ![r] = b]
  BY <1>1
<1>4. ASSUME NEW s \in {"running", "completed", "skipped"}, MarkStep(r, i, s), UNCHANGED rounds,
             \/ UNCHANGED asked
             \/ asked' = [asked EXCEPT ![r] = FALSE],
             Stay, Elsewhere, s = "skipped" => r \in Users /\ database = "mongo"
      PROVE  RunsInv'
  <2>1. rounds' \in [Runs -> 0..MaxRounds] /\ \E b \in BOOLEAN : asked' = [asked EXCEPT ![r] = b]
    BY <1>1, <1>3, <1>4
  <2>2. steps[r][i] \in {"pending", "running"} /\ \A j \in 1..(i - 1) : steps[r][j] \in Over
    BY <1>1
  <2>3. Working(r) /\ Linear
    BY <1>1
  <2> QED
    BY <1>4, <2>1, <2>2, <2>3, MarkedOnly
<1>5. CASE Unprovided(r, i)
  BY <1>1, <1>5, FailedTogether DEF Unprovided
<1>6. CASE Stumble(r)
  <2>1. Stop(r, "failed") /\ Elsewhere /\ steps' = steps /\ steps[r][i] \notin Over
    BY <1>1, <1>6 DEF Stumble, Over
  <2> QED
    BY <1>1, <1>2, <2>1, Turns
<1> QED
  BY <1>4, <1>5, <1>6 DEF StartStep, PassStep, Route, Skip

\* A graph ends, or has an error: its completed steps are all there is to say.
LEMMA GraphKeeps ==
  ASSUME RunsInv, NEW r \in Runs, GraphErrs(r) \/ GraphEnds(r)
  PROVE  RunsInv'
<1>1. /\ status \in [Runs -> Verdicts] /\ changes \in 0..Changes
      /\ rounds \in [Runs -> 0..MaxRounds] /\ ~Linear /\ Elsewhere
      /\ phase = [phase EXCEPT ![r] = phase[r]] /\ phase[r] \in {"none", "checked", "working"}
      /\ steps = [steps EXCEPT ![r] = steps[r]] /\ steps[r] \in Plans
      /\ asked = [asked EXCEPT ![r] = asked[r]] /\ asked[r] \in BOOLEAN
      /\ Fits(r, steps[r], phase[r], status[r], asked[r])
  BY DEF RunsInv, RunsOK, Story, GraphErrs, GraphEnds
<1>2. UNCHANGED fixed /\ changes' \in 0..Changes
  BY <1>1 DEF Elsewhere
<1>3. ASSUME NEW v \in {"completed", "failed"}
      PROVE  \E w \in Verdicts : /\ Written(r, v) = [status EXCEPT ![r] = w]
                                 /\ w = "completed" => v = "completed"
  <2> DEFINE w == IF status[r] = "deleted" THEN "deleted" ELSE v
  <2>1. w \in Verdicts /\ Written(r, v) = [status EXCEPT ![r] = w] /\ (w = "completed" => v = "completed")
    BY DEF Verdicts, Written
  <2> QED
    BY <2>1
<1>4. CASE GraphErrs(r)
  <2>1. UNCHANGED <<phase, steps, rounds, asked>> /\ status' = Written(r, "failed")
    BY <1>4 DEF GraphErrs
  <2> PICK w \in Verdicts : status' = [status EXCEPT ![r] = w] /\ w # "completed"
    BY <1>3, <2>1
  <2>2. Fits(r, steps[r], phase[r], w, asked[r])
    BY <1>1 DEF Fits
  <2>3. GoesTo(r, steps[r], phase[r], w, asked[r]) /\ rounds' \in [Runs -> 0..MaxRounds]
    BY <1>1, <2>1 DEF GoesTo
  <2>4. /\ phase[r] \in {"none", "checked", "working"} /\ steps[r] \in Plans
        /\ asked[r] \in BOOLEAN
    BY <1>1
  <2> QED
    BY <1>2, <2>2, <2>3, <2>4, RunStep
<1>5. CASE GraphEnds(r)
  <2> PICK v \in {"completed", "failed"}, plan \in [1..Steps -> StepStates] :
         /\ v = "completed" => \A i \in 1..Steps : plan[i] \in Over
         /\ Stop(r, v) /\ steps' = [steps EXCEPT ![r] = plan]
    BY <1>5 DEF GraphEnds
  <2>1. plan \in Plans
    BY DEF Plans
  <2>2. /\ phase' = [phase EXCEPT ![r] = "none"] /\ status' = Written(r, v) /\ asked' = asked
        /\ rounds' \in [Runs -> 0..MaxRounds]
    BY <1>1, Naming DEF Stop
  <2> PICK w \in Verdicts : status' = [status EXCEPT ![r] = w] /\ (w = "completed" => v = "completed")
    BY <1>3, <2>2
  <2>3. Fits(r, plan, "none", w, asked[r])
    BY <1>1, <2>1 DEF Fits
  <2>4. GoesTo(r, plan, "none", w, asked[r])
    BY <1>1, <2>2 DEF GoesTo
  <2>5. asked[r] \in BOOLEAN /\ "none" \in {"none", "checked", "working"}
    BY <1>1
  <2>6. plan \in Plans /\ rounds' \in [Runs -> 0..MaxRounds]
    BY <2>1, <2>2
  <2> QED
    BY <1>2, <2>3, <2>4, <2>5, <2>6, RunStep
<1> QED
  BY <1>4, <1>5

\* The four executors, and the graphs; none of them touches a schedule or its job.
LEMMA AdvanceKeeps ==
  ASSUME RunsInv, NEW r \in Runs, Advance(r) \/ GraphErrs(r)
  PROVE  RunsInv' /\ UNCHANGED <<up, table>>
<1>1. CASE Finish(r)
  <2>1. /\ steps = [steps EXCEPT ![r] = steps[r]] /\ steps[r] \in Plans
        /\ Working(r) /\ Linear /\ Elsewhere /\ Stop(r, "completed") /\ steps' = steps
        /\ InOrder(steps[r]) /\ \A i \in 1..Steps : steps[r][i] \in Over
        /\ (\E i \in 1..Steps : steps[r][i] = "skipped") => r \in Users /\ database = "mongo"
    BY <1>1 DEF RunsInv, RunsOK, Story, Fits, Finish
  <2> QED
    BY <2>1, Turns DEF Elsewhere
<1>2. ASSUME NEW i \in 1..Steps, AgentStep(r, i) PROVE RunsInv' /\ UNCHANGED <<up, table>>
  <2>1. Elsewhere
    BY <1>2 DEF AgentStep, Ask, Stumble, CallTools, StepCompletes, StepFails
  <2> QED
    BY <1>2, <2>1, AgentStepKeeps DEF Elsewhere
<1>3. ASSUME NEW i \in 1..Steps, At(r, i),
             \/ Unprovided(r, i) \/ StartStep(r, i) \/ PassStep(r, i) \/ Route(r, i) \/ Stumble(r)
             \/ Skip(r, i) /\ r \in Users /\ database = "mongo"
      PROVE  RunsInv' /\ UNCHANGED <<up, table>>
  <2>1. Elsewhere
    BY <1>3 DEF Unprovided, StartStep, PassStep, Route, Skip, Stumble
  <2> QED
    BY <1>3, <2>1, TurnKeeps DEF Elsewhere
<1>4. CASE GraphErrs(r) \/ GraphEnds(r)
  <2>1. Elsewhere
    BY <1>4 DEF GraphErrs, GraphEnds
  <2> QED
    BY <1>4, <2>1, GraphKeeps DEF Elsewhere
<1> QED
  BY <1>1, <1>2, <1>3, <1>4
     DEF Advance, ScheduledSqlite, ScheduledMongo, UserSqlite, UserMongo

--------------------------------------------------------------------------------
(* Schedules and runs together *)

SchedulesInv == TableOK /\ JobsInv /\ RunsInv

\* The invariant holds at first, and every step keeps it.
LEMMA SchedulesBegin == SchedulesInit => SchedulesInv
<1> SUFFICES ASSUME SchedulesInit PROVE SchedulesInv
  OBVIOUS
<1>1. TableOK
  <2>1. Absent \in RowRecords
    BY DEF Absent, RowRecords
  <2> QED
    BY <2>1 DEF SchedulesInit, TableOK
<1>2. JobsInv
  BY DEF SchedulesInit, JobsInv, Created, Straight, Busy, JobFits, MayRun, Absent
<1>3. RunsOK
  <2>1. changes \in 0..Changes /\ \A r \in Runs : rounds[r] \in 0..MaxRounds
    BY Naming DEF SchedulesInit
  <2> QED
    BY <2>1, NothingBegun DEF SchedulesInit, RunsOK, Verdicts
<1>4. \A r \in Runs : Story(r)
  BY NothingBegun DEF SchedulesInit, Story, Fits
<1> QED
  BY <1>1, <1>2, <1>3, <1>4 DEF SchedulesInv, RunsInv

\* A step of a run, a trigger or nothing at all leaves the schedules and their jobs alone.
LEMMA JobsBeside ==
  ASSUME TableOK, JobsInv, UNCHANGED <<up, table>>
  PROVE  TableOK' /\ JobsInv'
<1>1. UNCHANGED <<entry, job, pending, leaving, astray>>
  BY DEF table
<1> QED
  BY <1>1 DEF TableOK, JobsInv, Created, Straight, Busy, JobFits, MayRun

LEMMA SchedulesContinue == SchedulesInv /\ [SchedulesNext]_scheduleVars => SchedulesInv'
<1> SUFFICES ASSUME SchedulesInv, [SchedulesNext]_scheduleVars PROVE SchedulesInv'
  OBVIOUS
<1>1. TableOK /\ JobsInv /\ RunsInv
  BY DEF SchedulesInv
<1>2. CASE \/ \E s \in Schedules : Create(s) \/ Update(s) \/ Delete(s) \/ Remove(s)
           \/ Sync \/ Startup \/ Crash
  BY <1>1, <1>2, JobsKept, SchedulesStep DEF SchedulesInv
<1>3. CASE (\E s \in Schedules : Fire(s)) \/ (\E u \in Users : LeaveRun(u)) \/ UNCHANGED scheduleVars
  <2>1. UNCHANGED <<up, table>>
    BY <1>3 DEF Fire, LeaveRun, scheduleVars
  <2> QED
    BY <1>1, <1>3, <2>1, JobsBeside, SchedulesStep DEF SchedulesInv
<1>4. CASE (\E s \in Schedules : Begin(s)) \/ (\E u \in Users : RunByUser(u) \/ DeleteRun(u))
  <2>1. UNCHANGED <<up, table>>
    BY <1>4 DEF Begin, RunByUser, DeleteRun
  <2> QED
    BY <1>1, <1>4, <2>1, JobsBeside, RunsStep DEF SchedulesInv
<1>5. CASE \E r \in Runs : Advance(r) \/ GraphErrs(r)
  <2>1. RunsInv' /\ UNCHANGED <<up, table>>
    BY <1>1, <1>5, AdvanceKeeps
  <2> QED
    BY <1>1, <2>1, JobsBeside DEF SchedulesInv
<1> QED
  BY <1>2, <1>3, <1>4, <1>5 DEF SchedulesNext

LEMMA SchedulesInvariance == SchedulesSpec => []SchedulesInv
  BY SchedulesBegin, SchedulesContinue, PTL DEF SchedulesSpec

(* Every variable of the schedules and their runs keeps its type, for any number of schedules,
   users, steps, rounds and changes. *)
THEOREM SchedulesTypeCorrect == SchedulesSpec => []SchedulesTypeOK
<1>1. SchedulesInv => SchedulesTypeOK
  BY Types DEF SchedulesInv, RunsInv
<1> QED
  BY <1>1, SchedulesInvariance, PTL

(* A run's row and its steps tell the same story at every moment, for any schedules, users and
   steps and whatever is edited, deleted or stopped (_run_workflow_sqlite, _run_workflow_mongo,
   run_scheduled_workflow_sqlite, run_scheduled_workflow_mongo). *)
THEOREM StoriesFit == SchedulesSpec => []StoryFits
<1>1. SchedulesInv => StoryFits
  <2> SUFFICES ASSUME SchedulesInv, NEW r \in Runs
               PROVE  /\ status[r] = "completed" => \A i \in 1..Steps : steps[r][i] \in Over
                      /\ Linear =>
                           /\ status[r] = "failed" =>
                                /\ \E i \in 1..Steps : steps[r][i] \notin Over
                                /\ \A i \in 1..Steps : steps[r][i] = "running" => ~asked[r]
                           /\ InOrder(steps[r])
                           /\ (\E i \in 1..Steps : steps[r][i] = "skipped") =>
                                r \in Users /\ database = "mongo"
    BY DEF StoryFits, InOrder
  <2>1. Fits(r, steps[r], phase[r], status[r], asked[r])
    BY DEF SchedulesInv, RunsInv, Story
  <2> QED
    BY <2>1 DEF Fits
<1> QED
  BY <1>1, SchedulesInvariance, PTL

(* The scheduler holds for every schedule the job its row asks for, unless edits or deletions of
   it crossed, a deletion was refused or a crash came between the row and the job, for any
   schedules and expressions and any number of changes (_sync_apscheduler_job,
   _remove_apscheduler_job, _load_active_schedules). *)
THEOREM JobsFollowRows == SchedulesSpec => []JobsFollow
<1>1. SchedulesInv => JobsFollow
  BY DEF SchedulesInv, JobsInv, Straight, JobsFollow
<1> QED
  BY <1>1, SchedulesInvariance, PTL

--------------------------------------------------------------------------------
(* Background jobs *)

\* The places of a poll that has not written a verdict yet.
Undecided == {"registering", "looking", "calling", "counting", "judging", "marking"}

\* One job: nothing is posted before the verdict is in the row, and only one
\* poll ever gets to write it.
Announced(j) ==
    /\ row[j] \in {"absent", "pending"} => posted[j] = <<>>
    /\ pc[j] \in Undecided => posted[j] = <<>> /\ row[j] \in {"pending", "deleted"}
    /\ pc[j] = "resolved" => posted[j] = <<>> /\ row[j] \in {verdict[j], "deleted"}
    /\ \/ posted[j] = <<>>
       \/ posted[j] = <<verdict[j]>> /\ row[j] \in {verdict[j], "deleted"}

\* A poll that may still store a count was not beyond max_polls when it began.
Counted(j) ==
    /\ row[j] \in {"absent", "pending"} => polls[j] <= MaxPolls
    /\ pc[j] \in {"looking", "calling", "counting"} => polls[j] < MaxPolls
    /\ pc[j] = "judging" /\ store = "mongo" => polls[j] < MaxPolls
    /\ pc[j] = "marking" => polls[j] <= MaxPolls

\* A verdict in a row has its message, or the poll that wrote it is about to
\* post it; with SQLite no deletion gets in between.
Followed(j) ==
    /\ row[j] \in Outcomes => posted[j] # <<>> \/ pc[j] = "resolved" \/ lost[j]
    /\ store = "sqlite" /\ pc[j] = "resolved" => row[j] # "deleted"
    /\ pc[j] \in {"looking", "counting", "marking"} => store = "mongo"

IInv == TypeOK /\ \A j \in Job : Announced(j) /\ Counted(j) /\ Followed(j)

USE DEF RowStates, Outcomes, PollStates, Stores, Undecided

LEMMA InitInv == Init => IInv
<1> SUFFICES ASSUME Init PROVE IInv
  OBVIOUS
<1>1. TypeOK
  <2>1. posted \in [Job -> Seq(Outcomes)]
    <3>1. <<>> \in Seq(Outcomes)
      OBVIOUS
    <3> QED
      BY <3>1 DEF Init
  <2>2. lost \in [Job -> BOOLEAN] /\ timer \in [Job -> BOOLEAN]
    BY Zenon DEF Init
  <2>3. stops \in 0 .. MaxStops /\ polls \in [Job -> 0 .. MaxPolls + 1]
    BY MaxPollsAssumption, MaxStopsAssumption DEF Init
  <2> QED
    BY <2>1, <2>2, <2>3 DEF Init, TypeOK
<1>2. ASSUME NEW j \in Job PROVE Announced(j) /\ Counted(j) /\ Followed(j)
  <2>1. row[j] = "absent" /\ pc[j] = "idle" /\ posted[j] = <<>> /\ polls[j] = 0
    BY DEF Init
  <2> QED
    BY <2>1, MaxPollsAssumption DEF Announced, Counted, Followed
<1> QED
  BY <1>1, <1>2 DEF IInv

LEMMA PersistInv ==
    ASSUME IInv, NEW j \in Job, Persist(j)
    PROVE  IInv'
<1> USE MaxPollsAssumption
<1>1. TypeOK'
  BY DEF IInv, TypeOK, Announced, Counted, Persist, worldVars, rigid, Goto
<1>2. ASSUME NEW i \in Job PROVE Announced(i)'
  BY DEF IInv, TypeOK, Announced, Counted, Persist, worldVars, rigid, Goto
<1>3. ASSUME NEW i \in Job PROVE Counted(i)'
  BY DEF IInv, TypeOK, Announced, Counted, Persist, worldVars, rigid, Goto
<1>4. ASSUME NEW i \in Job PROVE Followed(i)'
  BY DEF IInv, TypeOK, Announced, Followed, Persist, worldVars, rigid, Goto
<1> QED
  BY <1>1, <1>2, <1>3, <1>4 DEF IInv

LEMMA RegisterInv ==
    ASSUME IInv, NEW j \in Job, Register(j)
    PROVE  IInv'
<1> USE MaxPollsAssumption
<1>1. TypeOK'
  BY DEF IInv, TypeOK, Announced, Counted, Register, worldVars, rigid, Goto
<1>2. ASSUME NEW i \in Job PROVE Announced(i)'
  BY DEF IInv, TypeOK, Announced, Counted, Register, worldVars, rigid, Goto
<1>3. ASSUME NEW i \in Job PROVE Counted(i)'
  BY DEF IInv, TypeOK, Announced, Counted, Register, worldVars, rigid, Goto
<1>4. ASSUME NEW i \in Job PROVE Followed(i)'
  BY DEF IInv, TypeOK, Announced, Followed, Register, worldVars, rigid, Goto
<1> QED
  BY <1>1, <1>2, <1>3, <1>4 DEF IInv

LEMMA StopAtOnceInv ==
    ASSUME IInv, NEW j \in Job, StopAtOnce(j)
    PROVE  IInv'
<1> USE MaxPollsAssumption
<1>1. TypeOK'
  BY DEF IInv, TypeOK, Announced, Counted, StopAtOnce, Due, Open, worldVars, rigid, Goto
<1>2. ASSUME NEW i \in Job PROVE Announced(i)'
  BY DEF IInv, TypeOK, Announced, Counted, StopAtOnce, Due, Open, worldVars, rigid, Goto
<1>3. ASSUME NEW i \in Job PROVE Counted(i)'
  BY DEF IInv, TypeOK, Announced, Counted, StopAtOnce, Due, Open, worldVars, rigid, Goto
<1>4. ASSUME NEW i \in Job PROVE Followed(i)'
  BY DEF IInv, TypeOK, Announced, Followed, StopAtOnce, Due, Open, worldVars, rigid, Goto
<1> QED
  BY <1>1, <1>2, <1>3, <1>4 DEF IInv

LEMMA GiveUpInv ==
    ASSUME IInv, NEW j \in Job, GiveUp(j)
    PROVE  IInv'
<1> USE MaxPollsAssumption
<1>1. TypeOK'
  BY DEF IInv, TypeOK, Announced, Counted, GiveUp, Due, Open, Exhausted, Mark, SetRow, SetCount, Count, worldVars, rigid, Goto
<1>2. ASSUME NEW i \in Job PROVE Announced(i)'
  BY DEF IInv, TypeOK, Announced, Counted, GiveUp, Due, Open, Exhausted, Mark, SetRow, SetCount, Count, worldVars, rigid, Goto
<1>3. ASSUME NEW i \in Job PROVE Counted(i)'
  BY DEF IInv, TypeOK, Announced, Counted, GiveUp, Due, Open, Exhausted, Mark, SetRow, SetCount, Count, worldVars, rigid, Goto
<1>4. ASSUME NEW i \in Job PROVE Followed(i)'
  BY DEF IInv, TypeOK, Announced, Followed, GiveUp, Due, Open, Exhausted, Mark, SetRow, SetCount, Count, worldVars, rigid, Goto
<1> QED
  BY <1>1, <1>2, <1>3, <1>4 DEF IInv

LEMMA ServerGoneInv ==
    ASSUME IInv, NEW j \in Job, ServerGone(j)
    PROVE  IInv'
<1> USE MaxPollsAssumption
<1>1. TypeOK'
  BY DEF IInv, TypeOK, Announced, Counted, ServerGone, Due, Open, Exhausted, Mark, SetRow, SetCount, Count, worldVars, rigid, Goto
<1>2. ASSUME NEW i \in Job PROVE Announced(i)'
  BY DEF IInv, TypeOK, Announced, Counted, ServerGone, Due, Open, Exhausted, Mark, SetRow, SetCount, Count, worldVars, rigid, Goto
<1>3. ASSUME NEW i \in Job PROVE Counted(i)'
  BY DEF IInv, TypeOK, Announced, Counted, ServerGone, Due, Open, Exhausted, Mark, SetRow, SetCount, Count, worldVars, rigid, Goto
<1>4. ASSUME NEW i \in Job PROVE Followed(i)'
  BY DEF IInv, TypeOK, Announced, Followed, ServerGone, Due, Open, Exhausted, Mark, SetRow, SetCount, Count, worldVars, rigid, Goto
<1> QED
  BY <1>1, <1>2, <1>3, <1>4 DEF IInv

LEMMA CallInv ==
    ASSUME IInv, NEW j \in Job, Call(j)
    PROVE  IInv'
<1> USE MaxPollsAssumption
<1>1. TypeOK'
  BY DEF IInv, TypeOK, Announced, Counted, Call, Due, Open, Exhausted, Count, worldVars, rigid, Goto
<1>2. ASSUME NEW i \in Job PROVE Announced(i)'
  BY DEF IInv, TypeOK, Announced, Counted, Call, Due, Open, Exhausted, Count, worldVars, rigid, Goto
<1>3. ASSUME NEW i \in Job PROVE Counted(i)'
  BY DEF IInv, TypeOK, Announced, Counted, Call, Due, Open, Exhausted, Count, worldVars, rigid, Goto
<1>4. ASSUME NEW i \in Job PROVE Followed(i)'
  BY DEF IInv, TypeOK, Announced, Followed, Call, Due, Open, Exhausted, Count, worldVars, rigid, Goto
<1> QED
  BY <1>1, <1>2, <1>3, <1>4 DEF IInv

LEMMA LoadInv ==
    ASSUME IInv, NEW j \in Job, Load(j)
    PROVE  IInv'
<1> USE MaxPollsAssumption
<1>1. TypeOK'
  BY DEF IInv, TypeOK, Announced, Counted, Load, Due, Open, Exhausted, Count, worldVars, rigid, Goto
<1>2. ASSUME NEW i \in Job PROVE Announced(i)'
  BY DEF IInv, TypeOK, Announced, Counted, Load, Due, Open, Exhausted, Count, worldVars, rigid, Goto
<1>3. ASSUME NEW i \in Job PROVE Counted(i)'
  BY DEF IInv, TypeOK, Announced, Counted, Load, Due, Open, Exhausted, Count, worldVars, rigid, Goto
<1>4. ASSUME NEW i \in Job PROVE Followed(i)'
  BY DEF IInv, TypeOK, Announced, Followed, Load, Due, Open, Exhausted, Count, worldVars, rigid, Goto
<1> QED
  BY <1>1, <1>2, <1>3, <1>4 DEF IInv

LEMMA LeaveInv ==
    ASSUME IInv, NEW j \in Job, Leave(j)
    PROVE  IInv'
<1> USE MaxPollsAssumption
<1>1. TypeOK'
  BY DEF IInv, TypeOK, Announced, Counted, Leave, worldVars, rigid, Goto
<1>2. ASSUME NEW i \in Job PROVE Announced(i)'
  BY DEF IInv, TypeOK, Announced, Counted, Leave, worldVars, rigid, Goto
<1>3. ASSUME NEW i \in Job PROVE Counted(i)'
  BY DEF IInv, TypeOK, Announced, Counted, Leave, worldVars, rigid, Goto
<1>4. ASSUME NEW i \in Job PROVE Followed(i)'
  BY DEF IInv, TypeOK, Announced, Followed, Leave, worldVars, rigid, Goto
<1> QED
  BY <1>1, <1>2, <1>3, <1>4 DEF IInv

LEMMA FindServerInv ==
    ASSUME IInv, NEW j \in Job, FindServer(j)
    PROVE  IInv'
<1> USE MaxPollsAssumption
<1>1. TypeOK'
  BY DEF IInv, TypeOK, Announced, Counted, FindServer, worldVars, rigid, Goto
<1>2. ASSUME NEW i \in Job PROVE Announced(i)'
  BY DEF IInv, TypeOK, Announced, Counted, FindServer, worldVars, rigid, Goto
<1>3. ASSUME NEW i \in Job PROVE Counted(i)'
  BY DEF IInv, TypeOK, Announced, Counted, FindServer, worldVars, rigid, Goto
<1>4. ASSUME NEW i \in Job PROVE Followed(i)'
  BY DEF IInv, TypeOK, Announced, Followed, FindServer, worldVars, rigid, Goto
<1> QED
  BY <1>1, <1>2, <1>3, <1>4 DEF IInv

LEMMA ToolFailsInv ==
    ASSUME IInv, NEW j \in Job, ToolFails(j)
    PROVE  IInv'
<1> USE MaxPollsAssumption
<1>0. pc[j] = "calling" /\ polls[j] < MaxPolls /\ row[j] \in {"pending", "deleted"} /\ posted[j] = <<>>
  BY DEF IInv, TypeOK, Announced, Counted, ToolFails
<1>a. /\ polls'[j] \in Nat /\ polls'[j] <= MaxPolls
      /\ store = "mongo" => polls'[j] < MaxPolls
      /\ \A i \in Job \ {j} : polls'[i] = polls[i]
      /\ polls' \in [Job -> 0 .. MaxPolls + 1]
  <2>1. CASE store = "sqlite"
    <3>1. polls' = [polls EXCEPT ![j] = IF row[j] = "deleted" THEN @ ELSE polls[j] + 1]
      BY <2>1 DEF ToolFails, KeepCount, SetCount, Count
    <3>2. polls \in [Job -> 0 .. MaxPolls + 1]
      BY DEF IInv, TypeOK
    <3> QED
      BY <2>1, <3>1, <3>2, <1>0
  <2>2. CASE store = "mongo"
    BY <2>2, <1>0 DEF IInv, TypeOK, ToolFails
  <2> QED
    BY <2>1, <2>2 DEF IInv, TypeOK
<1>b. /\ pc'[j] \in {"idle", "counting", "judging"} /\ pc' \in [Job -> PollStates]
      /\ pc'[j] = "counting" => store = "mongo"
      /\ \A i \in Job \ {j} : pc'[i] = pc[i]
  BY <1>0 DEF IInv, TypeOK, ToolFails, Goto
<1>c. UNCHANGED <<row, timer, verdict, posted, store, provider, server, agent, stops, lost>>
  BY DEF ToolFails, worldVars, rigid
<1>1. TypeOK'
  BY <1>a, <1>b, <1>c DEF IInv, TypeOK
<1>2. ASSUME NEW i \in Job PROVE Announced(i)'
  BY <1>0, <1>b, <1>c DEF IInv, TypeOK, Announced
<1>3. ASSUME NEW i \in Job PROVE Counted(i)'
  <2>1. CASE i = j
    BY <2>1, <1>0, <1>a, <1>b, <1>c DEF IInv, TypeOK, Counted
  <2>2. CASE i # j
    BY <2>2, <1>a, <1>b, <1>c DEF IInv, Counted
  <2> QED
    BY <2>1, <2>2
<1>4. ASSUME NEW i \in Job PROVE Followed(i)'
  BY <1>0, <1>b, <1>c DEF IInv, TypeOK, Announced, Followed
<1> QED
  BY <1>1, <1>2, <1>3, <1>4 DEF IInv

LEMMA ToolAnswersInv ==
    ASSUME IInv, NEW j \in Job, ToolAnswers(j)
    PROVE  IInv'
<1> USE MaxPollsAssumption
<1>0. pc[j] = "calling" /\ polls[j] < MaxPolls /\ row[j] \in {"pending", "deleted"} /\ posted[j] = <<>>
  BY DEF IInv, TypeOK, Announced, Counted, ToolAnswers
<1>a. /\ polls'[j] \in Nat /\ polls'[j] <= MaxPolls
      /\ store = "mongo" => polls'[j] < MaxPolls
      /\ \A i \in Job \ {j} : polls'[i] = polls[i]
      /\ polls' \in [Job -> 0 .. MaxPolls + 1]
  <2>1. CASE store = "sqlite"
    <3>1. polls' = [polls EXCEPT ![j] = IF row[j] = "deleted" THEN @ ELSE polls[j] + 1]
      BY <2>1 DEF ToolAnswers, KeepCount, SetCount, Count
    <3>2. polls \in [Job -> 0 .. MaxPolls + 1]
      BY DEF IInv, TypeOK
    <3> QED
      BY <2>1, <3>1, <3>2, <1>0
  <2>2. CASE store = "mongo"
    BY <2>2, <1>0 DEF IInv, TypeOK, ToolAnswers
  <2> QED
    BY <2>1, <2>2 DEF IInv, TypeOK
<1>b. /\ pc'[j] \in {"idle", "counting", "judging"} /\ pc' \in [Job -> PollStates]
      /\ pc'[j] = "counting" => store = "mongo"
      /\ \A i \in Job \ {j} : pc'[i] = pc[i]
  BY <1>0 DEF IInv, TypeOK, ToolAnswers, Goto
<1>c. UNCHANGED <<row, timer, verdict, posted, store, provider, server, agent, stops, lost>>
  BY DEF ToolAnswers, worldVars, rigid
<1>1. TypeOK'
  BY <1>a, <1>b, <1>c DEF IInv, TypeOK
<1>2. ASSUME NEW i \in Job PROVE Announced(i)'
  BY <1>0, <1>b, <1>c DEF IInv, TypeOK, Announced
<1>3. ASSUME NEW i \in Job PROVE Counted(i)'
  <2>1. CASE i = j
    BY <2>1, <1>0, <1>a, <1>b, <1>c DEF IInv, TypeOK, Counted
  <2>2. CASE i # j
    BY <2>2, <1>a, <1>b, <1>c DEF IInv, Counted
  <2> QED
    BY <2>1, <2>2
<1>4. ASSUME NEW i \in Job PROVE Followed(i)'
  BY <1>0, <1>b, <1>c DEF IInv, TypeOK, Announced, Followed
<1> QED
  BY <1>1, <1>2, <1>3, <1>4 DEF IInv

LEMMA JudgePendingInv ==
    ASSUME IInv, NEW j \in Job, JudgePending(j)
    PROVE  IInv'
<1> USE MaxPollsAssumption
<1>1. TypeOK'
  BY DEF IInv, TypeOK, Announced, Counted, JudgePending, worldVars, rigid, Goto
<1>2. ASSUME NEW i \in Job PROVE Announced(i)'
  BY DEF IInv, TypeOK, Announced, Counted, JudgePending, worldVars, rigid, Goto
<1>3. ASSUME NEW i \in Job PROVE Counted(i)'
  BY DEF IInv, TypeOK, Announced, Counted, JudgePending, worldVars, rigid, Goto
<1>4. ASSUME NEW i \in Job PROVE Followed(i)'
  BY DEF IInv, TypeOK, Announced, Followed, JudgePending, worldVars, rigid, Goto
<1> QED
  BY <1>1, <1>2, <1>3, <1>4 DEF IInv

LEMMA WriteCountInv ==
    ASSUME IInv, NEW j \in Job, WriteCount(j)
    PROVE  IInv'
<1> USE MaxPollsAssumption
<1>1. TypeOK'
  BY DEF IInv, TypeOK, Announced, Counted, WriteCount, KeepCount, SetCount, Count, worldVars, rigid, Goto
<1>2. ASSUME NEW i \in Job PROVE Announced(i)'
  BY DEF IInv, TypeOK, Announced, Counted, WriteCount, KeepCount, SetCount, Count, worldVars, rigid, Goto
<1>3. ASSUME NEW i \in Job PROVE Counted(i)'
  BY DEF IInv, TypeOK, Announced, Counted, WriteCount, KeepCount, SetCount, Count, worldVars, rigid, Goto
<1>4. ASSUME NEW i \in Job PROVE Followed(i)'
  BY DEF IInv, TypeOK, Announced, Followed, WriteCount, KeepCount, SetCount, Count, worldVars, rigid, Goto
<1> QED
  BY <1>1, <1>2, <1>3, <1>4 DEF IInv

LEMMA WriteVerdictInv ==
    ASSUME IInv, NEW j \in Job, WriteVerdict(j)
    PROVE  IInv'
<1> USE MaxPollsAssumption
<1>1. TypeOK'
  BY DEF IInv, TypeOK, Announced, Counted, WriteVerdict, Mark, SetRow, SetCount, Count, worldVars, rigid, Goto
<1>2. ASSUME NEW i \in Job PROVE Announced(i)'
  BY DEF IInv, TypeOK, Announced, Counted, WriteVerdict, Mark, SetRow, SetCount, Count, worldVars, rigid, Goto
<1>3. ASSUME NEW i \in Job PROVE Counted(i)'
  BY DEF IInv, TypeOK, Announced, Counted, WriteVerdict, Mark, SetRow, SetCount, Count, worldVars, rigid, Goto
<1>4. ASSUME NEW i \in Job PROVE Followed(i)'
  BY DEF IInv, TypeOK, Announced, Followed, WriteVerdict, Mark, SetRow, SetCount, Count, worldVars, rigid, Goto
<1> QED
  BY <1>1, <1>2, <1>3, <1>4 DEF IInv

LEMMA PostInv ==
    ASSUME IInv, NEW j \in Job, Post(j)
    PROVE  IInv'
<1> USE MaxPollsAssumption
<1>0. posted[j] = <<>> /\ Append(posted[j], verdict[j]) = <<verdict[j]>>
  <2>1. posted[j] = <<>> /\ verdict[j] \in Outcomes
    BY DEF IInv, TypeOK, Announced, Post
  <2>2. Append(<<>>, verdict[j]) = <<verdict[j]>>
    OBVIOUS
  <2> QED
    BY <2>1, <2>2
<1>1. TypeOK'
  BY DEF IInv, TypeOK, Announced, Counted, Post, worldVars, rigid, Goto
<1>2. ASSUME NEW i \in Job PROVE Announced(i)'
  BY <1>0 DEF IInv, TypeOK, Announced, Counted, Post, worldVars, rigid, Goto
<1>3. ASSUME NEW i \in Job PROVE Counted(i)'
  BY DEF IInv, TypeOK, Announced, Counted, Post, worldVars, rigid, Goto
<1>4. ASSUME NEW i \in Job PROVE Followed(i)'
  BY <1>0 DEF IInv, TypeOK, Announced, Followed, Post, worldVars, rigid, Goto
<1> QED
  BY <1>1, <1>2, <1>3, <1>4 DEF IInv

LEMMA UnscheduleInv ==
    ASSUME IInv, NEW j \in Job, Unschedule(j)
    PROVE  IInv'
<1> USE MaxPollsAssumption
<1>1. TypeOK'
  BY DEF IInv, TypeOK, Announced, Counted, Unschedule, worldVars, rigid, Goto
<1>2. ASSUME NEW i \in Job PROVE Announced(i)'
  BY DEF IInv, TypeOK, Announced, Counted, Unschedule, worldVars, rigid, Goto
<1>3. ASSUME NEW i \in Job PROVE Counted(i)'
  BY DEF IInv, TypeOK, Announced, Counted, Unschedule, worldVars, rigid, Goto
<1>4. ASSUME NEW i \in Job PROVE Followed(i)'
  BY DEF IInv, TypeOK, Announced, Followed, Unschedule, worldVars, rigid, Goto
<1> QED
  BY <1>1, <1>2, <1>3, <1>4 DEF IInv

LEMMA JudgeFinalInv ==
    ASSUME IInv, NEW j \in Job, NEW outcome \in {"completed", "failed"}, JudgeFinal(j, outcome)
    PROVE  IInv'
<1> USE MaxPollsAssumption
<1>1. TypeOK'
  <2>1. /\ row' \in [Job -> RowStates] /\ pc' \in [Job -> PollStates]
        /\ verdict' \in [Job -> Outcomes]
    BY ZenonT(40) DEF IInv, TypeOK, JudgeFinal, SetRow, RowStillThere, Goto
  <2> QED
    BY <2>1 DEF IInv, TypeOK, JudgeFinal, worldVars, rigid
<1>2. ASSUME NEW i \in Job PROVE Announced(i)'
  BY SMTT(60) DEF IInv, TypeOK, Announced, Counted, JudgeFinal, SetRow, RowStillThere, worldVars, rigid, Goto
<1>3. ASSUME NEW i \in Job PROVE Counted(i)'
  BY SMTT(60) DEF IInv, TypeOK, Announced, Counted, JudgeFinal, SetRow, RowStillThere, worldVars, rigid, Goto
<1>4. ASSUME NEW i \in Job PROVE Followed(i)'
  BY DEF IInv, TypeOK, Announced, Followed, JudgeFinal, SetRow, RowStillThere, worldVars, rigid, Goto
<1> QED
  BY <1>1, <1>2, <1>3, <1>4 DEF IInv

LEMMA DeleteServerInv ==
    ASSUME IInv, DeleteServer
    PROVE  IInv'
<1> USE MaxPollsAssumption
<1>1. TypeOK'
  BY DEF IInv, TypeOK, Announced, Counted, DeleteServer, jobVars, rigid
<1>2. ASSUME NEW i \in Job PROVE Announced(i)'
  BY DEF IInv, TypeOK, Announced, Counted, DeleteServer, jobVars, rigid
<1>3. ASSUME NEW i \in Job PROVE Counted(i)'
  BY DEF IInv, TypeOK, Announced, Counted, DeleteServer, jobVars, rigid
<1>4. ASSUME NEW i \in Job PROVE Followed(i)'
  BY DEF IInv, TypeOK, Announced, Followed, DeleteServer, jobVars, rigid, NobodyHeld, HeldSteps
<1> QED
  BY <1>1, <1>2, <1>3, <1>4 DEF IInv

LEMMA DeleteAgentInv ==
    ASSUME IInv, DeleteAgent
    PROVE  IInv'
<1> USE MaxPollsAssumption
<1>1. TypeOK'
  BY DEF IInv, TypeOK, Announced, Counted, DeleteAgent, DropJobs, jobVars, rigid
<1>2. ASSUME NEW i \in Job PROVE Announced(i)'
  BY DEF IInv, TypeOK, Announced, Counted, DeleteAgent, DropJobs, jobVars, rigid
<1>3. ASSUME NEW i \in Job PROVE Counted(i)'
  BY DEF IInv, TypeOK, Announced, Counted, DeleteAgent, DropJobs, jobVars, rigid
<1>4. ASSUME NEW i \in Job PROVE Followed(i)'
  BY ZenonT(40) DEF IInv, TypeOK, Announced, Followed, DeleteAgent, DropJobs, jobVars, rigid, NobodyHeld, HeldSteps
<1> QED
  BY <1>1, <1>2, <1>3, <1>4 DEF IInv

LEMMA DeleteJobsInv ==
    ASSUME IInv, DeleteJobs
    PROVE  IInv'
<1> USE MaxPollsAssumption
<1>1. TypeOK'
  BY DEF IInv, TypeOK, Announced, Counted, DeleteJobs, DropJobs, jobVars, rigid
<1>2. ASSUME NEW i \in Job PROVE Announced(i)'
  BY DEF IInv, TypeOK, Announced, Counted, DeleteJobs, DropJobs, jobVars, rigid
<1>3. ASSUME NEW i \in Job PROVE Counted(i)'
  BY DEF IInv, TypeOK, Announced, Counted, DeleteJobs, DropJobs, jobVars, rigid
<1>4. ASSUME NEW i \in Job PROVE Followed(i)'
  BY DEF IInv, TypeOK, Announced, Followed, DeleteJobs, DropJobs, jobVars, rigid, NobodyHeld, HeldSteps
<1> QED
  BY <1>1, <1>2, <1>3, <1>4 DEF IInv

LEMMA RestartInv ==
    ASSUME IInv, Restart
    PROVE  IInv'
<1> USE MaxPollsAssumption, MaxStopsAssumption
<1>1. TypeOK'
  BY DEF IInv, TypeOK, Announced, Counted, Restart, Restored, jobVars, rigid
<1>2. ASSUME NEW i \in Job PROVE Announced(i)'
  BY DEF IInv, TypeOK, Announced, Counted, Restart, Restored, jobVars, rigid
<1>3. ASSUME NEW i \in Job PROVE Counted(i)'
  BY DEF IInv, TypeOK, Announced, Counted, Restart, Restored, jobVars, rigid
<1>4. ASSUME NEW i \in Job PROVE Followed(i)'
  BY DEF IInv, TypeOK, Announced, Followed, Restart, Restored, jobVars, rigid, NobodyHeld, HeldSteps
<1> QED
  BY <1>1, <1>2, <1>3, <1>4 DEF IInv

LEMMA IdleInv ==
    ASSUME IInv, UNCHANGED vars
    PROVE  IInv'
<1> USE MaxPollsAssumption
<1>1. TypeOK'
  BY DEF IInv, TypeOK, Announced, Counted, vars
<1>2. ASSUME NEW i \in Job PROVE Announced(i)'
  BY DEF IInv, TypeOK, Announced, Counted, vars
<1>3. ASSUME NEW i \in Job PROVE Counted(i)'
  BY DEF IInv, TypeOK, Announced, Counted, vars
<1>4. ASSUME NEW i \in Job PROVE Followed(i)'
  BY DEF IInv, TypeOK, Announced, Followed, vars
<1> QED
  BY <1>1, <1>2, <1>3, <1>4 DEF IInv

LEMMA StepInv ==
    ASSUME IInv, [Next]_vars
    PROVE  IInv'
<1>1. ASSUME NEW j \in Job, Persist(j) PROVE IInv'
  BY <1>1, PersistInv
<1>2. ASSUME NEW j \in Job, Firing(j) PROVE IInv'
  BY <1>2, StopAtOnceInv, GiveUpInv, ServerGoneInv, CallInv, LoadInv DEF Firing
<1>3. ASSUME NEW j \in Job, Going(j) PROVE IInv'
  BY <1>3, RegisterInv, LeaveInv, FindServerInv, ToolFailsInv, ToolAnswersInv,
     JudgePendingInv, WriteCountInv, WriteVerdictInv, PostInv, UnscheduleInv, JudgeFinalInv
  DEF Going
<1>4. CASE DeleteServer \/ DeleteAgent \/ DeleteJobs \/ Restart
  BY <1>4, DeleteServerInv, DeleteAgentInv, DeleteJobsInv, RestartInv
<1>5. CASE Quiet \/ UNCHANGED vars
  BY <1>5, IdleInv DEF Quiet
<1> QED
  BY <1>1, <1>2, <1>3, <1>4, <1>5 DEF Next

LEMMA Invariance == Spec => []IInv
BY InitInv, StepInv, PTL DEF Spec

\* Every variable keeps its type; no poll is counted beyond max_polls + 1
\* (poll_async_job_sqlite and poll_async_job_mongo).
THEOREM TypeCorrect == Spec => []TypeOK
<1>1. IInv => TypeOK
  BY DEF IInv
<1> QED
  BY <1>1, Invariance, PTL

\* A job is announced at most once, and as what its row says, whatever polls,
\* deletions and stops do (the status test at the start of a poll).
THEOREM AnnouncedOnce == Spec => []OneHonestMessage
<1>1. ASSUME IInv PROVE OneHonestMessage
  <2> SUFFICES ASSUME NEW j \in Job
               PROVE  /\ Len(posted[j]) <= 1
                      /\ posted[j] # <<>> => row[j] \in {posted[j][1], "deleted"}
    BY DEF OneHonestMessage
  <2>1. CASE posted[j] = <<>>
    BY <2>1
  <2>2. CASE posted[j] = <<verdict[j]>> /\ row[j] \in {verdict[j], "deleted"}
    BY <2>2
  <2> QED
    BY <1>1, <2>1, <2>2 DEF IInv, Announced
<1> QED
  BY <1>1, Invariance, PTL

\* A row that says how its job ended has its message, or is getting it, or the
\* process stopped just there (_post_job_message after the commit).
THEOREM MessagesFollow == Spec => []MessageFollows
<1>1. IInv => MessageFollows
  BY DEF IInv, Followed, MessageFollows
<1> QED
  BY <1>1, Invariance, PTL

\* With SQLite no poll posts about a job that was deleted with its agent.
THEOREM DeletedAreQuiet == Spec => DeletedStaysQuiet
<1>1. ASSUME IInv, [Next]_vars, NEW j \in Job, store = "sqlite", row[j] = "deleted"
      PROVE  posted'[j] = posted[j]
  <2>1. ASSUME NEW i \in Job, Post(i) PROVE posted'[j] = posted[j]
    BY <1>1, <2>1 DEF IInv, TypeOK, Followed, Post
  <2>2. CASE \A i \in Job : ~Post(i)
    BY <1>1, <2>2, Zenon
    DEF Next, Persist, Firing, Going, Register, StopAtOnce, GiveUp, ServerGone, Call, Load,
        Leave, FindServer, ToolFails, ToolAnswers, JudgePending, JudgeFinal, WriteCount,
        WriteVerdict, Unschedule, DeleteServer, DeleteAgent, DeleteJobs, Restart, Quiet,
        jobVars, vars
  <2> QED
    BY <2>1, <2>2
<1>2. IInv /\ [Next]_vars =>
        [\A j \in Job : store = "sqlite" /\ row[j] = "deleted" => posted'[j] = posted[j]]_vars
  BY <1>1
<1> QED
  BY <1>2, Invariance, PTL DEF Spec, DeletedStaysQuiet

================================================================================
