-------------------------------- MODULE ChatHitl --------------------------------
(* Human approval of the tool calls of one chat session.  A call that needs it  *)
(* leaves a pending record in hitl_approvals, puts an asyncio.Event into        *)
(* _hitl_events and waits; the endpoints check the record, write it and set the *)
(* events they find.  There are three places that wait:                         *)
(*   "middleware"  hitl_and_proposal_middleware (SQLite chat): the calls of one *)
(*                 model answer run side by side and share a database session;  *)
(*   "channel"     agent_runner (messaging channels): one call after the other; *)
(*   "inline"      the chat loops with MCP servers and with the Mongo store.    *)
(* The first two wait in _wait_for_approval_or_db_poll, the third for its event.*)
(* A channel on Mongo never gets to wait: see AskInVain.                        *)
(*                                                                              *)
(* SQLAlchemy's identity map is modelled: a query returns the object that the   *)
(* waiting handler still holds, with the values it has, until a commit of that  *)
(* session expires them.                                                        *)
EXTENDS Naturals, FiniteSets

CONSTANTS
    Call,    \* tool calls that need an approval
    Key,     \* session_id:tool_call_id
    KeyOf,   \* KeyOf[c]: the key c waits under
    Req,     \* requests to the endpoints
    Sites,   \* where the session may wait: records of a path, one of the three
             \* above, and a store, the DATABASE_TYPE
    NoCall

ASSUME KeyOfAssumption == KeyOf \in [Call -> Key]
ASSUME SitesAssumption ==
    Sites \subseteq [path : {"middleware", "channel", "inline"}, store : {"sqlite", "mongo"}]
ASSUME NoCallAssumption == NoCall \notin Call

Votes == {"approved", "denied"}

VARIABLES
    pc,        \* where each call is
    record,    \* status column of its record
    cached,    \* the status the stream's session holds: "expired" if none
    bySession, \* _hitl_events under the session's key
    byId,      \* calls whose event is in _hitl_events under the record's id
    signalled, \* is the event of this call set
    late,      \* the ten minutes are over
    outcome,   \* what became of the call
    reqState, target, vote,
    route,     \* "respond" or "session" (approve and reject)
    site       \* where this session waits

callVars == <<pc, record, cached, bySession, byId, signalled, late, outcome>>
reqVars == <<reqState, target, vote, route, site>>
vars == <<pc, record, cached, bySession, byId, signalled, late, outcome,
          reqState, target, vote, route, site>>

TypeOK ==
    /\ pc \in [Call -> {"idle", "waiting", "closing", "done", "dropped", "failed", "lost"}]
    /\ record \in [Call -> Votes \cup {"none", "pending"}]
    /\ cached \in [Call -> Votes \cup {"expired", "pending"}]
    /\ bySession \in [Key -> Call \cup {NoCall}]
    /\ byId \in SUBSET Call
    /\ signalled \in [Call -> BOOLEAN]
    /\ late \in [Call -> BOOLEAN]
    /\ outcome \in [Call -> {"none", "executed", "denied", "timed_out"}]
    /\ reqState \in [Req -> {"new", "checked", "written", "acked", "refused", "cut", "unheard"}]
    /\ target \in [Req -> Call]
    /\ vote \in [Req -> Votes]
    /\ route \in [Req -> {"respond", "session"}]
    /\ site \in Sites

Init ==
    /\ pc = [c \in Call |-> "idle"]
    /\ record = [c \in Call |-> "none"]
    /\ cached = [c \in Call |-> "expired"]
    /\ bySession = [k \in Key |-> NoCall]
    /\ byId = {}
    /\ signalled = [c \in Call |-> FALSE]
    /\ late = [c \in Call |-> FALSE]
    /\ outcome = [c \in Call |-> "none"]
    /\ reqState = [r \in Req |-> "new"]
    /\ target \in [Req -> Call]
    /\ vote \in [Req -> Votes]
    /\ route \in [Req -> {"respond", "session"}]
    /\ site \in Sites

--------------------------------------------------------------------------------
(* Waiting *)

Path == site.path
Store == site.store
\* Mutant: the loops with a wait of their own use the helper as well.
Polls_Everywhere == TRUE

Polls == Path \in {"middleware", "channel"}
WaitRaises == Path = "channel" /\ Store = "mongo"
\* Where the waiting handler reads its own object again, which may be out of date.
Stale == Path \in {"middleware", "channel"} /\ ~WaitRaises
Active(c) == pc[c] \in {"waiting", "closing"}

\* A commit of the stream's session, which then reads the status of S anew.
CommitAndRead(S, status) ==
    cached' = [c \in Call |-> IF c \in S THEN status ELSE "expired"]

\* Create, commit and refresh the record, and file a fresh event.
Ask(c) ==
    /\ pc[c] = "idle" /\ ~WaitRaises
    /\ Path # "middleware" => \A d \in Call : ~Active(d)
    /\ pc' = [pc EXCEPT ![c] = "waiting"]
    /\ record' = [record EXCEPT ![c] = "pending"]
    /\ CommitAndRead({c}, "pending")
    /\ bySession' = [bySession EXCEPT ![KeyOf[c]] = c]
    /\ byId' = IF Path = "middleware" THEN byId \cup {c} ELSE byId
    /\ UNCHANGED <<signalled, late, outcome>>
    /\ UNCHANGED reqVars

\* `if mongo_db and approval_id`: the driver's database object refuses to be used
\* as a truth value (Motor 3, pinned by uv.lock), so that the wait raises before
\* it begins; `finally` takes the event back and the run of the channel ends.
AskInVain(c) ==
    /\ pc[c] = "idle" /\ WaitRaises
    /\ pc' = [pc EXCEPT ![c] = "failed"]
    /\ record' = [record EXCEPT ![c] = "pending"]
    /\ UNCHANGED <<cached, bySession, byId, signalled, late, outcome>>
    /\ UNCHANGED reqVars

\* Another tool of the same answer commits on the shared session.
SiblingCommits ==
    /\ Path = "middleware" /\ \E c \in Call : Active(c)
    /\ CommitAndRead({}, "expired")
    /\ UNCHANGED <<pc, record, bySession, byId, signalled, late, outcome>>
    /\ UNCHANGED reqVars

TimeUp(c) ==
    /\ pc[c] = "waiting"
    /\ late' = [late EXCEPT ![c] = TRUE]
    /\ UNCHANGED <<pc, record, cached, bySession, byId, signalled, outcome>>
    /\ UNCHANGED reqVars

\* `finally`: take the event out of the dictionary, then go on.
Conclude(c, what) ==
    /\ pc' = [pc EXCEPT ![c] = "done"]
    /\ outcome' = [outcome EXCEPT ![c] = what]
    /\ bySession' = [bySession EXCEPT ![KeyOf[c]] = NoCall]
    /\ byId' = byId \ {c}
    /\ UNCHANGED <<signalled, late>>
    /\ UNCHANGED reqVars

\* What db.query(...).first() shows of the record.
Seen(c) == IF cached[c] = "expired" THEN record[c] ELSE cached[c]

OutcomeOf(status) == IF status = "approved" THEN "executed" ELSE "denied"

\* A turn of the loop of _wait_for_approval_or_db_poll reads the status.
Poll(c) ==
    /\ Polls /\ pc[c] = "waiting" /\ ~signalled[c]
    /\ cached' = [cached EXCEPT ![c] = Seen(c)]
    /\ IF Seen(c) \in Votes
       THEN Conclude(c, OutcomeOf(Seen(c)))
       ELSE UNCHANGED <<pc, outcome, bySession, byId, signalled, late>> /\ UNCHANGED reqVars
    /\ UNCHANGED record

\* After the loop, its event set or its time over, it reads once more and denies
\* what it still sees pending.
Settle(c) ==
    /\ Polls /\ pc[c] = "waiting" /\ (signalled[c] \/ late[c])
    /\ IF Seen(c) \in Votes
       THEN cached' = [cached EXCEPT ![c] = Seen(c)] /\ UNCHANGED record
       ELSE CommitAndRead({}, "expired") /\ record' = [record EXCEPT ![c] = "denied"]
    /\ Conclude(c, OutcomeOf(Seen(c)))

\* Mutant: whoever wakes is let through.
WakeOutcome_Always(status) == "executed"

WakeOutcome(status) == IF status = "denied" THEN "denied" ELSE "executed"

Refreshed(c) == record[c]

\* The loops with their own wait_for re-read the record with db.refresh, or with
\* find_by_id, when their event is set.
Wake(c) ==
    /\ ~Polls /\ pc[c] = "waiting" /\ signalled[c]
    /\ cached' = [cached EXCEPT ![c] = Refreshed(c)]
    /\ Conclude(c, WakeOutcome(Refreshed(c)))
    /\ UNCHANGED record

Deny(c) == record' = [record EXCEPT ![c] = "denied"]

GiveUp(c) ==
    /\ ~Polls /\ pc[c] = "waiting" /\ late[c]
    /\ IF Store = "sqlite"
       THEN /\ Deny(c)
            /\ CommitAndRead({}, "expired")
            /\ Conclude(c, "timed_out")
       ELSE /\ pc' = [pc EXCEPT ![c] = "closing"]
            /\ UNCHANGED <<record, cached, bySession, byId, signalled, late, outcome>>
            /\ UNCHANGED reqVars

\* update_status(approval_id, "denied"), whatever the record says by then.
Close(c) ==
    /\ pc[c] = "closing"
    /\ Deny(c)
    /\ Conclude(c, "timed_out")
    /\ UNCHANGED cached

\* The client goes away and the stream is cancelled: only the `finally` runs.
Drop ==
    /\ Path # "channel" /\ \E c \in Call : Active(c)
    /\ pc' = [c \in Call |-> IF Active(c) THEN "dropped" ELSE pc[c]]
    /\ bySession' = [k \in Key |-> NoCall]
    /\ byId' = {}
    /\ CommitAndRead({}, "expired")
    /\ UNCHANGED <<record, signalled, late, outcome>>
    /\ UNCHANGED reqVars

--------------------------------------------------------------------------------
(* The endpoints *)

Answer(r, s) == reqState' = [reqState EXCEPT ![r] = s]
Sendable(r) == reqState[r] = "new" /\ pc[target[r]] # "idle"

\* Mutant: the endpoints do not look at the status.
IsPending_Any(r) == TRUE

IsPending(r) == record[target[r]] = "pending"

\* Mutant: nobody is woken.
SignalFor_Not(r) == UNCHANGED signalled

\* approve and reject look up the session's key, respond also the record's id.
SignalFor(r) ==
    signalled' = [c \in Call |->
        \/ signalled[c]
        \/ c = bySession[KeyOf[target[r]]]
        \/ c = target[r] /\ c \in byId /\ route[r] = "respond"]

\* 404 "Approval not found or already resolved"
Refuse(r) ==
    /\ Sendable(r) /\ ~IsPending(r)
    /\ Answer(r, "refused")
    /\ UNCHANGED <<target, vote, route, site>>
    /\ UNCHANGED callVars

\* SQLite: everything in one step, in a session of the request's own.
Resolve(r) ==
    /\ Store = "sqlite" /\ Sendable(r) /\ IsPending(r)
    /\ record' = [record EXCEPT ![target[r]] = vote[r]]
    /\ SignalFor(r)
    /\ Answer(r, "acked")
    /\ UNCHANGED <<pc, cached, bySession, byId, late, outcome, target, vote, route, site>>

\* Mutant: the event is set before the record is updated.
Check_Wakes(r) ==
    /\ Store = "mongo" /\ Sendable(r) /\ IsPending(r)
    /\ Answer(r, "checked")
    /\ SignalFor(r)
    /\ UNCHANGED <<pc, record, cached, bySession, byId, late, outcome, target, vote, route, site>>

\* Mongo: find_by_id, update_status and event.set() with a wait in between.
Check(r) ==
    /\ Store = "mongo" /\ Sendable(r) /\ IsPending(r)
    /\ Answer(r, "checked")
    /\ UNCHANGED <<target, vote, route, site>>
    /\ UNCHANGED callVars

Write(r) ==
    /\ reqState[r] = "checked"
    /\ record' = [record EXCEPT ![target[r]] = vote[r]]
    /\ Answer(r, "written")
    /\ UNCHANGED <<pc, cached, bySession, byId, signalled, late, outcome, target, vote, route, site>>

Signal(r) ==
    /\ reqState[r] = "written"
    /\ SignalFor(r)
    /\ Answer(r, "acked")
    /\ UNCHANGED <<pc, record, cached, bySession, byId, late, outcome, target, vote, route, site>>

--------------------------------------------------------------------------------
(* The process *)

\* lifespan / deny_all_pending
AtStartup(c) == IF record[c] = "pending" THEN "denied" ELSE record[c]

\* The server stops and starts again.
Restart ==
    /\ \E c \in Call : pc[c] \in {"waiting", "closing", "dropped", "failed"}
    /\ pc' = [c \in Call |-> IF pc[c] = "done" THEN "done" ELSE "lost"]
    /\ record' = [c \in Call |-> AtStartup(c)]
    /\ cached' = [c \in Call |-> "expired"]
    /\ bySession' = [k \in Key |-> NoCall]
    /\ byId' = {}
    /\ reqState' = [r \in Req |-> CASE reqState[r] = "checked" -> "cut"
                                    [] reqState[r] = "written" -> "unheard"
                                    [] OTHER -> reqState[r]]
    /\ UNCHANGED <<signalled, late, outcome, target, vote, route, site>>

Quiet ==
    /\ \A c \in Call : pc[c] \in {"done", "dropped", "failed", "lost"}
    /\ \A r \in Req : reqState[r] \notin {"new", "checked", "written"}
    /\ UNCHANGED vars

CallStep(c) ==
    \/ Ask(c) \/ AskInVain(c) \/ TimeUp(c)
    \/ Poll(c) \/ Settle(c) \/ Wake(c) \/ GiveUp(c) \/ Close(c)
ReqStep(r) == Refuse(r) \/ Resolve(r) \/ Check(r) \/ Write(r) \/ Signal(r)

Next ==
    \/ \E c \in Call : CallStep(c)
    \/ \E r \in Req : ReqStep(r)
    \/ SiblingCommits \/ Drop
    \/ Restart
    \/ Quiet

Spec == Init /\ [][Next]_vars

\* The event loop runs what was woken, and a database call comes back.
FairSpec ==
    /\ Spec
    /\ \A c \in Call : WF_vars(Settle(c) \/ Wake(c) \/ Close(c) \/ GiveUp(c))
    /\ \A r \in Req : WF_vars(Write(r) \/ Signal(r))

--------------------------------------------------------------------------------
(* Properties *)

\* The requests whose vote reached the record of c.
Cast(c) == {r \in Req : target[r] = c /\ reqState[r] \in {"written", "acked", "unheard"}}

\* A tool that needs approval is executed only if somebody approved this very
\* call: not for an event set through a key two calls share, not for a status
\* read too early, not after a restart.
GateNeedsApproval ==
    \A c \in Call : outcome[c] = "executed" => \E r \in Cast(c) : vote[r] = "approved"

\* With the SQLite store, a denial that was confirmed to its sender is never
\* followed by the execution of the call.
DenialStops ==
    \A r \in Req : Store = "sqlite" /\ reqState[r] = "acked" /\ vote[r] = "denied" => outcome[target[r]] # "executed"

\* The model is told that the user denied the call only if somebody did, unless
\* the time was up ("only resumes based on the user's decision"), wherever the
\* waiting handler does not read a status that is out of date.
RefusalHonest ==
    \A c \in Call : outcome[c] = "denied" /\ ~late[c] /\ ~Stale =>
        \E r \in Cast(c) : vote[r] = "denied"

\* With the SQLite store, the record that remains tells what became of the call.
RecordTellsOutcome ==
    \A c \in Call : Store = "sqlite" /\ pc[c] = "done" =>
        record[c] = IF outcome[c] = "executed" THEN "approved" ELSE "denied"

\* No question stays open when its call is over or its process has stopped: the
\* client shows a card for every pending record.
NoQuestionLeftOpen ==
    \A c \in Call : pc[c] \in {"done", "lost"} => record[c] # "pending"

\* Whoever got an answer confirmed for a waiting call sees the call end, without
\* the timer.
AckResumes ==
    \A r \in Req :
        (reqState[r] = "acked" /\ pc[target[r]] = "waiting") ~> (pc[target[r]] # "waiting")

Gates == INSTANCE HumanGate WITH
    Gate <- Call,
    AutoOpen <- {},
    gate <- [c \in Call |-> CASE outcome[c] = "none" -> "shut"
                              [] outcome[c] = "executed" -> "open"
                              [] OTHER -> "refused"],
    said <- [c \in Call |-> {vote[r] : r \in Cast(c)}]

\* Tool calls that need approval are gates that never open by themselves.
ImplementsGate == Gates!Spec
================================================================================
