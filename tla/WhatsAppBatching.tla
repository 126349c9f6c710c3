---------------------------- MODULE WhatsAppBatching ----------------------------
(* One WhatsApp chat: its messages come in while earlier ones are collected,    *)
(* stored and answered (services/whatsapp_service.py).                          *)
(*                                                                              *)
(* Mongo: a message is put into the buffer of its session and (re)starts a      *)
(* timer; when the timer fires, _flush_session stores the buffer, asks a model  *)
(* how to group it and launches an agent task, which a later message cancels.   *)
(* SQLite: each message is stored at once and its agent waits for the lock of   *)
(* the session.  A batch, its flush and its agent task are named by the first   *)
(* message of the batch.                                                        *)
EXTENDS Naturals, Sequences, FiniteSets, SequencesExt

CONSTANTS
    Msgs,     \* bound: how many messages come in
    Events,   \* bound: how many come in, calls fail and stops happen, taken together
    PageLimit \* 100 in the code

ASSUME MsgsAssumption == Msgs \in Nat
ASSUME EventsAssumption == Events \in Nat
ASSUME PageLimitAssumption == PageLimit \in Nat

\* Messages are numbered in the order in which their handlers begin.
Msg == 1 .. Msgs
NoTask == 0

\* "dropped": its handler raised; "lost": the process stopped before it was stored.
Places == {"new", "linking", "routed", "buffered",
           "stored", "dropped", "lost"}
RunStates == {"none", "storing", "queued", "starting", "thinking",
              "failing", "saving", "sending", "sent", "silent", "failed", "cancelled", "gone"}
OverStates == {"sent", "silent", "failed", "cancelled", "gone"}
Said(m) == [role |-> "user", of |-> m]
Answered(b) == [role |-> "assistant", of |-> b]
Entries == [role : {"user", "assistant"}, of : Msg]

VARIABLES
    store,   \* DATABASE_TYPE
    at,      \* where the handler of each message is
    contact, \* does the WAContactSession exist (unique by channel and chat)
    buffer,  \* state["buffer"]
    timer,   \* will a timer of the session fire
    batch,   \* the messages of each flush
    saved,   \* how many of them it has stored
    run,     \* where each flush or agent is
    outer,   \* a task that waits in asyncio.shield: none, waiting, cut
    task,    \* state["task"]
    line,    \* SQLite: who holds the session's lock, and who waits for it
    history, \* the messages table
    seen,    \* what each agent read of it
    troubles

inVars == <<at, contact>>
timerVars == <<buffer, timer>>
runVars == <<batch, saved, run, outer, task, seen>>
batchingVars == <<store, at, contact, buffer, timer, batch, saved, run, outer,
          task, line, history, seen, troubles>>

\* Types; and no message waits in the buffer without a timer.
BatchingTypeOK ==
    /\ store \in {"sqlite", "mongo"}
    /\ at \in [Msg -> Places]
    /\ contact \in BOOLEAN
    /\ buffer \in Seq(Msg) /\ line \in Seq(Msg)
    /\ timer = (buffer # <<>>)
    /\ batch \in [Msg -> Seq(Msg)] /\ saved \in [Msg -> Nat]
    /\ run \in [Msg -> RunStates]
    /\ outer \in [Msg -> {"none", "waiting", "cut"}]
    /\ task \in 0 .. Msgs
    /\ history \in Seq(Entries)
    /\ seen \in [Msg -> SUBSET Entries]
    /\ troubles \in 0 .. Events
    /\ \A m \in Msg : saved[m] <= Len(batch[m])

BatchingInit ==
    /\ store \in {"sqlite", "mongo"}
    /\ at = [m \in Msg |-> "new"]
    /\ contact = FALSE
    /\ buffer = <<>> /\ timer = FALSE
    /\ batch = [m \in Msg |-> <<>>] /\ saved = [m \in Msg |-> 0]
    /\ run = [m \in Msg |-> "none"] /\ outer = [m \in Msg |-> "none"]
    /\ task = NoTask
    /\ line = <<>> /\ history = <<>>
    /\ seen = [m \in Msg |-> {}]
    /\ troubles = 0

Arrived == {m \in Msg : at[m] # "new"}
Bounded == Cardinality(Arrived) + troubles < Events

\* Something goes wrong.
Trouble == Bounded /\ troubles' = troubles + 1

Move(m, place) == at' = [at EXCEPT ![m] = place]
Turn(b, place) == run' = [run EXCEPT ![b] = place]

--------------------------------------------------------------------------------
(* Mongo: a message finds its session *)

\* A message on an active channel from somebody on its list; others end here,
\* with a rejection at most.
Arrives(m) == Bounded /\ at[m] = "new" /\ \A k \in 1 .. m - 1 : at[k] # "new"

\* find_by_channel_and_chat
FindContact(m) ==
    /\ store = "mongo" /\ Arrives(m)
    /\ Move(m, IF contact THEN "routed" ELSE "linking")
    /\ UNCHANGED <<store, contact, line, history, troubles>>
    /\ UNCHANGED timerVars /\ UNCHANGED runVars

\* A session is created, and WAContactSessionCollection.create: the unique index refuses the second of two
\* first messages, whose handler ends there; the first goes on, after two seconds
\* if a welcome message is sent.
LinkContact(m) ==
    /\ at[m] = "linking"
    /\ contact' = TRUE
    /\ Move(m, IF contact THEN "dropped" ELSE "routed")
    /\ UNCHANGED <<store, line, history, troubles>>
    /\ UNCHANGED timerVars /\ UNCHANGED runVars

\* _cancel_task: a task is stopped wherever it waits, but what it shields goes on.
Interrupt ==
    /\ task' = NoTask
    /\ IF task = NoTask THEN UNCHANGED <<run, outer>>
       ELSE /\ run' = [run EXCEPT ![task] =
                         IF @ \in {"starting", "thinking", "failing"} THEN "cancelled" ELSE @]
            /\ outer' = [outer EXCEPT ![task] = IF @ = "waiting" THEN "cut" ELSE @]

\* Mutant: the timer is not started again.
Rearm_Not == timer' = FALSE

\* _cancel_timer and call_later
Rearm == timer' = TRUE

\* The rest of _handle_mongo, without an await.
Buffer(m) ==
    /\ at[m] = "routed"
    /\ Move(m, "buffered")
    /\ Interrupt
    /\ buffer' = Append(buffer, m)
    /\ Rearm
    /\ UNCHANGED <<store, contact, batch, saved, seen, line, history, troubles>>

--------------------------------------------------------------------------------
(* Mongo: the timer and the flush *)

\* Mutant: the buffer is kept.
LeftInBuffer_All == buffer

LeftInBuffer == <<>>

\* A timer fires: _flush_session up to its first await.  A timer that fires just
\* before the next message starts another is forgotten, not stopped; what its
\* flush does is what that of the next timer may do.
StartFlush ==
    /\ timer /\ timer' = FALSE
    /\ IF buffer = <<>> THEN UNCHANGED <<buffer, batch, run>>
       ELSE LET b == Head(buffer) IN
            /\ batch' = [batch EXCEPT ![b] = buffer]
            /\ buffer' = LeftInBuffer
            /\ Turn(b, "storing")
    /\ UNCHANGED <<store, saved, outer, task, seen, line, history, troubles>>
    /\ UNCHANGED inVars

\* MessageCollection.create for one message after the other.
StoreNext(b) ==
    /\ run[b] = "storing" /\ saved[b] < Len(batch[b])
    /\ saved' = [saved EXCEPT ![b] = @ + 1]
    /\ history' = Append(history, Said(batch[b][saved[b] + 1]))
    /\ UNCHANGED <<store, batch, run, outer, task, seen, line, troubles>>
    /\ UNCHANGED inVars /\ UNCHANGED timerVars

\* One of them raises: the flush ends, the rest of the batch is gone.
StoreFails(b) ==
    /\ run[b] = "storing" /\ saved[b] < Len(batch[b])
    /\ Turn(b, "failed") /\ Trouble
    /\ UNCHANGED <<store, batch, saved, outer, task, seen, line, history>>
    /\ UNCHANGED inVars /\ UNCHANGED timerVars

\* With more than one message preprocess_batch is asked first how to group them;
\* its errors are swallowed.
Ready(b) == run[b] = "storing" /\ saved[b] = Len(batch[b])

\* The task replaces whatever state["task"] held.
Launch(b) ==
    /\ Ready(b)
    /\ Turn(b, "starting")
    /\ task' = b
    /\ UNCHANGED <<store, batch, saved, outer, seen, line, history, troubles>>
    /\ UNCHANGED inVars /\ UNCHANGED timerVars

--------------------------------------------------------------------------------
(* The agent *)

\* find_by_session without a limit of its own: the oldest rows.
Page == SubSeq(history, 1, IF Len(history) < PageLimit THEN Len(history) ELSE PageLimit)

\* Mongo: the rows of the page before its last so many messages, which are taken to
\* be the batch, and the batch; SQLite: all rows.  A row is before them when that
\* many messages come after it.
BeforeCutoff(size) ==
    {i \in 1 .. Len(Page) :
        Cardinality({k \in 1 .. Len(Page) : k > i /\ Page[k].role = "user"}) >= size}
HistoryRows(b) == {Page[i] : i \in BeforeCutoff(Len(batch[b]))}

\* Mutant: the batch is not appended to the rows before it.
BatchRows_None(b) == {}

BatchRows(b) == {Said(m) : m \in ToSet(batch[b])}

ReadHistory(b) ==
    /\ store = "mongo" /\ run[b] = "starting"
    /\ seen' = [seen EXCEPT ![b] = HistoryRows(b) \cup BatchRows(b)]
    /\ Turn(b, "thinking")
    /\ UNCHANGED <<store, batch, saved, outer, task, line, history, troubles>>
    /\ UNCHANGED inVars /\ UNCHANGED timerVars

\* No agent or no provider: there is no reply, and _deliver_reply has nothing to do.
NoAgent(b) ==
    /\ store = "mongo" /\ run[b] = "starting"
    /\ Turn(b, "silent") /\ Trouble
    /\ outer' = [outer EXCEPT ![b] = "waiting"]
    /\ UNCHANGED <<store, batch, saved, task, seen, line, history>>
    /\ UNCHANGED inVars /\ UNCHANGED timerVars

\* The rounds of the model and its tools: a reply, which _deliver_reply gets
\* inside asyncio.shield, none, or an exception.
Think(b) ==
    /\ store = "mongo" /\ run[b] = "thinking"
    /\ \/ Turn(b, "saving") /\ UNCHANGED troubles
       \/ (\E p \in {"silent", "failing"} : Turn(b, p)) /\ Trouble
    /\ outer' = [outer EXCEPT ![b] = IF run'[b] = "failing" THEN @ ELSE "waiting"]
    /\ UNCHANGED <<store, batch, saved, task, seen, line, history>>
    /\ UNCHANGED inVars /\ UNCHANGED timerVars

\* The `except Exception` branch: whoever's task it is, the entry is cleared.
Fail(b) ==
    /\ run[b] = "failing"
    /\ Turn(b, "failed")
    /\ task' = NoTask
    /\ UNCHANGED <<store, batch, saved, outer, seen, line, history, troubles>>
    /\ UNCHANGED inVars /\ UNCHANGED timerVars

SaveReply(b) ==
    /\ run[b] = "saving"
    /\ history' = Append(history, Answered(b))
    /\ Turn(b, "sending")
    /\ UNCHANGED <<store, batch, saved, outer, task, seen, line, troubles>>
    /\ UNCHANGED inVars /\ UNCHANGED timerVars

\* send_message swallows its errors.
SendReply(b) ==
    /\ run[b] = "sending"
    /\ Turn(b, "sent")
    /\ UNCHANGED <<store, batch, saved, outer, task, seen, line, history, troubles>>
    /\ UNCHANGED inVars /\ UNCHANGED timerVars

\* The `finally` around the shield: whoever's task it is, the entry is cleared.
LeaveShield(b) ==
    /\ \/ outer[b] = "cut"
       \/ outer[b] = "waiting" /\ run[b] \in {"sent", "silent"}
    /\ outer' = [outer EXCEPT ![b] = "none"]
    /\ task' = NoTask
    /\ UNCHANGED <<store, batch, saved, run, seen, line, history, troubles>>
    /\ UNCHANGED inVars /\ UNCHANGED timerVars

--------------------------------------------------------------------------------
(* SQLite *)

\* _handle_sqlite up to the lock, in one step of the event loop.
Receive(m) ==
    /\ store = "sqlite" /\ Arrives(m)
    /\ Move(m, "stored")
    /\ contact' = TRUE
    /\ batch' = [batch EXCEPT ![m] = <<m>>] /\ saved' = [saved EXCEPT ![m] = 1]
    /\ history' = Append(history, Said(m))
    /\ line' = Append(line, m)
    /\ Turn(m, "queued")
    /\ UNCHANGED <<store, outer, task, seen, troubles>>
    /\ UNCHANGED timerVars

\* asyncio.Lock is handed on in order.
HasLock(m) == line # <<>> /\ Head(line) = m

Lock(m) ==
    /\ run[m] = "queued" /\ HasLock(m)
    /\ Turn(m, "starting")
    /\ UNCHANGED <<store, batch, saved, outer, task, seen, line, history, troubles>>
    /\ UNCHANGED inVars /\ UNCHANGED timerVars

\* The rows, then memories, retrieval and tools, up to the first round of the model.
ReadAll(m) ==
    /\ store = "sqlite" /\ run[m] = "starting"
    /\ seen' = [seen EXCEPT ![m] = ToSet(history)]
    /\ Turn(m, "thinking")
    /\ UNCHANGED <<store, batch, saved, outer, task, line, history, troubles>>
    /\ UNCHANGED inVars /\ UNCHANGED timerVars

\* The lock is released by its holder, the first in line.
NoAgentSqlite(m) ==
    /\ store = "sqlite" /\ run[m] = "starting"
    /\ line' = Tail(line)
    /\ Turn(m, "silent") /\ Trouble
    /\ UNCHANGED <<store, batch, saved, outer, task, seen, history>>
    /\ UNCHANGED inVars /\ UNCHANGED timerVars

\* The rounds of the model and its tools end with no reply or an exception.
NoReply(m) ==
    /\ store = "sqlite" /\ run[m] = "thinking"
    /\ line' = Tail(line)
    /\ \E p \in {"silent", "failed"} : Turn(m, p)
    /\ Trouble
    /\ UNCHANGED <<store, batch, saved, outer, task, seen, history>>
    /\ UNCHANGED inVars /\ UNCHANGED timerVars

\* The lock is released, and the reply stored before the next await.
Reply(m) ==
    /\ store = "sqlite" /\ run[m] = "thinking"
    /\ line' = Tail(line)
    /\ Turn(m, "sending") /\ history' = Append(history, Answered(m))
    /\ UNCHANGED <<store, batch, saved, outer, task, seen, troubles>>
    /\ UNCHANGED inVars /\ UNCHANGED timerVars

--------------------------------------------------------------------------------

\* The process stops: buffers, timers, tasks and locks are only in memory.
Stop ==
    /\ Trouble
    /\ at' = [m \in Msg |->
                IF \/ at[m] \in {"linking", "routed"}
                   \/ at[m] = "buffered" /\ Said(m) \notin ToSet(history)
                THEN "lost" ELSE at[m]]
    /\ run' = [b \in Msg |-> IF run[b] \in OverStates \cup {"none"} THEN run[b] ELSE "gone"]
    /\ buffer' = <<>> /\ timer' = FALSE
    /\ outer' = [b \in Msg |-> "none"] /\ task' = NoTask /\ line' = <<>>
    /\ UNCHANGED <<store, contact, batch, saved, history, seen>>

\* What has come in is dealt with.
DealtWith ==
    /\ \A m \in Msg :
          /\ at[m] \notin {"linking", "routed"}
          /\ run[m] \in OverStates \cup {"none"} /\ outer[m] = "none"
    /\ ~timer
    /\ UNCHANGED batchingVars

Incoming(m) == FindContact(m) \/ LinkContact(m) \/ Buffer(m)

\* A flush and its agent task, from beginning to end.
Running(b) ==
    \/ StoreNext(b) \/ StoreFails(b) \/ Launch(b)
    \/ ReadHistory(b) \/ NoAgent(b) \/ Think(b) \/ Fail(b)
    \/ SaveReply(b) \/ SendReply(b)
    \/ Lock(b) \/ ReadAll(b) \/ NoAgentSqlite(b) \/ NoReply(b) \/ Reply(b)

BatchingNext ==
    \/ \E m \in Msg : Incoming(m) \/ Receive(m) \/ Running(m) \/ LeaveShield(m)
    \/ StartFlush
    \/ Stop
    \/ DealtWith

BatchingSpec == BatchingInit /\ [][BatchingNext]_batchingVars

\* Timers fire, calls return and the event loop goes on; that messages come in is
\* not assumed.
FairBatching ==
    /\ BatchingSpec
    /\ WF_batchingVars(StartFlush)
    /\ \A m \in Msg :
          /\ WF_batchingVars(Running(m)) /\ WF_batchingVars(LeaveShield(m))
          /\ WF_batchingVars(at[m] # "new" /\ Incoming(m))

--------------------------------------------------------------------------------
(* Properties *)

\* The messages a flush under way has taken and not stored yet.
Unsaved(b) ==
    IF run[b] = "storing" THEN ToSet(SubSeq(batch[b], saved[b] + 1, Len(batch[b]))) ELSE {}

\* A message that was taken in is in exactly one place until it is stored, and
\* is stored once, whatever timers and flushes overlap; the exceptions are a
\* flush that failed half way and a process that stopped.
StoredOnce ==
    /\ IsInjective(history)
    /\ IsInjective(buffer)
    /\ \A m \in Msg : at[m] = "buffered" =>
          \/ /\ \E b \in Msg : run[b] = "failed" /\ m \in ToSet(batch[b])
             /\ m \notin ToSet(buffer)
          \/ LET holders == <<m \in ToSet(buffer), \E b \in Msg : m \in Unsaved(b),
                             Said(m) \in ToSet(history)>>
             IN \E i \in 1 .. 3 : holders[i] /\ \A j \in 1 .. 3 : holders[j] => i = j

\* An agent answers knowing its batch and everything the table held before it.
\* With SQLite it has moreover seen every earlier answer: the session's lock lets
\* the next agent read only when the last one's reply is stored.
AnswersKnowTheChat ==
    \A b \in Msg : run[b] \in {"thinking", "saving", "sending", "sent"} =>
        /\ \A m \in ToSet(batch[b]) : Said(m) \in seen[b]
        /\ \A i, j \in 1 .. Len(history) :
               i < j /\ history[j] = Said(b) => history[i] \in seen[b]
        /\ store = "sqlite" /\ run[b] = "thinking" =>
               \A c \in Msg : Answered(c) \in ToSet(history) => Answered(c) \in seen[b]

Settled(m) ==
    \/ at[m] = "dropped"
    \/ \E b \in Msg : run[b] \in {"failed", "gone", "silent"} \/ at[b] = "lost"
    \/ \E b \in Msg : run[b] = "sent" /\ Said(m) \in seen[b]

\* Nobody is left waiting: whatever interrupts what, an agent that has seen the
\* message runs to its end, unless a flush or an agent failed or had nothing to
\* say (that of a later message too: it may have cancelled this one's) or the
\* process stopped.
NobodyIgnored == <>[](\A m \in Arrived : Settled(m))

================================================================================
