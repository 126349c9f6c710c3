-------------------------------- MODULE ChatProofs --------------------------------
(* Proofs about ChatHitl, for any number of calls, requests and places to wait, *)
(* about WhatsAppBatching, for any number of messages and failures, and about   *)
(* ChatTurn, for any number of turns and any team.                              *)
EXTENDS ChatHitl, ChatTurn, WhatsAppBatching, FiniteSetTheorems, SequenceTheorems, TLAPS

--------------------------------------------------------------------------------
(* WhatsApp: the inductive invariant *)

\* A message is in a flush.
InBatch(m) == \E b \in Msg : \E i \in 1 .. Len(batch[b]) : batch[b][i] = m

\* A flush is named by its first message, no message is in two or twice in one, and
\* what was collected waits in the buffer or is in a flush.
Collected ==
    /\ \A b \in Msg : run[b] = "none" <=> Len(batch[b]) = 0
    /\ \A b \in Msg : Len(batch[b]) > 0 => batch[b][1] = b
    /\ \A b, c \in Msg : \A i \in 1 .. Len(batch[b]), j \in 1 .. Len(batch[c]) :
           batch[b][i] = batch[c][j] => b = c /\ i = j
    /\ \A b \in Msg : \A i \in 1 .. Len(batch[b]) :
           at[batch[b][i]] \in {"buffered", "stored", "lost"}
    /\ \A i, j \in 1 .. Len(buffer) : buffer[i] = buffer[j] => i = j
    /\ \A i \in 1 .. Len(buffer) : at[buffer[i]] = "buffered"
    /\ \A b \in Msg : \A i \in 1 .. Len(batch[b]), j \in 1 .. Len(buffer) : batch[b][i] # buffer[j]
    /\ \A m \in Msg : at[m] = "buffered" =>
           InBatch(m) \/ \E i \in 1 .. Len(buffer) : buffer[i] = m

PastStoring(place) == place \notin {"none", "storing", "failed", "gone"}

\* The table holds the first so many messages of each flush, in order, and the
\* answers of those that got that far; a flush that is past storing has stored all.
Recorded ==
    /\ \A k, l \in 1 .. Len(history) : history[k] = history[l] => k = l
    /\ \A b \in Msg : \A i \in 1 .. saved[b] :
           \E k \in 1 .. Len(history) : history[k] = Said(batch[b][i])
    /\ \A k \in 1 .. Len(history) : history[k].role = "user" =>
           \E b \in Msg : \E i \in 1 .. saved[b] : batch[b][i] = history[k].of
    /\ \A k \in 1 .. Len(history) : history[k].role = "assistant" =>
           run[history[k].of] \in {"sending", "sent", "gone"}
    /\ \A b \in Msg : \A i \in 1 .. saved[b] : \A k, l \in 1 .. Len(history) :
           history[k] = Said(b) /\ history[l] = Said(batch[b][i]) => k <= l
    /\ \A b \in Msg : PastStoring(run[b]) => saved[b] = Len(batch[b])
    /\ \A b \in Msg : run[b] = "gone" =>
           \A i \in 1 .. Len(batch[b]) : at[batch[b][i]] = "buffered" => i <= saved[b]

\* SQLite: the line is made of those that wait and, in front, the one that runs.
InLine ==
    store = "sqlite" =>
        /\ buffer = <<>> /\ \A m \in Msg : at[m] \in {"new", "stored"}
        /\ \A b \in Msg : run[b] \notin {"storing", "failing", "saving"}
        /\ \A i, j \in 1 .. Len(line) : line[i] = line[j] => i = j
        /\ \A i \in 1 .. Len(line) :
               /\ run[line[i]] \in {"queued", "starting", "thinking"}
               /\ i > 1 => run[line[i]] = "queued"
        /\ \A m \in Msg : run[m] \in {"queued", "starting", "thinking"} =>
               \E i \in 1 .. Len(line) : line[i] = m

Knowing == {"thinking", "saving", "sending", "sent"}

\* What an agent that runs has read.
Informed ==
    \A b \in Msg : run[b] \in Knowing =>
        /\ \A i \in 1 .. Len(batch[b]) : Said(batch[b][i]) \in seen[b]
        /\ store = "sqlite" \/ Len(history) <= PageLimit =>
               \A i, j \in 1 .. Len(history) :
                   i < j /\ history[j] = Said(b) => history[i] \in seen[b]
        /\ store = "sqlite" /\ run[b] = "thinking" =>
               \A k \in 1 .. Len(history) :
                   history[k].role = "assistant" => history[k] \in seen[b]

BatchingInv == BatchingTypeOK /\ Collected /\ Recorded /\ InLine /\ Informed

--------------------------------------------------------------------------------
(* WhatsApp: types *)

\* While something may still happen the count of failures has room for one more.
LEMMA RoomForTrouble == ASSUME BatchingTypeOK, Trouble PROVE troubles' \in 0 .. Events
<1>1. IsFiniteSet(Arrived)
  <2>1. Msg \in SUBSET Nat /\ IsFiniteSet(Msg)
    BY FS_Interval, MsgsAssumption DEF Msg
  <2>2. Arrived \subseteq Msg
    BY DEF Arrived
  <2> QED
    BY <2>1, <2>2, FS_Subset
<1>2. Cardinality(Arrived) \in Nat
  BY <1>1, FS_CardinalityType
<1> QED
  BY <1>2, EventsAssumption DEF BatchingTypeOK, Trouble, Bounded

\* The elements of a sequence are in its set.
LEMMA ElementsOf == ASSUME NEW S, NEW s \in Seq(S) PROVE ToSet(s) \in SUBSET S
  BY DEF ToSet

\* The flush that a timer starts is a new one.
LEMMA FlushIsNew ==
  ASSUME BatchingTypeOK, Collected, buffer # <<>>
  PROVE  /\ Head(buffer) \in Msg /\ Head(buffer) = buffer[1] /\ Len(buffer) > 0
         /\ Len(batch[Head(buffer)]) = 0 /\ run[Head(buffer)] = "none"
         /\ saved[Head(buffer)] = 0
<1>1. buffer \in Seq(Msg) /\ Len(buffer) \in Nat /\ Len(buffer) > 0
  BY DEF BatchingTypeOK
<1>2. Head(buffer) = buffer[1] /\ buffer[1] \in Msg /\ 1 \in 1 .. Len(buffer)
  BY <1>1
<1> DEFINE b == buffer[1]
<1>3. batch[b] \in Seq(Msg) /\ Len(batch[b]) \in Nat
  BY <1>2 DEF BatchingTypeOK
<1>4. Len(batch[b]) = 0
  <2> SUFFICES ASSUME Len(batch[b]) > 0 PROVE FALSE
    BY <1>3
  <2>1. batch[b][1] = b /\ 1 \in 1 .. Len(batch[b])
    BY <1>2, <1>3 DEF Collected
  <2> QED
    BY <1>2, <2>1 DEF Collected
<1>5. run[b] = "none"
  BY <1>2, <1>4 DEF Collected
<1>6. saved[b] = 0
  BY <1>2, <1>4 DEF BatchingTypeOK
<1> QED
  BY <1>1, <1>2, <1>4, <1>5, <1>6

\* The session's lock is held by the agent that runs, the first in line.
LEMMA HolderIsFirst ==
  ASSUME BatchingTypeOK, InLine, store = "sqlite",
         NEW m \in Msg, run[m] \in {"starting", "thinking"}
  PROVE  line # <<>> /\ Len(line) \in Nat /\ Len(line) > 0 /\ line[1] = m
<1>1. line \in Seq(Msg) /\ Len(line) \in Nat
  BY DEF BatchingTypeOK
<1>2. PICK i \in 1 .. Len(line) : line[i] = m
  BY DEF InLine
<1>3. ~(i > 1)
  BY <1>2 DEF InLine
<1> QED
  BY <1>1, <1>2, <1>3

\* What one action does to the types, one lemma for those of Mongo and one for the
\* agents of both stores.
LEMMA RowsAreEntries ==
  ASSUME BatchingTypeOK, NEW b \in Msg
  PROVE  HistoryRows(b) \cup BatchRows(b) \in SUBSET Entries
<1>1. history \in Seq(Entries) /\ Len(history) \in Nat /\ batch[b] \in Seq(Msg)
  BY DEF BatchingTypeOK
<1> DEFINE n == IF Len(history) < PageLimit THEN Len(history) ELSE PageLimit
<1>2. n \in Nat /\ n <= Len(history)
  BY <1>1, PageLimitAssumption
<1>3. \A i \in 1 .. n : i \in 1 .. Len(history)
  BY <1>1, <1>2
<1>4. Page \in Seq(Entries)
  BY <1>1, <1>2, <1>3, SubSeqProperties DEF Page
<1>5. HistoryRows(b) \subseteq Entries
  <2>1. \A i \in 1 .. Len(Page) : Page[i] \in Entries
    BY <1>4
  <2> QED
    BY <2>1 DEF HistoryRows, BeforeCutoff
<1>6. BatchRows(b) \subseteq Entries
  BY <1>1 DEF BatchRows, Said, Entries, ToSet
<1> QED
  BY <1>5, <1>6

\* BatchingTypeOK is kept by every step.
LEMMA BatchingTypesStep ==
  ASSUME BatchingInv, BatchingNext
  PROVE  BatchingTypeOK'
<1>1. BatchingTypeOK /\ Collected /\ InLine
  BY DEF BatchingInv
<1>2. NoTask \in 0 .. Msgs /\ \A b \in Msg : b \in 0 .. Msgs
  BY MsgsAssumption DEF Msg, NoTask
<1>3. ASSUME NEW m \in Msg, Incoming(m) PROVE BatchingTypeOK'
  <2> USE DEF Move, timerVars, runVars
  <2>1. CASE FindContact(m)
    BY <1>1, <2>1 DEF FindContact, Places, BatchingTypeOK
  <2>2. CASE LinkContact(m)
    BY <1>1, <2>2 DEF LinkContact, Places, BatchingTypeOK
  <2>3. CASE Buffer(m)
    <3>1. buffer \in Seq(Msg)
      BY <1>1 DEF BatchingTypeOK
    <3>2. Append(buffer, m) \in Seq(Msg) /\ Append(buffer, m) # <<>>
      BY <3>1, AppendProperties
    <3>3. timer' = (buffer' # <<>>)
      BY <2>3, <3>2 DEF Buffer, Rearm
    <3>4. run' \in [Msg -> RunStates] /\ outer' \in [Msg -> {"none", "waiting", "cut"}]
      <4>1. CASE task = NoTask
        BY <1>1, <2>3, <4>1 DEF Buffer, Interrupt, BatchingTypeOK
      <4>2. CASE task # NoTask
        <5>1. /\ run' = [run EXCEPT ![task] =
                            IF @ \in {"starting", "thinking", "failing"} THEN "cancelled" ELSE @]
              /\ outer' = [outer EXCEPT ![task] = IF @ = "waiting" THEN "cut" ELSE @]
          BY <2>3, <4>2 DEF Buffer, Interrupt
        <5> QED
          BY <1>1, <5>1 DEF RunStates, BatchingTypeOK
      <4> QED
        BY <4>1, <4>2
    <3>5. task' \in 0 .. Msgs
      BY <1>2, <2>3 DEF Buffer, Interrupt
    <3> QED
      BY <1>1, <2>3, <3>2, <3>3, <3>4, <3>5 DEF Buffer, Places, BatchingTypeOK
  <2> QED
    BY <1>3, <2>1, <2>2, <2>3 DEF Incoming
<1>4. ASSUME NEW m \in Msg, Receive(m) PROVE BatchingTypeOK'
  <2> USE <1>1 DEF BatchingTypeOK, Receive, Move, Turn, timerVars
  <2>1. <<m>> \in Seq(Msg) /\ Len(<<m>>) = 1
    OBVIOUS
  <2>2. Append(history, Said(m)) \in Seq(Entries) /\ Append(line, m) \in Seq(Msg)
    BY AppendProperties DEF Said, Entries
  <2>3. \A c \in Msg : saved'[c] <= Len(batch'[c])
    BY <1>4, <2>1
  <2> QED
    BY <1>4, <2>1, <2>2, <2>3 DEF Places, RunStates
<1>5. ASSUME NEW b \in Msg, Running(b) PROVE BatchingTypeOK'
  <2> USE <1>1 DEF Turn, timerVars, inVars, RunStates, Entries, Said, Answered
  <2>1. CASE StoreNext(b)
    <3>1. batch[b] \in Seq(Msg) /\ saved[b] \in Nat /\ saved[b] + 1 <= Len(batch[b])
      BY <2>1 DEF StoreNext, BatchingTypeOK
    <3>2. Said(batch[b][saved[b] + 1]) \in Entries
      BY <3>1
    <3>3. history' \in Seq(Entries)
      BY <2>1, <3>2, AppendProperties DEF StoreNext, BatchingTypeOK
    <3>4. \A c \in Msg : saved'[c] <= Len(batch'[c])
      BY <2>1, <3>1 DEF StoreNext, BatchingTypeOK
    <3>5. saved' \in [Msg -> Nat]
      <4>1. saved[b] + 1 \in Nat
        BY <3>1
      <4> QED
        BY <2>1, <4>1 DEF StoreNext, BatchingTypeOK
    <3> QED
      BY <2>1, <3>3, <3>4, <3>5 DEF StoreNext, BatchingTypeOK
  <2>2. CASE StoreFails(b)
    <3>1. troubles' \in 0 .. Events
      BY <2>2, RoomForTrouble DEF StoreFails
    <3> QED
      BY <2>2, <3>1 DEF StoreFails, BatchingTypeOK
  <2>3. CASE Launch(b)
    BY <2>3, <1>2 DEF Launch, BatchingTypeOK
  <2>4. CASE ReadHistory(b)
    <3>1. seen' \in [Msg -> SUBSET Entries]
      BY <2>4, RowsAreEntries DEF ReadHistory, BatchingTypeOK
    <3> QED
      BY <2>4, <3>1 DEF ReadHistory, BatchingTypeOK
  <2>5. CASE NoAgent(b)
    <3>1. troubles' \in 0 .. Events
      BY <2>5, RoomForTrouble DEF NoAgent
    <3> QED
      BY <2>5, <3>1 DEF NoAgent, BatchingTypeOK
  <2>6. CASE Think(b)
    <3>1. troubles' \in 0 .. Events
      BY <2>6, RoomForTrouble DEF Think, BatchingTypeOK
    <3> QED
      BY <2>6, <3>1 DEF Think, BatchingTypeOK
  <2>7. CASE Fail(b)
    BY <2>7, <1>2 DEF Fail, BatchingTypeOK
  <2>8. CASE SaveReply(b)
    <3>1. Append(history, Answered(b)) \in Seq(Entries)
      BY AppendProperties DEF BatchingTypeOK
    <3> QED
      BY <2>8, <3>1 DEF SaveReply, BatchingTypeOK
  <2>9. CASE SendReply(b)
    BY <2>9 DEF SendReply, BatchingTypeOK
  <2>10. CASE Lock(b)
    BY <2>10 DEF Lock, BatchingTypeOK
  <2>11. CASE ReadAll(b)
    <3>1. history \in Seq(Entries)
      BY DEF BatchingTypeOK
    <3>2. ToSet(history) \in SUBSET Entries
      BY <3>1, ElementsOf
    <3> QED
      BY <2>11, <3>2 DEF ReadAll, BatchingTypeOK
  <2>12. CASE NoAgentSqlite(b) \/ NoReply(b)
    <3>1. troubles' \in 0 .. Events
      BY <2>12, RoomForTrouble DEF NoAgentSqlite, NoReply
    <3>2. line # <<>>
      BY <2>12, HolderIsFirst DEF NoAgentSqlite, NoReply
    <3>3. Tail(line) \in Seq(Msg)
      BY <3>2 DEF BatchingTypeOK
    <3> QED
      BY <2>12, <3>1, <3>3 DEF NoAgentSqlite, NoReply, BatchingTypeOK
  <2>13. CASE Reply(b)
    <3>1. line # <<>>
      BY <2>13, HolderIsFirst DEF Reply
    <3>2. Tail(line) \in Seq(Msg)
      BY <3>1 DEF BatchingTypeOK
    <3>3. Append(history, Answered(b)) \in Seq(Entries)
      BY AppendProperties DEF BatchingTypeOK
    <3> QED
      BY <2>13, <3>2, <3>3 DEF Reply, BatchingTypeOK
  <2> QED
    BY <1>5, <2>1, <2>2, <2>3, <2>4, <2>5, <2>6, <2>7, <2>8, <2>9, <2>10, <2>11, <2>12, <2>13 DEF Running
<1>6. ASSUME NEW b \in Msg, LeaveShield(b) PROVE BatchingTypeOK'
  BY <1>2, <1>1, <1>6 DEF BatchingTypeOK, LeaveShield, inVars, timerVars
<1>7. CASE StartFlush
  <2>1. CASE buffer = <<>>
    BY <1>1, <1>7, <2>1 DEF StartFlush, BatchingTypeOK, inVars
  <2>2. CASE buffer # <<>>
    <3> DEFINE b == Head(buffer)
    <3>1. b \in Msg /\ saved[b] = 0
      BY <1>1, <2>2, FlushIsNew
    <3>2. batch' = [batch EXCEPT ![b] = buffer] /\ run' = [run EXCEPT ![b] = "storing"]
          /\ buffer' = <<>> /\ timer' = FALSE
      BY <1>7, <2>2 DEF StartFlush, LeftInBuffer, Turn
    <3> HIDE DEF b
    <3>3. batch' \in [Msg -> Seq(Msg)] /\ run' \in [Msg -> RunStates]
      BY <1>1, <3>1, <3>2 DEF BatchingTypeOK, RunStates
    <3>4. \A c \in Msg : saved[c] <= Len(batch'[c])
      BY <1>1, <3>1, <3>2 DEF BatchingTypeOK
    <3>5. UNCHANGED <<store, at, contact, saved, outer, task, seen, line, history, troubles>>
      BY <1>7 DEF StartFlush, inVars
    <3>6. timer' = (buffer' # <<>>)
      BY <3>2, Zenon
    <3>7. buffer' \in Seq(Msg)
      BY <3>2
    <3> QED
      BY <1>1, <3>3, <3>4, <3>5, <3>6, <3>7 DEF BatchingTypeOK
  <2> QED
    BY <2>1, <2>2
<1>8. CASE Stop
  <2>1. troubles' \in 0 .. Events
    BY <1>1, <1>8, RoomForTrouble DEF Stop
  <2>2. at' \in [Msg -> Places] /\ run' \in [Msg -> RunStates]
    BY <1>1, <1>8 DEF Stop, BatchingTypeOK, Places, RunStates
  <2>3. outer' \in [Msg -> {"none", "waiting", "cut"}]
    BY <1>8 DEF Stop
  <2>4. buffer' = <<>> /\ timer' = FALSE /\ line' = <<>>
    BY <1>8 DEF Stop
  <2>5. timer' = (buffer' # <<>>)
    BY <2>4, Zenon
  <2>6. buffer' \in Seq(Msg) /\ line' \in Seq(Msg)
    BY <2>4
  <2>7. UNCHANGED <<store, contact, batch, saved, history, seen>> /\ task' = NoTask
    BY <1>8 DEF Stop
  <2> QED
    BY <1>2, <1>1, <2>1, <2>2, <2>3, <2>5, <2>6, <2>7 DEF BatchingTypeOK
<1>9. CASE DealtWith
  BY <1>1, <1>9 DEF DealtWith, BatchingTypeOK, batchingVars
<1> QED
  BY <1>3, <1>4, <1>5, <1>6, <1>7, <1>8, <1>9 DEF BatchingNext

--------------------------------------------------------------------------------
(* WhatsApp: where a message is *)

\* A step of a flush or agent leaves the chat's messages where they are; only three
\* kinds of step write to the table, and the others get past storing in good order.
LEMMA RunningEffects ==
  ASSUME BatchingTypeOK, NEW b \in Msg, Running(b)
  PROVE  /\ UNCHANGED <<store, at, buffer, batch>>
         /\ run[b] # "none" /\ run'[b] # "none" /\ run'[b] # "gone"
         /\ \A c \in Msg \ {b} : run'[c] = run[c]
         /\ \/ StoreNext(b) \/ SaveReply(b) \/ Reply(b)
            \/ /\ UNCHANGED <<history, saved>>
               /\ run[b] \in {"sending", "sent", "gone"} => run'[b] \in {"sending", "sent", "gone"}
               /\ PastStoring(run'[b]) => PastStoring(run[b]) \/ saved[b] = Len(batch[b])
<1> USE DEF BatchingTypeOK, Turn, inVars, timerVars
<1>1. CASE StoreNext(b)
  BY <1>1 DEF StoreNext
<1>2. CASE StoreFails(b) \/ Launch(b)
  BY <1>2 DEF StoreFails, Launch, Ready, PastStoring
<1>3. CASE ReadHistory(b) \/ NoAgent(b) \/ Fail(b)
  BY <1>3 DEF ReadHistory, NoAgent, Fail, PastStoring
<1>4. CASE Think(b)
  BY <1>4 DEF Think, PastStoring
<1>5. CASE SaveReply(b) \/ Reply(b)
  BY <1>5 DEF SaveReply, Reply
<1>6. CASE SendReply(b) \/ Lock(b) \/ ReadAll(b)
  BY <1>6 DEF SendReply, Lock, ReadAll, PastStoring
<1>7. CASE NoAgentSqlite(b) \/ NoReply(b)
  BY <1>7 DEF NoAgentSqlite, NoReply, PastStoring
<1> QED
  BY <1>1, <1>2, <1>3, <1>4, <1>5, <1>6, <1>7 DEF Running

\* Stopping a task leaves the other flushes alone.
LEMMA InterruptEffects ==
  ASSUME BatchingTypeOK, Interrupt
  PROVE  \A b \in Msg : run'[b] = run[b] \/ (PastStoring(run[b]) /\ run'[b] = "cancelled"
                                            /\ run[b] \in {"starting", "thinking", "failing"})
<1>1. CASE task = NoTask
  BY <1>1 DEF Interrupt
<1>2. CASE task # NoTask
  BY <1>2 DEF Interrupt, BatchingTypeOK, PastStoring
<1> QED
  BY <1>1, <1>2

\* Collected while no message moves.
LEMMA StillCollected ==
  ASSUME BatchingTypeOK, Collected, UNCHANGED <<batch, buffer>>,
         \A b \in Msg : run'[b] = "none" <=> run[b] = "none",
         \A m \in Msg : at[m] \in {"buffered", "stored", "lost"} => at'[m] = at[m],
         \A m \in Msg : at'[m] = "buffered" => at[m] = "buffered"
  PROVE  Collected'
<1>1. \A b \in Msg : \A i \in 1 .. Len(batch[b]) : batch[b][i] \in Msg
  BY DEF BatchingTypeOK
<1>2. \A i \in 1 .. Len(buffer) : buffer[i] \in Msg
  BY DEF BatchingTypeOK
<1>3. \A m \in Msg : InBatch(m)' <=> InBatch(m)
  BY DEF InBatch
<1> QED
  BY <1>1, <1>2, <1>3 DEF Collected

LEMMA BufferCollects ==
  ASSUME BatchingTypeOK, Collected, NEW m \in Msg, Buffer(m)
  PROVE  Collected'
<1> DEFINE n == Len(buffer)
<1>1. buffer \in Seq(Msg) /\ n \in Nat /\ at \in [Msg -> Places] /\ at[m] = "routed"
  BY DEF BatchingTypeOK, Buffer
<1>2. /\ Len(buffer') = n + 1 /\ buffer'[n + 1] = m
      /\ \A i \in 1 .. n : buffer'[i] = buffer[i] /\ buffer[i] \in Msg
  BY <1>1, AppendProperties DEF Buffer
<1>3. at' = [at EXCEPT ![m] = "buffered"] /\ batch' = batch
  BY DEF Buffer, Move
<1>4. \A b \in Msg : run'[b] = "none" <=> run[b] = "none"
  BY InterruptEffects DEF Buffer, PastStoring
<1>5. \A b \in Msg : \A i \in 1 .. Len(batch[b]) : batch[b][i] \in Msg
  BY DEF BatchingTypeOK
<1>6. \A x \in Msg : InBatch(x)' <=> InBatch(x)
  BY <1>3 DEF InBatch
<1>7. ~InBatch(m)
  BY <1>1 DEF InBatch, Collected
<1> HIDE DEF n
<1>8. \A i \in 1 .. n + 1 : i \in 1 .. n \/ i = n + 1
  BY <1>1
<1>9. \A i \in 1 .. n : buffer[i] # m
  BY <1>1 DEF Collected, n
<1>10. \A i, j \in 1 .. n + 1 : buffer'[i] = buffer'[j] => i = j
  <2>1. \A i, j \in 1 .. n : buffer[i] = buffer[j] => i = j
    BY DEF Collected, n
  <2> QED
    BY <1>2, <1>8, <1>9, <2>1
<1>11. \A i \in 1 .. n + 1 : at'[buffer'[i]] = "buffered"
  <2>1. \A i \in 1 .. n : at[buffer[i]] = "buffered"
    BY DEF Collected, n
  <2> QED
    BY <1>1, <1>2, <1>3, <1>8, <2>1
<1>12. \A b \in Msg : \A i \in 1 .. Len(batch[b]), j \in 1 .. n + 1 : batch[b][i] # buffer'[j]
  <2> SUFFICES ASSUME NEW b \in Msg, NEW i \in 1 .. Len(batch[b]), NEW j \in 1 .. n + 1
               PROVE  batch[b][i] # buffer'[j]
    OBVIOUS
  <2>1. CASE j \in 1 .. n
    BY <1>2, <2>1 DEF Collected, n
  <2>2. CASE j = n + 1
    BY <1>2, <1>7, <2>2 DEF InBatch
  <2> QED
    BY <1>8, <2>1, <2>2
<1>13. \A x \in Msg : at'[x] = "buffered" => InBatch(x)' \/ \E i \in 1 .. n + 1 : buffer'[i] = x
  <2> SUFFICES ASSUME NEW x \in Msg, at'[x] = "buffered", ~InBatch(x)
               PROVE  \E i \in 1 .. n + 1 : buffer'[i] = x
    BY <1>6
  <2>1. CASE x = m
    BY <1>1, <1>2, <2>1
  <2>2. CASE x # m
    <3>1. PICK i \in 1 .. n : buffer[i] = x
      BY <1>1, <1>3, <2>2 DEF Collected, n
    <3> QED
      BY <1>1, <1>2, <3>1
  <2> QED
    BY <2>1, <2>2
<1>14. \A b \in Msg : \A i \in 1 .. Len(batch[b]) : at'[batch[b][i]] \in {"buffered", "stored", "lost"}
  BY <1>1, <1>3, <1>5 DEF Collected
<1>15. /\ \A b \in Msg : run'[b] = "none" <=> Len(batch'[b]) = 0
       /\ \A b \in Msg : Len(batch'[b]) > 0 => batch'[b][1] = b
       /\ \A b, c \in Msg : \A i \in 1 .. Len(batch'[b]), j \in 1 .. Len(batch'[c]) :
              batch'[b][i] = batch'[c][j] => b = c /\ i = j
  BY <1>3, <1>4 DEF Collected
<1>16. \A b \in Msg : \A i \in 1 .. Len(batch'[b]) :
           at'[batch'[b][i]] \in {"buffered", "stored", "lost"}
  BY <1>3, <1>14
<1>17. \A b \in Msg : \A i \in 1 .. Len(batch'[b]), j \in 1 .. Len(buffer') :
           batch'[b][i] # buffer'[j]
  BY <1>2, <1>3, <1>12
<1>18. /\ \A i, j \in 1 .. Len(buffer') : buffer'[i] = buffer'[j] => i = j
       /\ \A i \in 1 .. Len(buffer') : at'[buffer'[i]] = "buffered"
  BY <1>2, <1>10, <1>11
<1>19. \A x \in Msg : at'[x] = "buffered" =>
           InBatch(x)' \/ \E i \in 1 .. Len(buffer') : buffer'[i] = x
  BY <1>2, <1>13
<1> QED
  BY <1>15, <1>16, <1>17, <1>18, <1>19 DEF Collected

LEMMA FlushCollects ==
  ASSUME BatchingTypeOK, Collected, StartFlush
  PROVE  Collected'
<1>1. CASE buffer = <<>>
  BY <1>1, StillCollected DEF StartFlush, inVars
<1>2. CASE buffer # <<>>
  <2> DEFINE b == Head(buffer)
  <2>1. b \in Msg /\ b = buffer[1] /\ Len(buffer) > 0 /\ Len(batch[b]) = 0 /\ run[b] = "none"
    BY <1>2, FlushIsNew
  <2>2. batch' = [batch EXCEPT ![b] = buffer] /\ run' = [run EXCEPT ![b] = "storing"]
        /\ buffer' = <<>> /\ at' = at
    BY <1>2 DEF StartFlush, LeftInBuffer, Turn, inVars
  <2> HIDE DEF b
  <2>3. batch \in [Msg -> Seq(Msg)] /\ run \in [Msg -> RunStates] /\ buffer \in Seq(Msg)
    BY DEF BatchingTypeOK
  <2>4. batch'[b] = buffer /\ run'[b] = "storing"
    BY <2>1, <2>2, <2>3
  <2>5. \A c \in Msg \ {b} : batch'[c] = batch[c] /\ run'[c] = run[c]
    BY <2>1, <2>2, <2>3
  <2>6. \A c \in Msg : run'[c] = "none" <=> Len(batch'[c]) = 0
    <3> SUFFICES ASSUME NEW c \in Msg PROVE run'[c] = "none" <=> Len(batch'[c]) = 0
      OBVIOUS
    <3>1. CASE c = b
      BY <2>1, <2>4, <3>1
    <3>2. CASE c # b
      BY <2>5, <3>2 DEF Collected
    <3> QED
      BY <3>1, <3>2
  <2>7. \A c \in Msg : Len(batch'[c]) > 0 => batch'[c][1] = c
    BY <2>1, <2>4, <2>5 DEF Collected
  <2>8. \A c \in Msg \ {b} : \A i \in 1 .. Len(batch[c]), j \in 1 .. Len(buffer) :
            batch[c][i] # buffer[j]
    BY DEF Collected
  <2>9. \A c, d \in Msg : \A i \in 1 .. Len(batch'[c]), j \in 1 .. Len(batch'[d]) :
            batch'[c][i] = batch'[d][j] => c = d /\ i = j
    <3> SUFFICES ASSUME NEW c \in Msg, NEW d \in Msg, NEW i \in 1 .. Len(batch'[c]),
                        NEW j \in 1 .. Len(batch'[d]), batch'[c][i] = batch'[d][j]
                 PROVE  c = d /\ i = j
      OBVIOUS
    <3>1. CASE c # b /\ d # b
      BY <2>5, <3>1 DEF Collected
    <3>2. CASE c = b /\ d = b
      BY <2>4, <3>2 DEF Collected
    <3>3. CASE c = b /\ d # b
      BY <2>4, <2>5, <2>8, <3>3
    <3>4. CASE c # b /\ d = b
      BY <2>4, <2>5, <2>8, <3>4
    <3> QED
      BY <3>1, <3>2, <3>3, <3>4
  <2>10. \A c \in Msg : \A i \in 1 .. Len(batch'[c]) : at'[batch'[c][i]] \in {"buffered", "stored", "lost"}
    <3> SUFFICES ASSUME NEW c \in Msg, NEW i \in 1 .. Len(batch'[c])
                 PROVE  at[batch'[c][i]] \in {"buffered", "stored", "lost"}
      BY <2>2
    <3>1. CASE c # b
      BY <2>5, <3>1 DEF Collected
    <3>2. CASE c = b
      BY <2>4, <3>2 DEF Collected
    <3> QED
      BY <3>1, <3>2
  <2>11. \A m \in Msg : at[m] = "buffered" => InBatch(m)'
    <3> SUFFICES ASSUME NEW m \in Msg, at[m] = "buffered" PROVE InBatch(m)'
      OBVIOUS
    <3>1. CASE InBatch(m)
      <4>1. PICK c \in Msg : \E i \in 1 .. Len(batch[c]) : batch[c][i] = m
        BY <3>1 DEF InBatch
      <4>2. c # b
        BY <2>1, <4>1
      <4> QED
        BY <2>5, <4>1, <4>2 DEF InBatch
    <3>2. CASE \E i \in 1 .. Len(buffer) : buffer[i] = m
      BY <2>1, <2>4, <3>2 DEF InBatch
    <3> QED
      BY <3>1, <3>2 DEF Collected
  <2>12. Len(buffer') = 0
    BY <2>2
  <2> QED
    BY <2>2, <2>6, <2>7, <2>9, <2>10, <2>11, <2>12 DEF Collected
<1> QED
  BY <1>1, <1>2

LEMMA ReceiveCollects ==
  ASSUME BatchingTypeOK, Collected, NEW m \in Msg, Receive(m)
  PROVE  /\ Collected' /\ ~InBatch(m) /\ Len(batch[m]) = 0 /\ run[m] = "none"
         /\ batch'[m] = <<m>> /\ \A c \in Msg \ {m} : batch'[c] = batch[c]
<1>1. batch' = [batch EXCEPT ![m] = <<m>>] /\ run' = [run EXCEPT ![m] = "queued"]
      /\ buffer' = buffer /\ at' = [at EXCEPT ![m] = "stored"] /\ at[m] = "new"
  BY DEF Receive, Turn, Move, timerVars, Arrives
<1>2. batch \in [Msg -> Seq(Msg)] /\ run \in [Msg -> RunStates] /\ buffer \in Seq(Msg)
      /\ at \in [Msg -> Places]
  BY DEF BatchingTypeOK
<1>3. ~InBatch(m)
  BY <1>1 DEF InBatch, Collected
<1>4. Len(batch[m]) = 0 /\ run[m] = "none"
  <2>1. batch[m] \in Seq(Msg) /\ Len(batch[m]) \in Nat
    BY <1>2
  <2>2. ~(Len(batch[m]) > 0)
    BY <1>3, <2>1 DEF InBatch, Collected
  <2> QED
    BY <2>1, <2>2 DEF Collected
<1>5. batch'[m] = <<m>> /\ run'[m] = "queued" /\ Len(batch'[m]) = 1 /\ batch'[m][1] = m
  BY <1>1, <1>2
<1>6. \A c \in Msg \ {m} : batch'[c] = batch[c] /\ run'[c] = run[c] /\ at'[c] = at[c]
  BY <1>1, <1>2
<1>7. \A c \in Msg \ {m} : \A i \in 1 .. Len(batch[c]) : batch[c][i] # m /\ batch[c][i] \in Msg
  BY <1>2, <1>3 DEF InBatch
<1>8. \A i \in 1 .. Len(buffer) : buffer[i] # m /\ buffer[i] \in Msg
  BY <1>1, <1>2 DEF Collected
<1>9. \A x \in Msg \ {m} : InBatch(x)' <=> InBatch(x)
  BY <1>4, <1>5, <1>6 DEF InBatch
<1>10. \A c, d \in Msg : \A i \in 1 .. Len(batch'[c]), j \in 1 .. Len(batch'[d]) :
           batch'[c][i] = batch'[d][j] => c = d /\ i = j
  <2> SUFFICES ASSUME NEW c \in Msg, NEW d \in Msg, NEW i \in 1 .. Len(batch'[c]),
                      NEW j \in 1 .. Len(batch'[d]), batch'[c][i] = batch'[d][j]
               PROVE  c = d /\ i = j
    OBVIOUS
  <2>1. CASE c # m /\ d # m
    BY <1>6, <2>1 DEF Collected
  <2>2. CASE c = m /\ d = m
    BY <1>5, <2>2
  <2>3. CASE c = m /\ d # m
    BY <1>5, <1>6, <1>7, <2>3
  <2>4. CASE c # m /\ d = m
    BY <1>5, <1>6, <1>7, <2>4
  <2> QED
    BY <2>1, <2>2, <2>3, <2>4
<1>11. \A c \in Msg : \A i \in 1 .. Len(batch'[c]) : at'[batch'[c][i]] \in {"buffered", "stored", "lost"}
  <2> SUFFICES ASSUME NEW c \in Msg, NEW i \in 1 .. Len(batch'[c])
               PROVE  at'[batch'[c][i]] \in {"buffered", "stored", "lost"}
    OBVIOUS
  <2>1. CASE c = m
    BY <1>1, <1>2, <1>5, <2>1
  <2>2. CASE c # m
    BY <1>6, <1>7, <2>2 DEF Collected
  <2> QED
    BY <2>1, <2>2
<1>12. \A c \in Msg : /\ run'[c] = "none" <=> Len(batch'[c]) = 0
                      /\ Len(batch'[c]) > 0 => batch'[c][1] = c
  BY <1>5, <1>6 DEF Collected
<1>13. \A i \in 1 .. Len(buffer) : at'[buffer[i]] = "buffered"
  <2>1. \A i \in 1 .. Len(buffer) : at[buffer[i]] = "buffered"
    BY DEF Collected
  <2> QED
    BY <1>6, <1>8, <2>1
<1>14. \A c \in Msg : \A i \in 1 .. Len(batch'[c]), j \in 1 .. Len(buffer) : batch'[c][i] # buffer[j]
  <2> SUFFICES ASSUME NEW c \in Msg, NEW i \in 1 .. Len(batch'[c]), NEW j \in 1 .. Len(buffer)
               PROVE  batch'[c][i] # buffer[j]
    OBVIOUS
  <2>1. CASE c = m
    BY <1>5, <1>8, <2>1
  <2>2. CASE c # m
    BY <1>6, <2>2 DEF Collected
  <2> QED
    BY <2>1, <2>2
<1>15. \A x \in Msg : at'[x] = "buffered" => InBatch(x)' \/ \E i \in 1 .. Len(buffer) : buffer[i] = x
  <2> SUFFICES ASSUME NEW x \in Msg, at'[x] = "buffered"
               PROVE  InBatch(x)' \/ \E i \in 1 .. Len(buffer) : buffer[i] = x
    OBVIOUS
  <2>1. x # m
    BY <1>1, <1>2
  <2>2. at[x] = "buffered" /\ (InBatch(x)' <=> InBatch(x))
    BY <1>6, <1>9, <2>1
  <2>3. InBatch(x) \/ \E i \in 1 .. Len(buffer) : buffer[i] = x
    BY <2>2 DEF Collected
  <2> QED
    BY <2>2, <2>3
<1>16. Collected'
  <2>1. \A i, j \in 1 .. Len(buffer) : buffer[i] = buffer[j] => i = j
    BY DEF Collected
  <2> QED
    BY <1>1, <1>10, <1>11, <1>12, <1>13, <1>15, <1>14, <2>1 DEF Collected
<1> QED
  BY <1>3, <1>4, <1>5, <1>6, <1>16

\* What is stored is in a flush.
LEMMA StoredIsInBatch ==
  ASSUME BatchingTypeOK, Recorded, NEW k \in 1 .. Len(history), history[k].role = "user"
  PROVE  \E b \in Msg : \E i \in 1 .. saved[b] : i \in 1 .. Len(batch[b]) /\ batch[b][i] = history[k].of
<1>1. PICK b \in Msg : \E i \in 1 .. saved[b] : batch[b][i] = history[k].of
  BY DEF Recorded
<1>2. saved[b] \in Nat /\ batch[b] \in Seq(Msg) /\ saved[b] <= Len(batch[b])
  BY DEF BatchingTypeOK
<1> QED
  BY <1>1, <1>2

LEMMA StopCollects ==
  ASSUME BatchingTypeOK, Collected, Recorded, Stop
  PROVE  Collected'
<1>1. batch' = batch /\ buffer' = <<>>
      /\ run' = [b \in Msg |-> IF run[b] \in OverStates \cup {"none"} THEN run[b] ELSE "gone"]
      /\ at' = [m \in Msg |->
                IF \/ at[m] \in {"linking", "routed"}
                   \/ at[m] = "buffered" /\ Said(m) \notin ToSet(history)
                THEN "lost" ELSE at[m]]
  BY DEF Stop
<1>2. \A b \in Msg : run'[b] = "none" <=> run[b] = "none"
  BY <1>1 DEF OverStates
<1>3. \A b \in Msg : \A i \in 1 .. Len(batch[b]) : batch[b][i] \in Msg
  BY DEF BatchingTypeOK
<1>4. \A m \in Msg : at[m] \in {"buffered", "stored", "lost"} => at'[m] \in {"buffered", "stored", "lost"}
  BY <1>1
<1>5. \A m \in Msg : at'[m] = "buffered" => InBatch(m)
  <2> SUFFICES ASSUME NEW m \in Msg, at'[m] = "buffered" PROVE InBatch(m)
    OBVIOUS
  <2>1. Said(m) \in ToSet(history)
    BY <1>1
  <2>2. PICK k \in 1 .. Len(history) : history[k] = Said(m)
    BY <2>1 DEF ToSet, BatchingTypeOK
  <2>3. history[k].role = "user" /\ history[k].of = m
    BY <2>2 DEF Said
  <2> QED
    BY <2>3, StoredIsInBatch DEF InBatch
<1>6. \A m \in Msg : InBatch(m)' <=> InBatch(m)
  BY <1>1 DEF InBatch
<1>7. Len(buffer') = 0
  BY <1>1
<1>8. \A b \in Msg : \A i \in 1 .. Len(batch[b]) : at'[batch[b][i]] \in {"buffered", "stored", "lost"}
  BY <1>3, <1>4 DEF Collected
<1>9. \A b \in Msg : /\ run'[b] = "none" <=> Len(batch'[b]) = 0
                     /\ Len(batch'[b]) > 0 => batch'[b][1] = b
  BY <1>1, <1>2 DEF Collected
<1>10. \A b, c \in Msg : \A i \in 1 .. Len(batch'[b]), j \in 1 .. Len(batch'[c]) :
           batch'[b][i] = batch'[c][j] => b = c /\ i = j
  BY <1>1 DEF Collected
<1> QED
  BY <1>1, <1>5, <1>6, <1>7, <1>8, <1>9, <1>10 DEF Collected

\* Collected is kept by every step.
LEMMA CollectedStep ==
  ASSUME BatchingInv, BatchingNext
  PROVE  Collected'
<1>1. BatchingTypeOK /\ Collected /\ Recorded
  BY DEF BatchingInv
<1>2. ASSUME NEW m \in Msg, Incoming(m) PROVE Collected'
  <2>1. CASE FindContact(m)
    <3>1. UNCHANGED <<batch, buffer, run>> /\ at[m] = "new"
          /\ at' = [at EXCEPT ![m] = IF contact THEN "routed" ELSE "linking"]
      BY <2>1 DEF FindContact, Arrives, Move, timerVars, runVars
    <3> QED
      BY <1>1, <3>1, StillCollected DEF BatchingTypeOK
  <2>2. CASE LinkContact(m)
    <3>1. UNCHANGED <<batch, buffer, run>> /\ at[m] = "linking"
          /\ at' = [at EXCEPT ![m] = IF contact THEN "dropped" ELSE "routed"]
      BY <2>2 DEF LinkContact, Move, timerVars, runVars
    <3> QED
      BY <1>1, <3>1, StillCollected DEF BatchingTypeOK
  <2>3. CASE Buffer(m)
    BY <1>1, <2>3, BufferCollects
  <2> QED
    BY <1>2, <2>1, <2>2, <2>3 DEF Incoming
<1>3. ASSUME NEW m \in Msg, Receive(m) PROVE Collected'
  BY <1>1, <1>3, ReceiveCollects
<1>4. ASSUME NEW b \in Msg, Running(b) PROVE Collected'
  <2>1. UNCHANGED <<at, buffer, batch>> /\ \A c \in Msg : run'[c] = "none" <=> run[c] = "none"
    BY <1>1, <1>4, RunningEffects
  <2> QED
    BY <1>1, <2>1, StillCollected
<1>5. ASSUME NEW b \in Msg, LeaveShield(b) PROVE Collected'
  BY <1>1, <1>5, StillCollected DEF LeaveShield, inVars, timerVars
<1>6. CASE StartFlush
  BY <1>1, <1>6, FlushCollects
<1>7. CASE Stop
  BY <1>1, <1>7, StopCollects
<1>8. CASE DealtWith
  BY <1>1, <1>8, StillCollected DEF DealtWith, batchingVars
<1> QED
  BY <1>2, <1>3, <1>4, <1>5, <1>6, <1>7, <1>8 DEF BatchingNext

--------------------------------------------------------------------------------
(* WhatsApp: what is stored *)

\* What the types say of the rows and of the messages in flushes.
LEMMA RowTypes ==
  ASSUME BatchingTypeOK
  PROVE  /\ Len(history) \in Nat /\ DOMAIN history = 1 .. Len(history)
         /\ \A k \in 1 .. Len(history) : history[k] \in Entries /\ history[k].of \in Msg
         /\ \A b \in Msg :
                /\ batch[b] \in Seq(Msg) /\ Len(batch[b]) \in Nat
                /\ saved[b] \in Nat /\ saved[b] <= Len(batch[b])
                /\ \A i \in 1 .. Len(batch[b]) : batch[b][i] \in Msg
                /\ \A i \in 1 .. saved[b] : i \in 1 .. Len(batch[b]) /\ batch[b][i] \in Msg
<1>1. history \in Seq(Entries) /\ batch \in [Msg -> Seq(Msg)] /\ saved \in [Msg -> Nat]
      /\ \A b \in Msg : saved[b] <= Len(batch[b])
  BY DEF BatchingTypeOK
<1>2. Len(history) \in Nat /\ DOMAIN history = 1 .. Len(history)
      /\ \A k \in 1 .. Len(history) : history[k] \in Entries
  BY <1>1
<1>3. \A e \in Entries : e.of \in Msg
  BY DEF Entries
<1>4. ASSUME NEW b \in Msg
      PROVE  /\ batch[b] \in Seq(Msg) /\ Len(batch[b]) \in Nat
             /\ saved[b] \in Nat /\ saved[b] <= Len(batch[b])
             /\ \A i \in 1 .. Len(batch[b]) : batch[b][i] \in Msg
             /\ \A i \in 1 .. saved[b] : i \in 1 .. Len(batch[b])
  BY <1>1
<1> QED
  BY <1>2, <1>3, <1>4

LEMMA StillRecorded ==
  ASSUME BatchingTypeOK, Recorded, UNCHANGED <<history, saved>>,
         \A b \in Msg : \A i \in 1 .. saved[b] : batch'[b][i] = batch[b][i],
         \A b \in Msg : run[b] \in {"sending", "sent", "gone"} => run'[b] \in {"sending", "sent", "gone"},
         \A b \in Msg : PastStoring(run'[b]) => saved[b] = Len(batch'[b]),
         \A b \in Msg : run'[b] = "gone" =>
             \A i \in 1 .. Len(batch'[b]) : at'[batch'[b][i]] = "buffered" => i <= saved[b]
  PROVE  Recorded'
<1>1. \A k \in 1 .. Len(history) : history[k].of \in Msg
  BY RowTypes
<1> QED
  BY <1>1 DEF Recorded

\* A message that no flush has stored is not in the table.
LEMMA Unrecorded ==
  ASSUME BatchingTypeOK, Collected, Recorded, NEW b \in Msg, NEW i \in 1 .. Len(batch[b]), i > saved[b]
  PROVE  \A k \in 1 .. Len(history) : history[k] # Said(batch[b][i])
<1> SUFFICES ASSUME NEW k \in 1 .. Len(history), history[k] = Said(batch[b][i])
             PROVE  FALSE
  OBVIOUS
<1>1. history[k].role = "user" /\ history[k].of = batch[b][i]
  BY DEF Said
<1>2. PICK c \in Msg : \E j \in 1 .. saved[c] : j \in 1 .. Len(batch[c]) /\ batch[c][j] = history[k].of
  BY <1>1, StoredIsInBatch
<1>3. PICK j \in 1 .. saved[c] : j \in 1 .. Len(batch[c]) /\ batch[c][j] = history[k].of
  BY <1>2
<1>4. c = b /\ j = i
  BY <1>1, <1>3 DEF Collected
<1>5. saved[b] \in Nat
  BY DEF BatchingTypeOK
<1> QED
  BY <1>3, <1>4, <1>5

\* The table with one more row.
LEMMA OneMoreRow ==
  ASSUME BatchingTypeOK, NEW e \in Entries, history' = Append(history, e)
  PROVE  /\ Len(history) \in Nat /\ Len(history') = Len(history) + 1
         /\ history'[Len(history) + 1] = e
         /\ \A k \in 1 .. Len(history) : history'[k] = history[k]
         /\ \A k \in 1 .. Len(history') : k \in 1 .. Len(history) \/ k = Len(history) + 1
<1>1. history \in Seq(Entries)
  BY DEF BatchingTypeOK
<1> QED
  BY <1>1, AppendProperties

LEMMA StoreRecords ==
  ASSUME BatchingTypeOK, Collected, Recorded, NEW b \in Msg, StoreNext(b)
  PROVE  Recorded'
<1> DEFINE s == saved[b]
           n == Len(history)
           m == batch[b][s + 1]
<1>1. /\ run[b] = "storing" /\ s < Len(batch[b]) /\ UNCHANGED <<batch, run, at>>
      /\ saved' = [saved EXCEPT ![b] = s + 1] /\ history' = Append(history, Said(m))
  BY DEF StoreNext, inVars
<1>2. s \in Nat /\ s + 1 \in 1 .. Len(batch[b]) /\ batch[b] \in Seq(Msg) /\ saved \in [Msg -> Nat]
  <2>1. s \in Nat /\ batch[b] \in Seq(Msg) /\ Len(batch[b]) \in Nat /\ saved \in [Msg -> Nat]
    BY RowTypes DEF BatchingTypeOK
  <2> QED
    BY <1>1, <2>1
<1>3. m \in Msg /\ Said(m) \in Entries
  BY <1>2 DEF Said, Entries
<1>4. /\ n \in Nat /\ Len(history') = n + 1 /\ history'[n + 1] = Said(m)
      /\ \A k \in 1 .. n : history'[k] = history[k]
      /\ \A k \in 1 .. Len(history') : k \in 1 .. n \/ k = n + 1
  BY <1>1, <1>3, OneMoreRow
<1>5. \A k \in 1 .. n : history[k] # Said(m)
  <2>1. s + 1 > saved[b]
    BY <1>2
  <2> QED
    BY <1>2, <2>1, Unrecorded
<1>6. saved'[b] = s + 1 /\ \A c \in Msg \ {b} : saved'[c] = saved[c]
  BY <1>1, <1>2
<1>7. \A i \in 1 .. s + 1 : i \in 1 .. s \/ i = s + 1
  BY <1>2
<1>8. \A c \in Msg : \A i \in 1 .. saved'[c] : i \in 1 .. saved[c] \/ (c = b /\ i = s + 1)
  BY <1>6, <1>7
<1>9. \A c \in Msg : \A i \in 1 .. saved[c] : i \in 1 .. saved'[c]
  BY <1>2, <1>6
<1>10. s + 1 \in 1 .. saved'[b]
  BY <1>2, <1>6
<1> HIDE DEF s, n, m
<1>11. \A k, l \in 1 .. Len(history') : history'[k] = history'[l] => k = l
  BY <1>4, <1>5 DEF Recorded, n
<1>12. \A c \in Msg : \A i \in 1 .. saved'[c] :
           \E k \in 1 .. Len(history') : history'[k] = Said(batch'[c][i])
  <2> SUFFICES ASSUME NEW c \in Msg, NEW i \in 1 .. saved'[c]
               PROVE  \E k \in 1 .. n + 1 : history'[k] = Said(batch[c][i])
    BY <1>1, <1>4
  <2>1. CASE c = b /\ i = s + 1
    BY <1>4, <2>1 DEF m
  <2>2. CASE i \in 1 .. saved[c]
    <3>1. PICK k \in 1 .. n : history[k] = Said(batch[c][i])
      BY <2>2 DEF Recorded, n
    <3> QED
      BY <1>4, <3>1
  <2> QED
    BY <1>8, <2>1, <2>2
<1>13. \A k \in 1 .. Len(history') : history'[k].role = "user" =>
           \E c \in Msg : \E i \in 1 .. saved'[c] : batch'[c][i] = history'[k].of
  <2> SUFFICES ASSUME NEW k \in 1 .. Len(history'), history'[k].role = "user"
               PROVE  \E c \in Msg : \E i \in 1 .. saved'[c] : batch[c][i] = history'[k].of
    BY <1>1
  <2>1. CASE k = n + 1
    <3>1. history'[k].of = m
      BY <1>4, <2>1 DEF Said
    <3> QED
      BY <1>10, <3>1 DEF m
  <2>2. CASE k \in 1 .. n
    <3>1. \E c \in Msg : \E i \in 1 .. saved[c] : batch[c][i] = history[k].of
      BY <1>4, <2>2 DEF Recorded, n
    <3> QED
      BY <1>4, <1>9, <2>2, <3>1
  <2> QED
    BY <1>4, <2>1, <2>2
<1>14. \A k \in 1 .. Len(history') : history'[k].role = "assistant" =>
           run'[history'[k].of] \in {"sending", "sent", "gone"}
  <2>1. Said(m).role # "assistant"
    BY DEF Said
  <2> QED
    BY <1>1, <1>4, <2>1 DEF Recorded, n
<1>15. \A c \in Msg : \A i \in 1 .. saved'[c] : \A k, l \in 1 .. Len(history') :
           history'[k] = Said(c) /\ history'[l] = Said(batch'[c][i]) => k <= l
  <2> SUFFICES ASSUME NEW c \in Msg, NEW i \in 1 .. saved'[c], NEW k \in 1 .. n + 1,
                      NEW l \in 1 .. n, history'[k] = Said(c), history[l] = Said(batch[c][i])
               PROVE  k <= l
    <3>1. \A k, l \in 1 .. Len(history') : l \in 1 .. n \/ k <= l
      BY <1>4
    <3> QED
      BY <1>1, <1>4, <3>1
  <2>1. i \in 1 .. saved[c]
    BY <1>5, <1>8 DEF m
  <2>2. CASE k \in 1 .. n
    BY <1>4, <2>1, <2>2 DEF Recorded, n
  <2>3. CASE k = n + 1
    <3>1. Said(c) = Said(m)
      BY <1>4, <2>3
    <3>2. c = m
      BY <3>1 DEF Said
    <3>3. saved[c] \in Nat /\ saved[c] <= Len(batch[c]) /\ Len(batch[c]) \in Nat
      BY DEF BatchingTypeOK
    <3>4. batch[c][1] = c /\ 1 \in 1 .. Len(batch[c]) /\ 1 \in 1 .. saved[c]
      BY <2>1, <3>3 DEF Collected
    <3>5. c = b /\ 1 = s + 1
      <4>1. batch[c][1] = batch[b][s + 1]
        BY <3>2, <3>4 DEF m
      <4>2. \A x \in 1 .. Len(batch[c]), y \in 1 .. Len(batch[b]) :
              batch[c][x] = batch[b][y] => c = b /\ x = y
        BY DEF Collected
      <4>3. s + 1 \in 1 .. Len(batch[b])
        BY <1>2
      <4> QED
        BY <3>4, <4>1, <4>2, <4>3
    <3>6. saved[c] = 0
      BY <1>2, <3>5 DEF s
    <3> QED
      BY <3>4, <3>6
  <2> QED
    BY <1>4, <2>2, <2>3
<1>16. \A c \in Msg : PastStoring(run'[c]) => saved'[c] = Len(batch'[c])
  BY <1>1, <1>6 DEF Recorded, PastStoring
<1>17. \A c \in Msg : run'[c] = "gone" =>
           \A i \in 1 .. Len(batch'[c]) : at'[batch'[c][i]] = "buffered" => i <= saved'[c]
  BY <1>1, <1>6 DEF Recorded
<1> QED
  BY <1>11, <1>12, <1>13, <1>14, <1>15, <1>16, <1>17 DEF Recorded

LEMMA AnswerRecords ==
  ASSUME BatchingTypeOK, Recorded, NEW b \in Msg, run[b] \in {"thinking", "saving"},
         run' = [run EXCEPT ![b] = "sending"], history' = Append(history, Answered(b)),
         UNCHANGED <<at, batch, saved>>
  PROVE  Recorded'
<1> DEFINE n == Len(history)
<1>1. Answered(b) \in Entries /\ run \in [Msg -> RunStates] /\ Answered(b).role = "assistant"
      /\ Answered(b).of = b
  BY DEF Answered, Entries, BatchingTypeOK
<1>2. /\ n \in Nat /\ Len(history') = n + 1 /\ history'[n + 1] = Answered(b)
      /\ \A k \in 1 .. n : history'[k] = history[k]
      /\ \A k \in 1 .. Len(history') : k \in 1 .. n \/ k = n + 1
  BY <1>1, OneMoreRow
<1> HIDE DEF n
<1>3. \A k \in 1 .. n : history[k] # Answered(b)
  BY <1>1 DEF Recorded, n
<1>4. run'[b] = "sending" /\ \A c \in Msg \ {b} : run'[c] = run[c]
  BY <1>1
<1>5. \A k \in 1 .. n : history[k].of \in Msg
  BY RowTypes DEF n
<1>6. \A k, l \in 1 .. Len(history') : history'[k] = history'[l] => k = l
  BY <1>2, <1>3 DEF Recorded, n
<1>7. \A c \in Msg : \A i \in 1 .. saved[c] :
          \E k \in 1 .. Len(history') : history'[k] = Said(batch[c][i])
  <2> SUFFICES ASSUME NEW c \in Msg, NEW i \in 1 .. saved[c]
               PROVE  \E k \in 1 .. n + 1 : history'[k] = Said(batch[c][i])
    BY <1>2
  <2>1. PICK k \in 1 .. n : history[k] = Said(batch[c][i])
    BY DEF Recorded, n
  <2> QED
    BY <1>2, <2>1
<1>8. \A k \in 1 .. Len(history') : history'[k].role = "user" =>
          \E c \in Msg : \E i \in 1 .. saved[c] : batch[c][i] = history'[k].of
  BY <1>1, <1>2 DEF Recorded, n
<1>9. \A k \in 1 .. Len(history') : history'[k].role = "assistant" =>
          run'[history'[k].of] \in {"sending", "sent", "gone"}
  BY <1>1, <1>2, <1>4, <1>5 DEF Recorded, n
<1>10. \A c \in Msg : Said(c) # Answered(b)
  BY DEF Said, Answered
<1>11. \A c \in Msg : \A i \in 1 .. saved[c] : i \in 1 .. Len(batch[c]) /\ batch[c][i] \in Msg
  BY RowTypes
<1>12. \A c \in Msg : \A i \in 1 .. saved[c] : \A k, l \in 1 .. Len(history') :
           history'[k] = Said(c) /\ history'[l] = Said(batch[c][i]) => k <= l
  BY <1>2, <1>10, <1>11 DEF Recorded, n
<1>13. \A c \in Msg : /\ PastStoring(run'[c]) => PastStoring(run[c])
                      /\ run'[c] = "gone" => run[c] = "gone"
  BY <1>4 DEF PastStoring
<1>14. \A c \in Msg : /\ PastStoring(run'[c]) => saved[c] = Len(batch[c])
                      /\ run'[c] = "gone" => \A i \in 1 .. Len(batch[c]) :
                             at[batch[c][i]] = "buffered" => i <= saved[c]
  BY <1>13 DEF Recorded
<1> QED
  BY <1>6, <1>7, <1>8, <1>9, <1>12, <1>14 DEF Recorded

LEMMA ReceiveRecords ==
  ASSUME BatchingTypeOK, Collected, Recorded, NEW m \in Msg, Receive(m)
  PROVE  Recorded'
<1> DEFINE n == Len(history)
<1>1. /\ run' = [run EXCEPT ![m] = "queued"] /\ saved' = [saved EXCEPT ![m] = 1]
      /\ history' = Append(history, Said(m)) /\ at' = [at EXCEPT ![m] = "stored"]
  BY DEF Receive, Turn, Move
<1>2. ~InBatch(m) /\ Len(batch[m]) = 0 /\ run[m] = "none" /\ batch'[m] = <<m>>
      /\ \A c \in Msg \ {m} : batch'[c] = batch[c]
  BY ReceiveCollects
<1>3. Said(m) \in Entries /\ Said(m).role = "user" /\ Said(m).of = m
  BY DEF Said, Entries
<1>4. /\ n \in Nat /\ Len(history') = n + 1 /\ history'[n + 1] = Said(m)
      /\ \A k \in 1 .. n : history'[k] = history[k]
      /\ \A k \in 1 .. Len(history') : k \in 1 .. n \/ k = n + 1
  BY <1>1, <1>3, OneMoreRow
<1>5. saved[m] = 0 /\ saved'[m] = 1 /\ run'[m] = "queued" /\ at'[m] = "stored"
      /\ \A c \in Msg \ {m} : saved'[c] = saved[c] /\ run'[c] = run[c] /\ at'[c] = at[c]
  BY <1>1, <1>2 DEF BatchingTypeOK
<1>6. \A k \in 1 .. n : history[k] # Said(m)
  <2> SUFFICES ASSUME NEW k \in 1 .. n, history[k] = Said(m) PROVE FALSE
    OBVIOUS
  <2>1. \E c \in Msg : \E i \in 1 .. saved[c] : i \in 1 .. Len(batch[c]) /\ batch[c][i] = m
    BY <1>3, StoredIsInBatch
  <2> QED
    BY <1>2, <2>1 DEF InBatch
<1>7. \A k \in 1 .. n : history[k].of \in Msg
  BY RowTypes
<1>8. \A c \in Msg : \A i \in 1 .. saved[c] : i \in 1 .. Len(batch[c]) /\ batch[c][i] \in Msg
                                              /\ batch[c][i] # m
  BY <1>2, RowTypes DEF InBatch
<1> HIDE DEF n
<1>9. \A k, l \in 1 .. Len(history') : history'[k] = history'[l] => k = l
  BY <1>4, <1>6 DEF Recorded, n
<1>10. \A i \in 1 .. saved'[m] : i = 1 /\ batch'[m][i] = m
  BY <1>2, <1>5
<1>11. \A c \in Msg : \A i \in 1 .. saved'[c] :
           \E k \in 1 .. Len(history') : history'[k] = Said(batch'[c][i])
  <2> SUFFICES ASSUME NEW c \in Msg, NEW i \in 1 .. saved'[c]
               PROVE  \E k \in 1 .. n + 1 : history'[k] = Said(batch'[c][i])
    BY <1>4
  <2>1. CASE c = m
    BY <1>4, <1>10, <2>1
  <2>2. CASE c # m
    <3>1. PICK k \in 1 .. n : history[k] = Said(batch[c][i])
      BY <1>5, <2>2 DEF Recorded, n
    <3> QED
      BY <1>2, <1>4, <2>2, <3>1
  <2> QED
    BY <2>1, <2>2
<1>12. \A k \in 1 .. Len(history') : history'[k].role = "user" =>
           \E c \in Msg : \E i \in 1 .. saved'[c] : batch'[c][i] = history'[k].of
  <2> SUFFICES ASSUME NEW k \in 1 .. Len(history'), history'[k].role = "user"
               PROVE  \E c \in Msg : \E i \in 1 .. saved'[c] : batch'[c][i] = history'[k].of
    OBVIOUS
  <2>1. CASE k = n + 1
    <3>1. 1 \in 1 .. saved'[m] /\ batch'[m][1] = history'[k].of
      BY <1>2, <1>3, <1>4, <1>5, <2>1
    <3> QED
      BY <3>1
  <2>2. CASE k \in 1 .. n
    <3>1. PICK c \in Msg : \E i \in 1 .. saved[c] : batch[c][i] = history[k].of
      BY <1>4, <2>2 DEF Recorded, n
    <3>2. c # m
      BY <1>5, <3>1
    <3> QED
      BY <1>2, <1>4, <1>5, <2>2, <3>1, <3>2
  <2> QED
    BY <1>4, <2>1, <2>2
<1>13. \A k \in 1 .. Len(history') : history'[k].role = "assistant" =>
           run'[history'[k].of] \in {"sending", "sent", "gone"}
  BY <1>2, <1>3, <1>4, <1>5, <1>7 DEF Recorded, n
<1>14. \A c \in Msg : \A i \in 1 .. saved'[c] : \A k, l \in 1 .. Len(history') :
           history'[k] = Said(c) /\ history'[l] = Said(batch'[c][i]) => k <= l
  <2> SUFFICES ASSUME NEW c \in Msg, NEW i \in 1 .. saved'[c], NEW k \in 1 .. n + 1,
                      NEW l \in 1 .. n + 1, history'[k] = Said(c), history'[l] = Said(batch'[c][i])
               PROVE  k <= l
    BY <1>4
  <2>1. CASE c = m
    BY <1>4, <1>6, <1>10, <2>1
  <2>2. CASE c # m
    <3>1. Said(c) # Said(m) /\ Said(batch[c][i]) # Said(m)
      BY <1>5, <1>8, <2>2 DEF Said
    <3>2. k \in 1 .. n /\ l \in 1 .. n
      BY <1>2, <1>4, <2>2, <3>1
    <3> QED
      BY <1>2, <1>4, <1>5, <2>2, <3>2 DEF Recorded, n
  <2> QED
    BY <2>1, <2>2
<1>15. \A c \in Msg : PastStoring(run'[c]) => saved'[c] = Len(batch'[c])
  <2>1. Len(batch'[m]) = 1
    BY <1>2
  <2> QED
    BY <1>2, <1>5, <2>1 DEF Recorded
<1>16. \A c \in Msg : run'[c] = "gone" =>
           \A i \in 1 .. Len(batch'[c]) : at'[batch'[c][i]] = "buffered" => i <= saved'[c]
  <2> SUFFICES ASSUME NEW c \in Msg, run'[c] = "gone", NEW i \in 1 .. Len(batch'[c]),
                      at'[batch'[c][i]] = "buffered"
               PROVE  i <= saved'[c]
    OBVIOUS
  <2>1. c # m
    BY <1>5
  <2>2. batch[c][i] \in Msg /\ batch[c][i] # m
    BY <1>2, <2>1, RowTypes DEF InBatch
  <2> QED
    BY <1>2, <1>5, <2>1, <2>2 DEF Recorded
<1> QED
  BY <1>9, <1>11, <1>12, <1>13, <1>14, <1>15, <1>16 DEF Recorded

\* Recorded is kept by every step.
LEMMA RecordedStep ==
  ASSUME BatchingInv, BatchingNext
  PROVE  Recorded'
<1>1. BatchingTypeOK /\ Collected /\ Recorded
  BY DEF BatchingInv
<1>2. \A b \in Msg : \A i \in 1 .. Len(batch[b]) : batch[b][i] \in Msg
  BY <1>1 DEF BatchingTypeOK
<1>3. \A b \in Msg : /\ PastStoring(run[b]) => saved[b] = Len(batch[b])
                     /\ run[b] = "gone" => \A i \in 1 .. Len(batch[b]) :
                            at[batch[b][i]] = "buffered" => i <= saved[b]
  BY <1>1 DEF Recorded
<1>4. ASSUME NEW m \in Msg, Incoming(m) PROVE Recorded'
  <2>1. CASE FindContact(m) \/ LinkContact(m)
    <3>1. UNCHANGED <<batch, run, history, saved>>
      BY <2>1 DEF FindContact, LinkContact, runVars
    <3>2. \A x \in Msg : at'[x] = "buffered" => at[x] = "buffered"
      BY <1>1, <2>1 DEF FindContact, LinkContact, Move, BatchingTypeOK
    <3> QED
      BY <1>1, <1>2, <1>3, <3>1, <3>2, StillRecorded
  <2>2. CASE Buffer(m)
    <3>1. UNCHANGED <<batch, history, saved>> /\ at' = [at EXCEPT ![m] = "buffered"] /\ at[m] = "routed"
      BY <2>2 DEF Buffer, Move
    <3>2. \A b \in Msg : \/ run'[b] = run[b]
                         \/ /\ PastStoring(run[b]) /\ run'[b] = "cancelled"
                            /\ run[b] \in {"starting", "thinking", "failing"}
      BY <1>1, <2>2, InterruptEffects DEF Buffer
    <3>3. \A b \in Msg : \A i \in 1 .. Len(batch[b]) : batch[b][i] # m
      BY <1>1, <3>1 DEF Collected
    <3>4. \A b \in Msg : \A i \in 1 .. Len(batch[b]) : at'[batch[b][i]] = at[batch[b][i]]
      BY <1>1, <1>2, <3>1, <3>3 DEF BatchingTypeOK
    <3> QED
      BY <1>1, <1>3, <3>1, <3>2, <3>4, StillRecorded
  <2> QED
    BY <1>4, <2>1, <2>2 DEF Incoming
<1>5. ASSUME NEW m \in Msg, Receive(m) PROVE Recorded'
  BY <1>1, <1>5, ReceiveRecords
<1>6. ASSUME NEW b \in Msg, Running(b) PROVE Recorded'
  <2>1. CASE StoreNext(b)
    BY <1>1, <2>1, StoreRecords
  <2>2. CASE SaveReply(b) \/ Reply(b)
    BY <1>1, <2>2, AnswerRecords DEF SaveReply, Reply, Turn, inVars
  <2>3. CASE ~(StoreNext(b) \/ SaveReply(b) \/ Reply(b))
    <3>1. /\ UNCHANGED <<at, batch, history, saved>> /\ run'[b] # "gone"
          /\ \A c \in Msg \ {b} : run'[c] = run[c]
          /\ run[b] \in {"sending", "sent", "gone"} => run'[b] \in {"sending", "sent", "gone"}
          /\ PastStoring(run'[b]) => PastStoring(run[b]) \/ saved[b] = Len(batch[b])
      BY <1>1, <1>6, <2>3, RunningEffects
    <3> QED
      BY <1>1, <1>3, <3>1, StillRecorded
  <2> QED
    BY <2>1, <2>2, <2>3
<1>7. ASSUME NEW b \in Msg, LeaveShield(b) PROVE Recorded'
  BY <1>1, <1>3, <1>7, StillRecorded DEF LeaveShield, inVars, timerVars
<1>8. CASE StartFlush
  <2>1. CASE buffer = <<>>
    BY <1>1, <1>3, <1>8, <2>1, StillRecorded DEF StartFlush, inVars
  <2>2. CASE buffer # <<>>
    <3> DEFINE b == Head(buffer)
    <3>1. b \in Msg /\ saved[b] = 0 /\ run[b] = "none"
      BY <1>1, <2>2, FlushIsNew
    <3>2. batch' = [batch EXCEPT ![b] = buffer] /\ run' = [run EXCEPT ![b] = "storing"]
          /\ UNCHANGED <<at, history, saved>>
      BY <1>8, <2>2 DEF StartFlush, LeftInBuffer, Turn, inVars
    <3> HIDE DEF b
    <3>3. run'[b] = "storing" /\ \A c \in Msg \ {b} : batch'[c] = batch[c] /\ run'[c] = run[c]
      BY <1>1, <3>1, <3>2 DEF BatchingTypeOK
    <3>4. \A c \in Msg : \A i \in 1 .. saved[c] : batch'[c][i] = batch[c][i]
      BY <3>1, <3>3
    <3> QED
      BY <1>1, <1>3, <3>1, <3>2, <3>3, <3>4, StillRecorded DEF PastStoring
  <2> QED
    BY <2>1, <2>2
<1>9. CASE Stop
  <2>1. /\ UNCHANGED <<batch, history, saved>>
        /\ run' = [b \in Msg |-> IF run[b] \in OverStates \cup {"none"} THEN run[b] ELSE "gone"]
        /\ at' = [m \in Msg |->
                  IF \/ at[m] \in {"linking", "routed"}
                     \/ at[m] = "buffered" /\ Said(m) \notin ToSet(history)
                  THEN "lost" ELSE at[m]]
    BY <1>9 DEF Stop
  <2>2. \A b \in Msg : \A i \in 1 .. Len(batch[b]) : at'[batch[b][i]] = "buffered" => i <= saved[b]
    <3> SUFFICES ASSUME NEW b \in Msg, NEW i \in 1 .. Len(batch[b]),
                        at'[batch[b][i]] = "buffered", i > saved[b]
                 PROVE  FALSE
      BY <1>1, RowTypes
    <3>1. Said(batch[b][i]) \in ToSet(history)
      BY <1>2, <2>1
    <3>2. \E k \in 1 .. Len(history) : history[k] = Said(batch[b][i])
      BY <1>1, <3>1, RowTypes DEF ToSet
    <3> QED
      BY <1>1, <3>2, Unrecorded
  <2>3. \A b \in Msg : /\ run[b] \in {"sending", "sent", "gone"} => run'[b] \in {"sending", "sent", "gone"}
                       /\ PastStoring(run'[b]) => PastStoring(run[b])
    BY <2>1 DEF OverStates, PastStoring
  <2> QED
    BY <1>1, <1>3, <2>1, <2>2, <2>3, StillRecorded
<1>10. CASE DealtWith
  BY <1>1, <1>3, <1>10, StillRecorded DEF DealtWith, batchingVars
<1> QED
  BY <1>4, <1>5, <1>6, <1>7, <1>8, <1>9, <1>10 DEF BatchingNext

--------------------------------------------------------------------------------
(* WhatsApp: the lock of a session *)

\* The holder leaves the line.
LEMMA HolderLeaves ==
  ASSUME BatchingTypeOK, InLine, store = "sqlite", NEW m \in Msg,
         run[m] \in {"starting", "thinking"}, NEW p \in {"silent", "failed", "sending"},
         run' = [run EXCEPT ![m] = p], line' = Tail(line), UNCHANGED <<store, buffer, at>>
  PROVE  InLine'
<1> DEFINE n == Len(line)
<1>1. n \in Nat /\ n > 0 /\ line[1] = m /\ line \in Seq(Msg) /\ run \in [Msg -> RunStates]
  BY HolderIsFirst DEF BatchingTypeOK
<1>2. Len(line') = n - 1 /\ \A i \in 1 .. n - 1 : line'[i] = line[i + 1]
  BY <1>1
<1>3. \A i \in 1 .. n - 1 : i + 1 \in 1 .. n /\ i + 1 > 1
  BY <1>1
<1>4. \A i \in 1 .. n : i = 1 \/ (i - 1 \in 1 .. n - 1 /\ i = (i - 1) + 1)
  BY <1>1
<1>5. run'[m] = p /\ \A c \in Msg \ {m} : run'[c] = run[c]
  BY <1>1
<1>6. \A i \in 1 .. n : line[i] \in Msg
  BY <1>1
<1> HIDE DEF n
<1>7. \A i \in 1 .. n - 1 : line'[i] # m
  BY <1>1, <1>2, <1>3 DEF InLine, n
<1>8. \A i, j \in 1 .. n - 1 : line'[i] = line'[j] => i = j
  <2> SUFFICES ASSUME NEW i \in 1 .. n - 1, NEW j \in 1 .. n - 1, line'[i] = line'[j]
               PROVE  i = j
    OBVIOUS
  <2>1. i + 1 = j + 1
    BY <1>2, <1>3 DEF InLine, n
  <2> QED
    BY <2>1
<1>9. \A i \in 1 .. n - 1 : run'[line'[i]] = "queued"
  BY <1>2, <1>3, <1>5, <1>6, <1>7 DEF InLine, n
<1>10. \A c \in Msg : run'[c] \in {"queued", "starting", "thinking"} => \E i \in 1 .. n - 1 : line'[i] = c
  <2> SUFFICES ASSUME NEW c \in Msg, run'[c] \in {"queued", "starting", "thinking"}
               PROVE  \E i \in 1 .. n - 1 : line'[i] = c
    OBVIOUS
  <2>1. c # m
    BY <1>5
  <2>2. PICK i \in 1 .. n : line[i] = c
    BY <1>5, <2>1 DEF InLine, n
  <2>3. i - 1 \in 1 .. n - 1 /\ i = (i - 1) + 1
    BY <1>1, <1>4, <2>1, <2>2
  <2>4. line'[i - 1] = c
    BY <1>2, <2>2, <2>3
  <2> QED
    BY <2>3, <2>4
<1>11. buffer = <<>> /\ (\A x \in Msg : at[x] \in {"new", "stored"})
       /\ \A b \in Msg : run'[b] \notin {"storing", "failing", "saving"}
  BY <1>5 DEF InLine
<1> QED
  BY <1>2, <1>8, <1>9, <1>10, <1>11 DEF InLine

\* A message joins the line.
LEMMA LineGrows ==
  ASSUME BatchingTypeOK, InLine, store = "sqlite", NEW m \in Msg, run[m] = "none",
         run' = [run EXCEPT ![m] = "queued"], line' = Append(line, m),
         at' = [at EXCEPT ![m] = "stored"], UNCHANGED <<store, buffer>>
  PROVE  InLine'
<1> DEFINE n == Len(line)
<1>1. n \in Nat /\ line \in Seq(Msg) /\ run \in [Msg -> RunStates] /\ at \in [Msg -> Places]
  BY DEF BatchingTypeOK
<1>2. Len(line') = n + 1 /\ line'[n + 1] = m /\ \A i \in 1 .. n : line'[i] = line[i] /\ line[i] \in Msg
  BY <1>1, AppendProperties
<1>3. \A i \in 1 .. n + 1 : i \in 1 .. n \/ i = n + 1
  BY <1>1
<1>4. run'[m] = "queued" /\ \A c \in Msg \ {m} : run'[c] = run[c] /\ at'[c] = at[c]
  BY <1>1
<1>5. at'[m] = "stored" /\ n + 1 \in 1 .. n + 1 /\ \A i \in 1 .. n : i \in 1 .. n + 1
  BY <1>1
<1> HIDE DEF n
<1>6. \A i \in 1 .. n : line[i] # m
  BY DEF InLine, n
<1>7. \A i, j \in 1 .. n + 1 : line'[i] = line'[j] => i = j
  BY <1>2, <1>3, <1>6 DEF InLine, n
<1>8. \A i \in 1 .. n + 1 : /\ run'[line'[i]] \in {"queued", "starting", "thinking"}
                            /\ i > 1 => run'[line'[i]] = "queued"
  BY <1>2, <1>3, <1>4, <1>6 DEF InLine, n
<1>9. \A c \in Msg : run'[c] \in {"queued", "starting", "thinking"} => \E i \in 1 .. n + 1 : line'[i] = c
  <2> SUFFICES ASSUME NEW c \in Msg, run'[c] \in {"queued", "starting", "thinking"}
               PROVE  \E i \in 1 .. n + 1 : line'[i] = c
    OBVIOUS
  <2>1. CASE c = m
    BY <1>2, <1>5, <2>1
  <2>2. CASE c # m
    <3>1. PICK i \in 1 .. n : line[i] = c
      BY <1>4, <2>2 DEF InLine, n
    <3> QED
      BY <1>2, <1>5, <3>1
  <2> QED
    BY <2>1, <2>2
<1>10. buffer = <<>> /\ (\A x \in Msg : at'[x] \in {"new", "stored"})
       /\ \A b \in Msg : run'[b] \notin {"storing", "failing", "saving"}
  BY <1>4, <1>5 DEF InLine
<1> QED
  BY <1>2, <1>7, <1>8, <1>9, <1>10 DEF InLine

\* InLine is kept by every step.
LEMMA InLineStep ==
  ASSUME BatchingInv, BatchingNext
  PROVE  InLine'
<1>1. BatchingTypeOK /\ Collected /\ InLine /\ run \in [Msg -> RunStates]
  BY DEF BatchingInv, BatchingTypeOK
<1>2. ASSUME store' = store, store # "sqlite" PROVE InLine'
  BY <1>2 DEF InLine
<1>3. ASSUME NEW m \in Msg, Incoming(m) PROVE InLine'
  <2>1. CASE store = "sqlite"
    BY <1>1, <1>3, <2>1 DEF InLine, Incoming, FindContact, LinkContact, Buffer
  <2>2. CASE store # "sqlite"
    BY <1>2, <1>3, <2>2 DEF Incoming, FindContact, LinkContact, Buffer
  <2> QED
    BY <2>1, <2>2
<1>4. ASSUME NEW m \in Msg, Receive(m) PROVE InLine'
  <2>1. run[m] = "none"
    BY <1>1, <1>4, ReceiveCollects
  <2> QED
    BY <1>1, <1>4, <2>1, LineGrows DEF Receive, Move, Turn, timerVars
<1>5. ASSUME NEW b \in Msg, Running(b), store = "sqlite" PROVE InLine'
  <2>1. run[b] \notin {"storing", "failing", "saving"} /\ store # "mongo"
    BY <1>1, <1>5 DEF InLine
  <2>2. CASE SendReply(b)
    <3>1. run' = [run EXCEPT ![b] = "sent"] /\ run[b] = "sending" /\ UNCHANGED <<store, buffer, at, line>>
      BY <2>2 DEF SendReply, Turn, inVars, timerVars
    <3>2. run'[b] = "sent" /\ \A c \in Msg \ {b} : run'[c] = run[c]
      BY <1>1, <3>1
    <3>3. \A i \in 1 .. Len(line) : line[i] \in Msg /\ line[i] # b
      <4>1. \A i \in 1 .. Len(line) : line[i] \in Msg
        BY <1>1 DEF BatchingTypeOK
      <4> QED
        BY <1>1, <1>5, <3>1, <4>1 DEF InLine
    <3> QED
      BY <1>1, <3>1, <3>2, <3>3 DEF InLine
  <2>3. CASE Lock(b) \/ ReadAll(b)
    <3>1. PICK p \in {"starting", "thinking"} : run' = [run EXCEPT ![b] = p]
      BY <2>3 DEF Lock, ReadAll, Turn
    <3>2. UNCHANGED <<store, buffer, at, line>> /\ run[b] \in {"queued", "starting"}
      BY <2>3 DEF Lock, ReadAll, inVars, timerVars
    <3>3. line \in Seq(Msg) /\ Len(line) \in Nat /\ Len(line) > 0 /\ line[1] = b
      <4>1. CASE Lock(b)
        <5>1. line \in Seq(Msg) /\ line # <<>> /\ Head(line) = b
          BY <1>1, <4>1 DEF Lock, HasLock, BatchingTypeOK
        <5> QED
          BY <5>1
      <4>2. CASE ReadAll(b)
        BY <1>1, <1>5, <4>2, HolderIsFirst DEF ReadAll, BatchingTypeOK
      <4> QED
        BY <2>3, <4>1, <4>2
    <3>4. run'[b] = p /\ \A c \in Msg \ {b} : run'[c] = run[c]
      BY <1>1, <3>1
    <3>5. \A i \in 1 .. Len(line) : line[i] \in Msg /\ (i > 1 => line[i] # b)
      BY <1>1, <1>5, <3>3 DEF InLine
    <3> QED
      BY <1>1, <1>5, <3>2, <3>3, <3>4, <3>5 DEF InLine
  <2>4. CASE NoAgentSqlite(b) \/ NoReply(b) \/ Reply(b)
    <3>1. /\ run[b] \in {"starting", "thinking"} /\ line' = Tail(line) /\ UNCHANGED <<store, buffer, at>>
          /\ \E p \in {"silent", "failed", "sending"} : run' = [run EXCEPT ![b] = p]
      BY <2>4 DEF NoAgentSqlite, NoReply, Reply, Turn, inVars, timerVars
    <3> QED
      BY <1>1, <1>5, <3>1, HolderLeaves
  <2> QED
    BY <1>5, <2>1, <2>2, <2>3, <2>4
       DEF Running, StoreNext, StoreFails, Launch, Ready, ReadHistory, NoAgent, Think, Fail, SaveReply
<1>6. ASSUME NEW b \in Msg, Running(b), store # "sqlite" PROVE InLine'
  BY <1>1, <1>2, <1>6, RunningEffects
<1>7. ASSUME NEW b \in Msg, LeaveShield(b) PROVE InLine'
  BY <1>1, <1>7 DEF LeaveShield, inVars, timerVars, InLine
<1>8. CASE StartFlush
  <2>1. buffer # <<>> /\ store' = store
    BY <1>1, <1>8 DEF StartFlush, BatchingTypeOK
  <2> QED
    BY <1>1, <1>2, <2>1 DEF InLine
<1>9. CASE Stop
  <2>1. /\ store' = store /\ line' = <<>> /\ buffer' = <<>>
        /\ run' = [b \in Msg |-> IF run[b] \in OverStates \cup {"none"} THEN run[b] ELSE "gone"]
        /\ \A m \in Msg : at[m] \in {"new", "stored"} => at'[m] = at[m]
    BY <1>9 DEF Stop
  <2>2. Len(line') = 0
    BY <2>1
  <2>3. \A b \in Msg : run'[b] \notin {"storing", "failing", "saving", "queued", "starting", "thinking"}
    BY <2>1 DEF OverStates
  <2> QED
    BY <1>1, <2>1, <2>2, <2>3 DEF InLine
<1>10. CASE DealtWith
  BY <1>1, <1>10 DEF DealtWith, batchingVars, InLine
<1> QED
  BY <1>3, <1>4, <1>5, <1>6, <1>7, <1>8, <1>9, <1>10 DEF BatchingNext

--------------------------------------------------------------------------------
(* WhatsApp: what an agent has read *)

\* Informed while nothing is read: the table is as it was, or has a row more that is
\* no message of an agent that runs, nor an answer while another one thinks.
LEMMA StillInformed ==
  ASSUME BatchingTypeOK, Informed, UNCHANGED <<store, seen>>,
         \A b \in Msg : run'[b] \in Knowing => run[b] \in Knowing /\ batch'[b] = batch[b],
         \A b \in Msg : run'[b] = "thinking" => run[b] = "thinking",
         \/ history' = history
         \/ \E e \in Entries :
               /\ history' = Append(history, e)
               /\ \A b \in Msg : run'[b] \in Knowing => e # Said(b)
               /\ e.role = "assistant" /\ store = "sqlite" => \A b \in Msg : run'[b] # "thinking"
  PROVE  Informed'
<1> USE DEF Knowing
<1>1. CASE history' = history
  BY <1>1 DEF Informed
<1>2. ASSUME NEW e \in Entries, history' = Append(history, e),
             \A b \in Msg : run'[b] \in Knowing => e # Said(b),
             e.role = "assistant" /\ store = "sqlite" => \A b \in Msg : run'[b] # "thinking"
      PROVE  Informed'
  <2> DEFINE n == Len(history)
  <2>1. /\ n \in Nat /\ Len(history') = n + 1 /\ history'[n + 1] = e
        /\ \A k \in 1 .. n : history'[k] = history[k]
        /\ \A k \in 1 .. Len(history') : k \in 1 .. n \/ k = n + 1
    BY <1>2, OneMoreRow
  <2>2. ~(n + 1 <= PageLimit) \/ n <= PageLimit
    BY <2>1, PageLimitAssumption
  <2> HIDE DEF n
  <2> SUFFICES ASSUME NEW b \in Msg, run'[b] \in Knowing
               PROVE  /\ \A i \in 1 .. Len(batch[b]) : Said(batch[b][i]) \in seen[b]
                      /\ store = "sqlite" \/ n + 1 <= PageLimit =>
                             \A i, j \in 1 .. n + 1 :
                                 i < j /\ history'[j] = Said(b) => history'[i] \in seen[b]
                      /\ store = "sqlite" /\ run'[b] = "thinking" =>
                             \A k \in 1 .. n + 1 :
                                 history'[k].role = "assistant" => history'[k] \in seen[b]
    BY <2>1 DEF Informed
  <2>3. run[b] \in Knowing
    OBVIOUS
  <2>4. \A i \in 1 .. Len(batch[b]) : Said(batch[b][i]) \in seen[b]
    BY <2>3 DEF Informed
  <2>5. ASSUME store = "sqlite" \/ n + 1 <= PageLimit, NEW i \in 1 .. n + 1, NEW j \in 1 .. n + 1,
               i < j, history'[j] = Said(b)
        PROVE  history'[i] \in seen[b]
    <3>1. j # n + 1
      BY <1>2, <2>1, <2>5
    <3>2. j \in 1 .. n /\ i \in 1 .. n
      BY <2>1, <2>5, <3>1
    <3> QED
      BY <2>1, <2>2, <2>3, <2>5, <3>2 DEF Informed, n
  <2>6. ASSUME store = "sqlite", run'[b] = "thinking", NEW k \in 1 .. n + 1, history'[k].role = "assistant"
        PROVE  history'[k] \in seen[b]
    <3>1. k # n + 1
      BY <1>2, <2>1, <2>6
    <3>2. k \in 1 .. n
      BY <2>1, <3>1
    <3> QED
      BY <2>1, <2>3, <2>6, <3>2 DEF Informed, n
  <2> QED
    BY <2>4, <2>5, <2>6
<1> QED
  BY <1>1, <1>2

\* The rows before the first message of a flush that is stored are in the page up to
\* the last so many messages, because all of its messages come after them.
LEMMA RowsBefore ==
  ASSUME BatchingTypeOK, Collected, Recorded, NEW b \in Msg, saved[b] = Len(batch[b]),
         Len(history) <= PageLimit,
         NEW i \in 1 .. Len(history), NEW j \in 1 .. Len(history), i < j, history[j] = Said(b)
  PROVE  history[i] \in HistoryRows(b)
<1> DEFINE n == Len(history)
           size == Len(batch[b])
           after == {k \in 1 .. Len(Page) : k > i /\ Page[k].role = "user"}
           place == [p \in 1 .. size |-> CHOOSE k \in 1 .. n : history[k] = Said(batch[b][p])]
<1>1. history \in Seq(Entries) /\ n \in Nat /\ size \in Nat
  BY RowTypes DEF BatchingTypeOK
<1>2. Len(Page) = n /\ \A k \in 1 .. n : Page[k] = history[k]
  <2>1. Page = SubSeq(history, 1, n)
    BY <1>1, PageLimitAssumption DEF Page
  <2> QED
    BY <1>1, <2>1
<1>3. \A p \in 1 .. size : place[p] \in 1 .. n /\ history[place[p]] = Said(batch[b][p])
  BY DEF Recorded
<1>4. \A p \in 1 .. size : place[p] \in after
  <2> SUFFICES ASSUME NEW p \in 1 .. size PROVE place[p] \in after
    OBVIOUS
  <2>1. place[p] \in 1 .. n /\ history[place[p]] = Said(batch[b][p])
    BY <1>3
  <2>2. j <= place[p]
    BY <2>1 DEF Recorded
  <2>3. place[p] > i
    BY <2>1, <2>2
  <2>4. Page[place[p]].role = "user"
    BY <1>2, <2>1 DEF Said
  <2> QED
    BY <1>2, <2>1, <2>3, <2>4
<1>5. \A p, q \in 1 .. size : place[p] = place[q] => p = q
  <2> SUFFICES ASSUME NEW p \in 1 .. size, NEW q \in 1 .. size, place[p] = place[q] PROVE p = q
    OBVIOUS
  <2>1. Said(batch[b][p]) = Said(batch[b][q])
    BY <1>3
  <2>2. batch[b][p] = batch[b][q]
    BY <2>1 DEF Said
  <2> QED
    BY <2>2 DEF Collected
<1>6. place \in [1 .. size -> after]
  BY <1>4
<1>7. place \in Injection(1 .. size, after)
  BY <1>5, <1>6 DEF Injection, IsInjective
<1>8. IsFiniteSet(after)
  <2>1. IsFiniteSet(1 .. n)
    BY <1>1, FS_Interval
  <2>2. after \subseteq 1 .. n
    BY <1>2
  <2> QED
    BY <2>1, <2>2, FS_Subset
<1> HIDE DEF place, after
<1>9. Cardinality(1 .. size) <= Cardinality(after)
  BY <1>7, <1>8, FS_Injection
<1> HIDE DEF size
<1>10. Cardinality(1 .. size) = size
  <2>1. 1 \in Int /\ size \in Int
    BY <1>1
  <2>2. Cardinality(1 .. size) = IF 1 > size THEN 0 ELSE size - 1 + 1
    BY <2>1, FS_Interval
  <2> QED
    BY <1>1, <2>2
<1>11. Cardinality(after) \in Nat
  BY <1>8, FS_CardinalityType
<1>12. Cardinality(after) >= size
  BY <1>1, <1>9, <1>10, <1>11
<1>13. i \in BeforeCutoff(size)
  BY <1>2, <1>12 DEF BeforeCutoff, after
<1> QED
  BY <1>2, <1>13 DEF HistoryRows, size

\* Informed is kept by every step.
LEMMA InformedStep ==
  ASSUME BatchingInv, BatchingNext
  PROVE  Informed'
<1> USE DEF Knowing
<1>1. BatchingTypeOK /\ Collected /\ Recorded /\ InLine /\ Informed
      /\ run \in [Msg -> RunStates] /\ seen \in [Msg -> SUBSET Entries]
  BY DEF BatchingInv, BatchingTypeOK
<1>2. ASSUME NEW m \in Msg, Incoming(m) PROVE Informed'
  <2>1. CASE FindContact(m) \/ LinkContact(m)
    BY <1>1, <2>1, StillInformed DEF FindContact, LinkContact, runVars
  <2>2. CASE Buffer(m)
    <3>1. UNCHANGED <<store, batch, seen, history>> /\ Interrupt
      BY <2>2 DEF Buffer
    <3>2. \A b \in Msg : run'[b] \in Knowing => run'[b] = run[b]
      BY <1>1, <3>1, InterruptEffects
    <3> QED
      BY <1>1, <3>1, <3>2, StillInformed
  <2> QED
    BY <1>2, <2>1, <2>2 DEF Incoming
<1>3. ASSUME NEW m \in Msg, Receive(m) PROVE Informed'
  <2>1. history' = Append(history, Said(m)) /\ run' = [run EXCEPT ![m] = "queued"]
        /\ UNCHANGED <<store, seen>>
    BY <1>3 DEF Receive, Turn
  <2>2. Said(m) \in Entries /\ Said(m).role # "assistant"
    BY DEF Said, Entries
  <2>3. run'[m] = "queued" /\ \A c \in Msg \ {m} : run'[c] = run[c]
    BY <1>1, <2>1
  <2>4. \A c \in Msg \ {m} : batch'[c] = batch[c]
    BY <1>1, <1>3, ReceiveCollects
  <2>5. \A c \in Msg \ {m} : Said(m) # Said(c)
    BY DEF Said
  <2> QED
    BY <1>1, <2>1, <2>2, <2>3, <2>4, <2>5, StillInformed
<1>4. ASSUME NEW b \in Msg, Running(b) PROVE Informed'
  <2>0. UNCHANGED <<store, batch>> /\ run[b] # "none" /\ \A c \in Msg \ {b} : run'[c] = run[c]
    BY <1>1, <1>4, RunningEffects
  <2>1. CASE StoreNext(b)
    <3> DEFINE m == batch[b][saved[b] + 1]
    <3>1. run[b] = "storing" /\ run' = run /\ seen' = seen /\ saved[b] < Len(batch[b])
          /\ history' = Append(history, Said(m))
      BY <2>1 DEF StoreNext
    <3>2. saved[b] + 1 \in 1 .. Len(batch[b]) /\ m \in Msg
      BY <1>1, <3>1, RowTypes
    <3>3. Said(m) \in Entries /\ Said(m).role # "assistant"
      BY <3>2 DEF Said, Entries
    <3>4. ASSUME NEW c \in Msg, run[c] \in Knowing PROVE Said(m) # Said(c)
      <4>1. Len(batch[c]) \in Nat /\ Len(batch[c]) # 0
        BY <1>1, <3>4, RowTypes DEF Collected
      <4>2. 1 \in 1 .. Len(batch[c]) /\ batch[c][1] = c
        BY <1>1, <4>1 DEF Collected
      <4>3. c # b
        BY <3>1, <3>4
      <4>4. m # c
        BY <1>1, <3>2, <4>2, <4>3 DEF Collected
      <4> QED
        BY <4>4 DEF Said
    <3> HIDE DEF m
    <3> QED
      BY <1>1, <2>0, <3>1, <3>3, <3>4, StillInformed
  <2>2. CASE SaveReply(b)
    <3>1. /\ run[b] = "saving" /\ run' = [run EXCEPT ![b] = "sending"] /\ seen' = seen
          /\ history' = Append(history, Answered(b))
      BY <2>2 DEF SaveReply, Turn
    <3>2. Answered(b) \in Entries /\ \A c \in Msg : Answered(b) # Said(c)
      BY DEF Answered, Said, Entries
    <3>3. store # "sqlite"
      BY <1>1, <3>1 DEF InLine
    <3>4. run'[b] = "sending"
      BY <1>1, <3>1
    <3> QED
      BY <1>1, <2>0, <3>1, <3>2, <3>3, <3>4, StillInformed
  <2>3. CASE Reply(b)
    <3>1. /\ run[b] = "thinking" /\ run' = [run EXCEPT ![b] = "sending"] /\ seen' = seen
          /\ history' = Append(history, Answered(b)) /\ store = "sqlite"
      BY <2>3 DEF Reply, Turn
    <3>2. Answered(b) \in Entries /\ \A c \in Msg : Answered(b) # Said(c)
      BY DEF Answered, Said, Entries
    <3>3. \A c \in Msg : run[c] = "thinking" => c = b
      BY <1>1, <3>1, HolderIsFirst
    <3>4. run'[b] = "sending"
      BY <1>1, <3>1
    <3> QED
      BY <1>1, <2>0, <3>1, <3>2, <3>3, <3>4, StillInformed
  <2>4. CASE ReadHistory(b)
    <3>1. /\ store = "mongo" /\ run[b] = "starting" /\ run' = [run EXCEPT ![b] = "thinking"]
          /\ seen' = [seen EXCEPT ![b] = HistoryRows(b) \cup BatchRows(b)] /\ history' = history
      BY <2>4 DEF ReadHistory, Turn
    <3>2. seen'[b] = HistoryRows(b) \cup BatchRows(b) /\ \A c \in Msg \ {b} : seen'[c] = seen[c]
      BY <1>1, <3>1
    <3>3. \A i \in 1 .. Len(batch[b]) : Said(batch[b][i]) \in seen'[b]
      <4>1. DOMAIN batch[b] = 1 .. Len(batch[b])
        BY <1>1, RowTypes
      <4> QED
        BY <3>2, <4>1 DEF BatchRows, ToSet
    <3>4. saved[b] = Len(batch[b])
      BY <1>1, <3>1 DEF Recorded, PastStoring
    <3>5. Len(history) <= PageLimit =>
              \A i, j \in 1 .. Len(history) : i < j /\ history[j] = Said(b) => history[i] \in seen'[b]
      BY <1>1, <3>2, <3>4, RowsBefore
    <3> QED
      BY <1>1, <2>0, <3>1, <3>2, <3>3, <3>5 DEF Informed
  <2>5. CASE ReadAll(b)
    <3>1. /\ store = "sqlite" /\ run[b] = "starting" /\ run' = [run EXCEPT ![b] = "thinking"]
          /\ seen' = [seen EXCEPT ![b] = ToSet(history)] /\ history' = history
      BY <2>5 DEF ReadAll, Turn
    <3>2. seen'[b] = ToSet(history) /\ \A c \in Msg \ {b} : seen'[c] = seen[c]
      BY <1>1, <3>1
    <3>3. \A k \in 1 .. Len(history) : history[k] \in seen'[b]
      BY <1>1, <3>2, RowTypes DEF ToSet
    <3>4. saved[b] = Len(batch[b])
      BY <1>1, <3>1 DEF Recorded, PastStoring
    <3>5. \A i \in 1 .. Len(batch[b]) : Said(batch[b][i]) \in seen'[b]
      BY <1>1, <3>3, <3>4 DEF Recorded
    <3> QED
      BY <1>1, <2>0, <3>1, <3>2, <3>3, <3>5 DEF Informed
  <2>6. CASE StoreFails(b) \/ Launch(b) \/ NoAgent(b) \/ Think(b) \/ Fail(b) \/ SendReply(b)
    <3>1. /\ UNCHANGED <<history, seen>> /\ run'[b] # "thinking"
          /\ run'[b] \in Knowing => run[b] \in Knowing
      BY <1>1, <2>6 DEF StoreFails, Launch, NoAgent, Think, Fail, SendReply, Turn
    <3> QED
      BY <1>1, <2>0, <3>1, StillInformed
  <2>7. CASE Lock(b) \/ NoAgentSqlite(b) \/ NoReply(b)
    <3>1. UNCHANGED <<history, seen>> /\ run'[b] \notin Knowing
      BY <1>1, <2>7 DEF Lock, NoAgentSqlite, NoReply, Turn
    <3> QED
      BY <1>1, <2>0, <3>1, StillInformed
  <2> QED
    BY <1>4, <2>1, <2>2, <2>3, <2>4, <2>5, <2>6, <2>7 DEF Running
<1>5. ASSUME NEW b \in Msg, LeaveShield(b) PROVE Informed'
  BY <1>1, <1>5, StillInformed DEF LeaveShield, inVars, timerVars
<1>6. CASE StartFlush
  <2>1. CASE buffer = <<>>
    BY <1>1, <1>6, <2>1, StillInformed DEF StartFlush, inVars
  <2>2. CASE buffer # <<>>
    <3> DEFINE b == Head(buffer)
    <3>1. batch' = [batch EXCEPT ![b] = buffer] /\ run' = [run EXCEPT ![b] = "storing"]
          /\ UNCHANGED <<store, seen, history>> /\ b \in Msg
      BY <1>1, <1>6, <2>2, FlushIsNew DEF StartFlush, LeftInBuffer, Turn
    <3> HIDE DEF b
    <3>2. run'[b] = "storing" /\ \A c \in Msg \ {b} : batch'[c] = batch[c] /\ run'[c] = run[c]
      BY <1>1, <3>1 DEF BatchingTypeOK
    <3> QED
      BY <1>1, <3>1, <3>2, StillInformed
  <2> QED
    BY <2>1, <2>2
<1>7. CASE Stop
  <2>1. UNCHANGED <<store, batch, seen, history>>
        /\ run' = [b \in Msg |-> IF run[b] \in OverStates \cup {"none"} THEN run[b] ELSE "gone"]
    BY <1>7 DEF Stop
  <2>2. \A b \in Msg : run'[b] \in Knowing => run[b] = run'[b] /\ run'[b] # "thinking"
    BY <2>1 DEF OverStates
  <2> QED
    BY <1>1, <2>1, <2>2, StillInformed
<1>8. CASE DealtWith
  BY <1>1, <1>8, StillInformed DEF DealtWith, batchingVars
<1> QED
  BY <1>2, <1>3, <1>4, <1>5, <1>6, <1>7, <1>8 DEF BatchingNext

--------------------------------------------------------------------------------
(* WhatsApp: the theorems *)

\* The chat as it begins.
LEMMA BatchingInitially == BatchingInit => BatchingInv
<1> SUFFICES ASSUME BatchingInit PROVE BatchingInv
  OBVIOUS
<1>1. /\ store \in {"sqlite", "mongo"} /\ at = [m \in Msg |-> "new"] /\ contact = FALSE
      /\ buffer = <<>> /\ timer = FALSE
      /\ batch = [m \in Msg |-> <<>>] /\ saved = [m \in Msg |-> 0]
      /\ run = [m \in Msg |-> "none"] /\ outer = [m \in Msg |-> "none"]
      /\ task = 0 /\ line = <<>> /\ history = <<>>
      /\ seen = [m \in Msg |-> {}] /\ troubles = 0
  BY DEF BatchingInit, NoTask
<1>2. Len(buffer) = 0 /\ Len(line) = 0 /\ Len(history) = 0
      /\ \A b \in Msg : Len(batch[b]) = 0 /\ run[b] = "none" /\ saved[b] = 0 /\ at[b] = "new"
  BY <1>1
<1>3. BatchingTypeOK
  <2>1. buffer \in Seq(Msg) /\ line \in Seq(Msg) /\ history \in Seq(Entries)
    BY <1>1
  <2>2. batch \in [Msg -> Seq(Msg)] /\ saved \in [Msg -> Nat]
    BY <1>1
  <2>3. timer = (buffer # <<>>)
    BY <1>1, Zenon
  <2>4. task \in 0 .. Msgs /\ troubles \in 0 .. Events
    BY <1>1, MsgsAssumption, EventsAssumption
  <2>5. /\ at \in [Msg -> Places] /\ run \in [Msg -> RunStates] /\ contact \in BOOLEAN
        /\ outer \in [Msg -> {"none", "waiting", "cut"}] /\ seen \in [Msg -> SUBSET Entries]
    BY <1>1 DEF Places, RunStates
  <2> QED
    BY <1>1, <1>2, <2>1, <2>2, <2>3, <2>4, <2>5 DEF BatchingTypeOK
<1>4. Collected /\ Recorded /\ InLine /\ Informed
  BY <1>1, <1>2 DEF Collected, Recorded, InLine, Informed, Knowing, PastStoring
<1> QED
  BY <1>3, <1>4 DEF BatchingInv

\* BatchingInv is inductive.
LEMMA BatchingInvariant == BatchingSpec => []BatchingInv
<1>1. BatchingInv /\ [BatchingNext]_batchingVars => BatchingInv'
  <2>1. BatchingInv /\ BatchingNext => BatchingInv'
    BY BatchingTypesStep, CollectedStep, RecordedStep, InLineStep, InformedStep DEF BatchingInv
  <2>2. BatchingInv /\ UNCHANGED batchingVars => BatchingInv'
    <3> SUFFICES ASSUME BatchingInv, UNCHANGED batchingVars PROVE BatchingInv'
      OBVIOUS
    <3> USE DEF BatchingInv, batchingVars
    <3>1. BatchingTypeOK'
      BY DEF BatchingTypeOK
    <3>2. Collected'
      BY DEF Collected, InBatch
    <3>3. Recorded'
      BY DEF Recorded
    <3>4. InLine' /\ Informed'
      BY DEF InLine, Informed
    <3> QED
      BY <3>1, <3>2, <3>3, <3>4
  <2> QED
    BY <2>1, <2>2
<1> QED
  BY <1>1, BatchingInitially, PTL DEF BatchingSpec

\* The variables of the WhatsApp chat keep their types, and the timer runs exactly
\* while something is in the buffer (_handle_mongo, _flush_session).
THEOREM BatchingTypeCorrect == BatchingSpec => []BatchingTypeOK
<1>1. BatchingInv => BatchingTypeOK
  BY DEF BatchingInv
<1> QED
  BY <1>1, BatchingInvariant, PTL

\* What follows the first n of a sequence.
LEMMA RestOf ==
  ASSUME NEW S, NEW s \in Seq(S), NEW n \in Nat, n <= Len(s)
  PROVE  /\ Len(SubSeq(s, n + 1, Len(s))) = Len(s) - n
         /\ DOMAIN SubSeq(s, n + 1, Len(s)) = 1 .. Len(s) - n
         /\ \A k \in 1 .. Len(s) - n : SubSeq(s, n + 1, Len(s))[k] = s[n + k]
  OBVIOUS

\* A message of a flush that is stored, waits to be or is lost with its flush.
LEMMA OnePlace ==
  ASSUME BatchingInv, NEW m \in Msg, at[m] = "buffered", m \notin ToSet(buffer),
         ~\E b \in Msg : run[b] = "failed" /\ m \in ToSet(batch[b])
  PROVE  \/ Said(m) \in ToSet(history) /\ \A c \in Msg : m \notin Unsaved(c)
         \/ Said(m) \notin ToSet(history) /\ \E b \in Msg : m \in Unsaved(b)
<1>1. BatchingTypeOK /\ Collected /\ Recorded
  BY DEF BatchingInv
<1>2. /\ DOMAIN history = 1 .. Len(history)
      /\ \A b \in Msg : batch[b] \in Seq(Msg) /\ Len(batch[b]) \in Nat /\ DOMAIN batch[b] = 1 .. Len(batch[b])
                        /\ saved[b] \in Nat /\ saved[b] <= Len(batch[b])
  BY <1>1, RowTypes
<1>3. DOMAIN buffer = 1 .. Len(buffer)
  BY <1>1 DEF BatchingTypeOK
<1>4. PICK b \in Msg : \E i \in 1 .. Len(batch[b]) : batch[b][i] = m
  BY <1>1, <1>3 DEF Collected, InBatch, ToSet
<1>5. PICK i \in 1 .. Len(batch[b]) : batch[b][i] = m
  BY <1>4
<1>6. \A c \in Msg : m \in Unsaved(c) <=> c = b /\ run[b] = "storing" /\ i > saved[b]
  <2> SUFFICES ASSUME NEW c \in Msg PROVE m \in Unsaved(c) <=> c = b /\ run[b] = "storing" /\ i > saved[b]
    OBVIOUS
  <2>1. CASE run[c] # "storing"
    BY <2>1 DEF Unsaved
  <2>2. CASE run[c] = "storing"
    <3> DEFINE rest == SubSeq(batch[c], saved[c] + 1, Len(batch[c]))
    <3>1. Len(rest) = Len(batch[c]) - saved[c] /\ DOMAIN rest = 1 .. Len(batch[c]) - saved[c]
          /\ \A k \in 1 .. Len(batch[c]) - saved[c] : rest[k] = batch[c][saved[c] + k]
      BY <1>2, RestOf
    <3>2. \A k \in 1 .. Len(batch[c]) - saved[c] : saved[c] + k \in 1 .. Len(batch[c]) /\ saved[c] + k > saved[c]
      BY <1>2
    <3> HIDE DEF rest
    <3>3. ASSUME m \in Unsaved(c) PROVE c = b /\ i > saved[b]
      <4>1. PICK k \in 1 .. Len(batch[c]) - saved[c] : batch[c][saved[c] + k] = m
        BY <2>2, <3>1, <3>3 DEF Unsaved, ToSet, rest
      <4>2. c = b /\ saved[c] + k = i
        BY <1>1, <1>5, <3>2, <4>1 DEF Collected
      <4> QED
        BY <3>2, <4>2
    <3>4. ASSUME c = b, i > saved[b] PROVE m \in Unsaved(c)
      <4>1. i - saved[b] \in 1 .. Len(batch[b]) - saved[b] /\ saved[b] + (i - saved[b]) = i
        BY <1>2, <3>4
      <4>2. rest[i - saved[b]] = m
        BY <1>5, <3>1, <3>4, <4>1
      <4> QED
        BY <2>2, <3>1, <3>4, <4>1, <4>2 DEF Unsaved, ToSet, rest
    <3> QED
      BY <2>2, <3>3, <3>4
  <2> QED
    BY <2>1, <2>2
<1>7. CASE i <= saved[b]
  <2>1. i \in 1 .. saved[b]
    BY <1>2, <1>7
  <2>2. Said(m) \in ToSet(history)
    <3>1. PICK k \in 1 .. Len(history) : history[k] = Said(batch[b][i])
      BY <1>1, <2>1 DEF Recorded
    <3> QED
      BY <1>2, <1>5, <3>1 DEF ToSet
  <2> QED
    BY <1>2, <1>6, <1>7, <2>2
<1>8. CASE i > saved[b]
  <2>1. Said(m) \notin ToSet(history)
    BY <1>1, <1>2, <1>5, <1>8, Unrecorded DEF ToSet
  <2>2. run[b] # "none" /\ run[b] # "failed"
    BY <1>2, <1>5 , <1>1 DEF Collected, ToSet
  <2>3. run[b] # "gone" /\ ~PastStoring(run[b])
    <3>1. run[b] # "gone"
      BY <1>1, <1>2, <1>5, <1>8 DEF Recorded
    <3>2. saved[b] # Len(batch[b])
      BY <1>2, <1>8
    <3> QED
      BY <1>1, <3>1, <3>2 DEF Recorded
  <2>4. run[b] = "storing"
    BY <2>2, <2>3 DEF PastStoring
  <2> QED
    BY <1>6, <1>8, <2>1, <2>4
<1> QED
  BY <1>2, <1>7, <1>8

\* A message that a WhatsApp chat takes in is in exactly one place until it is
\* stored, and stored once, however timers and flushes overlap, except for a flush
\* that failed and a process that stopped (_flush_session).
THEOREM MessagesStoredOnce == BatchingSpec => []StoredOnce
<1>1. BatchingInv => StoredOnce
  <2> SUFFICES ASSUME BatchingInv PROVE StoredOnce
    OBVIOUS
  <2>1. BatchingTypeOK /\ Collected /\ Recorded
    BY DEF BatchingInv
  <2>2. DOMAIN history = 1 .. Len(history) /\ DOMAIN buffer = 1 .. Len(buffer)
    BY <2>1 DEF BatchingTypeOK
  <2>3. IsInjective(history) /\ IsInjective(buffer)
    BY <2>1, <2>2 DEF IsInjective, Recorded, Collected
  <2>4. ASSUME NEW m \in Msg, at[m] = "buffered"
        PROVE  \/ /\ \E b \in Msg : run[b] = "failed" /\ m \in ToSet(batch[b])
                  /\ m \notin ToSet(buffer)
               \/ LET holders == <<m \in ToSet(buffer), \E b \in Msg : m \in Unsaved(b),
                                   Said(m) \in ToSet(history)>>
                  IN \E i \in 1 .. 3 : holders[i] /\ \A j \in 1 .. 3 : holders[j] => i = j
    <3> DEFINE inBuffer == m \in ToSet(buffer)
               inFlush == \E b \in Msg : m \in Unsaved(b)
               inTable == Said(m) \in ToSet(history)
               holders == <<inBuffer, inFlush, inTable>>
    <3>1. CASE inBuffer
      <4>1. ~inFlush
        <5> SUFFICES ASSUME NEW b \in Msg, m \in Unsaved(b) PROVE FALSE
          OBVIOUS
        <5>1. batch[b] \in Seq(Msg) /\ Len(batch[b]) \in Nat /\ saved[b] \in Nat /\ saved[b] <= Len(batch[b])
          BY <2>1, RowTypes
        <5>2. \E i \in 1 .. Len(batch[b]) : batch[b][i] = m
          <6> DEFINE rest == SubSeq(batch[b], saved[b] + 1, Len(batch[b]))
          <6>1. DOMAIN rest = 1 .. Len(batch[b]) - saved[b]
                /\ \A k \in 1 .. Len(batch[b]) - saved[b] : rest[k] = batch[b][saved[b] + k]
            <7>1. saved[b] + 1 \in Int /\ Len(batch[b]) \in Int
              BY <5>1
            <7> QED
              BY <5>1, <7>1, SMTT(40)
          <6>2. \A k \in 1 .. Len(batch[b]) - saved[b] : saved[b] + k \in 1 .. Len(batch[b])
            BY <5>1
          <6>3. m \in ToSet(rest)
            BY DEF Unsaved
          <6> HIDE DEF rest
          <6>4. PICK k \in 1 .. Len(batch[b]) - saved[b] : rest[k] = m
            BY <6>1, <6>3 DEF ToSet
          <6> QED
            BY <6>1, <6>2, <6>4
        <5> QED
          BY <2>1, <2>2, <3>1, <5>2 DEF Collected, ToSet
      <4>2. ~inTable
        <5> SUFFICES ASSUME inTable PROVE FALSE
          OBVIOUS
        <5>1. PICK k \in 1 .. Len(history) : history[k] = Said(m)
          BY <2>2 DEF ToSet
        <5>2. history[k].role = "user" /\ history[k].of = m
          BY <5>1 DEF Said
        <5>3. \E b \in Msg : \E i \in 1 .. saved[b] : i \in 1 .. Len(batch[b]) /\ batch[b][i] = m
          BY <2>1, <5>2, StoredIsInBatch
        <5> QED
          BY <2>1, <2>2, <3>1, <5>3 DEF Collected, ToSet
      <4>3. holders[1] /\ ~holders[2] /\ ~holders[3]
        BY <3>1, <4>1, <4>2
      <4> HIDE DEF holders
      <4>4. \E i \in 1 .. 3 : holders[i] /\ \A j \in 1 .. 3 : holders[j] => i = j
        BY <4>3
      <4> QED
        BY <4>4 DEF holders
    <3>2. CASE ~inBuffer
      <4>1. CASE \E b \in Msg : run[b] = "failed" /\ m \in ToSet(batch[b])
        BY <3>2, <4>1
      <4>2. CASE ~\E b \in Msg : run[b] = "failed" /\ m \in ToSet(batch[b])
        <5>1. (inTable /\ ~inFlush) \/ (~inTable /\ inFlush)
          BY <2>4, <3>2, <4>2, OnePlace
        <5>2. ~holders[1] /\ ((holders[3] /\ ~holders[2]) \/ (~holders[3] /\ holders[2]))
          BY <3>2, <5>1
        <5> HIDE DEF holders
        <5>3. \E i \in 1 .. 3 : holders[i] /\ \A j \in 1 .. 3 : holders[j] => i = j
          BY <5>2
        <5> QED
          BY <5>3 DEF holders
      <4> QED
        BY <4>1, <4>2
    <3> QED
      BY <3>1, <3>2
  <2> QED
    BY <2>3, <2>4 DEF StoredOnce
<1> QED
  BY <1>1, BatchingInvariant, PTL

\* While the table fits in a page of find_by_session, and with SQLite always, an
\* agent of a WhatsApp chat answers knowing its batch and every row before it, and
\* with SQLite every earlier answer (_run_headless_mongo, _run_headless_sqlite).
THEOREM AnswersAreInformed ==
  BatchingSpec => [](store = "sqlite" \/ Len(history) <= PageLimit => AnswersKnowTheChat)
<1>1. BatchingInv /\ (store = "sqlite" \/ Len(history) <= PageLimit) => AnswersKnowTheChat
  <2> SUFFICES ASSUME BatchingInv, store = "sqlite" \/ Len(history) <= PageLimit,
                      NEW b \in Msg, run[b] \in {"thinking", "saving", "sending", "sent"}
               PROVE  /\ \A m \in ToSet(batch[b]) : Said(m) \in seen[b]
                      /\ \A i, j \in 1 .. Len(history) :
                             i < j /\ history[j] = Said(b) => history[i] \in seen[b]
                      /\ store = "sqlite" /\ run[b] = "thinking" =>
                             \A c \in Msg : Answered(c) \in ToSet(history) => Answered(c) \in seen[b]
    BY DEF AnswersKnowTheChat
  <2>1. BatchingTypeOK /\ Informed
    BY DEF BatchingInv
  <2>2. DOMAIN history = 1 .. Len(history) /\ DOMAIN batch[b] = 1 .. Len(batch[b])
    BY <2>1, RowTypes
  <2>3. \A c \in Msg : Answered(c).role = "assistant"
    BY DEF Answered
  <2> QED
    BY <2>1, <2>2, <2>3 DEF Informed, Knowing, ToSet
<1> QED
  BY <1>1, BatchingInvariant, PTL

--------------------------------------------------------------------------------
(* The turns of a chat: the inductive invariant *)

Stages == {"idle", "asked", "ready", "waiting", "open", "stream", "saved", "routing",
           "members", "synth", "over"}
Rows == [turn : Turns \cup {Earlier}, role : {"user", "assistant", "system"},
         body : {"full", "part", "empty"}, by : SUBSET Agents]

\* What the turns hold, their lists of messages apart.
TurnTypes ==
    /\ rows \in Seq(Rows)
    /\ stage \in [Turns -> Stages]
    /\ mode \in [Turns -> {"none", "agent", "coordinate", "route", "collaborate"}]
    /\ heard \in [Turns -> {"nothing", "refused", "done", "error", "left"}]
    /\ question \in [Turns -> Nat] /\ \A t \in Turns : question[t] <= Len(rows)
    /\ text \in [Turns -> BOOLEAN]
    /\ member \in [Turns -> 1 .. Len(Team)]
    /\ stack \in [Turns -> [Agents -> Seq(Agents \X Nat)]]
    /\ tries \in [Turns -> [Agents -> Nat]]
    /\ answered \in [Turns -> SUBSET Agents]

\* The one answer of a turn, complete or empty.
Whole(t) == \E i \in 1 .. Len(rows) : Replies(t) = {i} /\ rows[i].body # "part"

\* A turn saves nothing before its answer, and then one answer, after its question.
Replied(t) ==
    /\ stage[t] \notin {"saved", "over"} => Replies(t) = {}
    /\ stage[t] # "over" <=> heard[t] = "nothing"
    /\ stage[t] = "saved" \/ heard[t] = "done" => Whole(t)
    /\ heard[t] = "refused" => Replies(t) = {}
    /\ heard[t] = "left" => Replies(t) = {} \/ Whole(t)
    /\ \A i \in Replies(t) : i > question[t]

\* A routed answer has contributors, and who is missing was tried as often as one may.
Exhausted(t) == answered[t] # {} /\ \A a \in Agents \ answered[t] : tries[t][a] = MaxTries

Routed(t) ==
    /\ stage[t] \in {"idle", "asked", "ready"} => \A a \in Agents : tries[t][a] = 0
    /\ stage[t] \in {"waiting", "open", "stream", "routing"} => mode[t] # "route"
    /\ stage[t] = "synth" => mode[t] = "route"
    /\ stage[t] = "members" /\ mode[t] = "route" => \A a \in Agents :
           IF stack[t][a] = <<>> THEN a \in answered[t] \/ tries[t][a] = MaxTries
                                 ELSE tries[t][a] < MaxTries
    /\ mode[t] = "route" /\ (stage[t] \in {"synth", "saved"} \/ heard[t] = "done") => Exhausted(t)
    /\ mode[t] = "route" /\ (stage[t] = "saved" \/ heard[t] = "done") =>
           \A i \in Replies(t) : rows[i].by = answered[t]

\* The members of a team before position n.
Before(n) == {Team[k] : k \in 1 .. n - 1}

\* The members of a collaborating team contribute in their order, the last one by its answer.
Relayed(t) ==
    /\ stage[t] \in {"idle", "asked", "ready"} => member[t] = 1 /\ answered[t] = {}
    /\ stage[t] \in {"waiting", "synth", "routing"} => mode[t] # "collaborate"
    /\ mode[t] = "collaborate" /\ stage[t] \in {"members", "open", "stream", "saved"} =>
           answered[t] = Before(member[t])
    /\ mode[t] = "collaborate" /\ stage[t] = "members" => member[t] < Len(Team)
    /\ mode[t] = "collaborate" /\ stage[t] \in {"open", "stream", "saved"} =>
           member[t] = Len(Team)
    /\ mode[t] = "collaborate" /\ heard[t] = "done" =>
           \A i \in Replies(t) : rows[i].by = Agents \ {Last(Team)}

TurnsInv == TurnTypes /\ \A t \in Turns : Replied(t) /\ Routed(t) /\ Relayed(t)

--------------------------------------------------------------------------------
(* The turns of a chat: what a step may do *)

\* Nothing of the other turns changes but that rows may follow theirs.
OthersStay(t) == \A u \in Turns \ {t} :
    /\ stage'[u] = stage[u] /\ mode'[u] = mode[u] /\ heard'[u] = heard[u]
    /\ question'[u] = question[u] /\ member'[u] = member[u] /\ stack'[u] = stack[u]
    /\ tries'[u] = tries[u] /\ answered'[u] = answered[u]
    /\ Replies(u)' = Replies(u) /\ \A i \in Replies(u) : rows'[i] = rows[i]

\* A step of one turn that keeps the facts about it keeps the facts about all.
LEMMA OneTurn ==
  ASSUME TurnsInv, TurnTypes', Len(rows) <= Len(rows'), NEW t \in Turns, OthersStay(t),
         Replied(t)', Routed(t)', Relayed(t)'
  PROVE  TurnsInv'
<1> SUFFICES ASSUME NEW u \in Turns \ {t} PROVE Replied(u)' /\ Routed(u)' /\ Relayed(u)'
  BY DEF TurnsInv
<1>0. Replied(u) /\ Routed(u) /\ Relayed(u)
  BY DEF TurnsInv
<1>1. /\ stage'[u] = stage[u] /\ mode'[u] = mode[u] /\ heard'[u] = heard[u]
      /\ question'[u] = question[u] /\ member'[u] = member[u] /\ stack'[u] = stack[u]
      /\ tries'[u] = tries[u] /\ answered'[u] = answered[u]
      /\ Replies(u)' = Replies(u) /\ \A i \in Replies(u) : rows'[i] = rows[i]
  BY DEF OthersStay
<1>2. Whole(u) => Whole(u)'
  <2> SUFFICES ASSUME NEW i \in 1 .. Len(rows), Replies(u) = {i}, rows[i].body # "part"
               PROVE  Whole(u)'
    BY DEF Whole
  <2>1. i \in 1 .. Len(rows')
    BY DEF TurnTypes, TurnsInv
  <2>2. Replies(u)' = {i} /\ rows'[i] = rows[i]
    BY <1>1
  <2> QED
    BY <2>1, <2>2 DEF Whole
<1>3. Replied(u)'
  <2> HIDE DEF Whole, Replies
  <2> QED
    BY <1>0, <1>1, <1>2 DEF Replied
<1>4. Routed(u)'
  BY <1>0, <1>1 DEF Routed, Exhausted
<1>5. Relayed(u)'
  BY <1>0, <1>1 DEF Relayed
<1> QED
  BY <1>3, <1>4, <1>5

\* A row that is committed is a reply of its turn if the assistant wrote it.
LEMMA Commits ==
  ASSUME TurnTypes, NEW r \in Rows, Commit(r)
  PROVE  /\ rows' \in Seq(Rows) /\ Len(rows') = Len(rows) + 1 /\ rows'[Len(rows) + 1] = r
         /\ \A i \in 1 .. Len(rows) : rows'[i] = rows[i]
         /\ \A u \in Turns : Replies(u)' =
                IF r.turn = u /\ r.role = "assistant" THEN Replies(u) \cup {Len(rows) + 1}
                                                      ELSE Replies(u)
<1>1. /\ rows' \in Seq(Rows) /\ Len(rows') = Len(rows) + 1 /\ rows'[Len(rows) + 1] = r
      /\ \A i \in 1 .. Len(rows) : rows'[i] = rows[i]
  BY AppendProperties DEF Commit, TurnTypes
<1>2. Len(rows) \in Nat
  BY DEF TurnTypes
<1>3. 1 .. Len(rows') = (1 .. Len(rows)) \cup {Len(rows) + 1}
  BY <1>1, <1>2
<1>4. ASSUME NEW u \in Turns
      PROVE  Replies(u)' = IF r.turn = u /\ r.role = "assistant"
                           THEN Replies(u) \cup {Len(rows) + 1} ELSE Replies(u)
  BY <1>1, <1>3 DEF Replies
<1> QED
  BY <1>1, <1>4

\* The rows a turn writes.
LEMMA RowTyped ==
  ASSUME NEW t \in Turns, NEW role \in {"user", "assistant", "system"},
         NEW body \in {"full", "part", "empty"}, NEW by \in SUBSET Agents
  PROVE  /\ Row(t, role, body, by) \in Rows
         /\ Row(t, role, body, by).turn = t /\ Row(t, role, body, by).role = role
         /\ Row(t, role, body, by).body = body /\ Row(t, role, body, by).by = by
  BY DEF Row, Rows

\* A team has at least one member.
LEMMA TeamSize == Len(Team) \in Nat /\ (Len(Team) = 1 <=> ~(Len(Team) > 1))
<1>1. \A n \in Nat : n > 0 => (n = 1 <=> ~(n > 1))
  OBVIOUS
<1>2. Len(Team) \in Nat /\ Len(Team) > 0
  BY ChatTurnAssumption
<1> QED
  BY <1>1, <1>2

\* No calls at all.
LEMMA CallsTyped == calls \in [Agents -> Seq(Agents \X Nat)]
  BY EmptySeq DEF calls

\* What the end of a turn leaves of it.
LEMMA Ends ==
  ASSUME TurnTypes, NEW t \in Turns, NEW told \in {"refused", "done", "error", "left"},
         End(t, told), rows' \in Seq(Rows), Len(rows) <= Len(rows')
  PROVE  /\ TurnTypes'
         /\ \A u \in Turns \ {t} :
              /\ stage'[u] = stage[u] /\ mode'[u] = mode[u] /\ heard'[u] = heard[u]
              /\ question'[u] = question[u] /\ member'[u] = member[u] /\ stack'[u] = stack[u]
              /\ tries'[u] = tries[u] /\ answered'[u] = answered[u]
         /\ stage'[t] = "over" /\ heard'[t] = told /\ question'[t] = question[t]
         /\ told # "done" => mode'[t] = "none"
         /\ told = "done" =>
              mode'[t] = mode[t] /\ tries'[t] = tries[t] /\ answered'[t] = answered[t]
<1> USE DEF End, Go, TurnTypes, Stages
<1>1. Len(Team) >= 1 /\ Len(Team) \in Nat
  BY ChatTurnAssumption
<1>2. stage' \in [Turns -> Stages] /\ heard' \in [Turns -> {"nothing", "refused", "done", "error", "left"}]
      /\ text' \in [Turns -> BOOLEAN]
  OBVIOUS
<1>3. question' \in [Turns -> Nat] /\ \A u \in Turns : question'[u] <= Len(rows')
  OBVIOUS
<1>4. member' \in [Turns -> 1 .. Len(Team)]
  BY <1>1
<1>5. stack' \in [Turns -> [Agents -> Seq(Agents \X Nat)]]
  BY CallsTyped
<1>6. mode' \in [Turns -> {"none", "agent", "coordinate", "route", "collaborate"}]
  OBVIOUS
<1>7. tries' \in [Turns -> [Agents -> Nat]] /\ answered' \in [Turns -> SUBSET Agents]
  <2>1. CASE told = "done"
    BY <2>1
  <2>2. CASE told # "done"
    <3>1. [a \in Agents |-> 0] \in [Agents -> Nat] /\ {} \in SUBSET Agents
      OBVIOUS
    <3>2. /\ tries' = [tries EXCEPT ![t] = [a \in Agents |-> 0]]
          /\ answered' = [answered EXCEPT ![t] = {}]
      BY <2>2
    <3> QED
      BY <3>1, <3>2
  <2> QED
    BY <2>1, <2>2
<1>8. TurnTypes'
  BY <1>2, <1>3, <1>4, <1>5, <1>6, <1>7
<1>9. \A u \in Turns \ {t} :
              /\ stage'[u] = stage[u] /\ mode'[u] = mode[u] /\ heard'[u] = heard[u]
              /\ question'[u] = question[u] /\ member'[u] = member[u] /\ stack'[u] = stack[u]
              /\ tries'[u] = tries[u] /\ answered'[u] = answered[u]
  OBVIOUS
<1>10. stage'[t] = "over" /\ heard'[t] = told /\ question'[t] = question[t]
  OBVIOUS
<1>11. told # "done" => mode'[t] = "none"
  OBVIOUS
<1>12. told = "done" => mode'[t] = mode[t] /\ tries'[t] = tries[t] /\ answered'[t] = answered[t]
  OBVIOUS
<1> QED
  BY <1>8, <1>9, <1>10, <1>11, <1>12

\* A turn that ends without an answer, or leaves the one it has.
LEMMA Stops ==
  ASSUME TurnsInv, NEW t \in Turns, NEW told \in {"refused", "error", "left"}, End(t, told),
         UNCHANGED rows, stage[t] # "over", told = "refused" => stage[t] # "saved"
  PROVE  TurnsInv'
<1>0. TurnTypes /\ Replied(t) /\ Routed(t) /\ Relayed(t)
  BY DEF TurnsInv
<1>1. rows' \in Seq(Rows) /\ Len(rows) <= Len(rows') /\ Len(rows) \in Nat
  BY <1>0 DEF TurnTypes
<1>2. \A u \in Turns : Replies(u)' = Replies(u)
  BY DEF Replies
<1>3. OthersStay(t)
  BY <1>0, <1>1, <1>2, Ends DEF OthersStay
<1>4. stage'[t] = "over" /\ heard'[t] = told /\ question'[t] = question[t] /\ mode'[t] = "none"
  BY <1>0, <1>1, Ends
<1>5. Whole(t)' <=> Whole(t)
  BY <1>2 DEF Whole
<1>6. Replied(t)'
  <2> HIDE DEF Whole, Replies
  <2> QED
    BY <1>0, <1>2, <1>4, <1>5 DEF Replied
<1>7. Routed(t)' /\ Relayed(t)'
  BY <1>4 DEF Routed, Relayed
<1> QED
  BY <1>0, <1>1, <1>3, <1>6, <1>7, Ends, OneTurn

\* A turn that fails while it answers may leave one more answer, after its question.
LEMMA Raises ==
  ASSUME TurnsInv, NEW t \in Turns, NEW r \in Rows, End(t, "error"), Commit(r), r.turn = t
  PROVE  TurnsInv'
<1>0. TurnTypes /\ Replied(t)
  BY DEF TurnsInv
<1>1. /\ rows' \in Seq(Rows) /\ Len(rows') = Len(rows) + 1 /\ rows'[Len(rows) + 1] = r
      /\ \A i \in 1 .. Len(rows) : rows'[i] = rows[i]
  BY <1>0, Commits
<1>2. \A u \in Turns : Replies(u)' =
                IF r.turn = u /\ r.role = "assistant" THEN Replies(u) \cup {Len(rows) + 1}
                                                      ELSE Replies(u)
  BY <1>0, Commits
<1>3. Len(rows) \in Nat /\ Len(rows) <= Len(rows') /\ question[t] \in Nat /\ question[t] <= Len(rows)
  BY <1>0, <1>1 DEF TurnTypes
<1>4. \A u \in Turns : Replies(u) \subseteq 1 .. Len(rows)
  BY DEF Replies
<1>5. OthersStay(t)
  BY <1>0, <1>1, <1>2, <1>3, <1>4, Ends DEF OthersStay
<1>6. stage'[t] = "over" /\ heard'[t] = "error" /\ question'[t] = question[t] /\ mode'[t] = "none"
  BY <1>0, <1>1, <1>3, Ends
<1>7. \A i \in Replies(t)' : i > question'[t]
  BY <1>0, <1>2, <1>3, <1>6 DEF Replied
<1>8. Replied(t)'
  BY <1>6, <1>7 DEF Replied
<1>9. Routed(t)' /\ Relayed(t)'
  BY <1>6 DEF Routed, Relayed
<1> QED
  BY <1>0, <1>1, <1>3, <1>5, <1>8, <1>9, Ends, OneTurn

\* A turn that goes on without saving anything of its own.
LEMMA GoesOn ==
  ASSUME TurnsInv, NEW t \in Turns, TurnTypes', Routed(t)', Relayed(t)',
         UNCHANGED <<rows, question, heard>>,
         stage[t] \notin {"saved", "over"}, stage'[t] \notin {"saved", "over"},
         \A u \in Turns \ {t} :
              /\ stage'[u] = stage[u] /\ mode'[u] = mode[u] /\ member'[u] = member[u]
              /\ stack'[u] = stack[u] /\ tries'[u] = tries[u] /\ answered'[u] = answered[u]
  PROVE  TurnsInv'
<1>0. TurnTypes /\ Replied(t)
  BY DEF TurnsInv
<1>1. \A u \in Turns : Replies(u)' = Replies(u)
  BY DEF Replies
<1>2. Len(rows) \in Nat /\ Len(rows) <= Len(rows')
  BY <1>0 DEF TurnTypes
<1>3. OthersStay(t)
  BY <1>1 DEF OthersStay
<1>4. Replied(t)'
  <2> HIDE DEF Replies, Whole
  <2> QED
    BY <1>0, <1>1 DEF Replied
<1> QED
  BY <1>2, <1>3, <1>4, OneTurn

\* The answer is saved: it is the turn's only one.
LEMMA Saves ==
  ASSUME TurnsInv, NEW t \in Turns, NEW r \in Rows, Commit(r),
         r.turn = t, r.role = "assistant", r.body # "part", stage[t] \notin {"saved", "over"}
  PROVE  /\ Replies(t)' = {Len(rows) + 1} /\ Whole(t)' /\ rows'[Len(rows) + 1] = r
         /\ question[t] < Len(rows) + 1 /\ Len(rows) <= Len(rows') /\ rows' \in Seq(Rows)
         /\ \A u \in Turns \ {t} : Replies(u)' = Replies(u) /\ \A i \in Replies(u) : rows'[i] = rows[i]
<1>0. TurnTypes /\ Replied(t)
  BY DEF TurnsInv
<1>1. /\ rows' \in Seq(Rows) /\ Len(rows') = Len(rows) + 1 /\ rows'[Len(rows) + 1] = r
      /\ \A i \in 1 .. Len(rows) : rows'[i] = rows[i]
  BY <1>0, Commits
<1>2. \A u \in Turns : Replies(u)' =
                IF r.turn = u /\ r.role = "assistant" THEN Replies(u) \cup {Len(rows) + 1}
                                                      ELSE Replies(u)
  BY <1>0, Commits
<1>3. Len(rows) \in Nat /\ question[t] \in Nat /\ question[t] <= Len(rows)
  BY <1>0 DEF TurnTypes
<1>4. \A u \in Turns : Replies(u) \subseteq 1 .. Len(rows)
  BY DEF Replies
<1>5. Replies(t)' = {Len(rows) + 1}
  BY <1>0, <1>2 DEF Replied
<1>6. Len(rows) + 1 \in 1 .. Len(rows')
  BY <1>1, <1>3
<1>7. Whole(t)'
  BY <1>1, <1>5, <1>6 DEF Whole
<1> QED
  BY <1>1, <1>2, <1>3, <1>4, <1>5, <1>7

\* ... and what follows it can only go on or raise.
LEMMA SavedAnswer ==
  ASSUME TurnsInv, NEW t \in Turns, NEW r \in Rows, Commit(r),
         r.turn = t, r.role = "assistant", r.body # "part",
         stage[t] \notin {"saved", "over"}, Go(t, "saved"),
         UNCHANGED <<mode, question, text, member, stack, tries, answered, heard>>,
         Routed(t)', Relayed(t)'
  PROVE  TurnsInv'
<1>0. TurnTypes /\ Replied(t)
  BY DEF TurnsInv
<1>1. /\ Replies(t)' = {Len(rows) + 1} /\ Whole(t)' /\ rows'[Len(rows) + 1] = r
      /\ question[t] < Len(rows) + 1 /\ Len(rows) <= Len(rows') /\ rows' \in Seq(Rows)
      /\ \A u \in Turns \ {t} : Replies(u)' = Replies(u) /\ \A i \in Replies(u) : rows'[i] = rows[i]
  BY Saves
<1>2. stage' = [stage EXCEPT ![t] = "saved"] /\ stage' \in [Turns -> Stages]
  BY <1>0 DEF Go, TurnTypes, Stages
<1>3. \A u \in Turns : question[u] <= Len(rows')
  BY <1>0, <1>1 DEF TurnTypes
<1>4. TurnTypes'
  BY <1>0, <1>1, <1>2, <1>3 DEF TurnTypes
<1>5. OthersStay(t)
  BY <1>0, <1>1, <1>2 DEF OthersStay, TurnTypes
<1>6. stage'[t] = "saved" /\ heard'[t] = "nothing" /\ question'[t] = question[t]
  BY <1>0, <1>2 DEF TurnTypes, Replied
<1>7. \A i \in Replies(t)' : i > question'[t]
  BY <1>0, <1>1, <1>3, <1>6 DEF TurnTypes
<1>8. Replied(t)'
  BY <1>1, <1>6, <1>7 DEF Replied
<1> QED
  BY <1>1, <1>4, <1>5, <1>8, OneTurn

\* What a stream leaves in the row.
LEMMA BodyTyped == ASSUME NEW t PROVE Body(t) \in {"full", "empty"}
  BY DEF Body

--------------------------------------------------------------------------------
(* The turns of a chat: the steps of one turn *)

\* The question is committed; the turn has no answer yet.
LEMMA AskKeeps == ASSUME TurnsInv, NEW t \in Turns, AskQuestion(t) PROVE TurnsInv'
<1>0. TurnTypes /\ Replied(t) /\ Routed(t) /\ Relayed(t)
  BY DEF TurnsInv
<1> DEFINE r == Row(t, "user", "full", {})
<1>1. r \in Rows /\ r.turn = t /\ r.role = "user"
  BY RowTyped
<1>2. Commit(r)
  BY DEF AskQuestion
<1> HIDE DEF r
<1>3. /\ rows' \in Seq(Rows) /\ Len(rows') = Len(rows) + 1
      /\ \A i \in 1 .. Len(rows) : rows'[i] = rows[i]
  BY <1>0, <1>1, <1>2, Commits
<1>4. \A u \in Turns : Replies(u)' = Replies(u)
  BY <1>0, <1>1, <1>2, Commits
<1>5. /\ question' = [question EXCEPT ![t] = Len(rows) + 1] /\ stage[t] = "idle"
      /\ stage' = [stage EXCEPT ![t] = "asked"]
      /\ UNCHANGED <<mode, text, member, stack, tries, answered, heard>>
  BY DEF AskQuestion, Go, team
<1>6. Len(rows) \in Nat /\ Len(rows) <= Len(rows')
  BY <1>0, <1>3 DEF TurnTypes
<1>7. TurnTypes'
  <2>1. question' \in [Turns -> Nat] /\ \A u \in Turns : question'[u] <= Len(rows')
    BY <1>0, <1>3, <1>5, <1>6 DEF TurnTypes
  <2>2. stage' \in [Turns -> Stages]
    BY <1>0, <1>5 DEF TurnTypes, Stages
  <2> QED
    BY <1>0, <1>3, <1>5, <2>1, <2>2 DEF TurnTypes
<1>8. OthersStay(t)
  BY <1>0, <1>3, <1>4, <1>5 DEF OthersStay, TurnTypes, Replies
<1>9. stage'[t] = "asked"
  BY <1>0, <1>5 DEF TurnTypes
<1>10. Replied(t)'
  <2> HIDE DEF Replies, Whole
  <2>1. Replies(t)' = {} /\ heard'[t] = "nothing"
    BY <1>0, <1>4, <1>5 DEF Replied
  <2> QED
    BY <1>9, <2>1 DEF Replied
<1>11. heard'[t] = "nothing"
  BY <1>0, <1>5 DEF Replied
<1>12. Routed(t)' /\ Relayed(t)'
  BY <1>0, <1>5, <1>9, <1>11 DEF Routed, Relayed
<1> QED
  BY <1>6, <1>7, <1>8, <1>10, <1>12, OneTurn

\* Steps that only say where the turn is, or what was shown.
LEMMA WalkKeeps ==
  ASSUME TurnsInv, NEW t \in Turns,
         Retrieve(t) \/ StartAgent(t) \/ Chunk(t) \/ RoundTools(t) \/ Select(t) \/ Synthesize(t)
  PROVE  TurnsInv'
<1>0. TurnTypes /\ Replied(t) /\ Routed(t) /\ Relayed(t)
  BY DEF TurnsInv
<1>1. /\ UNCHANGED <<rows, question, member, stack, tries, answered, heard>>
      /\ \A u \in Turns \ {t} : stage'[u] = stage[u] /\ mode'[u] = mode[u]
      /\ stage[t] \notin {"saved", "over"} /\ stage'[t] \notin {"saved", "over"}
  BY <1>0 DEF TurnTypes, Retrieve, StartAgent, Chunk, RoundTools, Select, Synthesize, Gathered,
              Go, plan, team
<1>2. stage' \in [Turns -> Stages] /\ text' \in [Turns -> BOOLEAN]
      /\ mode' \in [Turns -> {"none", "agent", "coordinate", "route", "collaborate"}]
  BY <1>0 DEF TurnTypes, Stages, Retrieve, StartAgent, Chunk, RoundTools, Select, Synthesize,
              Gathered, Go, plan, team
<1>3. TurnTypes'
  BY <1>0, <1>1, <1>2 DEF TurnTypes
<1>4. heard'[t] = "nothing"
  BY <1>0, <1>1 DEF Replied
<1>5. Routed(t)' /\ Relayed(t)'
  <2>1. CASE Retrieve(t)
    <3>1. stage[t] = "asked" /\ stage'[t] = "ready" /\ mode' = mode
      BY <1>0, <2>1 DEF Retrieve, Go, TurnTypes
    <3> QED
      BY <1>0, <1>1, <1>4, <3>1 DEF Routed, Relayed
  <2>2. CASE StartAgent(t)
    <3>1. stage'[t] \in {"waiting", "open"} /\ mode'[t] = "agent"
      BY <1>0, <2>2 DEF StartAgent, Go, TurnTypes
    <3> QED
      BY <1>4, <3>1 DEF Routed, Relayed
  <2>3. CASE Chunk(t) \/ RoundTools(t)
    <3>1. stage'[t] = stage[t] /\ mode' = mode
      BY <2>3 DEF Chunk, RoundTools, plan
    <3>2. Routed(t)'
      BY <1>0, <1>1, <1>4, <3>1 DEF Routed, Exhausted
    <3>3. Relayed(t)'
      BY <1>0, <1>1, <1>4, <3>1 DEF Relayed
    <3> QED
      BY <3>2, <3>3
  <2>4. CASE Select(t)
    <3>1. stage[t] = "routing" /\ stage'[t] = "open" /\ mode' = mode
      BY <1>0, <2>4 DEF Select, Go, TurnTypes
    <3> QED
      BY <1>0, <1>4, <3>1 DEF Routed, Relayed
  <2>5. CASE Synthesize(t)
    <3>1. stage[t] = "members" /\ stage'[t] = "synth" /\ mode' = mode /\ mode[t] = "route"
      BY <1>0, <2>5 DEF Synthesize, Gathered, Go, TurnTypes, plan
    <3>2. Exhausted(t)'
      BY <1>0, <1>1, <2>5, <3>1 DEF Synthesize, Gathered, Exhausted, Routed
    <3> QED
      BY <1>4, <3>1, <3>2 DEF Routed, Relayed
  <2> QED
    BY <2>1, <2>2, <2>3, <2>4, <2>5
<1> QED
  BY <1>1, <1>3, <1>5, GoesOn

\* The list is compacted; the record of it is no reply.
LEMMA CompactKeeps == ASSUME TurnsInv, NEW t \in Turns, Compact(t) PROVE TurnsInv'
<1>0. TurnTypes /\ Replied(t) /\ Routed(t) /\ Relayed(t)
  BY DEF TurnsInv
<1> DEFINE r == Row(t, "system", "full", {})
<1>1. r \in Rows /\ r.turn = t /\ r.role = "system"
  BY RowTyped
<1>2. /\ UNCHANGED rows \/ Commit(r)
      /\ stage[t] = "open" /\ stage' = [stage EXCEPT ![t] = "stream"]
      /\ UNCHANGED <<mode, question, text, member, stack, tries, answered, heard>>
  BY DEF Compact, Go, team
<1> HIDE DEF r
<1>3. stage' \in [Turns -> Stages] /\ stage'[t] = "stream"
  BY <1>0, <1>2 DEF TurnTypes, Stages
<1>4. heard'[t] = "nothing"
  BY <1>0, <1>2 DEF Replied
<1>5. Routed(t)' /\ Relayed(t)'
  BY <1>0, <1>2, <1>3, <1>4 DEF Routed, Relayed
<1>6. CASE UNCHANGED rows
  <2>1. TurnTypes'
    BY <1>0, <1>2, <1>3, <1>6 DEF TurnTypes
  <2>2. \A u \in Turns \ {t} : stage'[u] = stage[u]
    BY <1>0, <1>2 DEF TurnTypes
  <2> QED
    BY <1>2, <1>3, <1>5, <1>6, <2>1, <2>2, GoesOn
<1>7. CASE Commit(r)
  <2>1. /\ rows' \in Seq(Rows) /\ Len(rows') = Len(rows) + 1
        /\ \A i \in 1 .. Len(rows) : rows'[i] = rows[i]
    BY <1>0, <1>1, <1>7, Commits
  <2>2. \A u \in Turns : Replies(u)' = Replies(u)
    BY <1>0, <1>1, <1>7, Commits
  <2>3. Len(rows) \in Nat /\ Len(rows) <= Len(rows')
    BY <1>0, <2>1 DEF TurnTypes
  <2>4. TurnTypes'
    BY <1>0, <1>2, <1>3, <2>1, <2>3 DEF TurnTypes
  <2>5. OthersStay(t)
    BY <1>0, <1>2, <2>1, <2>2 DEF OthersStay, TurnTypes, Replies
  <2>6. Replied(t)'
    <3>1. Replies(t)' = {}
      BY <1>0, <1>2, <2>2 DEF Replied
    <3> QED
      BY <1>3, <1>4, <3>1 DEF Replied
  <2> QED
    BY <1>5, <2>3, <2>4, <2>5, <2>6, OneTurn
<1> QED
  BY <1>2, <1>6, <1>7

\* A team is loaded: all of its agents are asked, or the first, or one is chosen.
LEMMA StartTeamKeeps == ASSUME TurnsInv, NEW t \in Turns, StartTeam(t) PROVE TurnsInv'
<1>0. TurnTypes /\ Replied(t) /\ Routed(t) /\ Relayed(t)
  BY DEF TurnsInv
<1>1. First \in Agents
  BY ChatTurnAssumption DEF First, Agents, ToSet
<1>2. PICK m \in {"coordinate", "route", "collaborate"} :
         /\ mode' = [mode EXCEPT ![t] = m]
         /\ stack' = CASE m = "coordinate" -> stack
                       [] m = "route" -> [stack EXCEPT ![t] = [a \in Agents |-> <<<<a, 0>>>>]]
                       [] m = "collaborate" /\ Len(Team) > 1 ->
                            [stack EXCEPT ![t][First] = <<<<First, 0>>>>]
                       [] OTHER -> stack
         /\ Go(t, CASE m = "coordinate" -> "routing"
                    [] m = "route" -> "members"
                    [] OTHER -> IF Len(Team) = 1 THEN "open" ELSE "members")
  BY DEF StartTeam
<1>3. stage[t] = "ready" /\ UNCHANGED <<rows, question, text, member, tries, answered, heard>>
  BY DEF StartTeam
<1>4. \A a \in Agents : <<<<a, 0>>>> \in Seq(Agents \X Nat) /\ <<<<a, 0>>>> # <<>>
  OBVIOUS
<1>5. /\ mode' \in [Turns -> {"none", "agent", "coordinate", "route", "collaborate"}]
      /\ mode'[t] = m /\ \A u \in Turns \ {t} : mode'[u] = mode[u]
  BY <1>0, <1>2 DEF TurnTypes
<1>6. heard'[t] = "nothing" /\ member'[t] = 1 /\ answered'[t] = {} /\ Before(1) = {}
      /\ \A a \in Agents : tries'[t][a] = 0
  BY <1>0, <1>3 DEF Replied, Routed, Relayed, Before
<1>7. CASE m = "coordinate"
  <2>1. stack' = stack /\ stage' = [stage EXCEPT ![t] = "routing"]
    BY <1>2, <1>7 DEF Go
  <2>2. TurnTypes' /\ stage'[t] = "routing" /\ \A u \in Turns \ {t} : stage'[u] = stage[u]
    BY <1>0, <1>3, <1>5, <2>1 DEF TurnTypes, Stages
  <2>3. Routed(t)' /\ Relayed(t)'
    BY <1>5, <1>6, <1>7, <2>2 DEF Routed, Relayed
  <2> QED
    BY <1>3, <1>5, <2>1, <2>2, <2>3, GoesOn
<1>8. CASE m = "route"
  <2>1. /\ stack' = [stack EXCEPT ![t] = [a \in Agents |-> <<<<a, 0>>>>]]
        /\ stage' = [stage EXCEPT ![t] = "members"]
    BY <1>2, <1>8 DEF Go
  <2>2. [a \in Agents |-> <<<<a, 0>>>>] \in [Agents -> Seq(Agents \X Nat)]
    BY <1>4
  <2>3. /\ stack' \in [Turns -> [Agents -> Seq(Agents \X Nat)]]
        /\ \A u \in Turns \ {t} : stack'[u] = stack[u]
        /\ \A a \in Agents : stack'[t][a] = <<<<a, 0>>>>
    BY <1>0, <2>1, <2>2 DEF TurnTypes
  <2>4. /\ stage' \in [Turns -> Stages] /\ stage'[t] = "members"
        /\ \A u \in Turns \ {t} : stage'[u] = stage[u]
    BY <1>0, <2>1 DEF TurnTypes, Stages
  <2>5. TurnTypes'
    BY <1>0, <1>3, <1>5, <2>3, <2>4 DEF TurnTypes
  <2>6. \A a \in Agents : stack'[t][a] # <<>> /\ tries'[t][a] < MaxTries
    <3>1. \A a \in Agents : stack'[t][a] # <<>>
      BY <1>4, <2>3
    <3>2. \A a \in Agents : tries'[t][a] < MaxTries
      BY <1>6 DEF MaxTries
    <3> QED
      BY <3>1, <3>2
  <2>7. Routed(t)'
    BY <1>5, <1>6, <1>8, <2>4, <2>6 DEF Routed
  <2>8. Relayed(t)'
    BY <1>5, <1>6, <1>8, <2>4 DEF Relayed
  <2> QED
    BY <1>3, <1>5, <2>3, <2>4, <2>5, <2>7, <2>8, GoesOn
<1>9. CASE m = "collaborate" /\ Len(Team) > 1
  <2>1. /\ stack' = [stack EXCEPT ![t][First] = <<<<First, 0>>>>]
        /\ stage' = [stage EXCEPT ![t] = "members"]
    <3>1. m = "collaborate" /\ m # "coordinate" /\ m # "route" /\ Len(Team) > 1 /\ Len(Team) # 1
      BY <1>9, TeamSize
    <3>2. stack' = [stack EXCEPT ![t][First] = <<<<First, 0>>>>]
      BY <1>2, <3>1
    <3>3. Go(t, "members")
      BY <1>2, <3>1
    <3> QED
      BY <3>2, <3>3 DEF Go
  <2>2. /\ stack' \in [Turns -> [Agents -> Seq(Agents \X Nat)]]
        /\ \A u \in Turns \ {t} : stack'[u] = stack[u]
    BY <1>0, <1>1, <1>4, <2>1 DEF TurnTypes
  <2>3. /\ stage' \in [Turns -> Stages] /\ stage'[t] = "members"
        /\ \A u \in Turns \ {t} : stage'[u] = stage[u]
    BY <1>0, <2>1 DEF TurnTypes, Stages
  <2>4. TurnTypes'
    BY <1>0, <1>3, <1>5, <2>2, <2>3 DEF TurnTypes
  <2>5. Routed(t)' /\ Relayed(t)'
    BY <1>5, <1>6, <1>9, <2>3 DEF Routed, Relayed
  <2> QED
    BY <1>3, <1>5, <2>2, <2>3, <2>4, <2>5, GoesOn
<1>10. CASE m = "collaborate" /\ Len(Team) = 1
  <2>1. stack' = stack /\ stage' = [stage EXCEPT ![t] = "open"]
    BY <1>2, <1>10 DEF Go
  <2>2. TurnTypes' /\ stage'[t] = "open" /\ \A u \in Turns \ {t} : stage'[u] = stage[u]
    BY <1>0, <1>3, <1>5, <2>1 DEF TurnTypes, Stages
  <2>3. Routed(t)' /\ Relayed(t)'
    BY <1>5, <1>6, <1>10, <2>2 DEF Routed, Relayed
  <2> QED
    BY <1>3, <1>5, <2>1, <2>2, <2>3, GoesOn
<1> QED
  <2>1. Len(Team) > 1 \/ Len(Team) = 1
    BY TeamSize
  <2> QED
    BY <1>7, <1>8, <1>9, <1>10, <2>1

\* The answer of one agent, without or after a synthesis.
LEMMA AnswerKeeps ==
  ASSUME TurnsInv, NEW t \in Turns, PlainEnds(t) \/ RoundsEnd(t) \/ SynthesisSaved(t)
  PROVE  TurnsInv'
<1>0. TurnTypes /\ Replied(t) /\ Routed(t) /\ Relayed(t)
  BY DEF TurnsInv
<1>1. /\ stage[t] \in {"stream", "synth"} /\ Go(t, "saved")
      /\ UNCHANGED <<mode, question, text, member, stack, tries, answered, heard>>
  BY DEF PlainEnds, RoundsEnd, SynthesisSaved, plan, team
<1>2. PICK by \in SUBSET Agents : /\ Commit(Row(t, "assistant", Body(t), by))
                                  /\ stage[t] = "synth" => by = answered[t]
  <2>1. answered[t] \in SUBSET Agents /\ {} \in SUBSET Agents
    BY <1>0 DEF TurnTypes
  <2> QED
    BY <2>1 DEF PlainEnds, RoundsEnd, SynthesisSaved
<1> DEFINE r == Row(t, "assistant", Body(t), by)
<1>3. r \in Rows /\ r.turn = t /\ r.role = "assistant" /\ r.body # "part" /\ r.by = by
  BY RowTyped, BodyTyped
<1> HIDE DEF r
<1>4. Commit(r)
  BY <1>2 DEF r
<1>5. Replies(t)' = {Len(rows) + 1} /\ rows'[Len(rows) + 1] = r
  BY <1>1, <1>3, <1>4, Saves
<1>6. stage'[t] = "saved" /\ heard'[t] = "nothing"
  BY <1>0, <1>1 DEF Go, TurnTypes, Replied
<1>7. Routed(t)'
  BY <1>0, <1>1, <1>2, <1>3, <1>5, <1>6 DEF Routed, Exhausted
<1>8. Relayed(t)'
  BY <1>0, <1>1, <1>6 DEF Relayed
<1> QED
  BY <1>1, <1>3, <1>4, <1>7, <1>8, SavedAnswer

\* Without streaming the answer is saved and told in one step.
LEMMA AnswerOnceKeeps == ASSUME TurnsInv, NEW t \in Turns, AnswerOnce(t) PROVE TurnsInv'
<1>0. TurnTypes /\ Replied(t) /\ Routed(t) /\ Relayed(t)
  BY DEF TurnsInv
<1>1. stage[t] = "waiting"
  BY DEF AnswerOnce
<1>2. CASE End(t, "error") /\ UNCHANGED rows
  BY <1>1, <1>2, Stops
<1> DEFINE r == Row(t, "assistant", "full", {})
<1>3. CASE End(t, "done") /\ Commit(r)
  <2>1. r \in Rows /\ r.turn = t /\ r.role = "assistant" /\ r.body # "part"
    BY RowTyped
  <2>2. Commit(r)
    BY <1>3
  <2> HIDE DEF r
  <2>3. /\ Replies(t)' = {Len(rows) + 1} /\ Whole(t)'
        /\ question[t] < Len(rows) + 1 /\ Len(rows) <= Len(rows') /\ rows' \in Seq(Rows)
        /\ \A u \in Turns \ {t} :
               Replies(u)' = Replies(u) /\ \A i \in Replies(u) : rows'[i] = rows[i]
    BY <1>1, <2>1, <2>2, Saves
  <2>4. OthersStay(t)
    BY <1>0, <1>3, <2>3, Ends DEF OthersStay
  <2>5. /\ TurnTypes' /\ stage'[t] = "over" /\ heard'[t] = "done" /\ question'[t] = question[t]
        /\ mode'[t] = mode[t]
    BY <1>0, <1>3, <2>3, Ends
  <2>6. \A i \in Replies(t)' : i > question'[t]
    BY <1>0, <2>3, <2>5 DEF TurnTypes
  <2>7. Replied(t)'
    BY <2>3, <2>5, <2>6 DEF Replied
  <2>8. Routed(t)' /\ Relayed(t)'
    BY <1>0, <1>1, <2>5 DEF Routed, Relayed
  <2> QED
    BY <2>3, <2>4, <2>5, <2>7, <2>8, OneTurn
<1> QED
  BY <1>2, <1>3 DEF AnswerOnce

--------------------------------------------------------------------------------
(* The turns of a chat: the members of a team *)

\* The innermost call uses one more round.
LEMMA RoundCounted ==
  ASSUME NEW s \in Seq(Agents \X Nat), s # <<>>
  PROVE  UseRound(s) \in Seq(Agents \X Nat) /\ UseRound(s) # <<>>
<1>1. Len(s) \in 1 .. Len(s) /\ s[Len(s)] \in Agents \X Nat
  OBVIOUS
<1>2. s[Len(s)] = <<s[Len(s)][1], s[Len(s)][2]>> /\ s[Len(s)][1] \in Agents /\ s[Len(s)][2] \in Nat
  BY <1>1
<1>3. [s[Len(s)] EXCEPT ![2] = @ + 1] = <<s[Len(s)][1], s[Len(s)][2] + 1>>
  BY <1>2
<1>4. [s[Len(s)] EXCEPT ![2] = @ + 1] \in Agents \X Nat
  BY <1>2, <1>3
<1>5. UseRound(s) = [s EXCEPT ![Len(s)] = [s[Len(s)] EXCEPT ![2] = @ + 1]]
  BY DEF UseRound
<1>6. /\ [s EXCEPT ![Len(s)] = [s[Len(s)] EXCEPT ![2] = @ + 1]] \in Seq(Agents \X Nat)
      /\ Len([s EXCEPT ![Len(s)] = [s[Len(s)] EXCEPT ![2] = @ + 1]]) = Len(s)
  BY <1>1, <1>4, ExceptSeq
<1>7. Len(s) # 0
  BY <1>1
<1> QED
  BY <1>5, <1>6, <1>7, EmptySeq

\* The innermost call returns.
LEMMA Popped ==
  ASSUME NEW s \in Seq(Agents \X Nat), s # <<>>
  PROVE  Front(s) \in Seq(Agents \X Nat) /\ (Front(s) = <<>> <=> Len(s) = 1)
<1>1. Len(s) \in Nat /\ Len(s) # 0 /\ \A i \in 1 .. Len(s) : s[i] \in Agents \X Nat
  BY EmptySeq, LenProperties
<1>2. PICK n \in Nat : Len(s) = n + 1
  <2>1. \A k \in Nat : k # 0 => \E n \in Nat : k = n + 1
    <3>1. ASSUME NEW k \in Nat, k # 0 PROVE k - 1 \in Nat /\ k = (k - 1) + 1
      BY <3>1
    <3> QED
      BY <3>1
  <2> QED
    BY <1>1, <2>1
<1>3. Front(s) = SubSeq(s, 1, n)
  BY <1>2 DEF Front
<1>4. /\ SubSeq(s, 1, n) \in Seq(Agents \X Nat)
      /\ Len(SubSeq(s, 1, n)) = IF 1 <= n THEN n - 1 + 1 ELSE 0
  <2>1. 1 \in Int /\ n \in Int /\ \A i \in 1 .. n : s[i] \in Agents \X Nat
    BY <1>1, <1>2
  <2> QED
    BY <2>1, SubSeqProperties
<1>5. Len(Front(s)) = n
  BY <1>2, <1>3, <1>4
<1>6. Front(s) = <<>> <=> n = 0
  BY <1>3, <1>4, <1>5, EmptySeq
<1>7. n = 0 <=> Len(s) = 1
  BY <1>2
<1> QED
  BY <1>3, <1>4, <1>6, <1>7

\* A call is made inside another.
LEMMA Extended ==
  ASSUME NEW s \in Seq(Agents \X Nat), NEW call \in Agents \X Nat
  PROVE  Append(s, call) \in Seq(Agents \X Nat) /\ Append(s, call) # <<>>
  BY AppendProperties

\* The calls of one member change, and maybe what it was given or answered.
LEMMA MemberSteps ==
  ASSUME TurnsInv, NEW t \in Turns, NEW a \in Agents, NEW s \in Seq(Agents \X Nat),
         stage[t] = "members", stack' = [stack EXCEPT ![t][a] = s],
         UNCHANGED <<rows, stage, mode, question, text, member, heard>>,
         tries' \in [Turns -> [Agents -> Nat]], answered' \in [Turns -> SUBSET Agents],
         \A u \in Turns \ {t} : tries'[u] = tries[u] /\ answered'[u] = answered[u],
         \A b \in Agents \ {a} : tries'[t][b] = tries[t][b],
         answered[t] \subseteq answered'[t],
         mode[t] = "collaborate" => answered'[t] = answered[t],
         mode[t] = "route" => IF s = <<>> THEN a \in answered'[t] \/ tries'[t][a] = MaxTries
                                          ELSE tries'[t][a] < MaxTries
  PROVE  TurnsInv'
<1>0. TurnTypes /\ Replied(t) /\ Routed(t) /\ Relayed(t)
  BY DEF TurnsInv
<1>1. /\ stack' \in [Turns -> [Agents -> Seq(Agents \X Nat)]] /\ stack'[t][a] = s
      /\ \A b \in Agents \ {a} : stack'[t][b] = stack[t][b]
      /\ \A u \in Turns \ {t} : stack'[u] = stack[u]
  BY <1>0 DEF TurnTypes
<1>2. TurnTypes'
  BY <1>0, <1>1 DEF TurnTypes
<1>3. heard'[t] = "nothing"
  BY <1>0 DEF Replied
<1>4. mode[t] = "route" => \A b \in Agents :
        IF stack'[t][b] = <<>> THEN b \in answered'[t] \/ tries'[t][b] = MaxTries
                               ELSE tries'[t][b] < MaxTries
  <2> SUFFICES ASSUME mode[t] = "route", NEW b \in Agents
               PROVE  IF stack'[t][b] = <<>> THEN b \in answered'[t] \/ tries'[t][b] = MaxTries
                                             ELSE tries'[t][b] < MaxTries
    OBVIOUS
  <2>1. CASE b = a
    BY <1>1, <2>1
  <2>2. CASE b # a
    <3>1. IF stack[t][b] = <<>> THEN b \in answered[t] \/ tries[t][b] = MaxTries
                              ELSE tries[t][b] < MaxTries
      BY <1>0 DEF Routed
    <3>2. stack'[t][b] = stack[t][b] /\ tries'[t][b] = tries[t][b]
      BY <1>1, <2>2
    <3> QED
      BY <3>1, <3>2
  <2> QED
    BY <2>1, <2>2
<1>5. Routed(t)'
  BY <1>0, <1>3, <1>4 DEF Routed
<1>6. Relayed(t)'
  BY <1>0, <1>3 DEF Relayed
<1> QED
  BY <1>1, <1>2, <1>5, <1>6, GoesOn

\* Tools, delegations and returns change the calls and nothing else.
LEMMA NestedKeeps ==
  ASSUME TurnsInv, NEW t \in Turns, NEW a \in Agents,
         MemberTools(t, a) \/ Delegate(t, a) \/ DelegateReturns(t, a)
  PROVE  TurnsInv'
<1>0. TurnTypes /\ Routed(t)
  BY DEF TurnsInv
<1>1. /\ stage[t] = "members" /\ stack[t][a] # <<>> /\ stack[t][a] \in Seq(Agents \X Nat)
      /\ UNCHANGED <<rows, stage, mode, question, text, member, tries, answered, heard>>
  BY <1>0 DEF MemberTools, Delegate, DelegateReturns, Working, plan, TurnTypes
<1> DEFINE counted == UseRound(stack[t][a])
<1>2. counted \in Seq(Agents \X Nat) /\ counted # <<>>
  BY <1>1, RoundCounted
<1>3. \E s \in Seq(Agents \X Nat) : s # <<>> /\ stack' = [stack EXCEPT ![t][a] = s]
  <2>1. CASE MemberTools(t, a)
    <3>1. stack' = [stack EXCEPT ![t][a] = counted]
      BY <2>1 DEF MemberTools
    <3> QED
      BY <1>2, <3>1
  <2>2. CASE Delegate(t, a)
    <3>1. PICK b \in Agents \ {a} : stack' = [stack EXCEPT ![t][a] = Append(counted, <<b, 0>>)]
      BY <2>2 DEF Delegate
    <3> HIDE DEF counted
    <3>2. <<b, 0>> \in Agents \X Nat
      OBVIOUS
    <3>3. /\ Append(counted, <<b, 0>>) \in Seq(Agents \X Nat)
          /\ Append(counted, <<b, 0>>) # <<>>
      BY <1>2, <3>2, Extended
    <3> QED
      BY <3>1, <3>3
  <2>3. CASE DelegateReturns(t, a)
    <3>1. stack' = [stack EXCEPT ![t][a] = Front(stack[t][a])] /\ Len(stack[t][a]) > 1
      BY <2>3 DEF DelegateReturns, Pop
    <3>2. /\ Front(stack[t][a]) \in Seq(Agents \X Nat)
          /\ Front(stack[t][a]) = <<>> <=> Len(stack[t][a]) = 1
      BY <1>1, Popped
    <3>3. Len(stack[t][a]) # 1
      <4>1. \A n \in Nat : n > 1 => n # 1
        OBVIOUS
      <4> QED
        BY <1>1, <3>1, <4>1
    <3> QED
      BY <3>1, <3>2, <3>3
  <2> QED
    BY <2>1, <2>2, <2>3
<1>4. PICK s \in Seq(Agents \X Nat) : s # <<>> /\ stack' = [stack EXCEPT ![t][a] = s]
  BY <1>3
<1>5. tries' \in [Turns -> [Agents -> Nat]] /\ answered' \in [Turns -> SUBSET Agents]
  BY <1>0, <1>1 DEF TurnTypes
<1>6. mode[t] = "route" => tries'[t][a] < MaxTries
  BY <1>0, <1>1 DEF Routed
<1> QED
  BY <1>1, <1>4, <1>5, <1>6, MemberSteps

\* A routed member answers or fails, once or for good.
LEMMA MemberKeeps ==
  ASSUME TurnsInv, NEW t \in Turns, NEW a \in Agents, MemberAnswers(t, a) \/ MemberFails(t, a)
  PROVE  TurnsInv'
<1>0. TurnTypes /\ Routed(t)
  BY DEF TurnsInv
<1>1. /\ stage[t] = "members" /\ stack[t][a] # <<>> /\ stack[t][a] \in Seq(Agents \X Nat)
      /\ mode[t] = "route" /\ Len(stack[t][a]) = 1
      /\ UNCHANGED <<rows, stage, mode, question, text, member, heard>>
  BY <1>0 DEF MemberAnswers, MemberFails, Working, plan, TurnTypes
<1>2. Front(stack[t][a]) \in Seq(Agents \X Nat) /\ Front(stack[t][a]) = <<>>
  BY <1>1, Popped
<1>3. CASE MemberAnswers(t, a)
  <2>1. /\ stack' = [stack EXCEPT ![t][a] = Front(stack[t][a])] /\ tries' = tries
        /\ answered' = [answered EXCEPT ![t] = @ \cup {a}]
    BY <1>3 DEF MemberAnswers, Pop
  <2>2. /\ answered' \in [Turns -> SUBSET Agents] /\ answered'[t] = answered[t] \cup {a}
        /\ \A u \in Turns \ {t} : answered'[u] = answered[u]
        /\ tries' \in [Turns -> [Agents -> Nat]]
    BY <1>0, <2>1 DEF TurnTypes
  <2> QED
    BY <1>1, <1>2, <2>1, <2>2, MemberSteps
<1>4. CASE MemberFails(t, a)
  <2>1. /\ tries' = [tries EXCEPT ![t][a] = @ + 1] /\ answered' = answered
        /\ stack' = IF tries[t][a] + 1 < MaxTries
                    THEN [stack EXCEPT ![t][a] = <<<<a, 0>>>>]
                    ELSE [stack EXCEPT ![t][a] = Front(stack[t][a])]
    BY <1>4 DEF MemberFails, Pop
  <2>2. /\ tries' \in [Turns -> [Agents -> Nat]] /\ tries'[t][a] = tries[t][a] + 1
        /\ \A b \in Agents \ {a} : tries'[t][b] = tries[t][b]
        /\ \A u \in Turns \ {t} : tries'[u] = tries[u]
        /\ answered' \in [Turns -> SUBSET Agents]
    BY <1>0, <2>1 DEF TurnTypes
  <2>3. tries[t][a] \in Nat /\ tries[t][a] < MaxTries
    BY <1>0, <1>1 DEF TurnTypes, Routed
  <2>4. CASE tries[t][a] + 1 < MaxTries
    <3>1. <<<<a, 0>>>> \in Seq(Agents \X Nat) /\ <<<<a, 0>>>> # <<>>
      OBVIOUS
    <3>2. stack' = [stack EXCEPT ![t][a] = <<<<a, 0>>>>] /\ tries'[t][a] < MaxTries
      BY <2>1, <2>2, <2>4
    <3> QED
      BY <1>1, <2>1, <2>2, <3>1, <3>2, MemberSteps
  <2>5. CASE ~(tries[t][a] + 1 < MaxTries)
    <3>1. stack' = [stack EXCEPT ![t][a] = Front(stack[t][a])] /\ tries'[t][a] = MaxTries
      BY <2>1, <2>2, <2>3, <2>5 DEF MaxTries
    <3> QED
      BY <1>1, <1>2, <2>1, <2>2, <3>1, MemberSteps
  <2> QED
    BY <2>4, <2>5
<1> QED
  BY <1>3, <1>4

\* One position further in the team.
LEMMA OneMore == \A n \in Nat : n >= 1 => Before(n + 1) = Before(n) \cup {Team[n]}
<1> SUFFICES ASSUME NEW n \in Nat, n >= 1 PROVE Before(n + 1) = Before(n) \cup {Team[n]}
  OBVIOUS
<1>1. 1 .. (n + 1) - 1 = (1 .. n - 1) \cup {n}
  OBVIOUS
<1>2. Before(n + 1) = {Team[k] : k \in (1 .. n - 1) \cup {n}}
  BY <1>1 DEF Before
<1> QED
  BY <1>2 DEF Before

\* A collaborating member hands on, and its successor is the next of the team.
LEMMA RelayKeeps == ASSUME TurnsInv, NEW t \in Turns, RelayAnswers(t) PROVE TurnsInv'
<1>0. TurnTypes /\ Replied(t) /\ Routed(t) /\ Relayed(t)
  BY DEF TurnsInv
<1>1. /\ stage[t] = "members" /\ mode[t] = "collaborate" /\ Len(stack[t][Current(t)]) = 1
      /\ answered' = [answered EXCEPT ![t] = @ \cup {Current(t)}]
      /\ member' = [member EXCEPT ![t] = @ + 1]
      /\ UNCHANGED <<rows, mode, question, text, tries, heard>>
  BY DEF RelayAnswers
<1>2. /\ member[t] \in Nat /\ member[t] >= 1 /\ member[t] + 1 \in 1 .. Len(Team)
      /\ answered[t] = Before(member[t])
  BY <1>0, <1>1, TeamSize DEF TurnTypes, Relayed
<1>3. Current(t) \in Agents /\ Team[member[t] + 1] \in Agents
  BY <1>2, TeamSize, ChatTurnAssumption DEF Current, Agents, ToSet
<1>4. /\ answered' \in [Turns -> SUBSET Agents] /\ answered'[t] = answered[t] \cup {Current(t)}
      /\ \A u \in Turns \ {t} : answered'[u] = answered[u]
  BY <1>0, <1>1, <1>3 DEF TurnTypes
<1>5. /\ member' \in [Turns -> 1 .. Len(Team)] /\ member'[t] = member[t] + 1
      /\ \A u \in Turns \ {t} : member'[u] = member[u]
  BY <1>0, <1>1, <1>2 DEF TurnTypes
<1>6. answered'[t] = Before(member'[t])
  <2>1. Before(member[t] + 1) = Before(member[t]) \cup {Team[member[t]]}
    BY <1>2, OneMore
  <2> QED
    BY <1>2, <1>4, <1>5, <2>1 DEF Current
<1>7. Pop(t, Current(t)) \in [Turns -> [Agents -> Seq(Agents \X Nat)]]
  <2>1. stack[t][Current(t)] \in Seq(Agents \X Nat)
    BY <1>0, <1>3 DEF TurnTypes
  <2>2. Front(stack[t][Current(t)]) \in Seq(Agents \X Nat)
    <3>1. stack[t][Current(t)] # <<>>
      BY <1>1, EmptySeq
    <3> QED
      BY <2>1, <3>1, Popped
  <2> QED
    BY <1>0, <1>3, <2>2 DEF TurnTypes, Pop
<1>8. \A u \in Turns \ {t} : Pop(t, Current(t))[u] = stack[u]
  BY <1>0 DEF Pop, TurnTypes
<1>9. heard'[t] = "nothing"
  BY <1>0, <1>1 DEF Replied
<1>10. CASE member[t] + 1 = Len(Team)
  <2>1. stack' = Pop(t, Current(t)) /\ stage' = [stage EXCEPT ![t] = "open"]
    BY <1>10 DEF RelayAnswers, Go
  <2>2. /\ stage' \in [Turns -> Stages] /\ stage'[t] = "open"
        /\ \A u \in Turns \ {t} : stage'[u] = stage[u]
    BY <1>0, <2>1 DEF TurnTypes, Stages
  <2>3. TurnTypes'
    BY <1>0, <1>1, <1>4, <1>5, <1>7, <2>1, <2>2 DEF TurnTypes
  <2>4. Routed(t)'
    BY <1>1, <1>9, <2>2 DEF Routed
  <2>5. Relayed(t)'
    BY <1>5, <1>6, <1>9, <1>10, <2>2 DEF Relayed
  <2> QED
    BY <1>1, <1>4, <1>5, <1>8, <2>1, <2>2, <2>3, <2>4, <2>5, GoesOn
<1>11. CASE member[t] + 1 # Len(Team)
  <2> DEFINE next == Team[member[t] + 1]
  <2>1. stack' = [Pop(t, Current(t)) EXCEPT ![t][next] = <<<<next, 0>>>>] /\ stage' = stage
    BY <1>11 DEF RelayAnswers
  <2>2. <<<<next, 0>>>> \in Seq(Agents \X Nat) /\ next \in Agents
    BY <1>3
  <2> HIDE DEF next
  <2>3. /\ stack' \in [Turns -> [Agents -> Seq(Agents \X Nat)]]
        /\ \A u \in Turns \ {t} : stack'[u] = stack[u]
    BY <1>7, <1>8, <2>1, <2>2
  <2>4. TurnTypes'
    BY <1>0, <1>1, <1>4, <1>5, <2>1, <2>3 DEF TurnTypes
  <2>5. Routed(t)'
    BY <1>1, <1>9, <2>1 DEF Routed
  <2>6. member'[t] < Len(Team)
    BY <1>2, <1>5, <1>11, TeamSize
  <2>7. Relayed(t)'
    BY <1>1, <1>6, <1>9, <2>1, <2>6 DEF Relayed
  <2> QED
    BY <1>1, <1>4, <1>5, <2>1, <2>3, <2>4, <2>5, <2>7, GoesOn
<1> QED
  BY <1>10, <1>11

\* All members but the last.
LEMMA AllButLast == Before(Len(Team)) = Agents \ {Last(Team)}
<1>1. Len(Team) \in Nat /\ Len(Team) > 0 /\ \A i, j \in 1 .. Len(Team) : Team[i] = Team[j] => i = j
  BY ChatTurnAssumption
<1>2. Agents = {Team[k] : k \in 1 .. Len(Team)} /\ Last(Team) = Team[Len(Team)]
  BY DEF Agents, ToSet, Last
<1>3. 1 .. Len(Team) = (1 .. Len(Team) - 1) \cup {Len(Team)}
  BY <1>1
<1>4. \A k \in 1 .. Len(Team) - 1 : k \in 1 .. Len(Team) /\ k # Len(Team)
  BY <1>1
<1>5. Len(Team) \in 1 .. Len(Team)
  BY <1>1
<1>6. \A k \in 1 .. Len(Team) - 1 : Team[k] # Team[Len(Team)]
  BY <1>1, <1>4, <1>5
<1>7. Agents = {Team[k] : k \in 1 .. Len(Team) - 1} \cup {Team[Len(Team)]}
  BY <1>2, <1>3
<1> QED
  BY <1>2, <1>6, <1>7 DEF Before

\* A collaborating team is named in its answer, and nothing else changes in the rows.
LEMMA Credited ==
  ASSUME TurnTypes, NEW t \in Turns, Complete(t)
  PROVE  /\ rows' \in Seq(Rows) /\ Len(rows') = Len(rows)
         /\ \A i \in 1 .. Len(rows) :
              /\ rows'[i].turn = rows[i].turn /\ rows'[i].role = rows[i].role
              /\ rows'[i].body = rows[i].body
              /\ i \notin Replies(t) => rows'[i] = rows[i]
              /\ rows'[i].by = IF mode[t] = "collaborate" /\ i \in Replies(t) THEN answered[t]
                               ELSE rows[i].by
<1>0. TurnTypes
  OBVIOUS
<1>2. \A i \in 1 .. Len(rows) : rows[i] \in Rows
  BY <1>0 DEF TurnTypes
<1>3. \A i \in 1 .. Len(rows) :
        /\ Credit(t, i) \in Rows /\ Credit(t, i).turn = rows[i].turn
        /\ Credit(t, i).role = rows[i].role /\ Credit(t, i).body = rows[i].body
        /\ Credit(t, i).by = IF i \in Replies(t) THEN answered[t] ELSE rows[i].by
        /\ i \notin Replies(t) => Credit(t, i) = rows[i]
  <2> SUFFICES ASSUME NEW i \in 1 .. Len(rows)
               PROVE  /\ Credit(t, i) \in Rows /\ Credit(t, i).turn = rows[i].turn
                      /\ Credit(t, i).role = rows[i].role /\ Credit(t, i).body = rows[i].body
                      /\ Credit(t, i).by = IF i \in Replies(t) THEN answered[t] ELSE rows[i].by
                      /\ i \notin Replies(t) => Credit(t, i) = rows[i]
    OBVIOUS
  <2>1. rows[i] \in Rows /\ answered[t] \in SUBSET Agents
    BY <1>0, <1>2 DEF TurnTypes
  <2>2. i \in Replies(t) <=> rows[i].turn = t /\ rows[i].role = "assistant"
    BY DEF Replies
  <2>3. CASE i \in Replies(t)
    <3>1. Credit(t, i) = [rows[i] EXCEPT !.by = answered[t]]
      BY <2>2, <2>3 DEF Credit
    <3> QED
      BY <2>1, <2>3, <3>1 DEF Rows
  <2>4. CASE i \notin Replies(t)
    <3>1. Credit(t, i) = rows[i]
      BY <2>2, <2>4 DEF Credit
    <3> QED
      BY <2>1, <2>4, <3>1
  <2> QED
    BY <2>3, <2>4
<1>4. /\ rows' \in Seq(Rows) /\ Len(rows') = Len(rows)
      /\ \A i \in 1 .. Len(rows) :
           /\ rows'[i].turn = rows[i].turn /\ rows'[i].role = rows[i].role
           /\ rows'[i].body = rows[i].body
           /\ i \notin Replies(t) => rows'[i] = rows[i]
           /\ rows'[i].by = IF mode[t] = "collaborate" /\ i \in Replies(t) THEN answered[t]
                            ELSE rows[i].by
  <2>1. CASE mode[t] = "collaborate"
    <3>1. rows' = [i \in 1 .. Len(rows) |-> Credit(t, i)]
      BY <2>1 DEF Complete
    <3>2. rows' \in Seq(Rows) /\ Len(rows') = Len(rows)
      BY <1>0, <1>3, <3>1 DEF TurnTypes
    <3>3. \A i \in 1 .. Len(rows) : rows'[i] = Credit(t, i)
      BY <3>1
    <3> QED
      BY <1>3, <2>1, <3>2, <3>3
  <2>2. CASE mode[t] # "collaborate"
    <3>1. rows' = rows
      BY <2>2 DEF Complete
    <3> QED
      BY <1>0, <2>2, <3>1 DEF TurnTypes
  <2> QED
    BY <2>1, <2>2
<1> QED
  BY <1>4

\* The turn is told that it is done.
LEMMA CompleteKeeps == ASSUME TurnsInv, NEW t \in Turns, Complete(t) PROVE TurnsInv'
<1>0. TurnTypes /\ Replied(t) /\ Routed(t) /\ Relayed(t)
  BY DEF TurnsInv
<1>1. stage[t] = "saved" /\ End(t, "done")
  BY DEF Complete
<1>4. /\ rows' \in Seq(Rows) /\ Len(rows') = Len(rows)
      /\ \A i \in 1 .. Len(rows) :
           /\ rows'[i].turn = rows[i].turn /\ rows'[i].role = rows[i].role
           /\ rows'[i].body = rows[i].body
           /\ i \notin Replies(t) => rows'[i] = rows[i]
           /\ rows'[i].by = IF mode[t] = "collaborate" /\ i \in Replies(t) THEN answered[t]
                            ELSE rows[i].by
  BY <1>0, Credited
<1>5. \A u \in Turns : Replies(u)' = Replies(u) /\ Replies(u) \subseteq 1 .. Len(rows)
  BY <1>4 DEF Replies
<1>6. \A u \in Turns \ {t} : \A i \in Replies(u) : i \notin Replies(t)
  BY DEF Replies
<1>7. Len(rows) \in Nat /\ Len(rows) <= Len(rows')
  BY <1>0, <1>4 DEF TurnTypes
<1>8. OthersStay(t)
  <2>1. \A u \in Turns \ {t} :
              /\ stage'[u] = stage[u] /\ mode'[u] = mode[u] /\ heard'[u] = heard[u]
              /\ question'[u] = question[u] /\ member'[u] = member[u] /\ stack'[u] = stack[u]
              /\ tries'[u] = tries[u] /\ answered'[u] = answered[u]
    BY <1>0, <1>1, <1>4, <1>7, Ends
  <2>2. \A u \in Turns \ {t} : \A i \in Replies(u) : rows'[i] = rows[i]
    BY <1>4, <1>5, <1>6
  <2> QED
    BY <1>5, <2>1, <2>2 DEF OthersStay
<1>9. /\ TurnTypes' /\ stage'[t] = "over" /\ heard'[t] = "done" /\ question'[t] = question[t]
      /\ mode'[t] = mode[t] /\ tries'[t] = tries[t] /\ answered'[t] = answered[t]
  BY <1>0, <1>1, <1>4, <1>7, Ends
<1>10. Whole(t)'
  <2>1. PICK i \in 1 .. Len(rows) : Replies(t) = {i} /\ rows[i].body # "part"
    BY <1>0, <1>1 DEF Replied, Whole
  <2>2. rows'[i].body # "part"
    BY <1>4, <2>1
  <2>3. i \in 1 .. Len(rows') /\ Replies(t)' = {i}
    BY <1>4, <1>5, <2>1
  <2> QED
    BY <2>2, <2>3 DEF Whole
<1>11. Replied(t)'
  <2>1. \A i \in Replies(t)' : i > question'[t]
    BY <1>0, <1>5, <1>9 DEF Replied
  <2> QED
    BY <1>9, <1>10, <2>1 DEF Replied
<1>12. Routed(t)'
  <2>1. mode[t] = "route" => Exhausted(t)'
    BY <1>0, <1>1, <1>9 DEF Routed, Exhausted
  <2>2. mode[t] = "route" => \A i \in Replies(t)' : rows'[i].by = answered'[t]
    BY <1>0, <1>1, <1>4, <1>5, <1>9 DEF Routed
  <2> QED
    BY <1>9, <2>1, <2>2 DEF Routed
<1>13. Relayed(t)'
  <2>1. mode[t] = "collaborate" => answered[t] = Agents \ {Last(Team)}
    BY <1>0, <1>1, AllButLast DEF Relayed
  <2>2. mode[t] = "collaborate" => \A i \in Replies(t)' : rows'[i].by = Agents \ {Last(Team)}
    BY <1>4, <1>5, <2>1
  <2> QED
    BY <1>9, <2>2 DEF Relayed
<1> QED
  BY <1>7, <1>8, <1>9, <1>11, <1>12, <1>13, OneTurn

\* An exception saves what was said, if anything was.
LEMMA RaiseKeeps ==
  ASSUME TurnsInv, NEW t \in Turns, RoundRaises(t) \/ TailRaises(t) PROVE TurnsInv'
<1> DEFINE r == Row(t, "assistant", "part", {})
<1>1. stage[t] # "over" /\ End(t, "error") /\ (Commit(r) \/ UNCHANGED rows)
  BY DEF RoundRaises, TailRaises
<1>2. r \in Rows /\ r.turn = t
  BY RowTyped
<1> HIDE DEF r
<1>3. CASE Commit(r)
  BY <1>1, <1>2, <1>3, Raises
<1>4. CASE UNCHANGED rows
  BY <1>1, <1>4, Stops
<1> QED
  BY <1>1, <1>3, <1>4

\* A turn that ends without saving: refused before it answers, failed, or left.
LEMMA StopKeeps ==
  ASSUME TurnsInv, NEW t \in Turns,
         \/ RefuseAttachments(t) \/ RetrieveFails(t) \/ RefuseTeam(t) \/ RefuseAgent(t)
         \/ PlainBreaks(t) \/ RoundError(t) \/ SelectFails(t) \/ AllFailed(t)
         \/ SynthesisFails(t) \/ RelayFails(t) \/ Leave(t)
  PROVE  TurnsInv'
<1>1. PICK told \in {"refused", "error", "left"} :
        End(t, told) /\ UNCHANGED rows /\ stage[t] # "over" /\ (told = "refused" => stage[t] # "saved")
  BY DEF RefuseAttachments, RetrieveFails, RefuseTeam, RefuseAgent, PlainBreaks, RoundError,
         SelectFails, AllFailed, Gathered, SynthesisFails, RelayFails, Leave
<1> QED
  BY <1>1, Stops

--------------------------------------------------------------------------------
(* The turns of a chat: the theorem *)

\* Before the first turn the session holds what others said.
LEMMA TurnsStart == TurnsInit => TurnsInv
<1> SUFFICES ASSUME TurnsInit PROVE TurnsInv
  OBVIOUS
<1>1. Past \in Nat /\ Earlier \notin Turns /\ 1 \in 1 .. Len(Team)
  <2>1. \A n \in Nat : n > 0 => 1 \in 1 .. n
    OBVIOUS
  <2> QED
    BY <2>1, ChatTurnAssumption DEF Earlier
<1>2. rows = [i \in 1 .. Past |->
                Row(Earlier, IF i % 2 = 1 THEN "user" ELSE "assistant", "full", {})]
  BY DEF TurnsInit
<1>3. \A i \in 1 .. Past :
        /\ Row(Earlier, IF i % 2 = 1 THEN "user" ELSE "assistant", "full", {}) \in Rows
        /\ Row(Earlier, IF i % 2 = 1 THEN "user" ELSE "assistant", "full", {}).turn = Earlier
  BY DEF Row, Rows
<1>4. rows \in Seq(Rows) /\ Len(rows) = Past /\ \A i \in 1 .. Len(rows) : rows[i].turn = Earlier
  <2>1. rows \in Seq(Rows) /\ Len(rows) = Past
    BY <1>1, <1>2, <1>3
  <2> QED
    BY <1>2, <1>3, <2>1
<1>5. \A t \in Turns : Replies(t) = {}
  BY <1>1, <1>4 DEF Replies
<1>6. TurnTypes
  BY <1>1, <1>4, CallsTyped DEF TurnsInit, TurnTypes, Stages
<1>7. ASSUME NEW t \in Turns PROVE Replied(t) /\ Routed(t) /\ Relayed(t)
  <2>1. /\ stage[t] = "idle" /\ heard[t] = "nothing" /\ mode[t] = "none" /\ member[t] = 1
        /\ answered[t] = {} /\ \A a \in Agents : tries[t][a] = 0
    BY DEF TurnsInit
  <2> QED
    BY <1>5, <2>1 DEF Replied, Routed, Relayed
<1> QED
  BY <1>6, <1>7 DEF TurnsInv

\* Each step keeps the invariant.
LEMMA TurnsStep == TurnsInv /\ [TurnsNext]_turnVars => TurnsInv'
<1> SUFFICES ASSUME TurnsInv, [TurnsNext]_turnVars PROVE TurnsInv'
  OBVIOUS
<1>1. CASE UNCHANGED turnVars
  <2>1. TurnTypes'
    BY <1>1 DEF turnVars, TurnsInv, TurnTypes
  <2>2. ASSUME NEW t \in Turns PROVE Replied(t)' /\ Routed(t)' /\ Relayed(t)'
    <3>1. Replied(t) /\ Routed(t) /\ Relayed(t)
      BY DEF TurnsInv
    <3>2. Replies(t)' = Replies(t)
      BY <1>1 DEF turnVars, Replies
    <3>3. Whole(t)' <=> Whole(t)
      BY <1>1, <3>2 DEF turnVars, Whole
    <3>4. Replied(t)'
      BY <1>1, <3>1, <3>2, <3>3 DEF turnVars, Replied
    <3>5. Routed(t)' /\ Relayed(t)'
      BY <1>1, <3>1, <3>2 DEF turnVars, Routed, Exhausted, Relayed
    <3> QED
      BY <3>4, <3>5
  <2> QED
    BY <2>1, <2>2 DEF TurnsInv
<1>2. CASE TurnsNext
  <2>1. PICK t \in Turns : RefuseAttachments(t) \/ AskQuestion(t) \/ Leave(t) \/ Work(t)
    BY <1>2 DEF TurnsNext
  <2>2. CASE AskQuestion(t)
    BY <2>2, AskKeeps
  <2>3. CASE \/ RefuseAttachments(t) \/ RetrieveFails(t) \/ RefuseTeam(t) \/ RefuseAgent(t)
             \/ PlainBreaks(t) \/ RoundError(t) \/ SelectFails(t) \/ AllFailed(t)
             \/ SynthesisFails(t) \/ RelayFails(t) \/ Leave(t)
    BY <2>3, StopKeeps
  <2>4. CASE \/ Retrieve(t) \/ StartAgent(t) \/ Chunk(t) \/ RoundTools(t) \/ Select(t)
             \/ Synthesize(t)
    BY <2>4, WalkKeeps
  <2>5. CASE StartTeam(t)
    BY <2>5, StartTeamKeeps
  <2>6. CASE AnswerOnce(t)
    BY <2>6, AnswerOnceKeeps
  <2>7. CASE Compact(t)
    BY <2>7, CompactKeeps
  <2>8. CASE PlainEnds(t) \/ RoundsEnd(t) \/ SynthesisSaved(t)
    BY <2>8, AnswerKeeps
  <2>9. CASE RoundRaises(t) \/ TailRaises(t)
    BY <2>9, RaiseKeeps
  <2>10. CASE Complete(t)
    BY <2>10, CompleteKeeps
  <2>11. CASE \E a \in Agents : MemberTools(t, a) \/ Delegate(t, a) \/ DelegateReturns(t, a)
    BY <2>11, NestedKeeps
  <2>12. CASE \E a \in Agents : MemberAnswers(t, a) \/ MemberFails(t, a)
    BY <2>12, MemberKeeps
  <2>13. CASE RelayAnswers(t)
    BY <2>13, RelayKeeps
  <2> QED
    BY <2>1, <2>2, <2>3, <2>4, <2>5, <2>6, <2>7, <2>8, <2>9, <2>10, <2>11, <2>12, <2>13 DEF Work
<1> QED
  BY <1>1, <1>2

\* The invariant holds of every behaviour.
LEMMA TurnsInvariant == TurnsSpec => []TurnsInv
  BY TurnsStart, TurnsStep, PTL DEF TurnsSpec

\* Any number of turns of one session, of any team: a client that was told done finds
\* exactly one answer of its turn, after its question and never a fragment, with the
\* members it names; one that was refused finds none (_chat_sqlite and what it streams).
THEOREM OneAnswerEach == TurnsSpec => []OneReply
<1>1. TurnsInv => OneReply
  <2> SUFFICES ASSUME TurnsInv, NEW t \in Turns
               PROVE  /\ heard[t] = "done" =>
                           Cardinality(Replies(t)) = 1 /\ \A i \in Replies(t) : rows[i].body # "part"
                      /\ heard[t] = "refused" => Replies(t) = {}
                      /\ heard[t] # "error" => Cardinality(Replies(t)) <= 1
                      /\ \A i \in Replies(t) : i > question[t]
                      /\ heard[t] = "done" /\ mode[t] = "route" => \A i \in Replies(t) :
                           /\ rows[i].by # {}
                           /\ \A a \in Agents \ rows[i].by : tries[t][a] = 2
                      /\ heard[t] = "done" /\ mode[t] = "collaborate" =>
                           \A i \in Replies(t) : rows[i].by = Agents \ {Last(Team)}
    BY DEF OneReply
  <2>1. TurnTypes /\ Replied(t) /\ Routed(t) /\ Relayed(t)
    BY DEF TurnsInv
  <2>2. Whole(t) => Cardinality(Replies(t)) = 1 /\ \A i \in Replies(t) : rows[i].body # "part"
    BY FS_Singleton DEF Whole
  <2>3. Replies(t) = {} => Cardinality(Replies(t)) = 0
    BY FS_EmptySet
  <2>4. heard[t] # "error" => Whole(t) \/ Replies(t) = {}
    BY <2>1 DEF TurnTypes, Replied, Stages
  <2>5. heard[t] # "error" => Cardinality(Replies(t)) <= 1
    BY <2>2, <2>3, <2>4
  <2>6. heard[t] = "done" => Whole(t)
    BY <2>1 DEF Replied
  <2>7. heard[t] = "done" /\ mode[t] = "route" => \A i \in Replies(t) :
                           /\ rows[i].by # {}
                           /\ \A a \in Agents \ rows[i].by : tries[t][a] = 2
    BY <2>1 DEF Routed, Exhausted, MaxTries
  <2>8. heard[t] = "done" /\ mode[t] = "collaborate" =>
                           \A i \in Replies(t) : rows[i].by = Agents \ {Last(Team)}
    BY <2>1 DEF Relayed
  <2> QED
    BY <2>1, <2>2, <2>5, <2>6, <2>7, <2>8 DEF Replied
<1> QED
  BY <1>1, TurnsInvariant, PTL

--------------------------------------------------------------------------------
(* The turns of a chat: rows in their order *)

\* How many of the numbers are up to i.
Rank(s, i) == Cardinality({j \in s : j <= i})

\* Ranks are positions, and different for different numbers.
LEMMA Ranks ==
  ASSUME NEW s \in SUBSET Nat, IsFiniteSet(s)
  PROVE  /\ Cardinality(s) \in Nat
         /\ \A i \in s : Rank(s, i) \in 1 .. Cardinality(s)
         /\ \A i, k \in s : Rank(s, i) = Rank(s, k) => i = k
<1>1. Cardinality(s) \in Nat
  BY FS_CardinalityType
<1>2. ASSUME NEW i \in s
      PROVE  IsFiniteSet({j \in s : j <= i}) /\ Rank(s, i) \in 1 .. Cardinality(s)
  <2> DEFINE low == {j \in s : j <= i}
  <2>1. low \in SUBSET s /\ i \in low
    OBVIOUS
  <2>2. IsFiniteSet(low) /\ Cardinality(low) <= Cardinality(s) /\ Cardinality(low) \in Nat
    BY <2>1, FS_Subset, FS_CardinalityType
  <2>3. Cardinality(low) # 0
    BY <2>1, <2>2, FS_EmptySet
  <2>4. Cardinality(low) \in 1 .. Cardinality(s)
    BY <1>1, <2>2, <2>3
  <2> QED
    BY <2>2, <2>4 DEF Rank
<1>3. ASSUME NEW i \in s, NEW k \in s, i < k PROVE Rank(s, i) # Rank(s, k)
  <2> DEFINE low == {j \in s : j <= i}
             high == {j \in s : j <= k}
  <2>0. i \in Nat /\ k \in Nat /\ \A j \in s : j \in Nat
    OBVIOUS
  <2>1. low \in SUBSET high /\ k \in high /\ k \notin low
    <3>1. ~(k <= i) /\ k <= k /\ \A j \in Nat : j <= i => j <= k
      BY <1>3, <2>0
    <3> QED
      BY <2>0, <3>1
  <2>2. IsFiniteSet(high)
    BY <1>2
  <2>3. Cardinality(high) = Cardinality(low) => high = low
    BY <2>1, <2>2, FS_Subset
  <2> QED
    BY <2>1, <2>3 DEF Rank
<1>4. ASSUME NEW i \in s, NEW k \in s, Rank(s, i) = Rank(s, k) PROVE i = k
  <2>1. i \in Nat /\ k \in Nat
    OBVIOUS
  <2> QED
    BY <1>3, <1>4, <2>1
<1> QED
  BY <1>1, <1>2, <1>4

\* Every position is a rank, because there are as many of them as numbers.
LEMMA OrderedRanks ==
  ASSUME NEW s \in SUBSET Nat, IsFiniteSet(s)
  PROVE  /\ Ordered(s) \in Seq(s) /\ Len(Ordered(s)) = Cardinality(s)
         /\ \A k \in 1 .. Cardinality(s) :
                Ordered(s)[k] \in s /\ Rank(s, Ordered(s)[k]) = k
<1> DEFINE c == Cardinality(s)
           f == [i \in s |-> Rank(s, i)]
<1>1. /\ c \in Nat /\ \A i \in s : Rank(s, i) \in 1 .. c
      /\ \A i, k \in s : Rank(s, i) = Rank(s, k) => i = k
  BY Ranks
<1>2. f \in Injection(s, 1 .. c)
  BY <1>1 DEF Injection, IsInjective
<1>3. IsFiniteSet(1 .. c) /\ Cardinality(1 .. c) = c
  <2>1. IsFiniteSet(1 .. c) /\ Cardinality(1 .. c) = IF 1 > c THEN 0 ELSE c - 1 + 1
    BY <1>1, FS_Interval
  <2> QED
    BY <1>1, <2>1
<1>4. f \in Surjection(s, 1 .. c)
  BY <1>2, <1>3, FS_Injection
<1>5. \A k \in 1 .. c : \E i \in s : Rank(s, i) = k
  BY <1>4 DEF Surjection
<1>6. \A k \in 1 .. c : Ordered(s)[k] \in s /\ Rank(s, Ordered(s)[k]) = k
  <2> SUFFICES ASSUME NEW k \in 1 .. c PROVE Ordered(s)[k] \in s /\ Rank(s, Ordered(s)[k]) = k
    OBVIOUS
  <2>1. Ordered(s)[k] = CHOOSE i \in s : Cardinality({j \in s : j <= i}) = k
    BY DEF Ordered
  <2>2. \E i \in s : Cardinality({j \in s : j <= i}) = k
    BY <1>5 DEF Rank
  <2> QED
    BY <2>1, <2>2 DEF Rank
<1>7. Ordered(s) = [k \in 1 .. c |-> Ordered(s)[k]]
  BY DEF Ordered
<1>8. Ordered(s) \in Seq(s) /\ Len(Ordered(s)) = c
  <2>1. Ordered(s) \in [1 .. c -> s]
    BY <1>6, <1>7
  <2> QED
    BY <1>1, <2>1
<1> QED
  BY <1>6, <1>8

\* A list of members of a set is a list of members of any larger one.
LEMMA SeqWiden ==
  ASSUME NEW S, NEW s \in SUBSET S, NEW seq \in Seq(s)
  PROVE  seq \in Seq(S)
<1>1. \A i \in 1 .. Len(seq) : seq[i] \in S
  OBVIOUS
<1> QED
  BY <1>1

\* A number beyond all others comes last.
LEMMA OrderedGrows ==
  ASSUME NEW s \in SUBSET Nat, IsFiniteSet(s), NEW q \in Nat, \A i \in s : i < q
  PROVE  Ordered(s \cup {q}) = Append(Ordered(s), q)
<1> DEFINE all == s \cup {q}
           c == Cardinality(s)
<1>1. q \notin s /\ all \in SUBSET Nat
  OBVIOUS
<1>2. IsFiniteSet(all) /\ Cardinality(all) = c + 1 /\ c \in Nat
  BY <1>1, FS_AddElement, FS_CardinalityType
<1>3. /\ Ordered(s) \in Seq(s) /\ Len(Ordered(s)) = c
      /\ \A k \in 1 .. c : Ordered(s)[k] \in s /\ Rank(s, Ordered(s)[k]) = k
  BY OrderedRanks
<1>4. /\ Ordered(all) \in Seq(all) /\ Len(Ordered(all)) = c + 1
      /\ \A k \in 1 .. c + 1 : Ordered(all)[k] \in all /\ Rank(all, Ordered(all)[k]) = k
  BY <1>1, <1>2, OrderedRanks
<1>5. \A i, k \in all : Rank(all, i) = Rank(all, k) => i = k
  BY <1>1, <1>2, Ranks
<1>0. 1 .. c + 1 = (1 .. c) \cup {c + 1}
  BY <1>2
<1>12. \A j \in all : j \in s \/ j = q
  OBVIOUS
<1>13. q \in all /\ \A j \in s : j \in all /\ j \in Nat
  OBVIOUS
<1> HIDE DEF all, c
<1>6. ASSUME NEW k \in 1 .. c PROVE Ordered(all)[k] = Ordered(s)[k]
  <2> DEFINE i == Ordered(s)[k]
  <2>1. i \in s /\ Rank(s, i) = k
    BY <1>3
  <2>2. {j \in all : j <= i} = {j \in s : j <= i}
    <3>1. i < q /\ i \in Nat
      BY <2>1
    <3>2. \A j \in all : j <= i => j \in s
      BY <1>12, <3>1
    <3> QED
      BY <1>13, <3>2
  <2>3. Rank(all, i) = k
    BY <2>1, <2>2 DEF Rank
  <2>4. Ordered(all)[k] \in all /\ Rank(all, Ordered(all)[k]) = k
    BY <1>0, <1>4
  <2> QED
    BY <1>5, <1>13, <2>1, <2>3, <2>4
<1>7. Ordered(all)[c + 1] = q
  <2>1. {j \in all : j <= q} = all
    <3>1. \A j \in all : j <= q
      BY <1>12, <1>13
    <3> QED
      BY <3>1
  <2>2. Rank(all, q) = c + 1
    BY <1>2, <2>1 DEF Rank
  <2>3. Ordered(all)[c + 1] \in all /\ Rank(all, Ordered(all)[c + 1]) = c + 1
    BY <1>0, <1>4
  <2> QED
    BY <1>5, <1>13, <2>2, <2>3
<1>8. /\ Append(Ordered(s), q) \in Seq(Nat) /\ Len(Append(Ordered(s), q)) = c + 1
      /\ Append(Ordered(s), q)[c + 1] = q
      /\ \A k \in 1 .. c : Append(Ordered(s), q)[k] = Ordered(s)[k]
  <2>1. Ordered(s) \in Seq(Nat)
    BY <1>3, SeqWiden
  <2> QED
    BY <1>3, <2>1, AppendProperties
<1>9. Ordered(all) \in Seq(Nat)
  BY <1>1, <1>4, SeqWiden
<1>10. \A k \in 1 .. c + 1 : Ordered(all)[k] = Append(Ordered(s), q)[k]
  <2>1. 1 .. c + 1 = (1 .. c) \cup {c + 1}
    BY <1>0
  <2> QED
    BY <1>6, <1>7, <1>8, <2>1
<1>11. Ordered(all) = Append(Ordered(s), q)
  BY <1>4, <1>8, <1>9, <1>10, SeqEqual
<1> QED
  BY <1>11 DEF all

--------------------------------------------------------------------------------
(* The turns of a chat: what the model is given *)

\* A list as it was read, or with the results of other agents at its end.
Full(t) == {Dialogue(question[t]), Append(Dialogue(question[t]), Results)}

\* What the model is given is such a list, whole or compacted.
Holds(c, s) ==
    \/ c = [summary |-> {}, verbatim |-> s]
    \/ Len(s) > Keep /\ c = [summary |-> ToSet(Older(s)), verbatim |-> Recent(s)]

\* The places of a turn at which its list is the one it was given first.
AsRead == {"ready", "waiting", "routing", "members", "synth"}

\* The list of a turn is the dialogue up to its question, whole or compacted once.
Listed(t) ==
    /\ stage[t] \in {"idle", "over"} => context[t] = [summary |-> {}, verbatim |-> <<>>]
    /\ stage[t] = "asked" => /\ context[t].summary = {}
                             /\ Append(context[t].verbatim, question[t]) = Dialogue(question[t])
    /\ stage[t] \in AsRead =>
           context[t] = [summary |-> {}, verbatim |-> Dialogue(question[t])]
    /\ stage[t] = "open" => \E s \in Full(t) : context[t] = [summary |-> {}, verbatim |-> s]
    /\ stage[t] \in {"stream", "saved"} => \E s \in Full(t) : Holds(context[t], s)

ListTypes ==
    /\ entity \in {"agent", "team"}
    /\ way \in [Turns -> {"none", "once", "plain", "mcp"}]
    /\ round \in [Turns -> 0 .. MaxRounds]
    /\ context \in [Turns -> [summary : SUBSET Nat, verbatim : Seq(Nat)]]

ListsInv == ListTypes /\ \A t \in Turns : Listed(t)

\* Of a cut list, what was cut off and what is left are the whole of it.
LEMMA Cut ==
  ASSUME NEW S, NEW s \in Seq(S), NEW k \in 0 .. Len(s)
  PROVE  /\ SubSeq(s, 1, Len(s) - k) \in Seq(S) /\ Len(SubSeq(s, 1, Len(s) - k)) = Len(s) - k
         /\ \A i \in 1 .. Len(s) - k : SubSeq(s, 1, Len(s) - k)[i] = s[i]
         /\ Tail_(s, k) \in Seq(S) /\ Len(Tail_(s, k)) = k
         /\ \A i \in 1 .. k : Tail_(s, k)[i] = s[Len(s) - k + i]
         /\ ToSet(s) = ToSet(SubSeq(s, 1, Len(s) - k)) \cup ToSet(Tail_(s, k))
<1> DEFINE n == Len(s)
<1>1. n \in Nat /\ k \in Nat /\ k <= n /\ n - k \in Nat /\ n - k <= n
  OBVIOUS
<1>2. \A i \in 1 .. n : s[i] \in S
  OBVIOUS
<1>3. \A i \in 1 .. n - k : i \in 1 .. n
  BY <1>1
<1>4. \A i \in n - k + 1 .. n : i \in 1 .. n
  BY <1>1
<1> DEFINE front == SubSeq(s, 1, n - k)
           back == SubSeq(s, n - k + 1, n)
<1>5. /\ front \in Seq(S) /\ Len(front) = n - k
      /\ \A i \in 1 .. n - k : front[i] = s[i]
  <2>1. /\ front \in Seq(S) /\ Len(front) = IF 1 <= n - k THEN n - k - 1 + 1 ELSE 0
        /\ \A i \in 1 .. (n - k) - 1 + 1 : front[i] = s[1 + i - 1]
    BY <1>1, <1>2, <1>3, SubSeqProperties
  <2> HIDE DEF n, front
  <2>2. Len(front) = n - k
    BY <1>1, <2>1
  <2>3. ASSUME NEW i \in 1 .. n - k PROVE front[i] = s[i]
    <3>1. i \in 1 .. (n - k) - 1 + 1 /\ 1 + i - 1 = i
      BY <1>1
    <3> QED
      BY <2>1, <3>1
  <2> QED
    BY <2>1, <2>2, <2>3
<1>6. /\ back \in Seq(S) /\ Len(back) = k
      /\ \A i \in 1 .. k : back[i] = s[n - k + i]
  <2>1. /\ back \in Seq(S)
        /\ Len(back) = IF n - k + 1 <= n THEN n - (n - k + 1) + 1 ELSE 0
        /\ \A i \in 1 .. n - (n - k + 1) + 1 : back[i] = s[(n - k + 1) + i - 1]
    BY <1>1, <1>2, <1>4, SubSeqProperties
  <2> HIDE DEF n, back
  <2>2. Len(back) = k
    BY <1>1, <2>1
  <2>3. ASSUME NEW i \in 1 .. k PROVE back[i] = s[n - k + i]
    <3>1. i \in 1 .. n - (n - k + 1) + 1 /\ (n - k + 1) + i - 1 = n - k + i
      BY <1>1
    <3> QED
      BY <2>1, <3>1
  <2> QED
    BY <2>1, <2>2, <2>3
<1>7. ToSet(s) = ToSet(front) \cup ToSet(back)
  <2>0. DOMAIN s = 1 .. n /\ DOMAIN front = 1 .. n - k /\ DOMAIN back = 1 .. k
    BY <1>5, <1>6
  <2> HIDE DEF n, front, back
  <2>1. ASSUME NEW i \in 1 .. n PROVE s[i] \in ToSet(front) \cup ToSet(back)
    <3>1. CASE i <= n - k
      <4>1. i \in 1 .. n - k
        BY <1>1, <3>1
      <4> QED
        BY <1>5, <2>0, <4>1 DEF ToSet
    <3>2. CASE ~(i <= n - k)
      <4>1. i - (n - k) \in 1 .. k /\ n - k + (i - (n - k)) = i
        BY <1>1, <3>2
      <4>2. back[i - (n - k)] = s[i]
        BY <1>6, <4>1
      <4> QED
        BY <2>0, <4>1, <4>2 DEF ToSet
    <3> QED
      BY <3>1, <3>2
  <2>2. ASSUME NEW i \in 1 .. n - k PROVE front[i] \in ToSet(s)
    BY <1>3, <1>5, <2>0 DEF ToSet
  <2>3. ASSUME NEW i \in 1 .. k PROVE back[i] \in ToSet(s)
    <3>1. n - k + i \in 1 .. n
      BY <1>1
    <3> QED
      BY <1>6, <2>0, <3>1 DEF ToSet
  <2>4. ToSet(s) \subseteq ToSet(front) \cup ToSet(back)
    BY <2>0, <2>1 DEF ToSet
  <2>5. ToSet(front) \subseteq ToSet(s) /\ ToSet(back) \subseteq ToSet(s)
    BY <2>0, <2>2, <2>3 DEF ToSet
  <2> QED
    BY <2>4, <2>5
<1> QED
  BY <1>5, <1>6, <1>7 DEF Tail_

\* The list of an item that is not last is the list before it, cut one later.
LEMMA CutAppended ==
  ASSUME NEW S, NEW s \in Seq(S), NEW e \in S, NEW k \in Nat, k >= 1, k <= Len(s) + 1
  PROVE  LET all == Append(s, e)
         IN  /\ SubSeq(all, 1, Len(all) - k) = SubSeq(s, 1, Len(s) - (k - 1))
             /\ Last(Tail_(all, k)) = e /\ Front(Tail_(all, k)) = Tail_(s, k - 1)
             /\ Len(Tail_(all, k)) = k /\ Tail_(all, k) \in Seq(S)
<1> DEFINE all == Append(s, e)
           n == Len(s)
<1>1. /\ all \in Seq(S) /\ Len(all) = n + 1 /\ all[n + 1] = e
      /\ \A i \in 1 .. n : all[i] = s[i]
  BY AppendProperties
<1>2. n \in Nat /\ k \in 0 .. n + 1 /\ k - 1 \in 0 .. n /\ (n + 1) - k = n - (k - 1)
  OBVIOUS
<1>3. /\ SubSeq(all, 1, Len(all) - k) \in Seq(S) /\ Len(SubSeq(all, 1, Len(all) - k)) = Len(all) - k
      /\ \A i \in 1 .. Len(all) - k : SubSeq(all, 1, Len(all) - k)[i] = all[i]
      /\ Tail_(all, k) \in Seq(S) /\ Len(Tail_(all, k)) = k
      /\ \A i \in 1 .. k : Tail_(all, k)[i] = all[Len(all) - k + i]
  <2> HIDE DEF all, n
  <2>1. k \in 0 .. Len(all)
    BY <1>1, <1>2
  <2>2. all \in Seq(S)
    BY <1>1
  <2> QED
    BY <2>1, <2>2, Cut
<1>4. /\ SubSeq(s, 1, n - (k - 1)) \in Seq(S) /\ Len(SubSeq(s, 1, n - (k - 1))) = n - (k - 1)
      /\ \A i \in 1 .. n - (k - 1) : SubSeq(s, 1, n - (k - 1))[i] = s[i]
      /\ Tail_(s, k - 1) \in Seq(S) /\ Len(Tail_(s, k - 1)) = k - 1
      /\ \A i \in 1 .. k - 1 : Tail_(s, k - 1)[i] = s[n - (k - 1) + i]
  <2> DEFINE j == k - 1
  <2>1. j \in 0 .. Len(s)
    BY <1>2
  <2> HIDE DEF j
  <2>2. /\ SubSeq(s, 1, Len(s) - j) \in Seq(S) /\ Len(SubSeq(s, 1, Len(s) - j)) = Len(s) - j
        /\ \A i \in 1 .. Len(s) - j : SubSeq(s, 1, Len(s) - j)[i] = s[i]
        /\ Tail_(s, j) \in Seq(S) /\ Len(Tail_(s, j)) = j
        /\ \A i \in 1 .. j : Tail_(s, j)[i] = s[Len(s) - j + i]
    BY <2>1, Cut
  <2> QED
    BY <2>2 DEF j
<1> HIDE DEF all, n
<1>5. SubSeq(all, 1, Len(all) - k) = SubSeq(s, 1, n - (k - 1))
  <2>1. \A i \in 1 .. n - (k - 1) : i \in 1 .. n /\ i \in 1 .. Len(all) - k
    BY <1>1, <1>2
  <2>2. Len(all) - k = n - (k - 1)
    BY <1>1, <1>2
  <2>3. \A i \in 1 .. n - (k - 1) : SubSeq(all, 1, Len(all) - k)[i] = SubSeq(s, 1, n - (k - 1))[i]
    BY <1>1, <1>3, <1>4, <2>1
  <2> DEFINE one == SubSeq(all, 1, Len(all) - k)
             two == SubSeq(s, 1, n - (k - 1))
  <2>4. one \in Seq(S) /\ two \in Seq(S) /\ Len(one) = Len(two) /\ Len(two) = n - (k - 1)
    BY <1>3, <1>4, <2>2
  <2>5. \A i \in 1 .. Len(two) : one[i] = two[i]
    BY <2>3, <2>4
  <2> HIDE DEF one, two
  <2>6. one = two
    BY <2>4, <2>5, SeqEqual
  <2> QED
    BY <2>6 DEF one, two
<1>6. Last(Tail_(all, k)) = e
  <2>1. k \in 1 .. k /\ Len(all) - k + k = n + 1
    BY <1>1, <1>2
  <2> QED
    BY <1>1, <1>3, <2>1 DEF Last
<1>7. Front(Tail_(all, k)) = Tail_(s, k - 1)
  <2> DEFINE cut == Tail_(all, k)
  <2>0. cut \in Seq(S) /\ Len(cut) = k
    BY <1>3
  <2>1. /\ SubSeq(cut, 1, k - 1) \in Seq(S) /\ Len(SubSeq(cut, 1, k - 1)) = k - 1
        /\ \A i \in 1 .. k - 1 : SubSeq(cut, 1, k - 1)[i] = cut[i]
    <3> HIDE DEF cut
    <3>1. 1 \in 0 .. Len(cut)
      BY <1>2, <2>0
    <3> QED
      BY <2>0, <3>1, Cut
  <2>2. ASSUME NEW i \in 1 .. k - 1 PROVE cut[i] = Tail_(s, k - 1)[i]
    <3>1. /\ i \in 1 .. k /\ n - (k - 1) + i \in 1 .. n
          /\ Len(all) - k + i = n - (k - 1) + i
      BY <1>1, <1>2
    <3>2. cut[i] = all[n - (k - 1) + i]
      BY <1>3, <3>1
    <3> QED
      BY <1>1, <1>4, <3>1, <3>2
  <2>3. Front(cut) = SubSeq(cut, 1, k - 1)
    BY <2>0 DEF Front
  <2>4. \A i \in 1 .. k - 1 : SubSeq(cut, 1, k - 1)[i] = Tail_(s, k - 1)[i]
    BY <2>1, <2>2
  <2> HIDE DEF cut
  <2>5. SubSeq(cut, 1, k - 1) = Tail_(s, k - 1)
    BY <1>4, <2>1, <2>4, SeqEqual
  <2> QED
    BY <2>3, <2>5 DEF cut
<1> QED
  BY <1>3, <1>5, <1>6, <1>7 DEF all, n

\* What is in a list of members of a set is in the set.
LEMMA Members == ASSUME NEW S, NEW s \in Seq(S) PROVE ToSet(s) \subseteq S
  BY DEF ToSet

\* The dialogue up to a row is of rows up to it.
LEMMA DialogueTyped == ASSUME NEW n \in Nat PROVE Dialogue(n) \in Seq(1 .. n)
<1> DEFINE s == {i \in 1 .. n : rows[i].role # "system"}
<1>1. s \in SUBSET (1 .. n) /\ s \in SUBSET Nat /\ IsFiniteSet(s)
  <2>1. IsFiniteSet(1 .. n)
    BY FS_Interval
  <2> QED
    BY <2>1, FS_Subset
<1>2. Dialogue(n) = Ordered(s)
  BY DEF Dialogue
<1> HIDE DEF s
<1>3. Ordered(s) \in Seq(s)
  BY <1>1, OrderedRanks
<1> QED
  BY <1>1, <1>2, <1>3, SeqWiden

\* What is shown of it is the end of the dialogue, and its summary the rest.
LEMMA Shows ==
  ASSUME NEW q \in Nat, NEW D \in Seq(1 .. q), NEW c,
         NEW s, s = D \/ s = Append(D, Results), Holds(c, s)
  PROVE  /\ \E k \in 0 .. Len(D) : /\ Shown(c.verbatim) = Tail_(D, k)
                                   /\ c.summary = ToSet(SubSeq(D, 1, Len(D) - k))
         /\ c.verbatim \in Seq(0 .. q)
         /\ c.summary = {} \/ Len(c.verbatim) = Keep
<1>0. Keep \in Nat /\ Keep >= 1 /\ Len(D) \in Nat
  BY ChatTurnAssumption
<1>1. D \in Seq(0 .. q) /\ Results \in 0 .. q
  <2>1. 1 .. q \in SUBSET (0 .. q) /\ 0 \in 0 .. q
    OBVIOUS
  <2> QED
    BY <2>1, SeqWiden DEF Results
<1>2. /\ Append(D, Results) \in Seq(0 .. q) /\ Len(Append(D, Results)) = Len(D) + 1
      /\ Append(D, Results) # <<>>
      /\ Append(D, Results)[Len(D) + 1] = Results
  BY <1>1, AppendProperties
<1>3. \A i \in 1 .. Len(D) : D[i] # Results
  <2>1. \A i \in 1 .. Len(D) : D[i] \in 1 .. q
    OBVIOUS
  <2>2. 0 \notin 1 .. q
    OBVIOUS
  <2> QED
    BY <2>1, <2>2 DEF Results
<1>4. \A k \in 0 .. Len(D) : Shown(Tail_(D, k)) = Tail_(D, k)
  <2> SUFFICES ASSUME NEW k \in 0 .. Len(D) PROVE Shown(Tail_(D, k)) = Tail_(D, k)
    OBVIOUS
  <2>1. /\ Tail_(D, k) \in Seq(1 .. q) /\ Len(Tail_(D, k)) = k
        /\ \A i \in 1 .. k : Tail_(D, k)[i] = D[Len(D) - k + i]
    BY Cut
  <2>2. ASSUME Tail_(D, k) # <<>> PROVE Last(Tail_(D, k)) # Results
    <3>1. k \in 1 .. k /\ Len(D) - k + k \in 1 .. Len(D)
      <4>1. Len(Tail_(D, k)) \in Nat \ {0}
        BY <2>1, <2>2, EmptySeq
      <4> QED
        BY <1>0, <2>1, <4>1
    <3>2. Last(Tail_(D, k)) = D[Len(D) - k + k]
      BY <2>1, <3>1 DEF Last
    <3> QED
      BY <1>3, <3>1, <3>2
  <2> QED
    BY <2>2 DEF Shown
<1>5. Tail_(D, Len(D)) = D /\ ToSet(SubSeq(D, 1, Len(D) - Len(D))) = {} /\ Len(D) \in 0 .. Len(D)
  <2>1. Len(D) - Len(D) = 0 /\ Len(D) - Len(D) + 1 = 1
    BY <1>0
  <2>2. SubSeq(D, 1, 0) = <<>>
    BY SubSeqEmpty
  <2>3. SubSeq(D, 1, Len(D)) = D
    BY SubSeqFull
  <2>4. ToSet(<<>>) = {}
    BY DEF ToSet
  <2>5. Tail_(D, Len(D)) = D
    BY <2>1, <2>3 DEF Tail_
  <2>6. SubSeq(D, 1, Len(D) - Len(D)) = <<>>
    BY <2>1, <2>2
  <2>7. Len(D) \in 0 .. Len(D)
    BY <1>0
  <2> QED
    BY <2>4, <2>5, <2>6, <2>7
<1>6. CASE s = D /\ c = [summary |-> {}, verbatim |-> s]
  <2>1. Shown(c.verbatim) = Tail_(D, Len(D)) /\ c.summary = ToSet(SubSeq(D, 1, Len(D) - Len(D)))
    BY <1>4, <1>5, <1>6
  <2> QED
    BY <1>1, <1>5, <1>6, <2>1
<1>7. CASE s = Append(D, Results) /\ c = [summary |-> {}, verbatim |-> s]
  <2>1. Last(s) = Results /\ s # <<>>
    BY <1>2, <1>7 DEF Last
  <2>2. Front(s) = D
    <3>1. /\ Front(s) = SubSeq(s, 1, Len(D)) /\ \A i \in 1 .. Len(D) : s[i] = D[i] /\ s[i] \in 1 .. q
      <4>1. Len(D) + 1 - 1 = Len(D)
        BY <1>0
      <4>2. \A i \in 1 .. Len(D) : s[i] = D[i]
        BY <1>1, <1>7, AppendProperties
      <4> QED
        BY <1>2, <1>7, <4>1, <4>2 DEF Front
    <3>2. /\ SubSeq(s, 1, Len(D)) \in Seq(1 .. q)
          /\ Len(SubSeq(s, 1, Len(D))) = IF 1 <= Len(D) THEN Len(D) - 1 + 1 ELSE 0
          /\ \A i \in 1 .. Len(D) - 1 + 1 : SubSeq(s, 1, Len(D))[i] = s[1 + i - 1]
      BY <1>0, <3>1, SubSeqProperties
    <3>3. Len(SubSeq(s, 1, Len(D))) = Len(D)
      BY <1>0, <3>2
    <3>4. ASSUME NEW i \in 1 .. Len(D) PROVE SubSeq(s, 1, Len(D))[i] = D[i]
      <4>1. i \in 1 .. Len(D) - 1 + 1 /\ 1 + i - 1 = i
        BY <1>0
      <4> QED
        BY <3>1, <3>2, <4>1
    <3>5. SubSeq(s, 1, Len(D)) = D
      BY <3>2, <3>3, <3>4, SeqEqual
    <3> QED
      BY <3>1, <3>5
  <2>3. Shown(c.verbatim) = Tail_(D, Len(D)) /\ c.summary = ToSet(SubSeq(D, 1, Len(D) - Len(D)))
    BY <1>5, <1>7, <2>1, <2>2 DEF Shown
  <2> QED
    BY <1>2, <1>5, <1>7, <2>3
<1>8. CASE /\ s = D /\ Len(s) > Keep
           /\ c = [summary |-> ToSet(Older(s)), verbatim |-> Recent(s)]
  <2>1. Keep \in 0 .. Len(D)
    BY <1>0, <1>8
  <2>2. c.verbatim = Tail_(D, Keep) /\ c.summary = ToSet(SubSeq(D, 1, Len(D) - Keep))
    BY <1>8 DEF Older, Recent
  <2>3. Tail_(D, Keep) \in Seq(0 .. q) /\ Len(Tail_(D, Keep)) = Keep
    BY <1>1, <2>1, Cut
  <2> QED
    BY <1>4, <2>1, <2>2, <2>3
<1>9. CASE /\ s = Append(D, Results) /\ Len(s) > Keep
           /\ c = [summary |-> ToSet(Older(s)), verbatim |-> Recent(s)]
  <2>1. Keep <= Len(D) + 1 /\ Keep - 1 \in 0 .. Len(D)
    BY <1>0, <1>2, <1>9
  <2>2. c.verbatim = Tail_(s, Keep) /\ c.summary = ToSet(SubSeq(s, 1, Len(s) - Keep))
    BY <1>9 DEF Older, Recent
  <2>3. /\ SubSeq(s, 1, Len(s) - Keep) = SubSeq(D, 1, Len(D) - (Keep - 1))
        /\ Last(Tail_(s, Keep)) = Results /\ Front(Tail_(s, Keep)) = Tail_(D, Keep - 1)
        /\ Len(Tail_(s, Keep)) = Keep /\ Tail_(s, Keep) \in Seq(0 .. q)
    <3> DEFINE all == Append(D, Results)
    <3>1. /\ SubSeq(all, 1, Len(all) - Keep) = SubSeq(D, 1, Len(D) - (Keep - 1))
          /\ Last(Tail_(all, Keep)) = Results /\ Front(Tail_(all, Keep)) = Tail_(D, Keep - 1)
          /\ Len(Tail_(all, Keep)) = Keep /\ Tail_(all, Keep) \in Seq(0 .. q)
      BY <1>0, <1>1, <2>1, CutAppended
    <3>2. s = all
      BY <1>9
    <3> HIDE DEF all
    <3> QED
      BY <3>1, <3>2
  <2>4. Tail_(s, Keep) # <<>>
    BY <1>0, <2>3
  <2>5. Shown(c.verbatim) = Tail_(D, Keep - 1)
    BY <2>2, <2>3, <2>4 DEF Shown
  <2> QED
    BY <2>1, <2>2, <2>3, <2>5
<1> QED
  BY <1>6, <1>7, <1>8, <1>9 DEF Holds

\* So nothing of the dialogue is missing, and what is shown is its end, in order.
LEMMA Accounted ==
  ASSUME NEW q \in Nat, NEW D \in Seq(1 .. q), NEW c,
         NEW s, s = D \/ s = Append(D, Results), Holds(c, s)
  PROVE  /\ ToSet(D) = c.summary \cup ToSet(Shown(c.verbatim))
         /\ Len(Shown(c.verbatim)) <= Len(D)
         /\ Shown(c.verbatim) = Tail_(D, Len(Shown(c.verbatim)))
         /\ Len(c.verbatim) >= Keep \/ c.summary = {}
         /\ c.summary \subseteq 1 .. q /\ ToSet(c.verbatim) \subseteq 0 .. q
<1>1. PICK k \in 0 .. Len(D) : /\ Shown(c.verbatim) = Tail_(D, k)
                               /\ c.summary = ToSet(SubSeq(D, 1, Len(D) - k))
  BY Shows
<1>2. c.verbatim \in Seq(0 .. q) /\ (c.summary = {} \/ Len(c.verbatim) = Keep)
  BY Shows
<1>3. /\ SubSeq(D, 1, Len(D) - k) \in Seq(1 .. q) /\ Len(Tail_(D, k)) = k
      /\ ToSet(D) = ToSet(SubSeq(D, 1, Len(D) - k)) \cup ToSet(Tail_(D, k))
  <2> DEFINE S == 1 .. q
  <2>1. D \in Seq(S) /\ k \in 0 .. Len(D)
    OBVIOUS
  <2> HIDE DEF S
  <2>2. SubSeq(D, 1, Len(D) - k) \in Seq(S) /\ Len(Tail_(D, k)) = k
    BY <2>1, Cut
  <2>3. ToSet(D) = ToSet(SubSeq(D, 1, Len(D) - k)) \cup ToSet(Tail_(D, k))
    BY <2>1, Cut
  <2> QED
    BY <2>2, <2>3 DEF S
<1>4. c.summary \subseteq 1 .. q /\ ToSet(c.verbatim) \subseteq 0 .. q
  BY <1>1, <1>2, <1>3, Members
<1>5. Keep \in Nat /\ k <= Len(D)
  BY ChatTurnAssumption
<1>6. Len(c.verbatim) = Keep => Len(c.verbatim) >= Keep
  BY <1>5
<1> QED
  BY <1>1, <1>2, <1>3, <1>4, <1>5, <1>6

--------------------------------------------------------------------------------
(* The turns of a chat: what a step does to the lists *)

\* Rows are added and never removed, and keep their roles.
RowsGrow ==
    /\ rows' \in Seq(Rows) /\ Len(rows) <= Len(rows')
    /\ \A i \in 1 .. Len(rows) : rows'[i].role = rows[i].role

\* No step of a turn removes a row or changes who speaks in it.
LEMMA RowsGrowing ==
  ASSUME TurnTypes, NEW t \in Turns,
         RefuseAttachments(t) \/ AskQuestion(t) \/ Leave(t) \/ Work(t)
  PROVE  RowsGrow
<1>0. rows \in Seq(Rows) /\ Len(rows) \in Nat
  BY DEF TurnTypes
<1>1. CASE UNCHANGED rows
  BY <1>0, <1>1 DEF RowsGrow
<1>2. ASSUME NEW r \in Rows, Commit(r) PROVE RowsGrow
  <2>1. /\ rows' \in Seq(Rows) /\ Len(rows') = Len(rows) + 1
        /\ \A i \in 1 .. Len(rows) : rows'[i] = rows[i]
    BY <1>2, Commits
  <2> QED
    BY <1>0, <2>1 DEF RowsGrow
<1>3. CASE Complete(t)
  <2>1. /\ rows' \in Seq(Rows) /\ Len(rows') = Len(rows)
        /\ \A i \in 1 .. Len(rows) : rows'[i].role = rows[i].role
    BY <1>3, Credited
  <2> QED
    BY <1>0, <2>1 DEF RowsGrow
<1>4. ASSUME NEW role \in {"user", "assistant", "system"}, NEW body \in {"full", "part", "empty"},
             NEW by \in SUBSET Agents, Commit(Row(t, role, body, by))
      PROVE  RowsGrow
  <2>1. Row(t, role, body, by) \in Rows
    BY RowTyped
  <2> QED
    BY <1>2, <1>4, <2>1
<1>5. CASE AskQuestion(t)
  <2>1. Commit(Row(t, "user", "full", {}))
    BY <1>5 DEF AskQuestion
  <2> QED
    BY <1>4, <2>1
<1>6. CASE AnswerOnce(t)
  <2>1. Commit(Row(t, "assistant", "full", {})) \/ UNCHANGED rows
    BY <1>6 DEF AnswerOnce
  <2> QED
    BY <1>1, <1>4, <2>1
<1>7. CASE Compact(t)
  <2>1. Commit(Row(t, "system", "full", {})) \/ UNCHANGED rows
    BY <1>7 DEF Compact
  <2> QED
    BY <1>1, <1>4, <2>1
<1>8. CASE PlainEnds(t) \/ RoundsEnd(t)
  <2>1. Commit(Row(t, "assistant", Body(t), {}))
    BY <1>8 DEF PlainEnds, RoundsEnd
  <2>2. Body(t) \in {"full", "part", "empty"}
    BY DEF Body
  <2> QED
    BY <1>4, <2>1, <2>2
<1>9. CASE SynthesisSaved(t)
  <2>1. Commit(Row(t, "assistant", Body(t), answered[t]))
    BY <1>9 DEF SynthesisSaved
  <2>2. Body(t) \in {"full", "part", "empty"} /\ answered[t] \in SUBSET Agents
    BY DEF Body, TurnTypes
  <2> QED
    BY <1>4, <2>1, <2>2
<1>10. CASE RoundRaises(t) \/ TailRaises(t)
  <2>1. Commit(Row(t, "assistant", "part", {})) \/ UNCHANGED rows
    BY <1>10 DEF RoundRaises, TailRaises
  <2> QED
    BY <1>1, <1>4, <2>1
<1>11. CASE \/ RefuseAttachments(t) \/ RetrieveFails(t) \/ RefuseTeam(t) \/ RefuseAgent(t)
            \/ PlainBreaks(t) \/ RoundError(t) \/ SelectFails(t) \/ AllFailed(t)
            \/ SynthesisFails(t) \/ RelayFails(t) \/ Leave(t)
  BY <1>1, <1>11 DEF RefuseAttachments, RetrieveFails, RefuseTeam, RefuseAgent, PlainBreaks,
     RoundError, SelectFails, AllFailed, SynthesisFails, RelayFails, Leave
<1>12. CASE \/ Retrieve(t) \/ StartTeam(t) \/ StartAgent(t) \/ Chunk(t) \/ RoundTools(t)
            \/ Select(t) \/ Synthesize(t) \/ RelayAnswers(t)
  BY <1>1, <1>12 DEF Retrieve, StartTeam, StartAgent, Chunk, RoundTools, Select, Synthesize,
     RelayAnswers
<1>13. CASE \E a \in Agents : \/ MemberTools(t, a) \/ Delegate(t, a) \/ DelegateReturns(t, a)
                              \/ MemberAnswers(t, a) \/ MemberFails(t, a)
  BY <1>1, <1>13 DEF MemberTools, Delegate, DelegateReturns, MemberAnswers, MemberFails
<1> QED
  BY <1>3, <1>5, <1>6, <1>7, <1>8, <1>9, <1>10, <1>11, <1>12, <1>13 DEF Work

\* The dialogue up to the question of a turn stays what it was.
LEMMA SameDialogue ==
  ASSUME TurnTypes, RowsGrow, NEW u \in Turns, question'[u] = question[u]
  PROVE  Dialogue(question[u])' = Dialogue(question[u])
<1>1. question[u] \in Nat /\ question[u] <= Len(rows) /\ Len(rows) \in Nat
  BY DEF TurnTypes
<1>2. \A i \in 1 .. question[u] : rows'[i].role = rows[i].role
  BY <1>1 DEF RowsGrow
<1>3. {i \in 1 .. question[u] : rows'[i].role # "system"} =
      {i \in 1 .. question[u] : rows[i].role # "system"}
  BY <1>2
<1> QED
  BY <1>3 DEF Dialogue

\* Where a turn may go with the list it has.
Onward(from, to) ==
    \/ from = to
    \/ from \in AsRead /\ to \in AsRead \cup {"open", "stream", "saved"}
    \/ from = "open" /\ to = "stream"
    \/ from = "stream" /\ to = "saved"

\* A turn that keeps its list and its question keeps what is known of it.
LEMMA ListStays ==
  ASSUME TurnTypes, RowsGrow, NEW u \in Turns, Listed(u),
         context'[u] = context[u], question'[u] = question[u], Onward(stage[u], stage'[u])
  PROVE  Listed(u)'
<1>1. Dialogue(question[u])' = Dialogue(question[u])
  BY SameDialogue
<1>2. Full(u)' = Full(u) /\ Dialogue(question[u]) \in Full(u)
  BY <1>1 DEF Full
<1> DEFINE kept(c, s) == c = [summary |-> {}, verbatim |-> s]
<1>3. /\ stage[u] \in {"idle", "over"} => kept(context[u], <<>>)
      /\ stage[u] = "asked" => /\ context[u].summary = {}
                               /\ Append(context[u].verbatim, question[u]) = Dialogue(question[u])
      /\ stage[u] \in AsRead => kept(context[u], Dialogue(question[u]))
      /\ stage[u] = "open" => \E s \in Full(u) : kept(context[u], s)
      /\ stage[u] \in {"stream", "saved"} =>
             \E s \in Full(u) : Holds(context[u], s)
  BY DEF Listed
<1> SUFFICES
      /\ stage'[u] \in {"idle", "over"} => kept(context'[u], <<>>)
      /\ stage'[u] = "asked" => /\ context'[u].summary = {}
                                /\ Append(context'[u].verbatim, question'[u]) = Dialogue(question[u])'
      /\ stage'[u] \in AsRead => kept(context'[u], Dialogue(question[u])')
      /\ stage'[u] = "open" => \E s \in Full(u)' : kept(context'[u], s)
      /\ stage'[u] \in {"stream", "saved"} =>
             \E s \in Full(u)' : Holds(context'[u], s)
  BY DEF Listed
<1> HIDE DEF kept, Full
<1>4. CASE stage'[u] = stage[u]
  BY <1>1, <1>2, <1>3, <1>4
<1>5. CASE stage'[u] # stage[u]
  <2>1. /\ \/ stage[u] \in AsRead /\ stage'[u] \in AsRead \cup {"open", "stream", "saved"}
           \/ stage[u] = "open" /\ stage'[u] = "stream"
           \/ stage[u] = "stream" /\ stage'[u] = "saved"
        /\ stage'[u] \notin {"idle", "asked", "over"}
    BY <1>5 DEF Onward, AsRead
  <2>2. \A s : kept(context[u], s) => Holds(context[u], s)
    BY DEF kept, Holds
  <2>3. stage'[u] \in AsRead => kept(context'[u], Dialogue(question[u])')
    BY <1>1, <1>3, <2>1 DEF AsRead
  <2>4. stage'[u] = "open" => \E s \in Full(u)' : kept(context'[u], s)
    BY <1>2, <1>3, <2>1 DEF AsRead
  <2>5. stage'[u] \in {"stream", "saved"} => \E s \in Full(u) : Holds(context[u], s)
    BY <1>2, <1>3, <2>1, <2>2 DEF AsRead
  <2>6. stage'[u] \in {"stream", "saved"} => \E s \in Full(u)' : Holds(context'[u], s)
    BY <1>2, <2>5
  <2> QED
    BY <2>1, <2>3, <2>4, <2>6
<1> QED
  BY <1>4, <1>5

\* A step of one turn that keeps what is known of its list keeps it of all.
LEMMA OneList ==
  ASSUME TurnTypes, RowsGrow, ListsInv, ListTypes', NEW t \in Turns, Listed(t)',
         \A u \in Turns \ {t} : /\ stage'[u] = stage[u] /\ context'[u] = context[u]
                                /\ question'[u] = question[u]
  PROVE  ListsInv'
<1> SUFFICES ASSUME NEW u \in Turns \ {t} PROVE Listed(u)'
  BY DEF ListsInv
<1>1. Listed(u) /\ Onward(stage[u], stage'[u])
  BY DEF ListsInv, Onward
<1> QED
  BY <1>1, ListStays

\* A step that leaves the lists alone keeps what is known of them.
LEMMA ListsStay ==
  ASSUME TurnTypes, RowsGrow, ListsInv, NEW t \in Turns,
         UNCHANGED <<entity, context, question>>,
         way' \in [Turns -> {"none", "once", "plain", "mcp"}], round' \in [Turns -> 0 .. MaxRounds],
         \A u \in Turns \ {t} : stage'[u] = stage[u], Onward(stage[t], stage'[t])
  PROVE  ListsInv'
<1>1. ListTypes'
  BY DEF ListsInv, ListTypes
<1>2. Listed(t)'
  BY ListStays DEF ListsInv
<1> QED
  BY <1>1, <1>2, OneList

\* A turn that is over has given up its list.
LEMMA EndLists ==
  ASSUME TurnTypes, RowsGrow, ListsInv, NEW t \in Turns, NEW told, End(t, told)
  PROVE  ListsInv'
<1>0. ListTypes /\ stage \in [Turns -> Stages]
  BY DEF ListsInv, TurnTypes
<1>1. /\ entity' = entity /\ question' = question /\ way' = [way EXCEPT ![t] = "none"]
      /\ round' = [round EXCEPT ![t] = 0] /\ stage' = [stage EXCEPT ![t] = "over"]
      /\ context' = [context EXCEPT ![t] = [summary |-> {}, verbatim |-> <<>>]]
  BY DEF End, Go
<1>2. MaxRounds \in Nat /\ 0 \in 0 .. MaxRounds
  BY ChatTurnAssumption
<1>3. <<>> \in Seq(Nat)
  BY EmptySeq
<1>4. ListTypes'
  BY <1>0, <1>1, <1>2, <1>3 DEF ListTypes
<1>5. Listed(t)'
  BY <1>0, <1>1 DEF ListTypes, Listed, AsRead
<1>6. \A u \in Turns \ {t} : stage'[u] = stage[u] /\ context'[u] = context[u]
  BY <1>0, <1>1 DEF ListTypes
<1> QED
  BY <1>1, <1>4, <1>5, <1>6, OneList

\* The question follows the dialogue that was read.
LEMMA AskLists ==
  ASSUME TurnTypes, RowsGrow, ListsInv, NEW t \in Turns, AskQuestion(t) PROVE ListsInv'
<1> DEFINE n == Len(rows)
           old == {i \in 1 .. n : rows[i].role # "system"}
<1>0. ListTypes /\ Listed(t) /\ stage \in [Turns -> Stages] /\ question \in [Turns -> Nat]
  BY DEF ListsInv, TurnTypes
<1>1. /\ stage[t] = "idle" /\ Commit(Row(t, "user", "full", {}))
      /\ question' = [question EXCEPT ![t] = n + 1]
      /\ context' = [context EXCEPT ![t].verbatim = Dialogue(n)]
      /\ stage' = [stage EXCEPT ![t] = "asked"]
      /\ UNCHANGED <<entity, way, round>>
  BY DEF AskQuestion, Go
<1>2. n \in Nat
  BY DEF TurnTypes
<1>3. Dialogue(n) \in Seq(Nat)
  <2>1. Dialogue(n) \in Seq(1 .. n)
    BY <1>2, DialogueTyped
  <2> QED
    BY <1>2, <2>1, SeqWiden
<1>4. /\ Len(rows') = n + 1 /\ rows'[n + 1].role = "user"
      /\ \A i \in 1 .. n : rows'[i] = rows[i]
  <2>1. Row(t, "user", "full", {}) \in Rows /\ Row(t, "user", "full", {}).role = "user"
    BY RowTyped
  <2> QED
    BY <1>1, <2>1, Commits
<1>5. Dialogue(question[t])' = Append(Dialogue(n), n + 1)
  <2>1. {i \in 1 .. n + 1 : rows'[i].role # "system"} = old \cup {n + 1}
    <3>1. 1 .. n + 1 = (1 .. n) \cup {n + 1}
      BY <1>2
    <3> QED
      BY <1>4, <3>1
  <2>2. old \in SUBSET Nat /\ IsFiniteSet(old) /\ \A i \in old : i < n + 1
    <3>1. IsFiniteSet(1 .. n) /\ \A i \in 1 .. n : i \in Nat /\ i < n + 1
      BY <1>2, FS_Interval
    <3>2. old \in SUBSET (1 .. n)
      OBVIOUS
    <3> QED
      BY <3>1, <3>2, FS_Subset
  <2>3. Ordered(old \cup {n + 1}) = Append(Ordered(old), n + 1)
    <3> HIDE DEF old, n
    <3> QED
      BY <1>2, <2>2, OrderedGrows
  <2>4. Dialogue(n) = Ordered(old)
    BY DEF Dialogue
  <2>5. question'[t] = n + 1
    BY <1>0, <1>1
  <2>6. Dialogue(question[t])' = Ordered({i \in 1 .. question'[t] : rows'[i].role # "system"})
    BY DEF Dialogue
  <2> QED
    BY <2>1, <2>3, <2>4, <2>5, <2>6
<1>6. context[t] = [summary |-> {}, verbatim |-> <<>>]
  BY <1>0, <1>1 DEF Listed
<1>7. /\ context'[t] = [summary |-> {}, verbatim |-> Dialogue(n)] /\ stage'[t] = "asked"
      /\ question'[t] = n + 1
      /\ \A u \in Turns \ {t} : /\ stage'[u] = stage[u] /\ context'[u] = context[u]
                                /\ question'[u] = question[u]
  <2> DEFINE d == Dialogue(n)
  <2> HIDE DEF n, d
  <2>1. [context[t] EXCEPT !.verbatim = d] = [summary |-> {}, verbatim |-> d]
    BY <1>6
  <2>2. context' = [context EXCEPT ![t] = [context[t] EXCEPT !.verbatim = d]]
    BY <1>1 DEF d
  <2>3. context'[t] = [summary |-> {}, verbatim |-> d]
    BY <1>0, <2>1, <2>2 DEF ListTypes
  <2>4. \A u \in Turns \ {t} : context'[u] = context[u]
    BY <1>0, <2>2 DEF ListTypes
  <2>5. stage'[t] = "asked" /\ question'[t] = n + 1
    BY <1>0, <1>1
  <2>6. \A u \in Turns \ {t} : stage'[u] = stage[u] /\ question'[u] = question[u]
    BY <1>0, <1>1
  <2> QED
    BY <2>3, <2>4, <2>5, <2>6 DEF d
<1>8. ListTypes'
  <2> HIDE DEF n
  <2>1. context' \in [Turns -> [summary : SUBSET Nat, verbatim : Seq(Nat)]]
    BY <1>0, <1>1, <1>3 DEF ListTypes
  <2> QED
    BY <1>0, <1>1, <2>1 DEF ListTypes
<1>9. Listed(t)'
  <2>1. /\ context'[t].summary = {}
        /\ Append(context'[t].verbatim, question'[t]) = Dialogue(question[t])'
    <3> HIDE DEF n
    <3> QED
      BY <1>5, <1>7
  <2> QED
    BY <1>7, <2>1 DEF Listed, AsRead
<1> QED
  BY <1>7, <1>8, <1>9, OneList

\* The question joins the list, which is now the dialogue up to it.
LEMMA RetrieveLists ==
  ASSUME TurnTypes, RowsGrow, ListsInv, NEW t \in Turns, Retrieve(t) PROVE ListsInv'
<1>0. ListTypes /\ Listed(t) /\ stage \in [Turns -> Stages] /\ question \in [Turns -> Nat]
  BY DEF ListsInv, TurnTypes
<1>1. /\ stage[t] = "asked" /\ stage' = [stage EXCEPT ![t] = "ready"]
      /\ context' = [context EXCEPT ![t].verbatim = Append(@, question[t])]
      /\ UNCHANGED <<entity, way, round, question>>
  BY DEF Retrieve, Go
<1>2. /\ context[t] \in [summary : SUBSET Nat, verbatim : Seq(Nat)]
      /\ question[t] \in Nat /\ question'[t] = question[t]
  BY <1>0, <1>1 DEF ListTypes
<1>3. Append(context[t].verbatim, question[t]) \in Seq(Nat)
  BY <1>2, AppendProperties
<1>4. /\ context'[t] = [summary |-> {}, verbatim |-> Dialogue(question[t])]
      /\ stage'[t] = "ready"
  BY <1>0, <1>1, <1>2 DEF ListTypes, Listed
<1>5. \A u \in Turns \ {t} : stage'[u] = stage[u] /\ context'[u] = context[u]
  BY <1>0, <1>1 DEF ListTypes
<1>6. context' \in [Turns -> [summary : SUBSET Nat, verbatim : Seq(Nat)]]
  BY <1>0, <1>1, <1>2, <1>3 DEF ListTypes
<1>7. ListTypes'
  BY <1>0, <1>1, <1>6 DEF ListTypes
<1>8. Listed(t)'
  <2>1. Dialogue(question[t])' = Dialogue(question[t])
    BY <1>2, SameDialogue
  <2> QED
    BY <1>4, <2>1 DEF Listed, AsRead
<1> QED
  BY <1>1, <1>5, <1>7, <1>8, OneList

\* A list is compacted at most once.
LEMMA CompactLists ==
  ASSUME TurnTypes, RowsGrow, ListsInv, NEW t \in Turns, Compact(t) PROVE ListsInv'
<1>0. ListTypes /\ Listed(t) /\ stage \in [Turns -> Stages] /\ question \in [Turns -> Nat]
  BY DEF ListsInv, TurnTypes
<1>1. /\ stage[t] = "open" /\ stage' = [stage EXCEPT ![t] = "stream"]
      /\ UNCHANGED <<entity, way, round, question>>
  BY DEF Compact, Go, team
<1>2. stage'[t] = "stream" /\ \A u \in Turns \ {t} : stage'[u] = stage[u]
  BY <1>0, <1>1
<1>3. CASE UNCHANGED context
  <2>1. /\ way' \in [Turns -> {"none", "once", "plain", "mcp"}] /\ round' \in [Turns -> 0 .. MaxRounds]
        /\ Onward(stage[t], stage'[t])
    BY <1>0, <1>1, <1>2 DEF ListTypes, Onward
  <2> QED
    BY <1>1, <1>2, <1>3, <2>1, ListsStay
<1>4. CASE /\ Len(context[t].verbatim) > Keep + 2
           /\ context' = [context EXCEPT ![t] = Compacted(@)]
  <2>1. PICK s \in Full(t) : context[t] = [summary |-> {}, verbatim |-> s]
    BY <1>0, <1>1 DEF Listed
  <2>2. context[t] \in [summary : SUBSET Nat, verbatim : Seq(Nat)]
    BY <1>0 DEF ListTypes
  <2>3. s \in Seq(Nat) /\ Len(s) > Keep /\ Keep \in 0 .. Len(s) /\ context[t].verbatim = s
    <3>1. s \in Seq(Nat) /\ context[t].verbatim = s
      BY <2>1, <2>2
    <3>2. Len(s) > Keep + 2 /\ Len(s) \in Nat /\ Keep \in Nat
      BY <1>4, <3>1, ChatTurnAssumption
    <3> QED
      BY <3>1, <3>2
  <2>4. /\ SubSeq(s, 1, Len(s) - Keep) \in Seq(Nat) /\ Tail_(s, Keep) \in Seq(Nat)
    BY <2>3, Cut
  <2>5. Older(s) \in Seq(Nat) /\ Recent(s) \in Seq(Nat) /\ ToSet(Older(s)) \in SUBSET Nat
    <3>1. Older(s) \in Seq(Nat) /\ Recent(s) \in Seq(Nat)
      BY <2>4 DEF Older, Recent
    <3> HIDE DEF Older
    <3> QED
      BY <3>1, Members
  <2>6. /\ context'[t] = [summary |-> ToSet(Older(s)), verbatim |-> Recent(s)]
        /\ \A u \in Turns \ {t} : context'[u] = context[u]
        /\ context' \in [Turns -> [summary : SUBSET Nat, verbatim : Seq(Nat)]]
    <3>1. Compacted(context[t]) = [summary |-> ToSet(Older(s)), verbatim |-> Recent(s)]
      BY <2>1, <2>3 DEF Compacted
    <3>2. Compacted(context[t]) \in [summary : SUBSET Nat, verbatim : Seq(Nat)]
      BY <2>5, <3>1
    <3> QED
      BY <1>0, <1>4, <3>1, <3>2 DEF ListTypes
  <2>7. ListTypes'
    BY <1>0, <1>1, <2>6 DEF ListTypes
  <2>8. Full(t)' = Full(t)
    <3>1. Dialogue(question[t])' = Dialogue(question[t])
      BY <1>1, SameDialogue
    <3> QED
      BY <3>1 DEF Full
  <2>9. Listed(t)'
    BY <1>2, <2>3, <2>6, <2>8 DEF Listed, Holds, AsRead
  <2> QED
    BY <1>1, <1>2, <2>6, <2>7, <2>9, OneList
<1> QED
  BY <1>3, <1>4 DEF Compact

\* The results of the others come last in the list of the one who answers.
LEMMA RelayLists ==
  ASSUME TurnTypes, RowsGrow, ListsInv, NEW t \in Turns, RelayAnswers(t) PROVE ListsInv'
<1>0. ListTypes /\ Listed(t) /\ stage \in [Turns -> Stages]
  BY DEF ListsInv, TurnTypes
<1>1. stage[t] = "members" /\ UNCHANGED <<entity, round, question>>
  BY DEF RelayAnswers
<1>2. CASE UNCHANGED <<way, context, stage>>
  <2>1. /\ way' \in [Turns -> {"none", "once", "plain", "mcp"}] /\ round' \in [Turns -> 0 .. MaxRounds]
        /\ Onward(stage[t], stage'[t]) /\ \A u \in Turns \ {t} : stage'[u] = stage[u]
    BY <1>0, <1>1, <1>2 DEF ListTypes, Onward
  <2> QED
    BY <1>1, <1>2, <2>1, ListsStay
<1>3. CASE /\ \E w \in {"mcp", "plain"} : way' = [way EXCEPT ![t] = w]
           /\ context' = [context EXCEPT ![t].verbatim = Append(@, Results)]
           /\ stage' = [stage EXCEPT ![t] = "open"]
  <2>1. context[t] = [summary |-> {}, verbatim |-> Dialogue(question[t])]
    BY <1>0, <1>1 DEF Listed, AsRead
  <2>2. context[t] \in [summary : SUBSET Nat, verbatim : Seq(Nat)]
    BY <1>0 DEF ListTypes
  <2>3. Append(context[t].verbatim, Results) \in Seq(Nat)
    BY <2>2, AppendProperties DEF Results
  <2>4. /\ context'[t] = [summary |-> {}, verbatim |-> Append(Dialogue(question[t]), Results)]
        /\ stage'[t] = "open"
    <3> DEFINE d == Dialogue(question[t])
    <3>1. context[t] = [summary |-> {}, verbatim |-> d]
      BY <2>1
    <3> HIDE DEF d
    <3>2. [context[t] EXCEPT !.verbatim = Append(@, Results)] =
          [summary |-> {}, verbatim |-> Append(d, Results)]
      <4>1. context[t].verbatim = d /\ context[t].summary = {}
        BY <3>1
      <4>2. [context[t] EXCEPT !.verbatim = Append(@, Results)] =
            [context[t] EXCEPT !.verbatim = Append(d, Results)]
        BY <4>1
      <4> DEFINE e == Append(d, Results)
      <4> HIDE DEF e
      <4>3. [context[t] EXCEPT !.verbatim = e] = [summary |-> {}, verbatim |-> e]
        BY <3>1
      <4> QED
        BY <4>2, <4>3 DEF e
    <3>3. context'[t] = [context[t] EXCEPT !.verbatim = Append(@, Results)]
      BY <1>0, <1>3 DEF ListTypes
    <3>4. stage'[t] = "open"
      BY <1>0, <1>3
    <3> QED
      BY <3>2, <3>3, <3>4 DEF d
  <2>5. \A u \in Turns \ {t} : stage'[u] = stage[u] /\ context'[u] = context[u]
    BY <1>0, <1>3 DEF ListTypes
  <2>6. context' \in [Turns -> [summary : SUBSET Nat, verbatim : Seq(Nat)]]
    BY <1>0, <1>3, <2>2, <2>3 DEF ListTypes
  <2>7. way' \in [Turns -> {"none", "once", "plain", "mcp"}]
    BY <1>0, <1>3 DEF ListTypes
  <2>8. ListTypes'
    BY <1>0, <1>1, <2>6, <2>7 DEF ListTypes
  <2>9. Append(Dialogue(question[t]), Results) \in Full(t)'
    <3>1. Dialogue(question[t])' = Dialogue(question[t])
      BY <1>1, SameDialogue
    <3> QED
      BY <3>1 DEF Full
  <2>10. Listed(t)'
    BY <2>4, <2>9 DEF Listed, AsRead
  <2> QED
    BY <1>1, <2>5, <2>8, <2>10, OneList
<1> QED
  <2>1. CASE member[t] + 1 = Len(Team)
    <3>1. /\ way' = [way EXCEPT ![t] = IF Team[member[t] + 1] \in WithMcp THEN "mcp" ELSE "plain"]
          /\ context' = [context EXCEPT ![t].verbatim = Append(@, Results)]
          /\ stage' = [stage EXCEPT ![t] = "open"]
      BY <2>1 DEF RelayAnswers, Go
    <3>2. \E w \in {"mcp", "plain"} : way' = [way EXCEPT ![t] = w]
      BY <3>1
    <3> QED
      BY <1>3, <3>1, <3>2
  <2>2. CASE member[t] + 1 # Len(Team)
    BY <1>2, <2>2 DEF RelayAnswers
  <2> QED
    BY <2>1, <2>2

\* The other steps that are not the end leave the list alone.
LEMMA WalkLists ==
  ASSUME TurnTypes, RowsGrow, ListsInv, NEW t \in Turns,
         \/ StartAgent(t) \/ Chunk(t) \/ RoundTools(t) \/ Select(t) \/ Synthesize(t)
         \/ PlainEnds(t) \/ RoundsEnd(t) \/ SynthesisSaved(t)
         \/ \E a \in Agents : \/ MemberTools(t, a) \/ Delegate(t, a) \/ DelegateReturns(t, a)
                              \/ MemberAnswers(t, a) \/ MemberFails(t, a)
  PROVE  ListsInv'
<1>0. ListTypes /\ stage \in [Turns -> Stages]
  BY DEF ListsInv, TurnTypes
<1>1. UNCHANGED <<entity, context, question>>
  BY DEF StartAgent, Chunk, RoundTools, Select, Synthesize, PlainEnds, RoundsEnd, SynthesisSaved,
         MemberTools, Delegate, DelegateReturns, MemberAnswers, MemberFails, plan
<1>2. way' \in [Turns -> {"none", "once", "plain", "mcp"}]
  <2>1. way' = way \/ \E w \in {"once", "plain", "mcp"} : way' = [way EXCEPT ![t] = w]
    BY DEF StartAgent, Chunk, RoundTools, Select, Synthesize, PlainEnds, RoundsEnd, SynthesisSaved,
           MemberTools, Delegate, DelegateReturns, MemberAnswers, MemberFails, plan
  <2> QED
    BY <1>0, <2>1 DEF ListTypes
<1>3. round' \in [Turns -> 0 .. MaxRounds]
  <2>1. round' = round \/ (round[t] < MaxRounds /\ round' = [round EXCEPT ![t] = @ + 1])
    BY DEF StartAgent, Chunk, RoundTools, Select, Synthesize, PlainEnds, RoundsEnd, SynthesisSaved,
           MemberTools, Delegate, DelegateReturns, MemberAnswers, MemberFails, plan
  <2>2. MaxRounds \in Nat /\ round \in [Turns -> 0 .. MaxRounds]
    BY <1>0, ChatTurnAssumption DEF ListTypes
  <2> QED
    BY <2>1, <2>2
<1>4. \/ stage' = stage
      \/ \E to \in Stages : stage' = [stage EXCEPT ![t] = to] /\ Onward(stage[t], to)
  BY DEF StartAgent, Chunk, RoundTools, Select, Synthesize, PlainEnds, RoundsEnd, SynthesisSaved,
         MemberTools, Delegate, DelegateReturns, MemberAnswers, MemberFails, plan, Go, Onward,
         AsRead, Stages, Gathered
<1>5. Onward(stage[t], stage'[t]) /\ \A u \in Turns \ {t} : stage'[u] = stage[u]
  <2>1. CASE stage' = stage
    BY <2>1 DEF Onward
  <2>2. ASSUME NEW to \in Stages, stage' = [stage EXCEPT ![t] = to], Onward(stage[t], to)
        PROVE  Onward(stage[t], stage'[t]) /\ \A u \in Turns \ {t} : stage'[u] = stage[u]
    <3>1. stage'[t] = to /\ \A u \in Turns \ {t} : stage'[u] = stage[u]
      BY <1>0, <2>2
    <3> QED
      BY <2>2, <3>1
  <2> QED
    BY <1>4, <2>1, <2>2
<1> QED
  BY <1>1, <1>2, <1>3, <1>5, ListsStay

\* A team starts with the list as it was read.
LEMMA TeamLists ==
  ASSUME TurnTypes, RowsGrow, ListsInv, NEW t \in Turns, StartTeam(t) PROVE ListsInv'
<1>0. ListTypes /\ stage \in [Turns -> Stages]
  BY DEF ListsInv, TurnTypes
<1>1. stage[t] = "ready" /\ UNCHANGED <<entity, context, question, round>>
  BY DEF StartTeam
<1>2. PICK m \in {"coordinate", "route", "collaborate"} :
         /\ way' = IF m = "collaborate" /\ Len(Team) = 1
                   THEN [way EXCEPT ![t] = IF First \in WithMcp THEN "mcp" ELSE "plain"]
                   ELSE way
         /\ stage' = [stage EXCEPT ![t] = CASE m = "coordinate" -> "routing"
                                            [] m = "route" -> "members"
                                            [] OTHER -> IF Len(Team) = 1 THEN "open" ELSE "members"]
  BY DEF StartTeam, Go
<1>3. way' \in [Turns -> {"none", "once", "plain", "mcp"}]
  BY <1>0, <1>2 DEF ListTypes
<1>4. PICK to \in {"routing", "members", "open"} : stage' = [stage EXCEPT ![t] = to]
  BY <1>2
<1>5. stage'[t] = to /\ \A u \in Turns \ {t} : stage'[u] = stage[u]
  BY <1>0, <1>4
<1>6. Onward(stage[t], stage'[t])
  BY <1>1, <1>5 DEF Onward, AsRead
<1>7. round' \in [Turns -> 0 .. MaxRounds]
  BY <1>0, <1>1 DEF ListTypes
<1> QED
  BY <1>1, <1>3, <1>5, <1>6, <1>7, ListsStay

\* The ends of a turn, with an answer or without one.
LEMMA EndsLists ==
  ASSUME TurnTypes, RowsGrow, ListsInv, NEW t \in Turns,
         \/ RefuseAttachments(t) \/ RetrieveFails(t) \/ RefuseTeam(t) \/ RefuseAgent(t)
         \/ AnswerOnce(t) \/ PlainBreaks(t) \/ RoundError(t) \/ RoundRaises(t) \/ Complete(t)
         \/ TailRaises(t) \/ SelectFails(t) \/ AllFailed(t) \/ SynthesisFails(t) \/ RelayFails(t)
         \/ Leave(t)
  PROVE  ListsInv'
<1>1. \E told \in {"refused", "done", "error", "left"} : End(t, told)
  BY DEF RefuseAttachments, RetrieveFails, RefuseTeam, RefuseAgent, AnswerOnce, PlainBreaks,
         RoundError, RoundRaises, Complete, TailRaises, SelectFails, AllFailed, SynthesisFails,
         RelayFails, Leave
<1> QED
  BY <1>1, EndLists

\* Before any request there is no list.
LEMMA ListsStart == TurnsInit => ListsInv
<1> SUFFICES ASSUME TurnsInit PROVE ListsInv
  OBVIOUS
<1>1. MaxRounds \in Nat /\ 0 \in 0 .. MaxRounds
  BY ChatTurnAssumption
<1>2. <<>> \in Seq(Nat)
  BY EmptySeq
<1>3. ListTypes
  BY <1>1, <1>2 DEF TurnsInit, ListTypes
<1>4. ASSUME NEW t \in Turns PROVE Listed(t)
  <2>1. stage[t] = "idle" /\ context[t] = [summary |-> {}, verbatim |-> <<>>]
    BY DEF TurnsInit
  <2> QED
    BY <2>1 DEF Listed, AsRead
<1> QED
  BY <1>3, <1>4 DEF ListsInv

\* Every step keeps what is known of the lists.
LEMMA ListsStep == TurnsInv /\ ListsInv /\ [TurnsNext]_turnVars => ListsInv'
<1> SUFFICES ASSUME TurnsInv, ListsInv, [TurnsNext]_turnVars PROVE ListsInv'
  OBVIOUS
<1>0. TurnTypes
  BY DEF TurnsInv
<1>1. CASE UNCHANGED turnVars
  <2>1. /\ RowsGrow /\ ListTypes'
    BY <1>0, <1>1 DEF turnVars, ListsInv, ListTypes, RowsGrow, TurnTypes
  <2>2. ASSUME NEW u \in Turns PROVE Listed(u)'
    <3>1. Listed(u) /\ context'[u] = context[u] /\ question'[u] = question[u]
          /\ Onward(stage[u], stage'[u])
      BY <1>1 DEF turnVars, ListsInv, Onward
    <3> QED
      BY <1>0, <2>1, <3>1, ListStays
  <2> QED
    BY <2>1, <2>2 DEF ListsInv
<1>2. CASE TurnsNext
  <2>1. PICK t \in Turns : RefuseAttachments(t) \/ AskQuestion(t) \/ Leave(t) \/ Work(t)
    BY <1>2 DEF TurnsNext
  <2>2. RowsGrow
    BY <1>0, <2>1, RowsGrowing
  <2>3. CASE AskQuestion(t)
    BY <1>0, <2>2, <2>3, AskLists
  <2>4. CASE Retrieve(t)
    BY <1>0, <2>2, <2>4, RetrieveLists
  <2>5. CASE Compact(t)
    BY <1>0, <2>2, <2>5, CompactLists
  <2>6. CASE RelayAnswers(t)
    BY <1>0, <2>2, <2>6, RelayLists
  <2>7. CASE StartTeam(t)
    BY <1>0, <2>2, <2>7, TeamLists
  <2>8. CASE \/ StartAgent(t) \/ Chunk(t) \/ RoundTools(t) \/ Select(t) \/ Synthesize(t)
             \/ PlainEnds(t) \/ RoundsEnd(t) \/ SynthesisSaved(t)
             \/ \E a \in Agents : \/ MemberTools(t, a) \/ Delegate(t, a) \/ DelegateReturns(t, a)
                                  \/ MemberAnswers(t, a) \/ MemberFails(t, a)
    BY <1>0, <2>2, <2>8, WalkLists
  <2>9. CASE \/ RefuseAttachments(t) \/ RetrieveFails(t) \/ RefuseTeam(t) \/ RefuseAgent(t)
             \/ AnswerOnce(t) \/ PlainBreaks(t) \/ RoundError(t) \/ RoundRaises(t) \/ Complete(t)
             \/ TailRaises(t) \/ SelectFails(t) \/ AllFailed(t) \/ SynthesisFails(t)
             \/ RelayFails(t) \/ Leave(t)
    BY <1>0, <2>2, <2>9, EndsLists
  <2> QED
    BY <2>1, <2>3, <2>4, <2>5, <2>6, <2>7, <2>8, <2>9 DEF Work
<1> QED
  BY <1>1, <1>2

\* Of every list in every session.
LEMMA ListsInvariant == TurnsSpec => []ListsInv
<1>1. ListsInv /\ TurnsInv /\ [TurnsNext]_turnVars => ListsInv'
  BY ListsStep
<1> QED
  BY <1>1, ListsStart, TurnsInvariant, PTL DEF TurnsSpec

\* What a list in use holds, whole or compacted.
LEMMA ListHeld ==
  ASSUME TurnsInv, ListsInv, NEW t \in Turns, stage[t] \notin {"idle", "asked", "over"}
  PROVE  \E s \in Full(t) : Holds(context[t], s)
<1>1. Listed(t) /\ stage[t] \in Stages
  BY DEF ListsInv, TurnsInv, TurnTypes
<1>2. stage[t] \in AsRead \cup {"open", "stream", "saved"}
  BY <1>1 DEF Stages, AsRead
<1>3. Dialogue(question[t]) \in Full(t)
  BY DEF Full
<1> HIDE DEF Full
<1> QED
  BY <1>1, <1>2, <1>3 DEF Listed, Holds

\* Whatever the length of a session, the number of its turns and what is kept verbatim, what
\* a turn's model is given is the dialogue up to its question, in order, of which the older
\* part may be a summary (_chat_sqlite, _compact_context_if_needed).
THEOREM NothingIsForgotten == TurnsSpec => []NothingForgotten
<1>1. TurnsInv /\ ListsInv => NothingForgotten
  <2> SUFFICES ASSUME TurnsInv, ListsInv, NEW t \in Turns, stage[t] \notin {"idle", "asked", "over"}
               PROVE  LET shown == Shown(context[t].verbatim)
                          owed == Dialogue(question[t])
                          n == Len(shown)
                      IN  /\ ToSet(owed) = context[t].summary \cup ToSet(shown)
                          /\ n <= Len(owed) /\ shown = Tail_(owed, n)
                          /\ Len(context[t].verbatim) >= Keep \/ context[t].summary = {}
    BY DEF NothingForgotten
  <2>1. PICK s \in Full(t) : Holds(context[t], s)
    BY ListHeld
  <2>2. question[t] \in Nat
    BY DEF TurnsInv, TurnTypes
  <2>3. Dialogue(question[t]) \in Seq(1 .. question[t])
    BY <2>2, DialogueTyped
  <2>4. s = Dialogue(question[t]) \/ s = Append(Dialogue(question[t]), Results)
    BY DEF Full
  <2> DEFINE c == context[t]
             q == question[t]
             D == Dialogue(q)
  <2>5. q \in Nat /\ D \in Seq(1 .. q) /\ (s = D \/ s = Append(D, Results)) /\ Holds(c, s)
    BY <2>1, <2>2, <2>3, <2>4
  <2> HIDE DEF c, q, D
  <2>6. /\ ToSet(D) = c.summary \cup ToSet(Shown(c.verbatim))
        /\ Len(Shown(c.verbatim)) <= Len(D)
        /\ Shown(c.verbatim) = Tail_(D, Len(Shown(c.verbatim)))
        /\ Len(c.verbatim) >= Keep \/ c.summary = {}
    BY <2>5, Accounted
  <2> QED
    BY <2>6 DEF c, q, D
<1> QED
  BY <1>1, TurnsInvariant, ListsInvariant, PTL

\* The rows, the place of every turn, its list of messages and the calls of its agents are
\* well formed in every session (_chat_sqlite).
THEOREM TurnsTypeCorrect == TurnsSpec => []TurnsTypeOK
<1>1. TurnsInv /\ ListsInv => TurnsTypeOK
  <2> SUFFICES ASSUME TurnsInv, ListsInv PROVE TurnsTypeOK
    OBVIOUS
  <2>1. TurnTypes /\ ListTypes
    BY DEF TurnsInv, ListsInv
  <2>2. \A i \in 1 .. Len(rows) : rows[i] \in Rows
    BY <2>1 DEF TurnTypes
  <2>3. ASSUME NEW t \in Turns
        PROVE  /\ context[t].summary \subseteq 1 .. Len(rows)
               /\ ToSet(context[t].verbatim) \subseteq 0 .. Len(rows)
    <3>1. question[t] \in Nat /\ question[t] <= Len(rows) /\ Len(rows) \in Nat
      BY <2>1 DEF TurnTypes
    <3>2. CASE stage[t] \in {"idle", "over"}
      <4>1. context[t] = [summary |-> {}, verbatim |-> <<>>]
        BY <3>2 DEF ListsInv, Listed
      <4> QED
        BY <4>1 DEF ToSet
    <3>3. Dialogue(question[t]) \in Seq(1 .. question[t])
      BY <3>1, DialogueTyped
    <3>4. CASE stage[t] = "asked"
      <4>1. /\ context[t].summary = {}
            /\ Append(context[t].verbatim, question[t]) = Dialogue(question[t])
        BY <3>4 DEF ListsInv, Listed
      <4>2. context[t].verbatim \in Seq(Nat)
        BY <2>1 DEF ListTypes
      <4>3. \A i \in 1 .. Len(context[t].verbatim) : context[t].verbatim[i] \in 1 .. question[t]
        <5> DEFINE v == context[t].verbatim
                   q == question[t]
                   D == Dialogue(q)
        <5>1. v \in Seq(Nat) /\ q \in Nat /\ Append(v, q) = D /\ D \in Seq(1 .. q)
          BY <3>1, <3>3, <4>1, <4>2
        <5> HIDE DEF v, q, D
        <5>2. /\ Len(D) = Len(v) + 1 /\ \A i \in 1 .. Len(v) : D[i] = v[i]
          <6>1. v \in Seq(Nat) /\ q \in Nat
            BY <5>1
          <6>2. /\ Len(Append(v, q)) = Len(v) + 1
                /\ \A i \in 1 .. Len(v) : Append(v, q)[i] = v[i]
            BY <6>1, AppendProperties
          <6> QED
            BY <5>1, <6>2
        <5>3. \A i \in 1 .. Len(v) : i \in 1 .. Len(D)
          BY <5>1, <5>2
        <5>4. \A i \in 1 .. Len(v) : v[i] \in 1 .. q
          BY <5>1, <5>2, <5>3
        <5> QED
          BY <5>4 DEF v, q
      <4>4. \A i \in 1 .. question[t] : i \in 0 .. Len(rows)
        BY <3>1
      <4> QED
        BY <4>1, <4>2, <4>3, <4>4 DEF ToSet
    <3>5. CASE stage[t] \notin {"idle", "asked", "over"}
      <4>1. PICK s \in Full(t) : Holds(context[t], s)
        BY <3>5, ListHeld
      <4>2. s = Dialogue(question[t]) \/ s = Append(Dialogue(question[t]), Results)
        BY DEF Full
      <4>3. /\ context[t].summary \subseteq 1 .. question[t]
            /\ ToSet(context[t].verbatim) \subseteq 0 .. question[t]
        <5> DEFINE c == context[t]
                   q == question[t]
                   D == Dialogue(q)
        <5>1. q \in Nat /\ D \in Seq(1 .. q) /\ (s = D \/ s = Append(D, Results)) /\ Holds(c, s)
          BY <3>1, <3>3, <4>1, <4>2
        <5> HIDE DEF c, q, D
        <5>2. c.summary \subseteq 1 .. q /\ ToSet(c.verbatim) \subseteq 0 .. q
          BY <5>1, Accounted
        <5> QED
          BY <5>2 DEF c, q
      <4>4. 1 .. question[t] \subseteq 1 .. Len(rows) /\ 0 .. question[t] \subseteq 0 .. Len(rows)
        BY <3>1
      <4> QED
        BY <4>3, <4>4
    <3> QED
      BY <3>2, <3>4, <3>5
  <2>4. \A t \in Turns : /\ question[t] \in 0 .. Len(rows) /\ round[t] \in 0 .. MaxRounds
                         /\ text[t] \in BOOLEAN /\ member[t] \in 1 .. Len(Team)
                         /\ answered[t] \subseteq Agents
    BY <2>1 DEF TurnTypes, ListTypes
  <2> QED
    BY <2>1, <2>2, <2>3, <2>4 DEF TurnsTypeOK, TurnTypes, ListTypes, Stages, Rows
<1> QED
  BY <1>1, TurnsInvariant, ListsInvariant, PTL

--------------------------------------------------------------------------------
(* The approvals of a chat *)

USE KeyOfAssumption, SitesAssumption, NoCallAssumption

--------------------------------------------------------------------------------
(* Types *)

\* A call that waits has a record, so that what it reads there is a status.
TypeInv == TypeOK /\ \A c \in Call : pc[c] = "waiting" => record[c] # "none"

\* TypeInv is inductive.
LEMMA TypeInvariant == Spec => []TypeInv
<1>1. Init => TypeInv
  BY DEF Init, TypeInv, TypeOK, Votes
<1>2. TypeInv /\ [Next]_vars => TypeInv'
  <2> SUFFICES ASSUME TypeInv, [Next]_vars
               PROVE  TypeInv'
    OBVIOUS
  <2> USE DEF TypeInv, TypeOK, Votes
  <2>1. ASSUME NEW c \in Call, CallStep(c)
        PROVE  TypeInv'
    <3>1. CASE Ask(c)
      BY <3>1 DEF Ask, CommitAndRead, reqVars
    <3>2. CASE AskInVain(c)
      BY <3>2 DEF AskInVain, reqVars
    <3>3. CASE TimeUp(c)
      BY <3>3 DEF TimeUp, reqVars
    <3>4. CASE Poll(c)
      BY <3>4 DEF Poll, Conclude, OutcomeOf, Seen, reqVars
    <3>5. CASE Settle(c)
      BY <3>5 DEF Settle, Conclude, OutcomeOf, CommitAndRead, reqVars
    <3>6. CASE Wake(c)
      BY <3>6 DEF Wake, Conclude, WakeOutcome, Refreshed, reqVars
    <3>7. CASE GiveUp(c)
      BY <3>7, SMTT(40) DEF GiveUp, Deny, Conclude, CommitAndRead, reqVars
    <3>8. CASE Close(c)
      BY <3>8 DEF Close, Deny, Conclude, reqVars
    <3> QED
      BY <2>1, <3>1, <3>2, <3>3, <3>4, <3>5, <3>6, <3>7, <3>8 DEF CallStep
  <2>2. ASSUME NEW r \in Req, ReqStep(r)
        PROVE  TypeInv'
    <3> USE DEF Answer
    <3>1. CASE Refuse(r) \/ Check(r)
      BY <3>1 DEF Refuse, Check, callVars
    <3>2. CASE Resolve(r)
      BY <3>2 DEF Resolve, SignalFor
    <3>3. CASE Write(r)
      BY <3>3 DEF Write
    <3>4. CASE Signal(r)
      BY <3>4 DEF Signal, SignalFor
    <3> QED
      BY <2>2, <3>1, <3>2, <3>3, <3>4 DEF ReqStep
  <2>3. CASE SiblingCommits \/ Drop
    BY <2>3 DEF SiblingCommits, Drop, CommitAndRead, reqVars
  <2>4. CASE Restart
    BY <2>4 DEF Restart, AtStartup
  <2>5. CASE Quiet \/ UNCHANGED vars
    BY <2>5 DEF Quiet, vars
  <2> QED
    BY <2>1, <2>2, <2>3, <2>4, <2>5 DEF Next
<1> QED
  BY <1>1, <1>2, PTL DEF Spec

\* Every variable keeps its type through every step of waiting handlers,
\* endpoints and process.
THEOREM TypeCorrect == Spec => []TypeOK
<1>1. TypeInv => TypeOK
  BY DEF TypeInv
<1> QED
  BY <1>1, TypeInvariant, PTL

--------------------------------------------------------------------------------
(* What a gate needs *)

\* The loops that wait for their event alone take whatever they then read for a
\* decision: no two of their calls may share a key.
InlineKeys ==
    (\E s \in Sites : s.path = "inline") => \A c, d \in Call : KeyOf[c] = KeyOf[d] => c = d

Approved(c) == \E r \in Cast(c) : vote[r] = "approved"

\* An approval, in the store or in the session's copy, was written by a request;
\* a copy is never ahead of the store.
ApprovalIsCast ==
    \A c \in Call :
        /\ record[c] = "approved" \/ cached[c] = "approved" => Approved(c)
        /\ cached[c] \in Votes => record[c] # "pending"

\* An event under a key is that of a call with that key, a request has met a call
\* that asked, and where only the event is waited for it is set after the record.
SignalIsAnswered ==
    /\ \A c \in Call : pc[c] = "idle" => record[c] = "none" /\ cached[c] = "expired" /\ ~signalled[c]
    /\ \A k \in Key : bySession[k] # NoCall => KeyOf[bySession[k]] = k
    /\ byId = {} \/ Polls
    /\ \A k \in Key : bySession[k] # NoCall => pc[bySession[k]] # "idle"
    /\ \A r \in Req : reqState[r] # "new" => pc[target[r]] # "idle"
    /\ \A r \in Req : reqState[r] = "written" => record[target[r]] \in Votes
    /\ ~Polls => \A c \in Call : signalled[c] => record[c] \in Votes

\* A call has an outcome exactly when it is done.
OutcomeWhenDone == \A c \in Call : outcome[c] = "none" <=> pc[c] # "done"

GateInv ==
    /\ TypeInv /\ ApprovalIsCast /\ SignalIsAnswered /\ OutcomeWhenDone
    /\ GateNeedsApproval /\ NoQuestionLeftOpen

\* A cast vote stays cast.
LEMMA CastGrows ==
  ASSUME TypeOK, [Next]_vars, NEW c \in Call, NEW r \in Cast(c)
  PROVE  r \in Cast(c)' /\ vote'[r] = vote[r]
<1> USE DEF TypeOK, Cast, reqVars, callVars, Answer
<1>1. ASSUME NEW x \in Call, CallStep(x)
      PROVE  r \in Cast(c)' /\ vote'[r] = vote[r]
  BY <1>1 DEF CallStep, Ask, AskInVain, TimeUp, Poll, Settle, Wake, GiveUp, Close, Conclude
<1>2. ASSUME NEW q \in Req, ReqStep(q)
      PROVE  r \in Cast(c)' /\ vote'[r] = vote[r]
  <2>1. /\ UNCHANGED <<target, vote>>
        /\ \/ reqState[q] = "written" /\ reqState' = [reqState EXCEPT ![q] = "acked"]
           \/ /\ reqState[q] \in {"new", "checked"}
              /\ \E s : reqState' = [reqState EXCEPT ![q] = s]
    BY <1>2 DEF ReqStep, Refuse, Resolve, Check, Write, Signal, Sendable
  <2> QED
    BY <2>1
<1>3. CASE SiblingCommits \/ Drop
  BY <1>3 DEF SiblingCommits, Drop
<1>4. CASE Restart
  BY <1>4 DEF Restart
<1>5. CASE Quiet \/ UNCHANGED vars
  BY <1>5 DEF Quiet, vars
<1> QED
  BY <1>1, <1>2, <1>3, <1>4, <1>5 DEF Next

\* GateInv is inductive.
LEMMA GateInvariant == ASSUME InlineKeys PROVE Spec => []GateInv
<1> USE DEF GateInv
<1>1. Init => GateInv
  BY DEF Init, TypeInv, TypeOK, ApprovalIsCast, SignalIsAnswered, OutcomeWhenDone, GateNeedsApproval,
         NoQuestionLeftOpen, Votes
<1>2. GateInv /\ TypeInv' /\ [Next]_vars => GateInv'
  <2> SUFFICES ASSUME GateInv, TypeInv', [Next]_vars
               PROVE  GateInv'
    OBVIOUS
  <2> USE DEF TypeInv, TypeOK
  <2>1. \A c \in Call : Approved(c) => Approved(c)'
    BY CastGrows DEF Approved
  <2>2. ASSUME NEW c \in Call, CallStep(c)
        PROVE  GateInv'
    <3> USE DEF Votes
    <3>0. UNCHANGED <<reqState, target, vote, route, site>>
      BY <2>2 DEF CallStep, Ask, AskInVain, TimeUp, Poll, Settle, Wake, GiveUp, Close, Conclude, reqVars
    <3>1. UNCHANGED Polls /\ \A x \in Call : Approved(x)' <=> Approved(x)
      BY <3>0 DEF Polls, Path, Approved, Cast
    <3>2. CASE Ask(c)
      BY <3>2, <3>0, <3>1, SMTT(40) DEF Ask, CommitAndRead, ApprovalIsCast, SignalIsAnswered, OutcomeWhenDone,
             GateNeedsApproval, NoQuestionLeftOpen, Approved, Polls
    <3>3. CASE AskInVain(c)
      BY <3>3, <3>0, <3>1, SMTT(40) DEF AskInVain, ApprovalIsCast, SignalIsAnswered, OutcomeWhenDone,
             GateNeedsApproval, NoQuestionLeftOpen, Approved
    <3>4. CASE TimeUp(c)
      BY <3>4, <3>0, <3>1 DEF TimeUp, ApprovalIsCast, SignalIsAnswered, OutcomeWhenDone,
             GateNeedsApproval, NoQuestionLeftOpen, Approved
    <3>5. ASSUME NEW what \in {"executed", "denied", "timed_out"}, Conclude(c, what),
                 pc[c] \in {"waiting", "closing"},
                 what = "executed" => Approved(c),
                 record'[c] \in Votes,
                 \A x \in Call : x # c => record'[x] = record[x],
                 record'[c] = "approved" => record[c] = "approved",
                 \A x \in Call : \/ cached'[x] \in {cached[x], "expired"}
                                 \/ x = c /\ cached'[c] = record[c]
          PROVE  GateInv'
      <4>1. ApprovalIsCast'
        BY <3>5, <3>1 DEF ApprovalIsCast, NoQuestionLeftOpen
      <4>2. SignalIsAnswered'
        BY <3>5, <3>0, <3>1 DEF Conclude, SignalIsAnswered
      <4>3. OutcomeWhenDone'
        BY <3>5 DEF Conclude, OutcomeWhenDone
      <4>4. GateNeedsApproval'
        BY <3>5, <3>1 DEF Conclude, GateNeedsApproval, Approved
      <4>5. NoQuestionLeftOpen'
        BY <3>5 DEF Conclude, NoQuestionLeftOpen
      <4> QED
        BY <4>1, <4>2, <4>3, <4>4, <4>5
    <3>6. CASE Poll(c)
      <4>1. CASE Seen(c) \in Votes
        BY <4>1, <3>6, <3>5 DEF Poll, Seen, OutcomeOf, ApprovalIsCast
      <4>2. CASE Seen(c) \notin Votes
        BY <4>2, <3>6, <3>0, <3>1, SMTT(40) DEF Poll, Seen, ApprovalIsCast, SignalIsAnswered, OutcomeWhenDone,
             GateNeedsApproval, NoQuestionLeftOpen, Approved
      <4> QED
        BY <4>1, <4>2
    <3>7. CASE Settle(c)
      BY <3>7, <3>5 DEF Settle, Seen, OutcomeOf, CommitAndRead, ApprovalIsCast
    <3>8. CASE Wake(c)
      BY <3>8, <3>5 DEF Wake, Refreshed, WakeOutcome, ApprovalIsCast, SignalIsAnswered
    <3>9. CASE GiveUp(c)
      <4>1. CASE Store = "sqlite"
        BY <4>1, <3>9, <3>5 DEF GiveUp, Deny, CommitAndRead
      <4>2. CASE Store # "sqlite"
        BY <4>2, <3>9, <3>0, <3>1 DEF GiveUp, ApprovalIsCast, SignalIsAnswered, OutcomeWhenDone,
             GateNeedsApproval, NoQuestionLeftOpen, Approved
      <4> QED
        BY <4>1, <4>2
    <3>10. CASE Close(c)
      BY <3>10, <3>5 DEF Close, Deny
    <3> QED
      BY <2>2, <3>2, <3>3, <3>4, <3>6, <3>7, <3>8, <3>9, <3>10 DEF CallStep
  <2>3. ASSUME NEW q \in Req, ReqStep(q)
        PROVE  GateInv'
    <3> USE DEF Votes
    <3>1. UNCHANGED <<pc, cached, bySession, byId, outcome, target, vote, route, site>>
      BY <2>3 DEF ReqStep, Refuse, Resolve, Check, Write, Signal, callVars
    <3>2. UNCHANGED Polls
      BY <3>1 DEF Polls, Path
    <3>3. /\ \/ record' = record
             \/ /\ record' = [record EXCEPT ![target[q]] = vote[q]]
                /\ pc[target[q]] # "idle" /\ q \in Cast(target[q])'
          /\ \A r \in Req : reqState'[r] # "new" => pc[target[r]] # "idle"
          /\ \A r \in Req : reqState'[r] = "written" => record'[target[r]] \in Votes
      BY <2>3, <3>1 DEF ReqStep, Refuse, Resolve, Check, Write, Signal, callVars, Answer, Sendable, Cast,
             SignalIsAnswered
    <3>4. ApprovalIsCast'
      BY <3>1, <3>3, <2>1 DEF ApprovalIsCast, Approved
    <3>5. SignalFor(q) => \A c \in Call : signalled'[c] <=>
             \/ signalled[c]
             \/ c = bySession[KeyOf[target[q]]]
             \/ c = target[q] /\ c \in byId /\ route[q] = "respond"
      BY DEF SignalFor
    <3>6. \/ UNCHANGED signalled
          \/ SignalFor(q) /\ record'[target[q]] \in Votes /\ pc[target[q]] # "idle"
      BY <2>3 DEF ReqStep, Refuse, Resolve, Check, Write, Signal, callVars, Sendable, SignalIsAnswered
    <3>7. ~Polls => \A c, d \in Call : KeyOf[c] = KeyOf[d] => c = d
      BY InlineKeys DEF InlineKeys, Polls, Path
    <3>8. \A c \in Call : record[c] \in Votes => record'[c] \in Votes
      BY <3>3
    <3>9. SignalIsAnswered'
      <4>1. ~Polls => \A c \in Call : signalled'[c] => record'[c] \in Votes
        <5>1. SUFFICES ASSUME ~Polls, NEW c \in Call, ~signalled[c], signalled'[c]
                       PROVE  record'[c] \in Votes
          BY <3>8 DEF SignalIsAnswered
        <5>2. SignalFor(q) /\ record'[target[q]] \in Votes
          BY <5>1, <3>6
        <5>3. c = bySession[KeyOf[target[q]]] \/ c = target[q]
          BY <5>1, <5>2, <3>5
        <5>4. c = target[q]
          BY <5>1, <5>3, <3>7 DEF SignalIsAnswered
        <5> QED
          BY <5>2, <5>4
      <4>2. \A c \in Call : pc[c] = "idle" => ~signalled'[c]
        BY <3>5, <3>6 DEF SignalIsAnswered
      <4> QED
        BY <4>1, <4>2, <3>1, <3>2, <3>3 DEF SignalIsAnswered
    <3> QED
      BY <3>1, <3>3, <3>4, <3>9, <2>1 DEF OutcomeWhenDone, GateNeedsApproval, NoQuestionLeftOpen, Approved
  <2>4. CASE SiblingCommits \/ Drop
    <3>1. /\ UNCHANGED <<record, signalled, outcome, reqState, target, vote, site>>
          /\ \A c \in Call : pc'[c] \in {pc[c], "dropped"} /\ (pc[c] \in {"idle", "done", "lost"} => pc'[c] = pc[c])
          /\ \A c \in Call : (pc[c] = "dropped" => pc'[c] = "dropped") /\ (pc'[c] = "idle" => pc[c] = "idle")
          /\ \A c \in Call : cached'[c] = "expired"
          /\ \/ UNCHANGED <<bySession, byId>>
             \/ bySession' = [k \in Key |-> NoCall] /\ byId' = {}
      BY <2>4 DEF SiblingCommits, Drop, CommitAndRead, reqVars, Active
    <3>2. UNCHANGED Polls /\ \A x \in Call : Approved(x)' <=> Approved(x)
      BY <3>1 DEF Polls, Path, Approved, Cast
    <3>3. ApprovalIsCast' /\ OutcomeWhenDone'
      BY <3>1, <3>2 DEF ApprovalIsCast, OutcomeWhenDone, Votes
    <3>4. SignalIsAnswered'
      BY <3>1, <3>2 DEF SignalIsAnswered
    <3>5. GateNeedsApproval' /\ NoQuestionLeftOpen'
      BY <3>1, <3>2 DEF GateNeedsApproval, NoQuestionLeftOpen, Approved
    <3> QED
      BY <3>3, <3>4, <3>5
  <2>5. CASE Restart
    <3>1. UNCHANGED Polls
      BY <2>5 DEF Restart, Polls, Path
    <3>2. \A r \in Req : (reqState'[r] # "new" => reqState[r] # "new") /\ reqState'[r] # "written"
      BY <2>5 DEF Restart
    <3>3. \A c \in Call :
             /\ record'[c] # "pending"
             /\ record'[c] = "approved" => record[c] = "approved"
             /\ record[c] \in Votes => record'[c] \in Votes
             /\ pc'[c] = "done" <=> pc[c] = "done"
             /\ pc'[c] # "idle"
             /\ cached'[c] = "expired"
      BY <2>5 DEF Restart, AtStartup, Votes
    <3>4. UNCHANGED <<signalled, outcome, target, vote>> /\ bySession' = [k \in Key |-> NoCall] /\ byId' = {}
      BY <2>5 DEF Restart
    <3>5. ApprovalIsCast' /\ OutcomeWhenDone'
      BY <3>3, <3>4, <2>1 DEF ApprovalIsCast, OutcomeWhenDone, Votes
    <3>6. SignalIsAnswered'
      BY <3>1, <3>2, <3>3, <3>4 DEF SignalIsAnswered
    <3>7. GateNeedsApproval' /\ NoQuestionLeftOpen'
      BY <3>3, <3>4, <2>1 DEF GateNeedsApproval, NoQuestionLeftOpen, Approved
    <3> QED
      BY <3>5, <3>6, <3>7
  <2>6. CASE Quiet \/ UNCHANGED vars
    <3>1. UNCHANGED vars
      BY <2>6 DEF Quiet
    <3> QED
      BY <3>1, <2>1 DEF vars, ApprovalIsCast, SignalIsAnswered, OutcomeWhenDone,
             GateNeedsApproval, NoQuestionLeftOpen, Approved, Polls, Path, Cast, Votes
  <2> QED
    BY <2>2, <2>3, <2>4, <2>5, <2>6 DEF Next
<1> QED
  BY <1>1, <1>2, TypeInvariant, PTL DEF Spec

\* No tool call is executed without a recorded approval of its own, and none ends
\* with its question open, whatever the keys of calls that poll the record.
THEOREM GateSafe == ASSUME InlineKeys PROVE Spec => [](GateNeedsApproval /\ NoQuestionLeftOpen)
<1>1. GateInv => GateNeedsApproval /\ NoQuestionLeftOpen
  BY DEF GateInv
<1> QED
  BY <1>1, GateInvariant, PTL
--------------------------------------------------------------------------------
(* SQLite: what the record says is what happened *)

\* A request is answered in the step that checks the record; the copy in the
\* session of a call that waits is open or up to date; a confirmed denial stands.
SqliteInv ==
    Store = "sqlite" =>
        /\ \A r \in Req : reqState[r] \in {"new", "acked", "refused"}
        /\ \A c \in Call : pc[c] = "waiting" /\ cached[c] \in Votes => cached[c] = record[c]
        /\ \A c \in Call : pc[c] # "closing"
        /\ \A r \in Req : reqState[r] = "acked" /\ vote[r] = "denied" => record[target[r]] = "denied"
        /\ RecordTellsOutcome

\* With the SQLite store the record of a call that is over tells what became of
\* it, and no call is executed against a confirmed denial, not even where the
\* waiting handler reads a status that is out of date.
THEOREM RecordHonest == ASSUME InlineKeys PROVE Spec => [](RecordTellsOutcome /\ DenialStops)
<1> USE DEF GateInv, TypeInv, TypeOK, Votes
<1>1. Init => SqliteInv
  BY DEF Init, SqliteInv, RecordTellsOutcome
<1>2. GateInv /\ GateInv' /\ SqliteInv /\ [Next]_vars => SqliteInv'
  <2> SUFFICES ASSUME GateInv, GateInv', SqliteInv, [Next]_vars, Store' = "sqlite"
               PROVE  SqliteInv'
    BY DEF SqliteInv
  <2>0. site' = site /\ Store = "sqlite"
    BY DEF Next, CallStep, ReqStep, Ask, AskInVain, TimeUp, Poll, Settle, Wake, GiveUp, Close, Conclude,
           Refuse, Resolve, Check, Write, Signal, SiblingCommits, Drop, Restart, Quiet, vars, reqVars, Store
  <2> USE DEF SqliteInv, RecordTellsOutcome
  <2>1. ASSUME NEW c \in Call, CallStep(c)
        PROVE  SqliteInv'
    <3>0. UNCHANGED <<reqState, target, vote>>
      BY <2>1 DEF CallStep, Ask, AskInVain, TimeUp, Poll, Settle, Wake, GiveUp, Close, Conclude, reqVars
    <3>1. CASE Ask(c)
      BY <3>1, <2>0, <3>0 DEF Ask, CommitAndRead, SignalIsAnswered
    <3>2. CASE AskInVain(c)
      BY <3>2, <2>0 DEF AskInVain, WaitRaises
    <3>3. CASE TimeUp(c)
      BY <3>3, <2>0, <3>0 DEF TimeUp
    <3>4. ASSUME NEW what \in {"executed", "denied", "timed_out"}, Conclude(c, what), pc[c] = "waiting",
                 \A x \in Call : x # c => record'[x] = record[x],
                 record'[c] = IF what = "executed" THEN "approved" ELSE "denied",
                 record[c] = "denied" => record'[c] = "denied",
                 \A x \in Call : x # c => cached'[x] \in {cached[x], "expired"}
          PROVE  SqliteInv'
      BY <3>4, <2>0, <3>0 DEF Conclude
    <3>5. CASE Poll(c)
      <4>1. CASE Seen(c) \in Votes
        BY <4>1, <3>5, <3>4, <2>0 DEF Poll, Seen, OutcomeOf
      <4>2. CASE Seen(c) \notin Votes
        BY <4>2, <3>5, <2>0, <3>0 DEF Poll, Seen
      <4> QED
        BY <4>1, <4>2
    <3>6. CASE Settle(c)
      BY <3>6, <3>4, <2>0 DEF Settle, Seen, OutcomeOf, CommitAndRead
    <3>7. CASE Wake(c)
      BY <3>7, <3>4, <2>0 DEF Wake, Refreshed, WakeOutcome, SignalIsAnswered
    <3>8. CASE GiveUp(c)
      BY <3>8, <3>4, <2>0 DEF GiveUp, Deny, CommitAndRead
    <3>9. CASE Close(c)
      BY <3>9, <2>0 DEF Close
    <3> QED
      BY <2>1, <3>1, <3>2, <3>3, <3>5, <3>6, <3>7, <3>8, <3>9 DEF CallStep
  <2>2. ASSUME NEW q \in Req, ReqStep(q)
        PROVE  SqliteInv'
    <3>1. CASE Refuse(q)
      BY <3>1, <2>0 DEF Refuse, Answer, callVars
    <3>2. CASE Resolve(q)
      <4>1. record[target[q]] = "pending" /\ cached[target[q]] \notin Votes /\ pc[target[q]] # "done"
        BY <3>2 DEF Resolve, IsPending, ApprovalIsCast, NoQuestionLeftOpen
      <4>2. \A r \in Req : reqState[r] = "acked" /\ vote[r] = "denied" => target[r] # target[q]
        BY <4>1, <2>0
      <4> QED
        BY <3>2, <4>1, <4>2, <2>0 DEF Resolve, Answer
    <3>3. CASE Check(q) \/ Write(q) \/ Signal(q)
      BY <3>3, <2>0 DEF Check, Write, Signal
    <3> QED
      BY <2>2, <3>1, <3>2, <3>3 DEF ReqStep
  <2>3. CASE SiblingCommits \/ Drop
    BY <2>3, <2>0 DEF SiblingCommits, Drop, CommitAndRead, reqVars, Active
  <2>4. CASE Restart
    <3>1. \A c \in Call : record[c] # "pending" => record'[c] = record[c]
      BY <2>4 DEF Restart, AtStartup
    <3>2. \A r \in Req : reqState'[r] = reqState[r]
      BY <2>4, <2>0 DEF Restart
    <3>3. \A c \in Call : pc'[c] \in {"done", "lost"} /\ (pc'[c] = "done" => pc[c] = "done")
      BY <2>4 DEF Restart
    <3> QED
      BY <2>4, <2>0, <3>1, <3>2, <3>3 DEF Restart, NoQuestionLeftOpen
  <2>5. CASE Quiet \/ UNCHANGED vars
    BY <2>5, <2>0 DEF Quiet, vars
  <2> QED
    BY <2>1, <2>2, <2>3, <2>4, <2>5 DEF Next
<1>3. GateInv /\ SqliteInv => RecordTellsOutcome /\ DenialStops
  <2> SUFFICES ASSUME GateInv, SqliteInv PROVE RecordTellsOutcome /\ DenialStops
    OBVIOUS
  <2>1. RecordTellsOutcome
    BY DEF SqliteInv, RecordTellsOutcome
  <2>2. DenialStops
    BY DEF SqliteInv, RecordTellsOutcome, DenialStops, OutcomeWhenDone
  <2> QED
    BY <2>1, <2>2
<1> QED
  BY <1>1, <1>2, <1>3, GateInvariant, PTL DEF Spec
--------------------------------------------------------------------------------
(* Refusals *)

Denied(c) == \E r \in Cast(c) : vote[r] = "denied"

\* A call that still waits has a "denied" record only if somebody denied.
HonestInv ==
    /\ ~Stale => \A c \in Call :
         /\ pc[c] = "waiting" => ~Polls
         /\ pc[c] = "waiting" /\ record[c] = "denied" => Denied(c)
         /\ pc[c] = "closing" => late[c]
    /\ RefusalHonest

\* Where the waiting handler reads the record afresh, the model is told "denied"
\* in time only if somebody denied.
THEOREM RefusalsAreHonest ==
  ASSUME InlineKeys
  PROVE  Spec => []RefusalHonest
<1> USE DEF GateInv, TypeInv, TypeOK, Votes
<1>1. Init => HonestInv
  BY DEF Init, HonestInv, RefusalHonest
<1>2. GateInv /\ GateInv' /\ HonestInv /\ [Next]_vars => HonestInv'
  <2>0. [Next]_vars => site' = site
    BY DEF Next, CallStep, Ask, AskInVain, TimeUp, Poll, Settle, Wake, GiveUp, Close, Conclude, ReqStep,
           Refuse, Resolve, Check, Write, Signal, SiblingCommits, Drop, Restart, Quiet, vars, reqVars
  <2> SUFFICES ASSUME GateInv, GateInv', HonestInv, [Next]_vars, ~Stale, ~Stale'
               PROVE  HonestInv'
    BY <2>0 DEF HonestInv, RefusalHonest, Stale, Polls, WaitRaises, Path, Store
  <2>1. \A c \in Call : Denied(c) => Denied(c)'
    BY CastGrows DEF Denied
  <2> USE DEF HonestInv
  <2>3. ASSUME UNCHANGED <<site, late, outcome>>,
               \A c \in Call : pc'[c] = "waiting" => pc[c] = "waiting",
               \A c \in Call : pc'[c] = "closing" => pc[c] = "closing",
               \A c \in Call : pc'[c] = "waiting" /\ record'[c] = "denied" => record[c] = "denied" \/ Denied(c)'
        PROVE  HonestInv'
    BY <2>3, <2>1 DEF RefusalHonest, Denied, Polls, Path
  <2>4. ASSUME NEW c \in Call, CallStep(c)
        PROVE  HonestInv'
    <3>0. UNCHANGED <<reqState, target, vote, site>>
      BY <2>4 DEF CallStep, Ask, AskInVain, TimeUp, Poll, Settle, Wake, GiveUp, Close, Conclude, reqVars
    <3>1. UNCHANGED Polls /\ \A x \in Call : Denied(x)' <=> Denied(x)
      BY <3>0 DEF Polls, Path, Denied, Cast
    <3>2. CASE Ask(c)
      <4>1. ~Polls
        BY <3>2 DEF Ask, Stale, Polls
      <4>2. UNCHANGED <<late, outcome>>
        BY <3>2 DEF Ask
      <4>3. \A x \in Call :
               /\ x # c => pc'[x] = pc[x] /\ record'[x] = record[x]
               /\ x = c => pc'[x] = "waiting" /\ record'[x] = "pending"
        BY <3>2 DEF Ask
      <4>4. RefusalHonest'
        BY <4>2, <3>1 DEF RefusalHonest, Denied
      <4>5. \A x \in Call : pc'[x] = "waiting" => ~Polls'
        BY <4>1, <3>1
      <4>6. \A x \in Call : pc'[x] = "waiting" /\ record'[x] = "denied" => Denied(x)'
        BY <4>3, <3>1
      <4>7. \A x \in Call : pc'[x] = "closing" => late'[x]
        BY <4>2, <4>3
      <4> QED
        BY <4>4, <4>5, <4>6, <4>7
    <3>3. CASE AskInVain(c)
      BY <3>3, <3>1, SMTT(20) DEF AskInVain, RefusalHonest, Denied
    <3>4. CASE TimeUp(c)
      <4>1. UNCHANGED <<pc, record, outcome>> /\ late' = [late EXCEPT ![c] = TRUE]
        BY <3>4 DEF TimeUp
      <4>2. \A x \in Call : late[x] => late'[x]
        BY <4>1
      <4> QED
        BY <4>1, <4>2, <3>1 DEF RefusalHonest, Denied
    <3>5. CASE Poll(c) \/ Settle(c)
      BY <3>5 DEF Poll, Settle
    <3>6. ASSUME NEW what \in {"executed", "denied", "timed_out"}, Conclude(c, what),
                 what = "denied" => Denied(c),
                 \A x \in Call : x # c => record'[x] = record[x]
          PROVE  HonestInv'
      <4>1. UNCHANGED late /\ outcome' = [outcome EXCEPT ![c] = what]
        BY <3>6 DEF Conclude
      <4>2. \A x \in Call : pc'[x] \in {"waiting", "closing"} => x # c /\ pc'[x] = pc[x]
        BY <3>6 DEF Conclude
      <4>3. RefusalHonest'
        BY <4>1, <3>6, <3>1 DEF RefusalHonest, Denied
      <4> QED
        BY <4>1, <4>2, <4>3, <3>6, <3>1
    <3>7. CASE Wake(c)
      BY <3>7, <3>6 DEF Wake, Refreshed, WakeOutcome
    <3>8. CASE GiveUp(c)
      <4>1. CASE Store = "sqlite"
        BY <4>1, <3>8, <3>6 DEF GiveUp, Deny
      <4>2. CASE Store # "sqlite"
        <5>1. late[c] /\ pc' = [pc EXCEPT ![c] = "closing"] /\ UNCHANGED <<record, late, outcome>>
          BY <4>2, <3>8 DEF GiveUp
        <5>2. \A x \in Call : /\ pc'[x] = "waiting" => pc[x] = "waiting"
                              /\ pc'[x] = "closing" => late'[x]
          BY <5>1
        <5>3. RefusalHonest'
          BY <5>1, <3>1 DEF RefusalHonest, Denied
        <5> QED
          BY <5>1, <5>2, <5>3, <3>1
      <4> QED
        BY <4>1, <4>2
    <3>9. CASE Close(c)
      BY <3>9, <3>6 DEF Close, Deny
    <3> QED
      BY <2>4, <3>2, <3>3, <3>4, <3>5, <3>7, <3>8, <3>9 DEF CallStep
  <2>5. ASSUME NEW q \in Req, ReqStep(q)
        PROVE  HonestInv'
    <3>1. UNCHANGED <<pc, late, outcome, target, vote, site>>
      BY <2>5 DEF ReqStep, Refuse, Resolve, Check, Write, Signal, callVars
    <3>2. \/ record' = record
          \/ record' = [record EXCEPT ![target[q]] = vote[q]] /\ q \in Cast(target[q])'
      BY <2>5, <3>1 DEF ReqStep, Refuse, Resolve, Check, Write, Signal, callVars, Answer, Sendable, Cast
    <3>3. \A c \in Call : record'[c] = "denied" => record[c] = "denied" \/ Denied(c)'
      BY <3>1, <3>2 DEF Denied
    <3> QED
      BY <3>1, <3>3, <2>3
  <2>6. CASE SiblingCommits \/ Drop
    BY <2>6, <2>3 DEF SiblingCommits, Drop, reqVars
  <2>7. CASE Restart
    BY <2>7, <2>3 DEF Restart
  <2>8. CASE Quiet \/ UNCHANGED vars
    BY <2>8, <2>3 DEF Quiet, vars
  <2> QED
    BY <2>4, <2>5, <2>6, <2>7, <2>8 DEF Next
<1>3. HonestInv => RefusalHonest
  BY DEF HonestInv
<1> QED
  BY <1>1, <1>2, <1>3, GateInvariant, PTL DEF Spec

--------------------------------------------------------------------------------
(* Refinement *)

GateOf(c) == CASE outcome[c] = "none" -> "shut"
               [] outcome[c] = "executed" -> "open"
               [] OTHER -> "refused"

\* A call that ends opens or refuses its gate.
LEMMA ConcludeRefines ==
  ASSUME TypeOK, NEW c \in Call, NEW what \in {"executed", "denied", "timed_out"},
         outcome[c] = "none", Conclude(c, what), what = "executed" => Approved(c)
  PROVE  Gates!Open(c) \/ Gates!Refuse(c)
<1>1. UNCHANGED <<reqState, target, vote>>
  BY DEF Conclude, reqVars
<1>2. [x \in Call |-> {vote[r] : r \in Cast(x)}]' = [x \in Call |-> {vote[r] : r \in Cast(x)}]
  BY <1>1 DEF Cast
<1>3. \A x \in Call : outcome'[x] = IF x = c THEN what ELSE outcome[x]
  BY DEF Conclude, TypeOK
<1>4. GateOf(c) = "shut"
  BY DEF GateOf
<1>5. CASE what = "executed"
  <2>1. \A x \in Call : GateOf(x)' = IF x = c THEN "open" ELSE GateOf(x)
    BY <1>3, <1>5 DEF GateOf
  <2>2. "approved" \in {vote[r] : r \in Cast(c)}
    BY <1>5 DEF Approved
  <2> QED
    BY <2>1, <2>2, <1>2, <1>4 DEF Gates!Open, GateOf
<1>6. CASE what # "executed"
  <2>1. \A x \in Call : GateOf(x)' = IF x = c THEN "refused" ELSE GateOf(x)
    BY <1>3, <1>6 DEF GateOf
  <2> QED
    BY <2>1, <1>2, <1>4 DEF Gates!Refuse, GateOf
<1> QED
  BY <1>5, <1>6

\* The tool calls that need an approval implement the gates of HumanGate.
THEOREM CallsAreGates == ASSUME InlineKeys PROVE Spec => ImplementsGate
<1>1. Init => Gates!Init
  <2> SUFFICES ASSUME Init PROVE Gates!Init
    OBVIOUS
  <2>1. \A c \in Call : outcome[c] = "none" /\ Cast(c) = {}
    BY DEF Init, Cast
  <2> QED
    BY <2>1 DEF Gates!Init
<1>2. GateInv /\ GateInv' /\ [Next]_vars => [Gates!Next]_(Gates!vars)
  <2> SUFFICES ASSUME GateInv, GateInv', [Next]_vars
               PROVE  Gates!Next \/ UNCHANGED Gates!vars
    OBVIOUS
  <2> USE DEF GateInv, TypeInv
  <2>0. ASSUME UNCHANGED <<outcome, vote>>, \A c \in Call : Cast(c)' = Cast(c)
        PROVE  UNCHANGED Gates!vars
    BY <2>0 DEF Gates!vars
  <2>1. ASSUME NEW c \in Call, CallStep(c)
        PROVE  Gates!Next \/ UNCHANGED Gates!vars
    <3>0. UNCHANGED <<reqState, target, vote>>
      BY <2>1 DEF CallStep, Ask, AskInVain, TimeUp, Poll, Settle, Wake, GiveUp, Close, Conclude, reqVars
    <3>1. CASE UNCHANGED outcome
      BY <3>0, <3>1, <2>0 DEF Cast
    <3>2. ASSUME NEW what \in {"executed", "denied", "timed_out"}, Conclude(c, what), pc[c] # "done"
          PROVE  Gates!Next
      <4>1. outcome[c] = "none"
        BY <3>2 DEF OutcomeWhenDone
      <4>2. what = "executed" => Approved(c)'
        BY <3>2 DEF Conclude, TypeOK, GateNeedsApproval, Approved
      <4>3. Approved(c)' => Approved(c)
        BY <3>0 DEF Approved, Cast
      <4> QED
        BY <3>2, <4>1, <4>2, <4>3, ConcludeRefines DEF Gates!Next
    <3>3. CASE Poll(c) \/ Settle(c) \/ Wake(c) \/ GiveUp(c) \/ Close(c)
      <4>1. \/ UNCHANGED outcome
            \/ \E what \in {"executed", "denied", "timed_out"} : Conclude(c, what) /\ pc[c] # "done"
        BY <3>3 DEF Poll, Settle, Wake, GiveUp, Close, OutcomeOf, WakeOutcome
      <4> QED
        BY <4>1, <3>1, <3>2
    <3> QED
      BY <2>1, <3>1, <3>3 DEF CallStep, Ask, AskInVain, TimeUp
  <2>2. ASSUME NEW q \in Req, ReqStep(q)
        PROVE  Gates!Next \/ UNCHANGED Gates!vars
    <3> USE DEF Answer, TypeOK
    <3>1. CASE Refuse(q) \/ Check(q) \/ Signal(q)
      <4>1. UNCHANGED <<outcome, target, vote>>
        BY <3>1 DEF Refuse, Check, Signal, callVars
      <4>2. \A r \in Req : reqState'[r] \in {"written", "acked", "unheard"}
                         <=> reqState[r] \in {"written", "acked", "unheard"}
        BY <3>1 DEF Refuse, Check, Signal, Sendable
      <4> QED
        BY <4>1, <4>2, <2>0 DEF Cast
    <3>2. CASE Resolve(q) \/ Write(q)
      <4>1. UNCHANGED <<outcome, target, vote>>
        BY <3>2 DEF Resolve, Write
      <4>2. \A r \in Req : reqState'[r] \in {"written", "acked", "unheard"}
                         <=> r = q \/ reqState[r] \in {"written", "acked", "unheard"}
        BY <3>2 DEF Resolve, Write, Sendable
      <4>3. \A c \in Call : Cast(c)' = IF c = target[q] THEN Cast(c) \cup {q} ELSE Cast(c)
        BY <4>1, <4>2 DEF Cast
      <4>4. \A c \in Call : {vote[r] : r \in Cast(c)}' =
               IF c = target[q] THEN {vote[r] : r \in Cast(c)} \cup {vote[q]}
                                ELSE {vote[r] : r \in Cast(c)}
        BY <4>1, <4>3
      <4>5. [c \in Call |-> {vote[r] : r \in Cast(c)}]'
             = [[c \in Call |-> {vote[r] : r \in Cast(c)}] EXCEPT ![target[q]] = @ \cup {vote[q]}]
        BY <4>4
      <4>6. target[q] \in Call /\ vote[q] \in Gates!Answers
        BY DEF Gates!Answers, Votes
      <4>7. \E g \in Call : \E a \in Gates!Answers : Gates!Say(g, a)
        <5> DEFINE S == [c \in Call |-> {vote[r] : r \in Cast(c)}]
                   G == [c \in Call |-> GateOf(c)]
        <5>1. G' = G /\ S' = [S EXCEPT ![target[q]] = @ \cup {vote[q]}]
          BY <4>1, <4>5 DEF GateOf
        <5> HIDE DEF S, G
        <5>2. \E g \in Call : \E a \in Gates!Answers : S' = [S EXCEPT ![g] = @ \cup {a}] /\ G' = G
          BY <5>1, <4>6
        <5> QED
          BY <5>2 DEF Gates!Say, S, G, GateOf
      <4> QED
        BY <4>7 DEF Gates!Next
    <3> QED
      BY <2>2, <3>1, <3>2 DEF ReqStep
  <2>3. CASE SiblingCommits \/ Drop
    <3>1. UNCHANGED <<outcome, reqState, target, vote>>
      BY <2>3 DEF SiblingCommits, Drop, reqVars
    <3> QED
      BY <3>1, <2>0 DEF Cast
  <2>4. CASE Restart
    <3>1. UNCHANGED <<outcome, target, vote>>
      BY <2>4 DEF Restart
    <3>2. \A r \in Req : reqState'[r] \in {"written", "acked", "unheard"}
                       <=> reqState[r] \in {"written", "acked", "unheard"}
      BY <2>4 DEF Restart, TypeOK
    <3> QED
      BY <3>1, <3>2, <2>0 DEF Cast
  <2>5. CASE Quiet \/ UNCHANGED vars
    BY <2>5, <2>0 DEF Quiet, vars, Cast
  <2> QED
    BY <2>1, <2>2, <2>3, <2>4, <2>5 DEF Next
<1> QED
  BY <1>1, <1>2, GateInvariant, PTL DEF Spec, ImplementsGate, Gates!Spec

================================================================================
