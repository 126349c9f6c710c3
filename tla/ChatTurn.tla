------------------------------ MODULE ChatTurn ------------------------------
(***************************************************************************)
(* The turns of one chat session over the relational store (_chat_sqlite   *)
(* and the generators it hands to the event stream): the history a turn    *)
(* reads, the context compaction, the two streaming loops, the blocking    *)
(* reply, and the three team modes with their retries and delegations.     *)
(* Several turns of one session may run at the same time, and their        *)
(* clients may leave.  A model call answers, streams, raises or reports an *)
(* error as it likes.                                                      *)
(***************************************************************************)
EXTENDS Naturals, Sequences, FiniteSets, SequencesExt

CONSTANTS Turns,        \* chat requests of the session
          Team,         \* agents_with_providers, in order
          WithMcp,      \* the agents that have MCP servers
          Keep,         \* _COMPACTION_KEEP_RECENT (10)
          MaxRounds,    \* MAX_TOOL_ROUNDS
          Past          \* rows of the session before these turns

ASSUME ChatTurnAssumption ==
    /\ Keep \in Nat \ {0} /\ MaxRounds \in Nat \ {0} /\ Past \in Nat
    /\ Team \in Seq(Nat) /\ Len(Team) > 0 /\ WithMcp \subseteq ToSet(Team)
    /\ \A i, j \in 1..Len(Team) : Team[i] = Team[j] => i = j  \* a query returns a row once
    /\ "before" \notin Turns                                  \* Earlier is none of them

VARIABLES
    entity,    \* session.entity_type
    rows,      \* the session's messages, in the order they were committed
    stage,        \* where each turn is
    way,       \* how it answers: once, plain or mcp
    mode,      \* agent, or the team's mode
    question,  \* the row of the turn's own question
    context,   \* the messages list given to the model: rows summarised and rows verbatim
    text,      \* full_content is not empty
    round,     \* tool rounds used
    member,    \* collaborate: the position in the team
    stack,     \* per agent: the agents in its nested calls, each with the rounds it used
    tries,     \* per agent: the attempts that failed
    answered,  \* the agents that contributed
    heard      \* what the client was told last

turnVars == <<entity, rows, stage, way, mode, question, context, text, round, member,
          stack, tries, answered, heard>>

-----------------------------------------------------------------------------
Agents == ToSet(Team)
First == Team[1]
calls == [a \in Agents |-> <<>>]
Row(t, role, body, by) == [turn |-> t, role |-> role, body |-> body, by |-> by]
Earlier == "before"
Results == 0      \* the list item that carries the results of other agents

\* Row numbers in their order: the k-th is the one with k up to it.
Ordered(s) == [k \in 1..Cardinality(s) |->
                 CHOOSE i \in s : Cardinality({j \in s : j <= i}) = k]
\* The rows with role user or assistant: compaction records are not history.
Dialogue(n) == Ordered({i \in 1..n : rows[i].role # "system"})
Tail_(s, n) == SubSeq(s, Len(s) - n + 1, Len(s))
Older_Greedy(s) == SubSeq(s, 1, Len(s) - Keep - 1)
Older(s) == SubSeq(s, 1, Len(s) - Keep)
Recent(s) == Tail_(s, Keep)

TurnsInit ==
    /\ entity \in {"agent", "team"}
    /\ rows = [i \in 1..Past |->
                 Row(Earlier, IF i % 2 = 1 THEN "user" ELSE "assistant", "full", {})]
    /\ stage = [t \in Turns |-> "idle"]
    /\ way = [t \in Turns |-> "none"]
    /\ mode = [t \in Turns |-> "none"]
    /\ question = [t \in Turns |-> 0]
    /\ context = [t \in Turns |-> [summary |-> {}, verbatim |-> <<>>]]
    /\ text = [t \in Turns |-> FALSE]
    /\ round = [t \in Turns |-> 0]
    /\ member = [t \in Turns |-> 1]
    /\ stack = [t \in Turns |-> calls]
    /\ tries = [t \in Turns |-> [a \in Agents |-> 0]]
    /\ answered = [t \in Turns |-> {}]
    /\ heard = [t \in Turns |-> "nothing"]

\* Groups of variables that most steps leave alone.
team == <<member, stack, tries, answered>>
plan == <<entity, way, mode, question, context>>

Go(t, where) == stage' = [stage EXCEPT ![t] = where]
\* The turn is over and its locals are gone.
End(t, told) ==
    /\ Go(t, "over") /\ heard' = [heard EXCEPT ![t] = told]
    /\ context' = [context EXCEPT ![t] = [summary |-> {}, verbatim |-> <<>>]]
    /\ text' = [text EXCEPT ![t] = FALSE] /\ round' = [round EXCEPT ![t] = 0]
    /\ stack' = [stack EXCEPT ![t] = calls] /\ member' = [member EXCEPT ![t] = 1]
    /\ way' = [way EXCEPT ![t] = "none"]
    /\ IF told = "done" THEN UNCHANGED <<mode, tries, answered>>
       ELSE /\ mode' = [mode EXCEPT ![t] = "none"]
            /\ tries' = [tries EXCEPT ![t] = [a \in Agents |-> 0]]
            /\ answered' = [answered EXCEPT ![t] = {}]
    /\ UNCHANGED <<entity, question>>
Commit(row) == rows' = Append(rows, row)

-----------------------------------------------------------------------------
\* The request: the history is read and the question committed in one stretch.
AskQuestion(t) ==
    /\ stage[t] = "idle"
    /\ Commit(Row(t, "user", "full", {}))
    /\ question' = [question EXCEPT ![t] = Len(rows) + 1]
    /\ context' = [context EXCEPT ![t].verbatim = Dialogue(Len(rows))]
    /\ Go(t, "asked")
    /\ UNCHANGED <<entity, way, mode, text, round, team, heard>>

\* A file that was not uploaded refuses the request before anything of it is in the session;
\* one that cannot be decoded is skipped.
RefuseAttachments(t) ==
    /\ stage[t] = "idle"
    /\ End(t, "refused")
    /\ UNCHANGED rows

\* The agent's knowledge bases are searched, which suspends the request; then the question
\* joins the list.
Retrieve(t) ==
    /\ stage[t] = "asked"
    /\ context' = [context EXCEPT ![t].verbatim = Append(@, question[t])]
    /\ Go(t, "ready")
    /\ UNCHANGED <<entity, rows, way, mode, question, text, round, team, heard>>

\* The embedding provider refuses: the request fails, its question stays.
RetrieveFails(t) ==
    /\ stage[t] = "asked" /\ entity = "agent"
    /\ End(t, "refused")
    /\ UNCHANGED rows

\* The team is loaded; it, its agents or their providers may be gone.
RefuseTeam(t) ==
    /\ stage[t] = "ready" /\ entity = "team"
    /\ End(t, "refused")
    /\ UNCHANGED rows

StartTeam(t) ==
    /\ stage[t] = "ready" /\ entity = "team"
    /\ \E m \in {"coordinate", "route", "collaborate"} :
         /\ mode' = [mode EXCEPT ![t] = m]
         /\ stack' = CASE m = "coordinate" -> stack
                       [] m = "route" -> [stack EXCEPT ![t] = [a \in Agents |-> <<<<a, 0>>>>]]
                       [] m = "collaborate" /\ Len(Team) > 1 ->
                            [stack EXCEPT ![t][First] = <<<<First, 0>>>>]
                       [] OTHER -> stack
         /\ way' = IF m = "collaborate" /\ Len(Team) = 1
                   THEN [way EXCEPT ![t] = IF First \in WithMcp THEN "mcp" ELSE "plain"]
                   ELSE way
         /\ Go(t, CASE m = "coordinate" -> "routing"
                    [] m = "route" -> "members"
                    [] OTHER -> IF Len(Team) = 1 THEN "open" ELSE "members")
    /\ UNCHANGED <<entity, rows, question, context, text, round, member, tries, answered, heard>>

\* No agent, no provider, or no API contract for a structured request.
RefuseAgent(t) ==
    /\ stage[t] = "ready" /\ entity = "agent"
    /\ End(t, "refused")
    /\ UNCHANGED rows

StartAgent(t) ==
    /\ stage[t] = "ready" /\ entity = "agent"
    /\ mode' = [mode EXCEPT ![t] = "agent"]
    /\ \E w \in {"once", "plain", "mcp"} :
         /\ way' = [way EXCEPT ![t] = w]
         /\ Go(t, IF w = "once" THEN "waiting" ELSE "open")
    /\ UNCHANGED <<entity, rows, question, context, text, round, team, heard>>

\* Without streaming: one call, one row, the row in the response.
AnswerOnce(t) ==
    /\ stage[t] = "waiting"
    /\ \/ /\ Commit(Row(t, "assistant", "full", {}))
          /\ End(t, "done")
       \/ /\ End(t, "error")
          /\ UNCHANGED rows

-----------------------------------------------------------------------------
\* Compaction. Whether the estimate passes the threshold is free; a summary that fails, or is
\* not needed, leaves the list alone; the record of it may fail to be saved.
Compacted(c) == [summary |-> c.summary \cup ToSet(Older(c.verbatim)),
                 verbatim |-> Recent(c.verbatim)]

Compact(t) ==
    /\ stage[t] = "open"
    /\ \/ UNCHANGED <<context, rows>>
       \/ /\ Len(context[t].verbatim) > Keep + 2
          /\ context' = [context EXCEPT ![t] = Compacted(@)]
          /\ Commit(Row(t, "system", "full", {})) \/ UNCHANGED rows
    /\ Go(t, "stream")
    /\ UNCHANGED <<entity, way, mode, question, text, round, team, heard>>

\* A piece of the answer reaches the client.
Chunk(t) ==
    /\ stage[t] \in {"stream", "synth"} /\ ~text[t]
    /\ way[t] = "mcp" => round[t] < MaxRounds
    /\ text' = [text EXCEPT ![t] = TRUE]
    /\ UNCHANGED <<rows, stage, plan, round, team, heard>>

Body(t) == IF text[t] THEN "full" ELSE "empty"

PlainEnds_Again(t) ==
    /\ stage[t] = "stream" /\ way[t] = "plain"
    /\ Commit(Row(t, "assistant", Body(t), {}))
    /\ UNCHANGED <<stage, plan, text, round, team, heard>>

\* Without MCP, the framework runs the tools: the stream ends, or llm.run itself fails and an
\* empty answer is saved.
PlainEnds(t) ==
    /\ stage[t] = "stream" /\ way[t] = "plain"
    /\ Commit(Row(t, "assistant", Body(t), {}))
    /\ Go(t, "saved")
    /\ UNCHANGED <<plan, text, round, team, heard>>

\* The stream raises, which returns without saving what was shown.
PlainBreaks(t) ==
    /\ stage[t] = "stream" /\ way[t] = "plain"
    /\ End(t, "error")
    /\ UNCHANGED rows

RoundTools_Forever(t) ==
    /\ stage[t] = "stream" /\ way[t] = "mcp" /\ round[t] < MaxRounds
    /\ text' = [text EXCEPT ![t] = FALSE]
    /\ UNCHANGED <<rows, stage, plan, round, team, heard>>

\* With MCP servers the loop is the application's own: a round of the model that asks for
\* tools clears what was said and is followed by another one, while rounds are left.
RoundTools(t) ==
    /\ stage[t] = "stream" /\ way[t] = "mcp" /\ round[t] < MaxRounds
    /\ round' = [round EXCEPT ![t] = @ + 1]
    /\ text' = [text EXCEPT ![t] = FALSE]
    /\ UNCHANGED <<rows, stage, plan, team, heard>>

\* A round without tool calls, or no round left: the answer, maybe empty, is saved.
RoundsEnd(t) ==
    /\ stage[t] = "stream" /\ way[t] = "mcp"
    /\ Commit(Row(t, "assistant", Body(t), {}))
    /\ Go(t, "saved")
    /\ UNCHANGED <<plan, text, round, team, heard>>

\* An error chunk ends the stream with nothing saved.
RoundError(t) ==
    /\ stage[t] = "stream" /\ way[t] = "mcp" /\ round[t] < MaxRounds
    /\ End(t, "error")
    /\ UNCHANGED rows

\* An exception of the loop saves what was said so far.
RoundRaises(t) ==
    /\ stage[t] = "stream" /\ way[t] = "mcp" /\ round[t] < MaxRounds
    /\ IF text[t] THEN Commit(Row(t, "assistant", "part", {})) ELSE UNCHANGED rows
    /\ End(t, "error")

\* message_complete and done; a collaborating team first writes its contributors to the row.
Credit(t, i) == IF rows[i].turn = t /\ rows[i].role = "assistant"
                THEN [rows[i] EXCEPT !.by = answered[t]] ELSE rows[i]
Complete(t) ==
    /\ stage[t] = "saved"
    /\ rows' = IF mode[t] = "collaborate" THEN [i \in 1..Len(rows) |-> Credit(t, i)] ELSE rows
    /\ End(t, "done")

\* What follows the save is inside the same try: when it raises, the answer is saved again.
TailRaises(t) ==
    /\ stage[t] = "saved" /\ mode[t] # "route"
    /\ IF text[t] THEN Commit(Row(t, "assistant", "part", {})) ELSE UNCHANGED rows
    /\ End(t, "error")

-----------------------------------------------------------------------------
\* coordinate: a model call picks the agent that streams the answer; an unreadable choice
\* falls back to the first.
Select(t) ==
    /\ stage[t] = "routing"
    /\ \E a \in Agents : way' = [way EXCEPT ![t] = IF a \in WithMcp THEN "mcp" ELSE "plain"]
    /\ Go(t, "open")
    /\ UNCHANGED <<entity, rows, mode, question, context, text, round, team, heard>>

SelectFails(t) ==
    /\ stage[t] = "routing"
    /\ End(t, "error")
    /\ UNCHANGED rows

\* An agent's own tool loop (_chat_with_tools): the innermost call of agent a is answered.
Working(t, a) == stage[t] = "members" /\ stack[t][a] # <<>>
Top(t, a) == stack[t][a][Len(stack[t][a])]
Pop(t, a) == [stack EXCEPT ![t][a] = Front(@)]
UseRound(s) == [s EXCEPT ![Len(s)][2] = @ + 1]

\* One round of tools; after the last one the model is asked without tools.
MemberTools(t, a) ==
    /\ Working(t, a) /\ Top(t, a)[2] < MaxRounds
    /\ stack' = [stack EXCEPT ![t][a] = UseRound(@)]
    /\ UNCHANGED <<rows, stage, plan, text, round, member, tries, answered, heard>>

\* call_teammate, offered at depth 0 to agents without MCP servers, never to the agent itself.
MayDelegate(t, a) == Len(stack[t][a]) = 1 /\ a \notin WithMcp
Delegate(t, a) ==
    /\ Working(t, a) /\ Top(t, a)[2] < MaxRounds /\ MayDelegate(t, a)
    /\ \E b \in Agents \ {a} :
         stack' = [stack EXCEPT ![t][a] = Append(UseRound(@), <<b, 0>>)]
    /\ UNCHANGED <<rows, stage, plan, text, round, member, tries, answered, heard>>

\* A delegate answers, or fails, which is an answer as well: the caller goes on.
DelegateReturns(t, a) ==
    /\ Working(t, a) /\ Len(stack[t][a]) > 1
    /\ stack' = Pop(t, a)
    /\ UNCHANGED <<rows, stage, plan, text, round, member, tries, answered, heard>>

\* route: the answer of one of the agents asked in parallel.
MemberAnswers(t, a) ==
    /\ Working(t, a) /\ Len(stack[t][a]) = 1 /\ mode[t] = "route"
    /\ stack' = Pop(t, a)
    /\ answered' = [answered EXCEPT ![t] = @ \cup {a}]
    /\ UNCHANGED <<rows, stage, plan, text, round, member, tries, heard>>

\* ... one retry of the whole attempt, after which the agent counts as failed.
MaxTries == 2
MemberFails(t, a) ==
    /\ Working(t, a) /\ Len(stack[t][a]) = 1 /\ mode[t] = "route"
    /\ tries' = [tries EXCEPT ![t][a] = @ + 1]
    /\ stack' = IF tries[t][a] + 1 < MaxTries
                THEN [stack EXCEPT ![t][a] = <<<<a, 0>>>>]
                ELSE Pop(t, a)
    /\ UNCHANGED <<rows, stage, plan, text, round, member, answered, heard>>

\* All have answered or failed. Without an answer the turn fails, else it is synthesised.
Gathered_Early(t) == /\ stage[t] = "members" /\ mode[t] = "route"
                     /\ \E a \in Agents : stack[t][a] = <<>>
Gathered(t) == /\ stage[t] = "members" /\ mode[t] = "route"
               /\ \A a \in Agents : stack[t][a] = <<>>
AllFailed(t) ==
    /\ Gathered(t) /\ answered[t] = {}
    /\ End(t, "error")
    /\ UNCHANGED rows

Synthesize(t) ==
    /\ Gathered(t) /\ answered[t] # {}
    /\ Go(t, "synth")
    /\ UNCHANGED <<rows, plan, text, round, team, heard>>

SynthesisSaved(t) ==
    /\ stage[t] = "synth"
    /\ Commit(Row(t, "assistant", Body(t), answered[t]))
    /\ Go(t, "saved")
    /\ UNCHANGED <<plan, text, round, team, heard>>

SynthesisFails(t) ==
    /\ stage[t] = "synth"
    /\ End(t, "error")
    /\ UNCHANGED rows

\* collaborate: the agents in order, each given the results so far; the last one streams.
Current(t) == Team[member[t]]
RelayAnswers(t) ==
    /\ stage[t] = "members" /\ mode[t] = "collaborate"
    /\ Len(stack[t][Current(t)]) = 1
    /\ answered' = [answered EXCEPT ![t] = @ \cup {Current(t)}]
    /\ member' = [member EXCEPT ![t] = @ + 1]
    /\ LET next == Team[member[t] + 1]
       IN  IF member[t] + 1 = Len(Team)
           THEN /\ stack' = Pop(t, Current(t))
                /\ way' = [way EXCEPT ![t] = IF next \in WithMcp THEN "mcp" ELSE "plain"]
                /\ context' = [context EXCEPT ![t].verbatim = Append(@, Results)]
                /\ Go(t, "open")
           ELSE /\ stack' = [Pop(t, Current(t)) EXCEPT ![t][next] = <<<<next, 0>>>>]
                /\ UNCHANGED <<way, context, stage>>
    /\ UNCHANGED <<entity, rows, mode, question, text, round, tries, heard>>

\* ... without a retry: a failure ends the turn.
RelayFails(t) ==
    /\ stage[t] = "members" /\ mode[t] = "collaborate"
    /\ Len(stack[t][Current(t)]) = 1
    /\ End(t, "error")
    /\ UNCHANGED rows

\* The client leaves a stream: the generator is cancelled where it waits and saves nothing.
Leave(t) ==
    /\ stage[t] \in {"open", "stream", "saved", "routing", "members", "synth"}
    /\ End(t, "left")
    /\ UNCHANGED rows

-----------------------------------------------------------------------------
Work(t) ==
    \/ Retrieve(t) \/ RetrieveFails(t)
    \/ RefuseTeam(t) \/ StartTeam(t) \/ RefuseAgent(t) \/ StartAgent(t) \/ AnswerOnce(t)
    \/ Compact(t) \/ Chunk(t) \/ PlainEnds(t) \/ PlainBreaks(t)
    \/ RoundTools(t) \/ RoundsEnd(t) \/ RoundError(t) \/ RoundRaises(t)
    \/ Complete(t) \/ TailRaises(t)
    \/ Select(t) \/ SelectFails(t)
    \/ \E a \in Agents : \/ MemberTools(t, a) \/ Delegate(t, a) \/ DelegateReturns(t, a)
                         \/ MemberAnswers(t, a) \/ MemberFails(t, a)
    \/ AllFailed(t) \/ Synthesize(t) \/ SynthesisSaved(t) \/ SynthesisFails(t)
    \/ RelayAnswers(t) \/ RelayFails(t)

TurnsNext == \E t \in Turns : RefuseAttachments(t) \/ AskQuestion(t) \/ Leave(t) \/ Work(t)

\* A request that was accepted is driven by the event loop until it ends.
TurnsSpec == TurnsInit /\ [][TurnsNext]_turnVars /\ \A t \in Turns : WF_turnVars(Work(t))

-----------------------------------------------------------------------------
(* Types: rows, the place of each turn, its list of messages and the calls of its agents. *)
TurnsTypeOK ==
    /\ entity \in {"agent", "team"}
    /\ \A i \in 1..Len(rows) : rows[i] \in
         [turn : Turns \cup {Earlier}, role : {"user", "assistant", "system"},
          body : {"full", "part", "empty"}, by : SUBSET Agents]
    /\ stage \in [Turns -> {"idle", "asked", "ready", "waiting", "open", "stream", "saved", "routing",
                         "members", "synth", "over"}]
    /\ way \in [Turns -> {"none", "once", "plain", "mcp"}]
    /\ mode \in [Turns -> {"none", "agent", "coordinate", "route", "collaborate"}]
    /\ heard \in [Turns -> {"nothing", "refused", "done", "error", "left"}]
    /\ \A t \in Turns :
         /\ question[t] \in 0..Len(rows) /\ round[t] \in 0..MaxRounds
         /\ text[t] \in BOOLEAN /\ member[t] \in 1..Len(Team) /\ answered[t] \subseteq Agents
         /\ context[t].summary \subseteq 1..Len(rows)
         /\ ToSet(context[t].verbatim) \subseteq 0..Len(rows)

\* The list without the results of other agents, which come last.
Shown(s) == IF s # <<>> /\ Last(s) = Results THEN Front(s) ELSE s

(* What a turn's model is given accounts for every message that was in the session when the
   question was asked, the question included: each is in the list word for word or in its
   summary, the Keep most recent items of the list are there word for word and in order
   (_compact_context_if_needed: "keeping the most recent _COMPACTION_KEEP_RECENT messages
   verbatim"), whatever other turns and their compaction records committed meanwhile. *)
NothingForgotten ==
    \A t \in Turns : stage[t] \notin {"idle", "asked", "over"} =>
      LET shown == Shown(context[t].verbatim)
          owed == Dialogue(question[t])
          n == Len(shown)
      IN  /\ ToSet(owed) = context[t].summary \cup ToSet(shown)
          /\ n <= Len(owed) /\ shown = Tail_(owed, n)
          /\ Len(context[t].verbatim) >= Keep \/ context[t].summary = {}

(* A client that was told done finds exactly one answer of its turn in the session, after its
   question, complete or empty but never a fragment; one that was refused finds none, one that
   left at most one. Two answers of a turn are possible only when the work after the save
   raised, and its client was told of an error. A finished team answer names the agents that
   contributed: in route mode at least one, and an agent is missing only if it failed twice; in
   collaborate mode all but the last, which writes the answer (_stream_response,
   _stream_response_with_mcp, the team chats). *)
Replies(t) == {i \in 1..Len(rows) : rows[i].turn = t /\ rows[i].role = "assistant"}
OneReply ==
    \A t \in Turns :
      /\ heard[t] = "done" => Cardinality(Replies(t)) = 1 /\ \A i \in Replies(t) : rows[i].body # "part"
      /\ heard[t] = "refused" => Replies(t) = {}
      /\ heard[t] # "error" => Cardinality(Replies(t)) <= 1
      /\ \A i \in Replies(t) : i > question[t]
      /\ heard[t] = "done" /\ mode[t] = "route" => \A i \in Replies(t) :
           /\ rows[i].by # {}
           /\ \A a \in Agents \ rows[i].by : tries[t][a] = 2
      /\ heard[t] = "done" /\ mode[t] = "collaborate" =>
           \A i \in Replies(t) : rows[i].by = Agents \ {Last(Team)}

(* Every request that was accepted comes to an end, whatever the models ask for: tool rounds,
   delegations and retries run out. *)
EveryTurnEnds == <>[](\A t \in Turns : stage[t] \in {"idle", "over"})
=============================================================================
