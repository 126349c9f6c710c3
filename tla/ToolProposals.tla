------------------------------ MODULE ToolProposals ------------------------------
(* Tools that an agent proposes (create_tool) or wants to change (edit_tool) in one chat
   session over SQLite, and the toolkit of its user. A proposal is a row and an event under
   "session:tool_call_id"; the handler waits for the event while the endpoints decide: an
   approval writes the tool first, then the row, then sets the event it finds. Two places
   wait: "middleware" (hitl_and_proposal_middleware, where the calls of one answer run side by
   side and share the stream's database session) and "loop" (chats with MCP servers, one call
   after the other). The endpoints never await anything over SQLite, so each is one step. Chat
   over MongoDB raises before it gets to a tool and is left out. *)
EXTENDS Naturals, FiniteSets, FiniteSetsExt

CONSTANTS
    Proposals,   \* the calls of create_tool and edit_tool
    Names,       \* of tools
    Keys,        \* session_id:tool_call_id
    Nobody,      \* no proposal, no name
    MaxTools     \* bound: identifiers of tools in use

ASSUME ToolProposalsAssumption ==
    /\ Nobody \notin Proposals \cup Names
    /\ {"user", "agent"} \cap Proposals = {}
    /\ MaxTools \in Nat

VARIABLES
    path,     \* where this session waits
    key,      \* of each call: providers that number the calls of an answer repeat keys
    tools,    \* active rows of tool_definitions; text: the proposal, or who wrote it
    rows,     \* tool_proposals: kind, name, target and status of each proposal
    pc,       \* of each handler: "idle", "waiting", "done" or "gone"
    loaded,   \* proposals whose row the stream's session holds as it read it
    slot,     \* _tool_proposal_events under each key
    set,      \* proposals whose event is set
    late,     \* proposals whose ten minutes are over
    known,    \* _session_dynamic_tools of this session
    heard,    \* what each agent was told
    votes     \* answers that were confirmed for each proposal

waiting == <<pc, loaded, slot, set, late, known, heard>>
vars == <<path, key, tools, rows, pc, loaded, slot, set, late, known, heard, votes>>

NoRow == [kind |-> "create", name |-> Nobody, target |-> 0, status |-> "none"]

Init ==
    /\ path \in {"middleware", "loop"}
    /\ key \in [Proposals -> Keys]
    /\ tools = {}
    /\ rows = [p \in Proposals |-> NoRow]
    /\ pc = [p \in Proposals |-> "idle"]
    /\ loaded = {} /\ set = {} /\ late = {} /\ known = {}
    /\ slot = [k \in Keys |-> Nobody]
    /\ heard = [p \in Proposals |-> "nothing"]
    /\ votes = [p \in Proposals |-> {}]

-----------------------------------------------------------------------------
(* The toolkit. *)
Named(n) == {t \in tools : t.name = n}

\* SQLite gives the identifier of a deleted last row again.
FreeId == 1 + Max({0} \cup {t.id : t \in tools})

Tool(id, n, text, model) == [id |-> id, name |-> n, text |-> text, model |-> model]

\* Update the user's tool of that name or insert one; either way it counts as model-created.
Upserted(n, text) ==
    IF Named(n) # {}
    THEN (tools \ Named(n)) \cup {Tool(t.id, n, text, TRUE) : t \in Named(n)}
    ELSE tools \cup {Tool(FreeId, n, text, TRUE)}

\* What an edit may change: a model-created tool with that identifier, whatever its name is now.
Targets(id) == {t \in tools : t.id = id /\ t.model}
Edited(id, text) == (tools \ Targets(id)) \cup {[t EXCEPT !.text = text] : t \in Targets(id)}

ToolsChange(new) ==
    /\ tools' = new /\ new # tools
    /\ \A t \in new : t.id <= MaxTools
    /\ UNCHANGED <<path, key, rows, votes>> /\ UNCHANGED waiting

\* The user's own requests: a name that is taken is refused.
CreateTool(n) == Named(n) = {} /\ ToolsChange(tools \cup {Tool(FreeId, n, "user", FALSE)})
UpdateTool(t, n) ==
    /\ n = t.name \/ Named(n) = {}
    /\ ToolsChange((tools \ {t}) \cup {[t EXCEPT !.name = n, !.text = "user"]})
DeleteTool(t) == ToolsChange(tools \ {t})

\* The built-in tool create_dynamic_tool writes without asking anybody.
CreateDynamicTool(n) == ToolsChange(Upserted(n, "agent"))

-----------------------------------------------------------------------------
(* The handler that waits. *)
Goto(p, where, word) == /\ pc' = [pc EXCEPT ![p] = where]
                        /\ heard' = [heard EXCEPT ![p] = word]

MayAsk(p) == /\ pc[p] = "idle"
             /\ path = "loop" => \A q \in Proposals : pc[q] # "waiting"

\* Store the row, which ends what the session held, and file a fresh event under the key.
Ask(p, row) ==
    /\ rows' = [rows EXCEPT ![p] = row]
    /\ slot' = [slot EXCEPT ![key[p]] = p]
    /\ loaded' = {p}
    /\ Goto(p, "waiting", "nothing")
    /\ UNCHANGED <<path, key, tools, votes, set, late, known>>

\* create_tool: a name approved before in this session is not proposed again. Writing the
\* handler's code with the model, which may come first, changes nothing here.
ProposeCreate(p, n) ==
    /\ MayAsk(p) /\ n \notin known
    /\ Ask(p, [NoRow EXCEPT !.name = n, !.status = "pending"])

AlreadyKnown(p) ==
    /\ MayAsk(p) /\ known # {}
    /\ Goto(p, "done", "known")
    /\ UNCHANGED <<path, key, tools, rows, votes, loaded, slot, set, late, known>>

\* edit_tool, which only the loop handles: the row keeps the identifier of the tool.
ProposeEdit(p, t) ==
    /\ MayAsk(p) /\ path = "loop" /\ t.model
    /\ Ask(p, [kind |-> "edit", name |-> t.name, target |-> t.id, status |-> "pending"])

\* A commit on the stream's session by another tool of the same answer.
SiblingCommits ==
    /\ path = "middleware" /\ loaded # {}
    /\ loaded' = {}
    /\ UNCHANGED <<path, key, tools, rows, votes, pc, slot, set, late, known, heard>>

TimeUp(p) ==
    /\ pc[p] = "waiting" /\ p \notin late
    /\ late' = late \cup {p}
    /\ UNCHANGED <<path, key, tools, rows, votes, pc, loaded, slot, set, known, heard>>

\* `finally`: whatever event is filed under the key is taken out.
Release(p) == slot' = [slot EXCEPT ![key[p]] = Nobody]

\* asyncio.TimeoutError: the row says rejected, whatever it said.
TimeOut(p) ==
    /\ pc[p] = "waiting" /\ p \in late
    /\ rows' = [rows EXCEPT ![p].status = "rejected"]
    /\ loaded' = {} /\ Release(p)
    /\ Goto(p, "done", "timed_out")
    /\ UNCHANGED <<path, key, tools, votes, set, late, known>>

\* Mutant: the loop goes by its own object as the middleware does.
Stale_Everywhere(p) == p \in loaded

\* The query of the middleware returns the object it still holds; the loop refreshes it.
Stale(p) == path = "middleware" /\ p \in loaded
Seen(p) == IF Stale(p) THEN "pending" ELSE rows[p].status

\* The event is set: what the row says decides what the agent is told.
Wake(p) ==
    /\ pc[p] = "waiting" /\ p \in set
    /\ Release(p)
    /\ IF Seen(p) = "approved"
       THEN known' = known \cup {rows[p].name} /\ Goto(p, "done", "approved")
       ELSE Goto(p, "done", "rejected") /\ UNCHANGED known
    /\ UNCHANGED <<path, key, tools, rows, votes, loaded, set, late>>

\* The client disconnects, which cancels the handlers: only `finally` runs.
Drop ==
    /\ \E p \in Proposals : pc[p] = "waiting"
    /\ pc' = [p \in Proposals |-> IF pc[p] = "waiting" THEN "gone" ELSE pc[p]]
    /\ slot' = [k \in Keys |-> IF \E p \in Proposals : pc[p] = "waiting" /\ key[p] = k
                               THEN Nobody ELSE slot[k]]
    /\ loaded' = {}
    /\ UNCHANGED <<path, key, tools, rows, votes, set, late, known, heard>>

-----------------------------------------------------------------------------
(* The endpoints. *)

\* Mutant: a proposal may be answered again.
IsPending_Any(p) == rows[p].status # "none"

IsPending(p) == rows[p].status = "pending"

\* The tool an approval writes; an edit whose tool is gone is refused and stays pending.
MayWrite(p) == rows[p].kind = "edit" => Targets(rows[p].target) # {}
Written(p) == IF rows[p].kind = "edit" THEN Edited(rows[p].target, p) ELSE Upserted(rows[p].name, p)

Answer(p, vote) ==
    /\ rows' = [rows EXCEPT ![p].status = vote]
    /\ votes' = [votes EXCEPT ![p] = @ \cup {vote}]
    /\ set' = set \cup ({slot[key[p]]} \ {Nobody})
    /\ UNCHANGED <<path, key, pc, loaded, slot, late, known, heard>>

Approve(p) ==
    /\ IsPending(p) /\ MayWrite(p)
    /\ tools' = Written(p)
    /\ \A t \in tools' : t.id <= MaxTools
    /\ Answer(p, "approved")

Reject(p) == IsPending(p) /\ Answer(p, "rejected") /\ UNCHANGED tools

-----------------------------------------------------------------------------
\* The process stops and starts again (lifespan): events and names are gone, what is pending
\* is rejected.
Restarted(now) ==
    /\ tools' = now
    /\ rows' = [p \in Proposals |-> IF rows[p].status = "pending"
                                    THEN [rows[p] EXCEPT !.status = "rejected"] ELSE rows[p]]
    /\ pc' = [p \in Proposals |-> IF pc[p] = "waiting" THEN "gone" ELSE pc[p]]
    /\ slot' = [k \in Keys |-> Nobody]
    /\ loaded' = {} /\ known' = {}
    /\ UNCHANGED <<path, key, set, late, heard>>

Restart == Restarted(tools) /\ UNCHANGED votes

\* It stops between the two commits of an approval: the tool is there, the row says rejected.
StopInApproval(p) ==
    /\ IsPending(p) /\ MayWrite(p)
    /\ \A t \in Written(p) : t.id <= MaxTools
    /\ Restarted(Written(p))
    /\ votes' = [votes EXCEPT ![p] = @ \cup {"cut"}]

Next ==
    \/ \E n \in Names : CreateTool(n) \/ CreateDynamicTool(n)
    \/ \E t \in tools, n \in Names : UpdateTool(t, n)
    \/ \E t \in tools : DeleteTool(t)
    \/ \E p \in Proposals :
          \/ \E n \in Names : ProposeCreate(p, n)
          \/ \E t \in tools : ProposeEdit(p, t)
          \/ AlreadyKnown(p) \/ TimeUp(p) \/ TimeOut(p) \/ Wake(p)
          \/ Approve(p) \/ Reject(p) \/ StopInApproval(p)
    \/ SiblingCommits \/ Drop \/ Restart

Spec == Init /\ [][Next]_vars

-----------------------------------------------------------------------------
(* Types. *)
TypeOK ==
    /\ path \in {"middleware", "loop"} /\ key \in [Proposals -> Keys]
    /\ tools \subseteq [id : 1..MaxTools, name : Names \cup {Nobody},
                        text : Proposals \cup {"user", "agent"}, model : BOOLEAN]
    /\ rows \in [Proposals -> [kind : {"create", "edit"}, name : Names \cup {Nobody},
                               target : 0..MaxTools,
                               status : {"none", "pending", "approved", "rejected"}]]
    /\ pc \in [Proposals -> {"idle", "waiting", "done", "gone"}]
    /\ loaded \subseteq Proposals /\ set \subseteq Proposals /\ late \subseteq Proposals
    /\ slot \in [Keys -> Proposals \cup {Nobody}] /\ known \subseteq Names \cup {Nobody}
    /\ heard \in [Proposals -> {"nothing", "known", "approved", "rejected", "timed_out"}]
    /\ votes \in [Proposals -> SUBSET {"approved", "rejected", "cut"}]

(* What a proposal says reaches the toolkit only by an approval (the one the process may have
   stopped in included), a proposal is answered at most once, and the names in the toolkit stay
   unique, whatever proposals, users and built-in tools write side by side
   (approve_tool_proposal, reject_tool_proposal). *)
OnlyApprovedTools ==
    /\ \A t \in tools : t.text \in Proposals => votes[t.text] \cap {"approved", "cut"} # {}
    /\ \A p \in Proposals : Cardinality(votes[p]) <= 1
    /\ \A t, u \in tools : t.id = u.id \/ t.name = u.name => t = u

(* An agent is told that its tool was saved only after an approval, that time is up only after
   the ten minutes, and, by the loop, that the user rejected it only if that is what the user
   did - unless its event was set by the answer to another proposal under the same key. *)
AnsweredInItsPlace(p) ==
    \E q \in Proposals \ {p} : key[q] = key[p] /\ votes[q] # {}
HeardTheVerdict ==
    \A p \in Proposals :
      /\ heard[p] = "approved" => votes[p] = {"approved"}
      /\ heard[p] = "timed_out" => p \in late
      /\ heard[p] = "rejected" /\ path = "loop" =>
           votes[p] = {"rejected"} \/ AnsweredInItsPlace(p)
=============================================================================
