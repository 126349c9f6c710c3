--------------------------- MODULE AgentVersions ---------------------------
(***************************************************************************)
(* One identifier of an agent: its creation and deletion, the agent's      *)
(* configuration, the history of versions kept of it, the version its      *)
(* published API is pinned to, and the optimizer's proposal that waits for *)
(* review (agents_router, builtin_tools, versions_router, agent_api_router,*)
(* optimizer_router, the daily prune of main).  A configuration is one     *)
(* value.  Over SQLite the handlers of the event loop run in one piece and *)
(* publish_agent runs beside them in a thread; over MongoDB every call     *)
(* suspends, and the API platform is not available.                        *)
(***************************************************************************)
EXTENDS Naturals

CONSTANTS Configs, NoConfig, Contracts, NoContract,
          Clients,       \* requests under way
          MaxVersions    \* bound on the versions ever inserted

ASSUME AgentVersionsAssumption == MaxVersions \in Nat /\ NoContract \notin Contracts /\ NoConfig \notin Configs

VARIABLES
    store,      \* the application's database
    live,       \* the agent's configuration, NoConfig when there is no such agent
    born,       \* the identifier was given to an agent before
    table,      \* its versions
    inserted,   \* how many were ever inserted
    review,     \* the proposal of the optimization run that awaits review, if it still does
    pub,        \* agent_api_configs: publication_state (a draft, a deprecated and a retired
                \* agent are closed), published_version_id, the schemas
    pruning,    \* a prune over MongoDB: the last version that is old, the one it keeps
    act         \* what each request is doing

vars == <<store, live, born, table, inserted, review, pub, pruning, act>>

Nobody == 0     \* no version
Resting == [on |-> FALSE, upto |-> Nobody, kept |-> Nobody]
Idle == [pc |-> "idle", does |-> "edit", seen |-> {}, new |-> {}, num |-> 0, ver |-> Nobody,
         contract |-> NoContract, lives |-> {}, calm |-> TRUE]

Init ==
    /\ store \in {"sqlite", "mongo"}
    /\ live = NoConfig /\ born = FALSE
    /\ table = {} /\ inserted = 0 /\ review = {}
    /\ pub = [state |-> "closed", ver |-> Nobody, contract |-> NoContract]
    /\ pruning = Resting
    /\ act = [c \in Clients |-> Idle]

-----------------------------------------------------------------------------
\* The versions with the highest number: more than one after requests that crossed.
Latest(t) == {v \in t : \A w \in t : w.num <= v.num}
Kept(t) == {v.config : v \in t}

\* A row's identifier: SQLite gives the highest in the table plus one, so that the identifier of
\* a deleted latest row is given again; MongoDB's are never given twice.
NextId == IF store = "mongo" THEN inserted + 1
          ELSE 1 + (IF table = {} THEN 0 ELSE (CHOOSE v \in table : \A w \in table : w.id <= v.id).id)

Version(num, config, contract) ==
    [id |-> NextId, num |-> num, config |-> config, contract |-> contract]

\* _snapshot_agent: nothing when the configuration is what the latest version already holds.
Unchanged_IfAnyVersion(last, config) == last # {}
Unchanged(last, config) == \E v \in last : v.config = config
NextNumber(last) == 1 + (IF last = {} THEN 0 ELSE (CHOOSE v \in last : TRUE).num)

Insert(v) == /\ inserted < MaxVersions /\ inserted' = inserted + 1
             /\ table' = table \cup {v}

\* What a query for the latest returns, if anything: the row stored first of those.
Last(t) == {v \in Latest(t) : \A w \in Latest(t) : v.id <= w.id}

\* What every request under way, and the publication, observe of a change.
Observed(a, config) == [c \in Clients |-> IF a[c].does # "publish" THEN a[c]
                                         ELSE [a[c] EXCEPT !.lives = @ \cup {config}]]
Shaken(a) == [c \in Clients |-> [a[c] EXCEPT !.calm = @ /\ a[c].pc = "idle"]]

-----------------------------------------------------------------------------
(* Creation and deletion.  SQLite gives the identifier of a deleted agent that was the latest to
   the next one; MongoDB's are never given twice. *)
Exists == live # NoConfig

Born(configs) ==
    /\ ~Exists /\ (store = "mongo" => ~born)
    /\ live' \in configs /\ born' = TRUE
    /\ act' = Observed(act, live')
    /\ UNCHANGED <<store, table, inserted, review, pub, pruning>>

\* By a user, from what was sent;
CreateAgent == Born(Configs)
\* from an export, without the tools, servers, bases and provider that are not here;
ImportAgent == Born(Configs)
\* or by another agent, with the tools and the provider that are found.  None makes a version.
MakeAgent == Born(Configs)

\* delete_agent over SQLite: the versions and optimization runs go, the row that says how the
\* agent is published stays.
DeleteSqlite ==
    /\ store = "sqlite" /\ Exists
    /\ live' = NoConfig /\ table' = {} /\ review' = {}
    /\ act' = Shaken(act)
    /\ UNCHANGED <<store, born, inserted, pub, pruning>>

\* An optimization run of the agent comes to its proposal.
Proposed ==
    /\ Exists /\ review = {}
    /\ \A c \in Clients : act[c].does \notin {"accept", "reject"}   \* bound: of one run at a time
    /\ review' \in {{c} : c \in Configs}
    /\ UNCHANGED <<store, live, born, table, inserted, pub, pruning, act>>

-----------------------------------------------------------------------------
(* SQLite: the event loop runs a handler in one piece. *)

\* update_agent and rollback: the version of what is replaced, then the new configuration.
SaveSqlite(new) ==
    /\ store = "sqlite" /\ Exists
    /\ IF Unchanged(Last(table), live) THEN UNCHANGED <<table, inserted>>
       ELSE Insert(Version(NextNumber(Last(table)), live, NoContract))
    /\ live' = new
    /\ act' = Observed(act, new)
    /\ UNCHANGED <<store, born, review, pub, pruning>>

EditSqlite == \E new \in Configs : SaveSqlite(new)
RollbackSqlite == \E v \in table : SaveSqlite(v.config)

\* accept_optimization: when no version was needed, reading its identifier raises and nothing
\* is committed.
AcceptSqlite ==
    /\ store = "sqlite" /\ Exists
    /\ ~Unchanged(Last(table), live)
    /\ Insert(Version(NextNumber(Last(table)), live, NoContract))
    /\ live' \in review /\ review' = {}
    /\ act' = Observed(act, live')
    /\ UNCHANGED <<store, born, pub, pruning>>

RejectSqlite ==
    /\ store = "sqlite" /\ review # {} /\ review' = {}
    /\ UNCHANGED <<store, live, born, table, inserted, pub, pruning, act>>

-----------------------------------------------------------------------------
(* MongoDB: each handler suspends at every call. *)
Begin(c, does, new) ==
    /\ store = "mongo" /\ act[c].pc = "idle" /\ Exists
    /\ act' = [act EXCEPT ![c] = [Idle EXCEPT !.pc = "read", !.does = does, !.seen = {live},
                                              !.new = {new}]]
    /\ UNCHANGED <<store, live, born, table, inserted, review, pub, pruning>>

EditReads(c) == \E new \in Configs : Begin(c, "edit", new)
RollbackReads(c) == \E v \in table : Begin(c, "edit", v.config)
AcceptReads(c) == \E new \in review : Begin(c, "accept", new)

\* The latest version is found and compared; an acceptance that needs no version fails here.
FindsLast(c) ==
    /\ store = "mongo" /\ act[c].pc = "read" /\ act[c].does \in {"edit", "accept"}
    /\ \E config \in act[c].seen :
         act' = [act EXCEPT ![c] =
                   IF ~Unchanged(Last(table), config)
                   THEN [@ EXCEPT !.pc = "found", !.num = NextNumber(Last(table))]
                   ELSE IF @.does = "accept" THEN Idle
                   ELSE [@ EXCEPT !.pc = "snapped"]]
    /\ UNCHANGED <<store, live, born, table, inserted, review, pub, pruning>>

Snaps(c) ==
    /\ act[c].does \in {"edit", "accept"} /\ act[c].pc = "found"
    /\ \E config \in act[c].seen : Insert(Version(act[c].num, config, NoContract))
    /\ act' = [act EXCEPT ![c].pc = "snapped"]
    /\ UNCHANGED <<store, live, born, review, pub, pruning>>

\* The update finds no agent when it was deleted: an edit fails, an acceptance does not look.
Writes(c) ==
    /\ act[c].does \in {"edit", "accept"} /\ act[c].pc = "snapped"
    /\ IF Exists THEN live' \in act[c].new ELSE UNCHANGED live
    /\ act' = [act EXCEPT ![c] = IF @.does = "accept" THEN [@ EXCEPT !.pc = "written"] ELSE Idle]
    /\ UNCHANGED <<store, born, table, inserted, review, pub, pruning>>

AcceptSettles(c) ==
    /\ act[c].does = "accept" /\ act[c].pc = "written"
    /\ review' = {}
    /\ act' = [act EXCEPT ![c] = Idle]
    /\ UNCHANGED <<store, live, born, table, inserted, pub, pruning>>

RejectReads(c) == \E new \in review : Begin(c, "reject", new)

RejectSettles(c) ==
    /\ act[c].pc = "read" /\ act[c].does = "reject"
    /\ review' = {}
    /\ act' = [act EXCEPT ![c] = Idle]
    /\ UNCHANGED <<store, live, born, table, inserted, pub, pruning>>

-----------------------------------------------------------------------------
(* delete_agent over MongoDB: the agent, its versions, its optimization runs, one after another. *)
DeleteReads(c) == Begin(c, "delete", live)

DeletesAgent(c) ==
    /\ act[c].does = "delete" /\ act[c].pc = "read"
    /\ live' = NoConfig
    /\ act' = [act EXCEPT ![c].pc = "found"]
    /\ UNCHANGED <<store, born, table, inserted, review, pub, pruning>>

DeletesVersions(c) ==
    /\ act[c].does = "delete" /\ act[c].pc = "found"
    /\ table' = {}
    /\ act' = [Shaken(act) EXCEPT ![c].pc = "snapped"]
    /\ UNCHANGED <<store, live, born, inserted, review, pub, pruning>>

DeletesRuns(c) ==
    /\ act[c].does = "delete" /\ act[c].pc = "snapped"
    /\ review' = {}
    /\ act' = [act EXCEPT ![c] = Idle]
    /\ UNCHANGED <<store, live, born, table, inserted, pub, pruning>>

-----------------------------------------------------------------------------
(* The versions' own operations. *)
Forget(gone) ==
    /\ table' = table \ gone
    /\ act' = Shaken(act)

\* The latest and the published version may go as any other: SQLite enforces no reference.
DeleteVersion ==
    /\ Exists /\ \E v \in table : Forget({v})
    /\ UNCHANGED <<store, live, born, inserted, review, pub, pruning>>

\* _daily_prune over each of the two databases: the versions up to some identifier are older
\* than 72 hours.
Old(upto, kept) == {v \in table : v.id <= upto /\ v.id # kept}
PruneSqlite ==
    /\ store = "sqlite" /\ Exists
    /\ \E v \in Last(table), w \in table : Old(w.id, v.id) # {} /\ Forget(Old(w.id, v.id))
    /\ UNCHANGED <<store, live, born, inserted, review, pub, pruning>>

PruneReads ==
    /\ store = "mongo" /\ Exists /\ ~pruning.on
    /\ \E v \in Last(table), w \in table :
         pruning' = [on |-> TRUE, upto |-> w.id, kept |-> v.id]
    /\ UNCHANGED <<store, live, born, table, inserted, review, pub, act>>

PruneDeletes ==
    /\ pruning.on
    /\ Forget(Old(pruning.upto, pruning.kept))
    /\ pruning' = Resting
    /\ UNCHANGED <<store, live, born, inserted, review, pub>>

-----------------------------------------------------------------------------
(* The published API, over SQLite. *)
\* configure_agent_api leaves the publication as it is.
Configure ==
    /\ store = "sqlite" /\ Exists
    /\ \E k \in Contracts : k # pub.contract /\ pub' = [pub EXCEPT !.contract = k]
    /\ UNCHANGED <<store, live, born, table, inserted, review, pruning, act>>

\* publish_agent, in its thread: it reads the agent, its API configuration and the latest version;
PublishReads(c) ==
    /\ store = "sqlite" /\ act[c].pc = "idle" /\ Exists /\ pub.contract # NoContract
    /\ act' = [act EXCEPT ![c] = [Idle EXCEPT
                 !.pc = IF Unchanged(Last(table), live) THEN "snapped" ELSE "found",
                 !.does = "publish", !.seen = {live}, !.num = NextNumber(Last(table)),
                 !.contract = pub.contract, !.lives = {live}]]
    /\ UNCHANGED <<store, live, born, table, inserted, review, pub, pruning>>

Published(c, v, after) ==
    /\ pub' = [pub EXCEPT !.state = "published", !.ver = v.id]
    /\ act' = [after EXCEPT ![c] = Idle]
    /\ UNCHANGED <<store, live, born, review, pruning>>

\* it commits the version it made,
PublishNew(c) ==
    /\ act[c].does = "publish" /\ act[c].pc = "found"
    /\ \E config \in act[c].seen :
         LET v == Version(act[c].num, config, act[c].contract)
         IN  Insert(v) /\ Published(c, v, Observed(act, config))

\* or, having made none, pins the schemas onto the version that is now the latest.
PublishLatest_First(c) ==
    /\ act[c].does = "publish" /\ act[c].pc = "snapped"
    /\ \E v \in table : /\ \A w \in table : w.num >= v.num
                        /\ table' = (table \ {v}) \cup {[v EXCEPT !.contract = act[c].contract]}
                        /\ Published(c, v, act)
    /\ UNCHANGED inserted
PublishLatest(c) ==
    /\ act[c].does = "publish" /\ act[c].pc = "snapped"
    /\ \E v \in Last(table) :
         /\ table' = (table \ {v}) \cup {[v EXCEPT !.contract = act[c].contract]}
         /\ Published(c, v, act)
    /\ UNCHANGED inserted

\* It fails when every version was deleted meanwhile.
PublishFails(c) ==
    /\ act[c].does = "publish" /\ act[c].pc = "snapped" /\ table = {}
    /\ act' = [act EXCEPT ![c] = Idle]
    /\ UNCHANGED <<store, live, born, table, inserted, review, pub, pruning>>

\* transition_agent: deprecate, retire or testing.
Transition ==
    /\ store = "sqlite" /\ Exists /\ pub.contract # NoContract
    /\ \E s \in {"closed", "testing"} : s # pub.state /\ pub' = [pub EXCEPT !.state = s]
    /\ UNCHANGED <<store, live, born, table, inserted, review, pruning, act>>

\* What an invocation runs: the snapshot of its version if that is there, else what is live;
\* nothing without an agent.
Run(ver) == LET pinned == {v.config : v \in {w \in table : w.id = ver}}
            IN  IF ~Exists THEN {} ELSE IF pinned # {} THEN pinned ELSE {live}

\* invoke_agent: it is refused unless the agent is published or in testing,
InvokeStarts(c) ==
    /\ store = "sqlite" /\ act[c].pc = "idle" /\ Exists /\ pub.state \in {"published", "testing"}
    /\ \A d \in Clients : act[d].does # "invoke"     \* bound: one at a time
    /\ act' = [act EXCEPT ![c] = [Idle EXCEPT !.pc = "read", !.does = "invoke"]]
    /\ UNCHANGED <<store, live, born, table, inserted, review, pub, pruning>>

\* once its message is stored it reads the publication again and takes the version of a published
\* one (a thread may have published or retired the agent meanwhile).
InvokePins(c) ==
    /\ act[c].does = "invoke" /\ act[c].pc = "read"
    /\ LET ver == IF pub.state = "published" THEN pub.ver ELSE Nobody
       IN  act' = [act EXCEPT ![c] = [@ EXCEPT !.pc = "found", !.ver = ver, !.new = Run(ver),
                                               !.calm = Exists /\ \E v \in table : v.id = ver]]
    /\ UNCHANGED <<store, live, born, table, inserted, review, pub, pruning>>

\* The first attempt, after which there may be one more, to repair what was answered.
InvokeRuns(c) ==
    /\ act[c].does = "invoke" /\ act[c].pc = "found"
    /\ act' = [act EXCEPT ![c] = [@ EXCEPT !.pc = "snapped", !.seen = Run(act[c].ver)]]
    /\ UNCHANGED <<store, live, born, table, inserted, review, pub, pruning>>

InvokeRepairs_Live(c) ==
    /\ act[c].does = "invoke" /\ act[c].pc = "snapped"
    /\ act' = [act EXCEPT ![c] = [@ EXCEPT !.pc = "written", !.seen = act[c].seen \cup {live}]]
    /\ UNCHANGED <<store, live, born, table, inserted, review, pub, pruning>>
InvokeRepairs(c) ==
    /\ act[c].does = "invoke" /\ act[c].pc = "snapped"
    /\ act' = [act EXCEPT ![c] = [@ EXCEPT !.pc = "written", !.seen = act[c].seen \cup Run(act[c].ver)]]
    /\ UNCHANGED <<store, live, born, table, inserted, review, pub, pruning>>

\* The answer and its record, which names the version that is published by now.
InvokeEnds(c) ==
    /\ act[c].does = "invoke" /\ act[c].pc \in {"snapped", "written"}
    /\ act' = [act EXCEPT ![c] = Idle]
    /\ UNCHANGED <<store, live, born, table, inserted, review, pub, pruning>>

-----------------------------------------------------------------------------
Next ==
    \/ CreateAgent \/ ImportAgent \/ MakeAgent \/ DeleteSqlite \/ Proposed
    \/ EditSqlite \/ RollbackSqlite \/ AcceptSqlite \/ RejectSqlite
    \/ \E c \in Clients :
         \/ EditReads(c) \/ RollbackReads(c) \/ AcceptReads(c) \/ RejectReads(c)
         \/ FindsLast(c) \/ Snaps(c) \/ Writes(c) \/ AcceptSettles(c) \/ RejectSettles(c)
         \/ DeleteReads(c) \/ DeletesAgent(c) \/ DeletesVersions(c) \/ DeletesRuns(c)
         \/ PublishReads(c) \/ PublishNew(c) \/ PublishLatest(c) \/ PublishFails(c)
         \/ InvokeStarts(c) \/ InvokePins(c) \/ InvokeRuns(c) \/ InvokeRepairs(c) \/ InvokeEnds(c)
    \/ DeleteVersion \/ PruneSqlite \/ PruneReads \/ PruneDeletes
    \/ Configure \/ Transition

Spec == Init /\ [][Next]_vars

-----------------------------------------------------------------------------
(* Types. *)
TypeOK ==
    /\ store \in {"sqlite", "mongo"} /\ live \in Configs \cup {NoConfig} /\ born \in BOOLEAN /\ inserted \in 0..MaxVersions
    /\ table \subseteq [id : 1..MaxVersions, num : 1..MaxVersions, config : Configs,
                        contract : Contracts \cup {NoContract}]
    /\ \A v, w \in table : v.id = w.id => v = w
    /\ review \subseteq Configs
    /\ pub \in [state : {"closed", "testing", "published"},
                ver : 0..MaxVersions, contract : Contracts \cup {NoContract}]
    /\ pruning \in [on : BOOLEAN, upto : 0..MaxVersions, kept : 0..MaxVersions]
    /\ act \in [Clients -> [pc : {"idle", "read", "found", "snapped", "written"},
                            does : {"edit", "accept", "reject", "delete", "publish", "invoke"},
                            seen : SUBSET Configs, new : SUBSET Configs, num : 0..MaxVersions + 1,
                            ver : 0..MaxVersions, contract : Contracts \cup {NoContract},
                            lives : SUBSET Configs, calm : BOOLEAN]]

(* A configuration that is replaced - by an edit, a rollback or an accepted proposal - is in the
   history at that moment, so that the change can be undone ("Snapshot current state first - so
   rollback itself is reversible").  The exceptions are requests that cross over MongoDB: one
   that replaces something else than it read, or whose version was deleted under it. *)
ChangesCanBeUndone ==
    [][Exists /\ Exists' /\ live' # live =>
                       \/ live \in Kept(table')
                       \/ \E c \in Clients :
                            /\ act[c].pc = "snapped" /\ act'[c].pc # "snapped"
                            /\ act[c].seen # {live} \/ ~act[c].calm]_vars

(* The version a publication is pinned to holds a configuration that was live while the
   publication was requested, or that another publication recorded meanwhile, however edits
   cross with it, unless a version is deleted under the request. *)
PublishedWasLive ==
    [][\A c \in Clients :
         act[c].does = "publish" /\ act[c].calm /\ act'[c].pc = "idle" /\ pub'.state = "published" =>
           \E v \in table' : v.id = pub'.ver /\ v.config \in act[c].lives]_vars

(* Both attempts of an invocation run the configuration that was published when it took its
   version, whatever is edited, configured or published meanwhile, unless a version is deleted. *)
InvocationKeepsItsVersion ==
    \A c \in Clients : act[c].does = "invoke" /\ act[c].calm => act[c].seen \subseteq act[c].new
=============================================================================
