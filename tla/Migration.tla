----------------------------- MODULE Migration -----------------------------
(***************************************************************************)
(* Start-up (main.lifespan): what brings the database of an earlier        *)
(* version up to date before requests are served.  SQLite: create_all      *)
(* makes the tables that are missing, then every statement of              *)
(* _run_sqlite_migrations is tried and committed alone, an error is        *)
(* swallowed, and the process may stop between any two.  MongoDB: the      *)
(* indexes, and an error stops the start.  Both deactivate tools that      *)
(* share a name and copy the provider's model into agents that have none.  *)
(* A column is written down only where an earlier version may lack it.     *)
(***************************************************************************)
EXTENDS Naturals, Sequences, FiniteSets, TLC

CONSTANTS Names,      \* of one user's tools
          Models,     \* names of language models
          Agents,     \* agents, which share one provider
          None,       \* no value (NULL)
          Missing,    \* a table, or a document's field, that is not there
          MaxTools,   \* bound on the rows of tool_definitions
          MaxBases,   \* bound on the rows of knowledge_bases
          Restarts    \* bound on stops

ASSUME MigrationAssumption ==
    /\ MaxTools \in Nat /\ MaxBases \in Nat /\ Restarts \in Nat
    /\ None \notin Models /\ Missing \notin Models /\ None # Missing

-----------------------------------------------------------------------------
(* The columns that models.py declares and a first version did not have. *)
AccountTables ==
    [users |-> {"permissions_json", "totp_secret", "totp_enabled"},
     api_clients |-> {},
     llm_providers |-> {"secret_id"},
     agents |-> {"mcp_servers_json", "knowledge_base_ids_json", "skill_ids_json", "model_id",
                 "hitl_confirmation_tools_json", "allow_tool_creation", "memory_enabled",
                 "sandbox_enabled", "sandbox_container_id", "sandbox_host_port",
                 "prompt_vault_id"},
     teams |-> {"sandbox_enabled", "sandbox_container_id", "sandbox_host_port"}]

ChatTables ==
    [sessions |-> {"application_id", "total_input_tokens", "total_output_tokens",
                   "memory_processed", "system_instruction", "knowledge_base_ids_json"},
     messages |-> {"attachments_json", "rating"},
     file_attachments |-> {},
     workflows |-> {},
     workflow_runs |-> {"session_id"}]

LibraryTables ==
    [tool_definitions |-> {"requires_confirmation", "is_model_created"},
     mcp_servers |-> {},
     skills |-> {},
     knowledge_bases |-> {"owner_id", "app_id", "external_id", "scope_type",
                          "embedding_provider", "embedding_model", "secret_id"},
     kb_documents |-> {"description", "app_id", "external_id"},
     workflow_schedules |-> {},
     user_secrets |-> {},
     prompt_vault |-> {}]

RecordTables ==
    [hitl_approvals |-> {},
     tool_proposals |-> {"proposal_type", "target_tool_id"},
     async_jobs |-> {},
     workflow_approvals |-> {},
     agent_versions |-> {"input_schema_version_id", "output_schema_version_id"},
     agent_memories |-> {},
     trace_spans |-> {"trace_id", "span_id", "parent_span_id", "cache_read_tokens",
                      "cache_creation_tokens", "cost_usd", "stop_reason"}]

EvalTables ==
    [eval_suites |-> {"judge_agent_id"},
     eval_runs |-> {},
     optimization_runs |-> {},
     app_settings |-> {},
     whatsapp_channels |-> {"voice_reply_enabled", "voice_reply_jids", "voice_reply_voice",
                            "tts_backend", "voice_clone_audio_path", "voice_clone_ref_text"},
     wa_contact_sessions |-> {}]

PlatformTables ==
    [t \in {"applications", "api_keys", "application_agent_access", "agent_api_configs",
            "schemas", "schema_versions", "api_requests", "audit_events"} |-> {}]

Declared == AccountTables @@ ChatTables @@ LibraryTables @@ RecordTables @@ EvalTables
                @@ PlatformTables
Tables == DOMAIN Declared

-----------------------------------------------------------------------------
(* The statements of the script, in its order. *)
Alter(t, c) == [do |-> "alter", on |-> t, columns |-> {c}]
AlterEach(t, cs) == [i \in 1..Len(cs) |-> Alter(t, cs[i])]
Create(t, cs) == [do |-> "create", on |-> t, columns |-> cs]
Act(name) == [do |-> name, on |-> "none", columns |-> {}]

SandboxColumns == <<"sandbox_enabled", "sandbox_container_id", "sandbox_host_port">>

AccountStatements ==
    <<Alter("agents", "mcp_servers_json"), Alter("sessions", "application_id"),
      Alter("users", "permissions_json"), Alter("workflow_runs", "session_id"),
      Alter("users", "totp_secret"), Alter("users", "totp_enabled"),
      Create("user_secrets", {}),
      Alter("messages", "attachments_json"), Alter("messages", "rating"),
      Alter("llm_providers", "secret_id"), Create("file_attachments", {})>>
    \o AlterEach("sessions", <<"system_instruction", "knowledge_base_ids_json">>)

KnowledgeStatements ==
    <<Create("knowledge_bases", LibraryTables["knowledge_bases"])>>
    \o AlterEach("knowledge_bases", <<"owner_id", "app_id", "external_id", "scope_type",
                                      "embedding_provider", "embedding_model", "secret_id">>)
    \o <<Act("own"), Act("index bases"),
         Create("kb_documents", LibraryTables["kb_documents"])>>
    \o AlterEach("kb_documents", <<"description", "app_id", "external_id">>)
    \o <<Alter("agents", "knowledge_base_ids_json"), Alter("agents", "skill_ids_json"),
         Alter("sessions", "total_input_tokens"), Alter("sessions", "total_output_tokens"),
         Create("workflow_schedules", {})>>

ToolStatements_IndexFirst ==
    AlterEach("tool_definitions", <<"requires_confirmation", "is_model_created">>)
    \o AlterEach("tool_proposals", <<"proposal_type", "target_tool_id">>)
    \o <<Act("index tools"), Act("deduplicate")>>
    \o AlterEach("agent_versions", <<"input_schema_version_id", "output_schema_version_id">>)
    \o <<Create("agent_versions", {}), Alter("agents", "hitl_confirmation_tools_json")>>

ToolStatements ==
    AlterEach("tool_definitions", <<"requires_confirmation", "is_model_created">>)
    \o AlterEach("tool_proposals", <<"proposal_type", "target_tool_id">>)
    \o <<Act("deduplicate"), Act("index tools")>>
    \o AlterEach("agent_versions", <<"input_schema_version_id", "output_schema_version_id">>)
    \o <<Create("agent_versions", {}), Alter("agents", "hitl_confirmation_tools_json")>>

SessionStatements ==
    <<Create("hitl_approvals", {}), Alter("sessions", "memory_processed"),
      Create("agent_memories", {}),
      Create("trace_spans", {"trace_id", "span_id", "parent_span_id"})>>
    \o AlterEach("trace_spans", <<"trace_id", "span_id", "parent_span_id", "cache_read_tokens",
                                  "cache_creation_tokens", "cost_usd", "stop_reason">>)

ModelStatements ==
    <<Alter("agents", "allow_tool_creation"), Create("tool_proposals", {}),
      Alter("agents", "model_id"), Act("copy models"),
      Alter("workflow_runs", "running_nodes_json"),
      Create("eval_suites", {}), Create("eval_runs", {}), Create("optimization_runs", {}),
      Create("app_settings", {})>>

ChannelStatements ==
    <<Alter("agents", "memory_enabled")>>
    \o AlterEach("agents", SandboxColumns) \o AlterEach("teams", SandboxColumns)
    \o <<Alter("eval_suites", "judge_agent_id"), Create("whatsapp_channels", {}),
         Create("wa_contact_sessions", {}), Create("prompt_vault", {}),
         Alter("agents", "prompt_vault_id")>>
    \o AlterEach("whatsapp_channels",
                 <<"voice_reply_enabled", "voice_reply_jids", "voice_reply_voice",
                   "tts_backend", "voice_clone_audio_path", "voice_clone_ref_text">>)

Script == AccountStatements \o KnowledgeStatements \o ToolStatements \o SessionStatements
              \o ModelStatements \o ChannelStatements

-----------------------------------------------------------------------------
VARIABLES
    store,      \* the application's database
    phase,      \* down, tables, script, indexes, models, close, serving
    at,         \* the script's statements that were tried
    columns,    \* of each table: those of Declared it has, or Missing (SQLite)
    indexes,    \* the unique indexes that are there
    tools,      \* the rows of tool_definitions, by id (a deleted one is as an inactive one)
    owner,      \* the owner_id of each knowledge base that has no app_id and external_id
    model,      \* the model_id of each agent
    provided,   \* the model_id of their provider
    asked,      \* creations and renamings of tools that passed their check (MongoDB)
    restarts    \* stops so far

vars == <<store, phase, at, columns, indexes, tools, owner, model, provided, asked, restarts>>
schema == <<columns, indexes>>
data == <<tools, owner, model, provided>>

Live(i) == tools[i].active
Oldest(n) == {i \in 1..Len(tools) : /\ Live(i) /\ tools[i].name = n
                                    /\ \A j \in 1..(i - 1) : ~(Live(j) /\ tools[j].name = n)}
Unique == \A i, j \in 1..Len(tools) : Live(i) /\ Live(j) /\ tools[i].name = tools[j].name => i = j

\* agent.model_id or provider.model_id, in every place that asks a model.
Effective(a) == IF model[a] \in Models THEN model[a] ELSE provided

\* The database of an earlier version: one table is not there or lacks one of its columns or all;
\* all lack all; or none is there. Its tools may share names while no index forbids it.
Lacking(t) == {Declared[t], {}, Missing} \cup {Declared[t] \ {c} : c \in Declared[t]}
Early == [t \in Tables |-> {}]
Blank == [t \in Tables |-> Missing]
OneOld == UNION {{[Declared EXCEPT ![t] = l] : l \in Lacking(t)} : t \in Tables}

EmptyTables ==
    /\ tools = <<>> /\ owner = <<>> /\ indexes = {}
    /\ model \in [Agents -> {IF store = "sqlite" THEN None ELSE Missing}] /\ provided = None

Filled ==
    /\ tools \in UNION {[1..n -> [name : Names, active : BOOLEAN]] : n \in 0..MaxTools}
    /\ owner \in UNION {[1..n -> {None}] : n \in 0..MaxBases}
    /\ indexes \in {{}, {"bases", "tools"}} /\ ("tools" \in indexes => Unique)
    /\ provided \in Models \cup {None}
    /\ model \in [Agents -> IF store = "sqlite" THEN Models \cup {None}
                                                ELSE Models \cup {None, Missing}]

Init ==
    /\ store \in {"sqlite", "mongo"}
    /\ phase = "down" /\ at = 0 /\ asked = {} /\ restarts = 0
    /\ \/ columns \in OneOld \cup {Blank} /\ EmptyTables
       \/ /\ columns \in {Early, Declared} /\ Filled
          /\ "model_id" \notin columns["agents"] /\ store = "sqlite" => \A a \in Agents : model[a] = None

-----------------------------------------------------------------------------
\* The process starts. create_all makes the tables that are missing, as models.py declares them
\* (a stop in the middle leaves some of them to the next start).
Start ==
    /\ phase = "down"
    /\ phase' = IF store = "sqlite" THEN "tables" ELSE "indexes"
    /\ UNCHANGED <<store, at, schema, data, asked, restarts>>

CreateAll ==
    /\ phase = "tables" /\ phase' = "script"
    /\ columns' = [t \in Tables |-> IF columns[t] = Missing THEN Declared[t] ELSE columns[t]]
    /\ indexes' = IF columns["knowledge_bases"] = Missing THEN indexes \cup {"bases"} ELSE indexes
    /\ UNCHANGED <<store, at, data, asked, restarts>>

-----------------------------------------------------------------------------
\* The next statement of the script: what it does when it succeeds, and nothing when it does not.
Now(what) == phase = "script" /\ at < Len(Script) /\ Script[at + 1].do = what /\ at' = at + 1
On == Script[at + 1].on

AlterTable ==
    /\ Now("alter")
    /\ columns' = IF columns[On] = Missing THEN columns
                  ELSE [columns EXCEPT ![On] = @ \cup Script[at + 1].columns]
    /\ UNCHANGED <<store, phase, indexes, data, asked, restarts>>

CreateTable ==
    /\ Now("create")
    /\ columns' = IF columns[On] = Missing THEN [columns EXCEPT ![On] = Script[at + 1].columns]
                                           ELSE columns
    /\ UNCHANGED <<store, phase, indexes, data, asked, restarts>>

Has(t, c) == columns[t] # Missing /\ c \in columns[t]

BackfillOwner ==
    /\ Now("own")
    /\ owner' = IF Has("knowledge_bases", "owner_id") THEN [i \in DOMAIN owner |-> "user"] ELSE owner
    /\ UNCHANGED <<store, phase, schema, tools, model, provided, asked, restarts>>

IndexBases ==
    /\ Now("index bases")
    /\ indexes' = IF columns["knowledge_bases"] = Missing THEN indexes ELSE indexes \cup {"bases"}
    /\ UNCHANGED <<store, phase, columns, data, asked, restarts>>

\* Tools of one name: the oldest stays active.
Deduplicated == [i \in DOMAIN tools |->
                   [tools[i] EXCEPT !.active = @ /\ i \in Oldest(tools[i].name)]]

Deduplicate ==
    /\ Now("deduplicate")
    /\ tools' = Deduplicated
    /\ UNCHANGED <<store, phase, schema, owner, model, provided, asked, restarts>>

\* The index cannot be made while two active tools share a name.
IndexTools ==
    /\ Now("index tools")
    /\ indexes' = IF Unique THEN indexes \cup {"tools"} ELSE indexes
    /\ UNCHANGED <<store, phase, columns, data, asked, restarts>>

CopyModels ==
    /\ Now("copy models")
    /\ model' = IF Has("agents", "model_id")
                THEN [a \in Agents |-> IF model[a] = None THEN provided ELSE model[a]] ELSE model
    /\ UNCHANGED <<store, phase, schema, tools, owner, provided, asked, restarts>>

ScriptEnds ==
    /\ phase = "script" /\ at = Len(Script) /\ phase' = "close"
    /\ UNCHANGED <<store, at, schema, data, asked, restarts>>

-----------------------------------------------------------------------------
\* MongoDB: each awaits the database, and an error, as of an index that finds doubles, ends the
\* start.
DeduplicateMongo ==
    /\ phase = "indexes" /\ "tools" \notin indexes
    /\ tools' = Deduplicated
    /\ phase' = "tools"
    /\ UNCHANGED <<store, at, schema, owner, model, provided, asked, restarts>>

IndexToolsMongo ==
    /\ phase = "tools" \/ (phase = "indexes" /\ "tools" \in indexes)
    /\ Unique
    /\ phase' = "bases" /\ indexes' = indexes \cup {"tools"}
    /\ UNCHANGED <<store, at, columns, data, asked, restarts>>

\* Null values count for this index: two bases of one owner without ids cannot both be in it.
IndexBasesMongo ==
    /\ phase = "bases" /\ phase' = "close"
    /\ indexes' = indexes \cup {"bases"}
    /\ UNCHANGED <<store, at, columns, data, asked, restarts>>

\* The approvals and proposals of the run before are closed (Restart of ChatHitl and of
\* ToolProposals).
ClosePending ==
    /\ phase = "close"
    /\ phase' = IF store = "sqlite" THEN "serving" ELSE "models"
    /\ UNCHANGED <<store, at, schema, data, asked, restarts>>

CopyModelMongo(a) ==
    /\ phase = "models" /\ model[a] = Missing /\ provided # None
    /\ model' = [model EXCEPT ![a] = provided]
    /\ UNCHANGED <<store, phase, at, schema, tools, owner, provided, asked, restarts>>

ModelsCopied ==
    /\ phase = "models" /\ (provided # None => \A a \in Agents : model[a] # Missing)
    /\ phase' = "serving"
    /\ UNCHANGED <<store, at, schema, data, asked, restarts>>

\* A stop at any moment: what was committed stays.
Stop ==
    /\ phase # "down" /\ restarts < Restarts
    /\ phase' = "down" /\ at' = 0 /\ asked' = {} /\ restarts' = restarts + 1
    /\ UNCHANGED <<store, schema, data>>

-----------------------------------------------------------------------------
(* What is served. *)
Serving == phase = "serving"
Serves == Serving /\ UNCHANGED <<store, phase, at, schema, restarts>>

\* Row i, a new one when i is 0, takes the name n unless another active row has it.
Free(i, n) == \A j \in 1..Len(tools) : j # i /\ Live(j) => tools[j].name # n
Takes(i, n) ==
    IF "tools" \in indexes /\ ~Free(i, n) THEN UNCHANGED tools
    ELSE IF i = 0 THEN tools' = Append(tools, [name |-> n, active |-> TRUE])
                  ELSE tools' = [tools EXCEPT ![i].name = IF Live(i) THEN n ELSE @]
CanTake(i) == IF i = 0 THEN Len(tools) < MaxTools ELSE Live(i)

SaveTool(i, n) ==
    /\ Serves /\ store = "sqlite" /\ CanTake(i) /\ Free(i, n) /\ Takes(i, n)
    /\ UNCHANGED <<owner, model, provided, asked>>

CheckTool(i, n) ==
    /\ Serves /\ store = "mongo" /\ CanTake(i) /\ Free(i, n)
    /\ Cardinality(asked) < 2
    /\ asked' = asked \cup {[of |-> i, name |-> n]}
    /\ UNCHANGED data

CommitTool ==
    /\ Serves
    /\ \E r \in asked :
         /\ asked' = asked \ {r}
         /\ IF r.of = 0 /\ Len(tools) = MaxTools THEN UNCHANGED tools ELSE Takes(r.of, r.name)
    /\ UNCHANGED <<owner, model, provided>>

DeleteTool(i) ==
    /\ Serves /\ Live(i)
    /\ tools' = [tools EXCEPT ![i].active = FALSE]
    /\ UNCHANGED <<owner, model, provided, asked>>

\* A base made in the application has an owner and neither of the other ids: MongoDB's index
\* refuses the second.
CreateBase ==
    /\ Serves /\ Len(owner) < MaxBases
    /\ store = "mongo" => \A i \in DOMAIN owner : owner[i] = None
    /\ owner' = Append(owner, "user")
    /\ UNCHANGED <<tools, model, provided, asked>>

EditAgent(a) ==
    /\ Serves
    /\ \E m \in Models \cup {None} : model' = [model EXCEPT ![a] = m]
    /\ UNCHANGED <<tools, owner, provided, asked>>

EditProvider ==
    /\ Serves
    /\ provided' \in Models \cup {None}
    /\ UNCHANGED <<tools, owner, model, asked>>

-----------------------------------------------------------------------------
Next ==
    \/ Start \/ CreateAll \/ AlterTable \/ CreateTable \/ BackfillOwner \/ IndexBases
    \/ Deduplicate \/ IndexTools \/ CopyModels \/ ScriptEnds
    \/ DeduplicateMongo \/ IndexToolsMongo \/ IndexBasesMongo \/ ClosePending
    \/ ModelsCopied \/ Stop
    \/ \E a \in Agents : CopyModelMongo(a) \/ EditAgent(a)
    \/ \E i \in 0..Len(tools), n \in Names : SaveTool(i, n) \/ CheckTool(i, n)
    \/ \E i \in 1..Len(tools) : DeleteTool(i)
    \/ CommitTool \/ CreateBase \/ EditProvider

Spec == Init /\ [][Next]_vars

-----------------------------------------------------------------------------
(* Types. *)
TypeOK ==
    /\ store \in {"sqlite", "mongo"} /\ at \in 0..Len(Script) /\ restarts \in 0..Restarts
    /\ phase \in {"down", "tables", "script", "indexes", "tools", "bases", "models", "close",
                  "serving"}
    /\ indexes \subseteq {"tools", "bases"}
    /\ tools \in Seq([name : Names, active : BOOLEAN]) /\ Len(tools) <= MaxTools
    /\ owner \in Seq({None, "user"}) /\ Len(owner) <= MaxBases
    /\ model \in [Agents -> Models \cup {None, Missing}] /\ provided \in Models \cup {None}
    /\ asked \subseteq [of : 0..MaxTools, name : Names]

(* Whatever an earlier version left, and wherever earlier starts were stopped: requests are served
   only by a database that has every table and column that models.py declares, an owner for every
   knowledge base, the unique indexes, and for every name at most one active tool, also when
   creations cross. A start keeps the oldest active tool of every name, and changes the model that answers for no agent (lifespan, _run_sqlite_migrations). *)
Upgraded ==
    /\ store = "sqlite" => /\ \A t \in Tables : columns[t] # Missing /\ Declared[t] \subseteq columns[t]
                           /\ \A i \in DOMAIN owner : owner[i] # None
    /\ indexes = {"bases", "tools"}
    /\ Unique
Kept == /\ \A n \in Names : Oldest(n)' = Oldest(n)
        /\ \A a \in Agents : Effective(a)' = Effective(a)
StartUpgrades ==
    /\ [](Serving => Upgraded)
    /\ [][~Serving => Kept]_vars
=============================================================================
