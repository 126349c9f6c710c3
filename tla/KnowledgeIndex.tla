-------------------------- MODULE KnowledgeIndex ---------------------------
(***************************************************************************)
(* A knowledge base of an application, its documents' rows and the points  *)
(* of the vector index, under requests that cross (knowledge_router,       *)
(* rag_service).  A request suspends while it waits for the lock of the    *)
(* base and while an embedding is computed; over MongoDB at every query.   *)
(* One (owner, app_id, external_id) is modelled, so that at most one base  *)
(* should be active at a time.                                             *)
(***************************************************************************)
EXTENDS Naturals, FiniteSets

CONSTANTS Requests,     \* requests under way
          Texts, Blank, \* contents of a document; one that is only white space
          Docs,         \* external identifiers of documents
          MaxKbs,       \* bound on the identifiers of bases
          MaxStored     \* bound on the rows and points under which a request starts

VARIABLES
    store,      \* the application's database
    kbs,        \* the active knowledge bases
    created,    \* the highest identifier given
    docs,       \* the rows of documents
    points,     \* the vector index
    req,        \* the requests
    leaving,    \* over MongoDB, the bases whose documents and points are still to be deleted
    torn,       \* to observe: documents whose last change crossed another or failed, or is a deletion
    late        \* to observe: bases deleted under a request, or whose points the index kept

vars == <<store, kbs, created, docs, points, req, leaving, torn, late>>

Root == "root"      \* the document an upsert manages
Loose == "loose"    \* documents without an external identifier,
Plain == "plain"    \* whose contents are not told apart
Named == Docs \cup {Root}
NoKb == 0
Idle == [pc |-> "idle", kind |-> "upsert", doc |-> Loose, text |-> Blank, kb |-> NoKb, calm |-> TRUE]
Ids == 1..MaxKbs

ASSUME KnowledgeAssumption ==
    Blank \notin Texts \cup {Plain} /\ Loose \notin Docs /\ {MaxKbs, MaxStored} \subseteq Nat

Init ==
    /\ store \in {"sqlite", "mongo"}
    /\ kbs = {} /\ created = 0 /\ docs = {} /\ points = {}
    /\ req = [q \in Requests |-> Idle]
    /\ leaving = {} /\ torn = {} /\ late = {}

-----------------------------------------------------------------------------
(* Helpers. *)
Point(k, doc, text) == [kb |-> k, doc |-> doc, text |-> text]
Rows(k, doc) == {r \in docs : r.kb = k /\ r.doc = doc}
Of(q) == <<req[q].kb, req[q].doc>>
Without_None(k, doc) == points
Without(k, doc) == {p \in points : <<p.kb, p.doc>> # <<k, doc>>}

\* Writing a row begins an update of a named document, which the others of it now cross.
Writing(q) == req[q].pc \in {"lock", "embed"} /\ req[q].doc # Loose
Crossing(k, doc) == {p \in Requests : Writing(p) /\ Of(p) = <<k, doc>>}
Crossed(k, doc) ==
    [p \in Requests |-> IF p \in Crossing(k, doc) THEN [req[p] EXCEPT !.calm = FALSE] ELSE req[p]]

\* The row is updated, or created; both say it is indexed.  A named document's points are then
\* deleted, unless the index refuses, which is only logged; then the request waits for the lock.
\* A blank description is not indexed at all.
Recorded(q, r, k, old) ==
    LET doc == r.doc
    IN  /\ docs' = (docs \ old) \cup {Point(k, doc, r.text)}
        /\ IF r.text = Blank
           THEN /\ req' = [Crossed(k, doc) EXCEPT ![q] = Idle]
                /\ torn' = torn \cup {<<k, doc>>}
                /\ UNCHANGED points
           ELSE \E cleared \in BOOLEAN :
                /\ points' = IF cleared /\ doc # Loose THEN Without(k, doc) ELSE points
                /\ req' = [Crossed(k, doc) EXCEPT ![q] = [r EXCEPT
                             !.pc = "lock", !.kb = k, !.calm = cleared /\ Crossing(k, doc) = {}]]
                /\ UNCHANGED torn

Room == Cardinality(docs \cup points) < MaxStored

\* A query by base: which of the points come first is left open.
Hits(k) == {p \in points : p.kb = k}

\* What the search endpoint answers: nothing unless the base is active.
Searched(k) == IF k \in kbs THEN Hits(k) ELSE {}

\* What an agent bound to the base is given: a base that is not active is queried all the same,
\* with the default credentials.
Retrieved(k) == Hits(k)

\* Any one of the rows, or bases, that match is the one a query returns.
First_Blind(s) == {{}}
First(s) == IF s = {} THEN {{}} ELSE {{x} : x \in s}

-----------------------------------------------------------------------------
(* upsert_app_knowledge_base: the base, then its root document. *)
Upserts == {[Idle EXCEPT !.doc = Root, !.text = text] : text \in Texts \cup {Blank}}

\* SQLite gives the highest identifier again once its row is deleted.
NewIds == {created + 1} \cup (IF store = "sqlite" /\ created \notin kbs THEN {created} ELSE {})
Create(k) == k \in Ids /\ created' = k /\ kbs' = kbs \cup {k}

\* Over SQLite nothing suspends the request before the row is written.
UpsertSqlite(q) ==
    /\ store = "sqlite" /\ req[q].pc = "idle" /\ Room
    /\ \E r \in Upserts :
         IF kbs # {} THEN /\ \E k \in kbs : \E old \in First(Rows(k, Root)) : Recorded(q, r, k, old)
                          /\ UNCHANGED <<kbs, created>>
         ELSE \E k \in NewIds : Create(k) /\ \E old \in First(Rows(k, Root)) : Recorded(q, r, k, old)
    /\ UNCHANGED <<store, leaving, late>>

\* Over MongoDB: the base is looked for,
UpsertFinds(q) ==
    /\ store = "mongo" /\ req[q].pc = "idle" /\ Room
    /\ \E k \in IF kbs = {} THEN {NoKb} ELSE kbs :
         \E r \in Upserts : req' = [req EXCEPT ![q] = [r EXCEPT !.pc = "found", !.kb = k]]
    /\ UNCHANGED <<store, kbs, created, docs, points, leaving, torn, late>>

\* created if none was found,
UpsertKb(q) ==
    /\ req[q].pc = "found"
    /\ \/ /\ req[q].kb = NoKb /\ kbs = {}
          /\ \E k \in NewIds : Create(k) /\ req' = [req EXCEPT ![q] = [@ EXCEPT !.pc = "row", !.kb = k]]
       \/ /\ req[q].kb # NoKb
          /\ req' = [req EXCEPT ![q].pc = "row"] /\ UNCHANGED <<kbs, created>>
    /\ UNCHANGED <<store, docs, points, leaving, torn, late>>

\* unless another request was faster: the unique index ux_kb_owner_app_ext refuses the second
\* and the request fails,
UpsertRefused(q) ==
    /\ req[q].pc = "found" /\ req[q].kb = NoKb /\ kbs # {}
    /\ req' = [req EXCEPT ![q] = Idle]
    /\ UNCHANGED <<store, kbs, created, docs, points, leaving, torn, late>>

\* and the row of the document is looked for (by an ingestion too), then written.
FindsRow(q) ==
    /\ store = "mongo" /\ req[q].pc = "row"
    /\ req' = [req EXCEPT ![q].pc = IF req[q].doc # Loose /\ Rows(req[q].kb, req[q].doc) # {}
                                    THEN "update" ELSE "insert"]
    /\ UNCHANGED <<store, kbs, created, docs, points, leaving, torn, late>>

WritesRow(q) ==
    \/ /\ req[q].pc = "insert" /\ Recorded(q, req[q], req[q].kb, {})
       /\ UNCHANGED <<store, kbs, created, leaving, late>>
    \/ /\ req[q].pc = "update" /\ Rows(req[q].kb, req[q].doc) # {}
       /\ \E r \in Rows(req[q].kb, req[q].doc) : Recorded(q, req[q], req[q].kb, {r})
       /\ UNCHANGED <<store, kbs, created, leaving, late>>

\* An update of a row that is gone changes no row, and the request goes on.
MissesRow(q) ==
    /\ req[q].pc = "update" /\ Rows(req[q].kb, req[q].doc) = {}
    /\ req' = [req EXCEPT ![q] = IF @.text = Blank THEN Idle
                                 ELSE [@ EXCEPT !.pc = "lock", !.calm = FALSE]]
    /\ points' \in {points} \cup (IF req[q].text = Blank THEN {}
                                 ELSE {Without(req[q].kb, req[q].doc)})
    /\ torn' = torn \cup {Of(q)}
    /\ UNCHANGED <<store, kbs, created, docs, leaving, late>>

-----------------------------------------------------------------------------
(* ingest_app_knowledge_document: the base must be there; over MongoDB its credentials are awaited. *)
Ingests == {[Idle EXCEPT !.kind = "ingest", !.doc = d[1], !.text = d[2]] :
              d \in (Docs \X Texts) \cup {<<Loose, Plain>>}}

IngestSqlite(q) ==
    /\ store = "sqlite" /\ req[q].pc = "idle" /\ Room
    /\ \E k \in kbs, r \in Ingests :
         \E old \in First(IF r.doc = Loose THEN {} ELSE Rows(k, r.doc)) : Recorded(q, r, k, old)
    /\ UNCHANGED <<store, kbs, created, leaving, late>>

IngestMongo(q) ==
    /\ store = "mongo" /\ req[q].pc = "idle" /\ Room
    /\ \E k \in kbs, r \in Ingests : req' = [req EXCEPT ![q] = [r EXCEPT !.pc = "row", !.kb = k]]
    /\ UNCHANGED <<store, kbs, created, docs, points, leaving, torn, late>>

-----------------------------------------------------------------------------
(* add_document: the points first, then the row, which alone is written of a document without
   text. *)
Adds == {[Idle EXCEPT !.kind = "add", !.pc = "lock", !.text = Plain],
         [Idle EXCEPT !.kind = "add", !.pc = "record"]}

AddStarts(q) ==
    /\ req[q].pc = "idle" /\ Room
    /\ \E k \in kbs, r \in Adds : req' = [req EXCEPT ![q] = [r EXCEPT !.kb = k]]
    /\ UNCHANGED <<store, kbs, created, docs, points, leaving, torn, late>>

AddRecords(q) ==
    /\ req[q].pc = "record"
    /\ docs' = docs \cup {Point(req[q].kb, Loose, req[q].text)}
    /\ req' = [req EXCEPT ![q] = Idle]
    /\ UNCHANGED <<store, kbs, created, points, leaving, torn, late>>

-----------------------------------------------------------------------------
(* index_kb_document_async, under the lock of the base. *)
Holds(q, k) == req[q].pc = "embed" /\ req[q].kb = k

Locks(q) ==
    /\ req[q].pc = "lock" /\ \A p \in Requests : ~Holds(p, req[q].kb)
    /\ req' = [req EXCEPT ![q].pc = "embed"]
    /\ UNCHANGED <<store, kbs, created, docs, points, leaving, torn, late>>

Indexed(q) ==
    /\ req[q].pc = "embed"
    /\ points' = points \cup {Point(req[q].kb, req[q].doc, req[q].text)}
    /\ req' = [req EXCEPT ![q] = IF @.kind = "add" THEN [@ EXCEPT !.pc = "record"] ELSE Idle]
    /\ torn' = IF req[q].doc = Loose THEN torn
               ELSE IF req[q].calm THEN torn \ {Of(q)} ELSE torn \cup {Of(q)}
    /\ UNCHANGED <<store, kbs, created, docs, leaving, late>>

\* The provider refuses or fails: the request ends with an error, its row and the deletion of the
\* points stay.
EmbedFails(q) ==
    /\ req[q].pc = "embed"
    /\ req' = [req EXCEPT ![q] = Idle]
    /\ torn' = IF req[q].doc = Loose THEN torn ELSE torn \cup {Of(q)}
    /\ UNCHANGED <<store, kbs, created, docs, points, leaving, late>>

-----------------------------------------------------------------------------
(* Deletions. *)
Under(k) == \E q \in Requests : req[q].pc # "idle" /\ req[q].kb = k

\* delete_document leaves the index as it is.
DeleteDocument ==
    /\ \E r \in docs : /\ r.kb \in kbs /\ docs' = docs \ {r}
                       /\ req' = Crossed(r.kb, r.doc)
                       /\ torn' = IF r.doc = Loose THEN torn ELSE torn \cup {<<r.kb, r.doc>>}
    /\ UNCHANGED <<store, kbs, created, points, leaving, late>>

\* The rows are deleted; that the index refuses is only logged.
Emptied_RowsOnly(k) == /\ docs' = {r \in docs : r.kb # k} /\ points' = points
                       /\ late' = IF Under(k) THEN late \cup {k} ELSE late
Emptied(k) == /\ docs' = {r \in docs : r.kb # k}
              /\ \/ points' = {p \in points : p.kb # k} /\ late' = IF Under(k) THEN late \cup {k} ELSE late
                 \/ points' = points /\ late' = late \cup {k}

DeleteSqlite ==
    /\ store = "sqlite"
    /\ \E k \in kbs : kbs' = kbs \ {k} /\ Emptied(k)
    /\ UNCHANGED <<store, created, req, leaving, torn>>

DeleteMongo ==
    /\ store = "mongo"
    /\ \E k \in kbs : kbs' = kbs \ {k} /\ leaving' = leaving \cup {k}
    /\ UNCHANGED <<store, created, docs, points, req, torn, late>>

EmptyMongo ==
    /\ \E k \in leaving : Emptied(k) /\ leaving' = leaving \ {k}
    /\ UNCHANGED <<store, kbs, created, req, torn>>

-----------------------------------------------------------------------------
Step(q) == \/ UpsertSqlite(q) \/ UpsertFinds(q) \/ UpsertKb(q) \/ UpsertRefused(q)
           \/ FindsRow(q) \/ WritesRow(q) \/ MissesRow(q) \/ IngestSqlite(q) \/ IngestMongo(q) \/ AddStarts(q) \/ AddRecords(q)
           \/ Locks(q) \/ Indexed(q) \/ EmbedFails(q)

Next == (\E q \in Requests : Step(q)) \/ DeleteDocument \/ DeleteSqlite \/ DeleteMongo \/ EmptyMongo

Spec == Init /\ [][Next]_vars

-----------------------------------------------------------------------------
(* Types. *)
TypeOK ==
    /\ store \in {"sqlite", "mongo"} /\ kbs \subseteq Ids /\ created \in 0..MaxKbs
    /\ docs \subseteq [kb : Ids, doc : Named \cup {Loose}, text : Texts \cup {Blank, Plain}]
    /\ points \subseteq [kb : Ids, doc : Named \cup {Loose}, text : Texts \cup {Plain}]
    /\ req \in [Requests -> [pc : {"idle", "found", "row", "insert", "update", "lock",
                                   "embed", "record"},
                             kind : {"upsert", "ingest", "add"}, doc : Named \cup {Loose},
                             text : Texts \cup {Blank, Plain}, kb : 0..MaxKbs, calm : BOOLEAN]]
    /\ leaving \subseteq Ids /\ torn \subseteq Ids \X Named /\ late \subseteq Ids

(* Once the updates of a named document are over and the last of them neither crossed another
   nor failed, a search finds one text of it, which is a row's: what went wrong before is
   repaired by the next update that goes right.  A deletion counts as a change, because it
   leaves the points. *)
IndexFollowsRow ==
    \A k \in kbs, doc \in Named :
      /\ Rows(k, doc) # {} /\ <<k, doc>> \notin torn
      /\ ~\E q \in Requests : Writing(q) /\ Of(q) = <<k, doc>>
      => \E r \in Rows(k, doc) :
           {p \in Searched(k) : p.doc = doc} = {Point(k, doc, r.text)}

(* "Unique Key Pair": however requests cross, one base is active for the key; over SQLite a
   named document has one row besides. *)
KeysAreUnique ==
    /\ \A j, k \in kbs : j = k
    /\ store = "sqlite" =>
         \A r, s \in docs : r.kb = s.kb /\ r.doc = s.doc /\ r.doc # Loose => r = s

(* A base that was deleted leaves no rows behind, and an agent still bound to it is told nothing
   of it, unless a request for it was under way when they were deleted or the index refused. *)
DeletedLeavesNothing ==
    \A k \in Ids \ (kbs \cup leaving \cup late) :
      Retrieved(k) = {} /\ \A r \in docs : r.kb # k
=============================================================================
