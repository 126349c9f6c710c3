-------------------------- MODULE KnowledgeIndexProofs --------------------------
(* What is true of every knowledge base, whatever requests for it cross: one base *)
(* for a key, what a search finds of a document whose updates are over, and what  *)
(* a deletion leaves behind.                                                      *)
EXTENDS KnowledgeIndex, TLAPS

RowRecords == [kb : Ids, doc : Named \cup {Loose}, text : Texts \cup {Blank, Plain}]
PointRecords == [kb : Ids, doc : Named \cup {Loose}, text : Texts \cup {Plain}]
ReqRecords == [pc : {"idle", "found", "row", "insert", "update", "lock", "embed", "record"},
               kind : {"upsert", "ingest", "add"}, doc : Named \cup {Loose},
               text : Texts \cup {Blank, Plain}, kb : 0..MaxKbs, calm : BOOLEAN]

\* What every stage of a request has behind it.
Stage(x) ==
    /\ x.pc \notin {"idle", "found"} => x.kb \in Ids
    /\ x.pc \in {"lock", "embed"} => x.text \in Texts \cup {Plain}
    /\ x.kind = "add" => x.doc = Loose
    /\ x.pc = "record" => x.kind = "add"
    /\ x.pc = "update" => x.doc # Loose
    /\ x.pc \in {"found", "row", "insert", "update"} =>
         store = "mongo" /\ x.kind # "add" /\ (x.doc = Loose => x.text # Blank)

\* A base that is neither active nor about to be emptied has nothing left and no request under
\* way, unless one was when it was deleted, or the index refused.
Cleared(k) ==
    \/ k \in kbs \cup leaving \cup late
    \/ /\ \A p \in points : p.kb # k
       /\ \A r \in docs : r.kb # k
       /\ ~Under(k)

\* What the index holds of a document, and who is writing it.
Copies(k, doc) == {p \in points : p.kb = k /\ p.doc = doc}
Writes(q, k, doc) == Writing(q) /\ Of(q) = <<k, doc>>

\* IndexFollowsRow of a base that may be deleted.
Settled(k, doc) ==
    /\ Rows(k, doc) # {} /\ <<k, doc>> \notin torn
    /\ \A q \in Requests : ~Writes(q, k, doc)
    => \E r \in Rows(k, doc) : Copies(k, doc) = {Point(k, doc, r.text)}

\* An update that has crossed no other is alone with a row of its own text, and the index is
\* cleared for it, as long as the base has rows of the document.
Undisturbed(k, doc) ==
    \A q \in Requests :
      Writes(q, k, doc) /\ req[q].calm /\ Rows(k, doc) # {} =>
        /\ \A p \in Requests : Writes(p, k, doc) => p = q
        /\ Copies(k, doc) = {}
        /\ \E r \in Rows(k, doc) : r.text = req[q].text

IndexInv ==
    /\ TypeOK /\ KeysAreUnique
    /\ \A q \in Requests : Stage(req[q])
    /\ \A k \in Ids : Cleared(k)
    /\ \A k \in Ids, doc \in Named : Settled(k, doc) /\ Undisturbed(k, doc)

LEMMA Types ==
  TypeOK <=> /\ store \in {"sqlite", "mongo"} /\ kbs \subseteq Ids /\ created \in 0..MaxKbs
             /\ docs \subseteq RowRecords /\ points \subseteq PointRecords
             /\ req \in [Requests -> ReqRecords]
             /\ leaving \subseteq Ids /\ torn \subseteq Ids \X Named /\ late \subseteq Ids
  BY DEF TypeOK, RowRecords, PointRecords, ReqRecords

LEMMA Bounds ==
  /\ NoKb \notin Ids /\ Ids \cup {NoKb} = 0..MaxKbs
  /\ Loose \notin Named /\ Root \in Named
  BY KnowledgeAssumption DEF Ids, NoKb, Loose, Root, Named

--------------------------------------------------------------------------------
(* What a step leaves as it was *)

\* Request x may have lost its calm, nothing else.
Same(y, x) ==
    /\ y \in ReqRecords /\ y.pc = x.pc /\ y.kind = x.kind /\ y.doc = x.doc /\ y.text = x.text
    /\ y.kb = x.kb /\ (y.calm => x.calm)

Pair(k, doc) == Settled(k, doc) /\ Undisturbed(k, doc)

\* Nobody writes a document that nobody wrote before, and nothing of it changes.
LEMMA PairStays ==
  ASSUME NEW k \in Ids, NEW doc \in Named, Pair(k, doc),
         Rows(k, doc)' = Rows(k, doc), Copies(k, doc)' = Copies(k, doc),
         <<k, doc>> \in torn => <<k, doc>> \in torn',
         \A q \in Requests : Writes(q, k, doc)' <=> Writes(q, k, doc),
         \A q \in Requests : Writes(q, k, doc) =>
             req'[q].text = req[q].text /\ (req'[q].calm => req[q].calm)
  PROVE  Pair(k, doc)'
<1>1. Settled(k, doc)'
  BY DEF Pair, Settled, Point
<1>2. Undisturbed(k, doc)'
  BY DEF Pair, Undisturbed
<1> QED
  BY <1>1, <1>2 DEF Pair

LEMMA PairGone ==
  ASSUME NEW k \in Ids, NEW doc \in Named, Rows(k, doc)' = {}
  PROVE  Pair(k, doc)'
  BY DEF Pair, Settled, Undisturbed

\* Whatever is new belongs to a base that is not deleted and done with.
Known == kbs \cup leaving \cup late

LEMMA ClearedStays ==
  ASSUME \A k \in Ids : Cleared(k), Known \subseteq Known',
         \A p \in points' \ points : p.kb \in Known',
         \A r \in docs' \ docs : r.kb \in Known',
         \A q \in Requests : req'[q].pc # "idle" =>
             \/ req'[q].kb \in Known' \cup {NoKb}
             \/ req[q].pc # "idle" /\ req'[q].kb = req[q].kb
  PROVE  \A k \in Ids : Cleared(k)'
<1> SUFFICES ASSUME NEW k \in Ids, k \notin Known'
             PROVE  /\ \A p \in points' : p.kb # k
                    /\ \A r \in docs' : r.kb # k
                    /\ ~Under(k)'
  BY DEF Cleared, Known
<1>1. /\ \A p \in points : p.kb # k
      /\ \A r \in docs : r.kb # k
      /\ ~Under(k)
  BY DEF Cleared, Known
<1> QED
  BY <1>1, Bounds DEF Under

\* A request that is under way is for a base that is not done with.
LEMMA UnderKnown ==
  ASSUME \A k \in Ids : Cleared(k), NEW q \in Requests, req[q].pc # "idle", req[q].kb \in Ids
  PROVE  req[q].kb \in Known
  BY DEF Cleared, Under, Known

--------------------------------------------------------------------------------
(* A request goes on without writing *)

LEMMA GoesOn ==
  ASSUME IndexInv, NEW q \in Requests, NEW y \in ReqRecords, req' = [req EXCEPT ![q] = y],
         Stage(y), UNCHANGED <<store, docs, points, leaving, torn, late>>,
         kbs \subseteq kbs', kbs' \subseteq Ids, \A j, k \in kbs' : j = k, created' \in 0..MaxKbs,
         \/ /\ req[q].pc \notin {"lock", "embed"} \/ req[q].doc = Loose
            /\ y.pc \notin {"lock", "embed"} \/ y.doc = Loose
         \/ /\ req[q].pc = "lock" /\ y.pc = "embed" /\ y.kb = req[q].kb /\ y.doc = req[q].doc
            /\ y.text = req[q].text /\ y.calm = req[q].calm,
         y.pc # "idle" => y.kb \in kbs' \cup {NoKb} \/ (req[q].pc # "idle" /\ y.kb = req[q].kb)
  PROVE  IndexInv'
<1>1. /\ TypeOK /\ KeysAreUnique /\ req \in [Requests -> ReqRecords]
      /\ \A k \in Ids : Cleared(k)
      /\ \A k \in Ids, doc \in Named : Pair(k, doc)
      /\ \A p \in Requests : Stage(req[p])
  BY Types DEF IndexInv, Pair
<1>2. req'[q] = y /\ \A p \in Requests \ {q} : req'[p] = req[p]
  BY <1>1
<1>3. TypeOK'
  BY <1>1 DEF TypeOK, ReqRecords
<1>4. KeysAreUnique'
  BY <1>1 DEF KeysAreUnique
<1>5. \A p \in Requests : Stage(req[p])'
  BY <1>1, <1>2 DEF Stage
<1>6. \A k \in Ids : Cleared(k)'
  BY <1>1, <1>2, ClearedStays DEF Known
<1>7. ASSUME NEW k \in Ids, NEW doc \in Named PROVE Pair(k, doc)'
  <2>1. Rows(k, doc)' = Rows(k, doc) /\ Copies(k, doc)' = Copies(k, doc)
    BY DEF Rows, Copies
  <2>2. ASSUME NEW p \in Requests
        PROVE  /\ Writes(p, k, doc)' <=> Writes(p, k, doc)
               /\ Writes(p, k, doc) => req'[p].text = req[p].text /\ (req'[p].calm => req[p].calm)
    BY <1>2, Bounds DEF Writes, Writing, Of
  <2> QED
    BY <1>1, <2>1, <2>2, PairStays
<1> QED
  BY <1>3, <1>4, <1>5, <1>6, <1>7 DEF IndexInv, Pair

--------------------------------------------------------------------------------
(* Writing a row *)

LEMMA CrossedShape ==
  ASSUME NEW k \in Ids, NEW doc \in Named \cup {Loose}, req \in [Requests -> ReqRecords]
  PROVE  /\ Crossed(k, doc) \in [Requests -> ReqRecords]
         /\ \A p \in Requests : Same(Crossed(k, doc)[p], req[p])
         /\ \A p \in Crossing(k, doc) : Crossed(k, doc)[p].calm = FALSE
         /\ \A p \in Requests \ Crossing(k, doc) : Crossed(k, doc)[p] = req[p]
<1>1. ASSUME NEW x \in ReqRecords
      PROVE  Same([x EXCEPT !.calm = FALSE], x) /\ [x EXCEPT !.calm = FALSE].calm = FALSE /\ Same(x, x)
  BY DEF Same, ReqRecords
<1>2. \A p \in Requests : req[p] \in ReqRecords
  OBVIOUS
<1>3. Crossing(k, doc) \subseteq Requests
  BY DEF Crossing
<1>4. \A p \in Requests : Crossed(k, doc)[p] = IF p \in Crossing(k, doc) THEN [req[p] EXCEPT !.calm = FALSE] ELSE req[p]
  BY DEF Crossed
<1>5. \A p \in Requests : Same(Crossed(k, doc)[p], req[p])
  BY <1>1, <1>2, <1>4
<1>6. Crossed(k, doc) \in [Requests -> ReqRecords]
  BY <1>4, <1>5 DEF Same, Crossed
<1> QED
  BY <1>1, <1>2, <1>3, <1>4, <1>5, <1>6

\* What Recorded does.
LEMMA RecordedShape ==
  ASSUME NEW q \in Requests, NEW r \in ReqRecords, NEW k \in Ids, NEW old, Recorded(q, r, k, old),
         req \in [Requests -> ReqRecords], points \subseteq PointRecords
  PROVE  /\ docs' = (docs \ old) \cup {Point(k, r.doc, r.text)}
         /\ req' \in [Requests -> ReqRecords]
         /\ \A p \in Requests \ {q} : /\ Same(req'[p], req[p])
                                      /\ p \in Crossing(k, r.doc) => req'[p].calm = FALSE
         /\ \/ /\ r.text = Blank /\ req'[q] = Idle /\ points' = points
               /\ torn' = torn \cup {<<k, r.doc>>}
            \/ /\ r.text # Blank /\ torn' = torn
               /\ req'[q].pc = "lock" /\ req'[q].kind = r.kind /\ req'[q].doc = r.doc
               /\ req'[q].text = r.text /\ req'[q].kb = k
               /\ points' \in {points, Without(k, r.doc)} /\ (r.doc = Loose => points' = points)
               /\ req'[q].calm /\ r.doc # Loose => points' = Without(k, r.doc) /\ Crossing(k, r.doc) = {}
<1> DEFINE c == Crossed(k, r.doc)
<1>1. /\ c \in [Requests -> ReqRecords] /\ \A p \in Requests : Same(c[p], req[p])
      /\ \A p \in Crossing(k, r.doc) : c[p].calm = FALSE
  <2> r.doc \in Named \cup {Loose}
    BY DEF ReqRecords
  <2>1. /\ Crossed(k, r.doc) \in [Requests -> ReqRecords]
        /\ \A p \in Requests : Same(Crossed(k, r.doc)[p], req[p])
        /\ \A p \in Crossing(k, r.doc) : Crossed(k, r.doc)[p].calm = FALSE
    BY CrossedShape, Zenon
  <2> QED
    BY <2>1
<1>2. /\ docs' = (docs \ old) \cup {Point(k, r.doc, r.text)}
      /\ \/ /\ r.text = Blank /\ req' = [c EXCEPT ![q] = Idle] /\ points' = points
            /\ torn' = torn \cup {<<k, r.doc>>}
         \/ /\ r.text # Blank /\ torn' = torn
            /\ \E cleared \in BOOLEAN :
                 /\ points' = IF cleared /\ r.doc # Loose THEN Without(k, r.doc) ELSE points
                 /\ req' = [c EXCEPT ![q] = [r EXCEPT !.pc = "lock", !.kb = k,
                                                      !.calm = cleared /\ Crossing(k, r.doc) = {}]]
  BY DEF Recorded
<1> HIDE DEF c
<1>3. Idle \in ReqRecords
  BY Bounds DEF Idle, ReqRecords
<1>4. ASSUME NEW b \in BOOLEAN
      PROVE  LET y == [r EXCEPT !.pc = "lock", !.kb = k, !.calm = b]
             IN  /\ y \in ReqRecords /\ y.pc = "lock" /\ y.kind = r.kind /\ y.doc = r.doc
                 /\ y.text = r.text /\ y.kb = k /\ y.calm = b
  BY Bounds DEF ReqRecords
<1>5. CASE r.text = Blank
  BY <1>1, <1>2, <1>3, <1>5
<1>6. CASE r.text # Blank
  <2> PICK cleared \in BOOLEAN :
        /\ points' = IF cleared /\ r.doc # Loose THEN Without(k, r.doc) ELSE points
        /\ req' = [c EXCEPT ![q] = [r EXCEPT !.pc = "lock", !.kb = k,
                                             !.calm = cleared /\ Crossing(k, r.doc) = {}]]
    BY <1>2, <1>6
  <2> DEFINE b == cleared /\ Crossing(k, r.doc) = {}
             y == [r EXCEPT !.pc = "lock", !.kb = k, !.calm = b]
  <2>1. req' = [c EXCEPT ![q] = y] /\ b \in BOOLEAN
    OBVIOUS
  <2>2. /\ y \in ReqRecords /\ y.pc = "lock" /\ y.kind = r.kind /\ y.doc = r.doc
        /\ y.text = r.text /\ y.kb = k /\ y.calm = b
    BY <1>4, <2>1
  <2> HIDE DEF y
  <2>3. req' \in [Requests -> ReqRecords] /\ req'[q] = y /\ \A p \in Requests \ {q} : req'[p] = c[p]
    BY <1>1, <2>1, <2>2
  <2>4. torn' = torn /\ docs' = (docs \ old) \cup {Point(k, r.doc, r.text)}
    BY <1>2, <1>6
  <2> QED
    BY <1>1, <1>6, <2>2, <2>3, <2>4
<1> QED
  BY <1>5, <1>6

\* Writing a row of a base that is not done with: it begins an update of a named document, which
\* is calm only if it is alone and the index cleared.
LEMMA RecordedStep ==
  ASSUME IndexInv, NEW q \in Requests, NEW r \in ReqRecords, NEW k \in Ids, NEW old,
         Recorded(q, r, k, old), old \subseteq Rows(k, r.doc),
         store = "sqlite" /\ r.doc # Loose => Rows(k, r.doc) \subseteq old,
         req[q].pc \notin {"lock", "embed"}, r.kind # "add", r.doc = Loose => r.text # Blank,
         UNCHANGED <<store, leaving, late>>, created' \in 0..MaxKbs,
         kbs \subseteq kbs', kbs' \subseteq Ids, \A i, j \in kbs' : i = j,
         k \in kbs' \cup leaving \cup late
  PROVE  IndexInv'
<1>1. /\ TypeOK /\ KeysAreUnique /\ req \in [Requests -> ReqRecords]
      /\ docs \subseteq RowRecords /\ points \subseteq PointRecords /\ torn \subseteq Ids \X Named
      /\ \A j \in Ids : Cleared(j)
      /\ \A j \in Ids, doc \in Named : Pair(j, doc)
      /\ \A p \in Requests : Stage(req[p])
  BY Types DEF IndexInv, Pair
<1>2. r.doc \in Named \cup {Loose} /\ r.text \in Texts \cup {Blank, Plain} /\ r.kind \in {"upsert", "ingest"}
  BY DEF ReqRecords
<1> DEFINE row == Point(k, r.doc, r.text)
<1>3. /\ docs' = (docs \ old) \cup {row} /\ req' \in [Requests -> ReqRecords]
      /\ \A p \in Requests \ {q} : /\ Same(req'[p], req[p])
                                   /\ p \in Crossing(k, r.doc) => req'[p].calm = FALSE
      /\ \/ /\ r.text = Blank /\ req'[q] = Idle /\ points' = points
            /\ torn' = torn \cup {<<k, r.doc>>}
         \/ /\ r.text # Blank /\ torn' = torn
            /\ req'[q].pc = "lock" /\ req'[q].kind = r.kind /\ req'[q].doc = r.doc
            /\ req'[q].text = r.text /\ req'[q].kb = k
            /\ points' \in {points, Without(k, r.doc)} /\ (r.doc = Loose => points' = points)
            /\ req'[q].calm /\ r.doc # Loose => points' = Without(k, r.doc) /\ Crossing(k, r.doc) = {}
  BY <1>1, RecordedShape
<1>4. row \in RowRecords /\ row.kb = k /\ row.doc = r.doc /\ row.text = r.text
  BY <1>2 DEF Point, RowRecords
<1> HIDE DEF row
<1>5. points' \subseteq points
  BY <1>3 DEF Without
<1>6. TypeOK'
  <2>1. docs' \subseteq RowRecords /\ points' \subseteq PointRecords
    BY <1>1, <1>3, <1>4, <1>5
  <2>2. torn' \subseteq Ids \X Named
    BY <1>1, <1>2, <1>3
  <2>3. store' \in {"sqlite", "mongo"} /\ leaving' \subseteq Ids /\ late' \subseteq Ids
    BY <1>1 DEF TypeOK
  <2> QED
    BY <1>3, <2>1, <2>2, <2>3 DEF TypeOK, RowRecords, PointRecords, ReqRecords
<1>7. KeysAreUnique'
  <2> SUFFICES ASSUME store = "sqlite", NEW x \in docs', NEW y \in docs', x.kb = y.kb, x.doc = y.doc, x.doc # Loose
               PROVE  x = y
    BY DEF KeysAreUnique
  <2>1. ASSUME NEW z \in docs, z.kb = k, z.doc = r.doc, r.doc # Loose PROVE z \in old
    BY <2>1 DEF Rows
  <2> QED
    BY <1>1, <1>3, <1>4, <2>1 DEF KeysAreUnique
<1>8. ASSUME NEW p \in Requests PROVE Stage(req[p])'
  <2>1. CASE p # q
    BY <1>1, <1>3, <2>1 DEF Stage, Same
  <2>2. CASE p = q
    BY <1>2, <1>3, <2>2 DEF Stage, Idle
  <2> QED
    BY <2>1, <2>2
<1>9. \A j \in Ids : Cleared(j)'
  <2>1. Known \subseteq Known' /\ k \in Known'
    BY DEF Known
  <2>2. ASSUME NEW p \in Requests, req'[p].pc # "idle"
        PROVE  \/ req'[p].kb \in Known' \cup {NoKb}
               \/ req[p].pc # "idle" /\ req'[p].kb = req[p].kb
    BY <1>3, <2>1, <2>2 DEF Same, Idle
  <2> QED
    BY <1>1, <1>3, <1>4, <1>5, <2>1, <2>2, ClearedStays
<1>10. ASSUME NEW j \in Ids, NEW doc \in Named, <<j, doc>> # <<k, r.doc>> PROVE Pair(j, doc)'
  <2>1. Rows(j, doc)' = Rows(j, doc)
    BY <1>3, <1>4, <1>10 DEF Rows
  <2>2. Copies(j, doc)' = Copies(j, doc)
    BY <1>3, <1>10 DEF Copies, Without
  <2>3. ASSUME NEW p \in Requests
        PROVE  /\ Writes(p, j, doc)' <=> Writes(p, j, doc)
               /\ Writes(p, j, doc) => req'[p].text = req[p].text /\ (req'[p].calm => req[p].calm)
    <3>1. CASE p # q
      BY <1>3, <3>1 DEF Writes, Writing, Of, Same
    <3>2. CASE p = q
      BY <1>3, <1>10, <3>2 DEF Writes, Writing, Of, Idle
    <3> QED
      BY <3>1, <3>2
  <2> QED
    BY <1>1, <1>3, <2>1, <2>2, <2>3, PairStays
<1>11. ASSUME r.doc \in Named PROVE Pair(k, r.doc)'
  <2>1. r.doc # Loose
    BY <1>11, Bounds
  <2>2. Settled(k, r.doc)'
    <3>1. CASE r.text = Blank
      BY <1>3, <3>1 DEF Settled
    <3>2. CASE r.text # Blank
      BY <1>3, <2>1, <3>2 DEF Settled, Writes, Writing, Of
    <3> QED
      BY <3>1, <3>2
  <2>3. ASSUME NEW p \in Requests \ {q}, Writes(p, k, r.doc)' PROVE p \in Crossing(k, r.doc) /\ req'[p].calm = FALSE
    BY <1>3, <2>3 DEF Writes, Writing, Of, Same, Crossing
  <2>4. ASSUME Writes(q, k, r.doc)', req'[q].calm
        PROVE  /\ \A p \in Requests : Writes(p, k, r.doc)' => p = q
               /\ Copies(k, r.doc)' = {}
               /\ \E x \in Rows(k, r.doc)' : x.text = req'[q].text
    <3>1. r.text # Blank
      BY <1>3, <2>4 DEF Writes, Writing, Idle
    <3>2. points' = Without(k, r.doc) /\ Crossing(k, r.doc) = {} /\ req'[q].text = r.text
      BY <1>3, <2>1, <2>4, <3>1
    <3>3. Copies(k, r.doc)' = {}
      BY <3>2 DEF Copies, Without
    <3>4. row \in Rows(k, r.doc)'
      BY <1>3, <1>4 DEF Rows
    <3> QED
      BY <1>4, <2>3, <3>2, <3>3, <3>4
  <2>5. Undisturbed(k, r.doc)'
    BY <2>3, <2>4 DEF Undisturbed
  <2> QED
    BY <2>2, <2>5 DEF Pair
<1>12. \A j \in Ids, doc \in Named : Pair(j, doc)'
  BY <1>10, <1>11
<1> QED
  BY <1>6, <1>7, <1>8, <1>9, <1>12 DEF IndexInv, Pair

--------------------------------------------------------------------------------
(* The steps of a request *)

LEMMA FirstRow ==
  ASSUME KeysAreUnique, NEW k \in Ids, NEW doc \in Named, NEW old \in First(Rows(k, doc))
  PROVE  old \subseteq Rows(k, doc) /\ (store = "sqlite" => Rows(k, doc) \subseteq old)
<1>1. ASSUME store = "sqlite", NEW x \in Rows(k, doc), NEW y \in Rows(k, doc) PROVE x = y
  BY <1>1, Bounds DEF KeysAreUnique, Rows
<1> QED
  BY <1>1 DEF First

LEMMA Starts ==
  /\ \A r \in Upserts : /\ r \in ReqRecords /\ r.kind = "upsert" /\ r.doc = Root /\ r.pc = "idle"
                        /\ r.kb = NoKb
  /\ \A r \in Ingests : /\ r \in ReqRecords /\ r.kind = "ingest" /\ r.pc = "idle"
                        /\ r.doc = Loose => r.text # Blank
  /\ \A r \in Adds : /\ r \in ReqRecords /\ r.kind = "add" /\ r.doc = Loose
                     /\ r.pc \in {"lock", "record"} /\ (r.pc = "lock" => r.text = Plain)
<1>1. ASSUME NEW t \in Texts \cup {Blank}
      PROVE  LET r == [Idle EXCEPT !.doc = Root, !.text = t]
             IN  /\ r \in ReqRecords /\ r.kind = "upsert" /\ r.doc = Root /\ r.pc = "idle" /\ r.kb = NoKb
  BY Bounds DEF Idle, ReqRecords
<1>2. ASSUME NEW d \in Docs \cup {Loose}, NEW t \in Texts \cup {Plain}
      PROVE  LET r == [Idle EXCEPT !.kind = "ingest", !.doc = d, !.text = t]
             IN  /\ r \in ReqRecords /\ r.kind = "ingest" /\ r.pc = "idle" /\ r.text = t
  BY Bounds DEF Idle, ReqRecords, Named
<1>3. LET r == [Idle EXCEPT !.kind = "add", !.pc = "lock", !.text = Plain]
          s == [Idle EXCEPT !.kind = "add", !.pc = "record"]
      IN  /\ r \in ReqRecords /\ r.kind = "add" /\ r.doc = Loose /\ r.pc = "lock" /\ r.text = Plain
          /\ s \in ReqRecords /\ s.kind = "add" /\ s.doc = Loose /\ s.pc = "record"
  BY Bounds DEF Idle, ReqRecords
<1>4. \A r \in Upserts : /\ r \in ReqRecords /\ r.kind = "upsert" /\ r.doc = Root /\ r.pc = "idle"
                         /\ r.kb = NoKb
  BY <1>1 DEF Upserts
<1>5. ASSUME NEW r \in Ingests
      PROVE  r \in ReqRecords /\ r.kind = "ingest" /\ r.pc = "idle" /\ (r.doc = Loose => r.text # Blank)
  <2> PICK d \in (Docs \X Texts) \cup {<<Loose, Plain>>} :
             r = [Idle EXCEPT !.kind = "ingest", !.doc = d[1], !.text = d[2]]
    BY DEF Ingests
  <2>1. d[1] \in Docs \cup {Loose} /\ d[2] \in Texts \cup {Plain} /\ d[2] # Blank
    BY KnowledgeAssumption
  <2> QED
    BY <1>2, <2>1, ZenonT(40)
<1>6. \A r \in Adds : /\ r \in ReqRecords /\ r.kind = "add" /\ r.doc = Loose
                      /\ r.pc \in {"lock", "record"} /\ (r.pc = "lock" => r.text = Plain)
  BY <1>3 DEF Adds
<1> QED
  BY <1>4, <1>5, <1>6

LEMMA SqliteWrites ==
  ASSUME IndexInv, NEW q \in Requests, UpsertSqlite(q) \/ IngestSqlite(q)
  PROVE  IndexInv'
<1>1. /\ KeysAreUnique /\ kbs \subseteq Ids /\ created \in 0..MaxKbs
      /\ store = "sqlite" /\ req[q].pc = "idle" /\ UNCHANGED <<store, leaving, late>>
  BY Types DEF IndexInv, UpsertSqlite, IngestSqlite
<1>2. CASE UpsertSqlite(q)
  <2> PICK r \in Upserts :
         IF kbs # {} THEN /\ \E k \in kbs : \E old \in First(Rows(k, Root)) : Recorded(q, r, k, old)
                          /\ UNCHANGED <<kbs, created>>
         ELSE \E k \in NewIds : Create(k) /\ \E old \in First(Rows(k, Root)) : Recorded(q, r, k, old)
    BY <1>2 DEF UpsertSqlite
  <2>1. r \in ReqRecords /\ r.kind = "upsert" /\ r.doc = Root
    BY Starts
  <2>2. \E k \in Ids : /\ \E old \in First(Rows(k, Root)) : Recorded(q, r, k, old)
                       /\ k \in kbs' /\ kbs \subseteq kbs' /\ kbs' \subseteq Ids
                       /\ \A i, j \in kbs' : i = j
                       /\ created' \in 0..MaxKbs
    <3>1. CASE kbs # {}
      BY <1>1, <3>1 DEF KeysAreUnique
    <3>2. CASE kbs = {}
      <4> PICK k \in NewIds : Create(k) /\ \E old \in First(Rows(k, Root)) : Recorded(q, r, k, old)
        BY <3>2
      <4>1. k \in Ids /\ created' = k /\ kbs' = {k}
        BY <3>2 DEF Create
      <4> QED
        BY <3>2, <4>1, Bounds
    <3> QED
      BY <3>1, <3>2
  <2> PICK k \in Ids : /\ \E old \in First(Rows(k, Root)) : Recorded(q, r, k, old)
                       /\ k \in kbs' /\ kbs \subseteq kbs' /\ kbs' \subseteq Ids
                       /\ \A i, j \in kbs' : i = j
                       /\ created' \in 0..MaxKbs
    BY <2>2
  <2> PICK old \in First(Rows(k, Root)) : Recorded(q, r, k, old)
    OBVIOUS
  <2>3. old \subseteq Rows(k, r.doc) /\ Rows(k, r.doc) \subseteq old /\ r.doc # Loose
    BY <1>1, <2>1, Bounds, FirstRow
  <2> QED
    BY <1>1, <2>1, <2>3, RecordedStep
<1>3. CASE IngestSqlite(q)
  <2>1. kbs' = kbs /\ created' = created
    BY <1>3 DEF IngestSqlite
  <2> PICK k \in kbs, r \in Ingests :
         \E old \in First(IF r.doc = Loose THEN {} ELSE Rows(k, r.doc)) : Recorded(q, r, k, old)
    BY <1>3 DEF IngestSqlite
  <2> PICK old \in First(IF r.doc = Loose THEN {} ELSE Rows(k, r.doc)) : Recorded(q, r, k, old)
    OBVIOUS
  <2>2. /\ r \in ReqRecords /\ r.kind = "ingest" /\ (r.doc = Loose => r.text # Blank)
        /\ r.doc \in Named \cup {Loose} /\ k \in Ids
    BY <1>1, Starts DEF ReqRecords
  <2>3. old \subseteq Rows(k, r.doc) /\ (r.doc # Loose => Rows(k, r.doc) \subseteq old)
    <3>1. CASE r.doc = Loose
      BY <3>1 DEF First
    <3>2. CASE r.doc # Loose
      BY <1>1, <2>2, <3>2, FirstRow
    <3> QED
      BY <3>1, <3>2
  <2>4. \A i, j \in kbs' : i = j
    BY <1>1, <2>1 DEF KeysAreUnique
  <2> QED
    BY <1>1, <2>1, <2>2, <2>3, <2>4, RecordedStep
<1> QED
  BY <1>2, <1>3

LEMMA MongoWrites ==
  ASSUME IndexInv, NEW q \in Requests, WritesRow(q)
  PROVE  IndexInv'
<1>1. /\ KeysAreUnique /\ kbs \subseteq Ids /\ created \in 0..MaxKbs /\ Stage(req[q])
      /\ UNCHANGED <<store, kbs, created, leaving, late>>
      /\ req[q] \in ReqRecords /\ req[q].pc \in {"insert", "update"}
  BY Types DEF IndexInv, WritesRow
<1>2. /\ req[q].kb \in Ids /\ store = "mongo" /\ req[q].kind # "add"
      /\ req[q].doc = Loose => req[q].text # Blank
  BY <1>1 DEF Stage
<1>3. req[q].kb \in kbs \cup leaving \cup late
  BY <1>1, <1>2, UnderKnown DEF IndexInv, Known
<1>4. PICK old : old \subseteq Rows(req[q].kb, req[q].doc) /\ Recorded(q, req[q], req[q].kb, old)
  <2>1. CASE req[q].pc = "insert"
    BY <2>1 DEF WritesRow
  <2>2. CASE req[q].pc = "update"
    <3> PICK r \in Rows(req[q].kb, req[q].doc) : Recorded(q, req[q], req[q].kb, {r})
      BY <2>2 DEF WritesRow
    <3> QED
      OBVIOUS
  <2> QED
    BY <1>1, <2>1, <2>2
<1>5. /\ \A i, j \in kbs' : i = j
      /\ kbs \subseteq kbs' /\ kbs' \subseteq Ids /\ created' \in 0..MaxKbs
      /\ req[q].kb \in kbs' \cup leaving \cup late
      /\ UNCHANGED <<store, leaving, late>>
  BY <1>1, <1>3 DEF KeysAreUnique
<1> QED
  BY <1>1, <1>2, <1>4, <1>5, RecordedStep

LEMMA Looking ==
  ASSUME IndexInv, NEW q \in Requests,
         \/ UpsertFinds(q) \/ UpsertKb(q) \/ UpsertRefused(q) \/ FindsRow(q)
         \/ IngestMongo(q) \/ AddStarts(q) \/ Locks(q)
  PROVE  IndexInv'
<1>1. /\ KeysAreUnique /\ kbs \subseteq Ids /\ created \in 0..MaxKbs /\ Stage(req[q])
      /\ req[q] \in ReqRecords /\ UNCHANGED <<store, docs, points, leaving, torn, late>>
  BY Types DEF IndexInv, UpsertFinds, UpsertKb, UpsertRefused, FindsRow, IngestMongo, AddStarts, Locks
<1>2. \A j, k \in kbs : j = k
  BY <1>1 DEF KeysAreUnique
<1>4. ASSUME NEW x \in ReqRecords, NEW p \in {"found", "row", "insert", "update", "embed"}
      PROVE  LET y == [x EXCEPT !.pc = p]
             IN  /\ y \in ReqRecords /\ y.pc = p /\ y.kb = x.kb /\ y.kind = x.kind /\ y.doc = x.doc
                 /\ y.text = x.text /\ y.calm = x.calm
  BY DEF ReqRecords
<1>5. CASE UpsertFinds(q)
  <2> PICK k \in IF kbs = {} THEN {NoKb} ELSE kbs, r \in Upserts :
             req' = [req EXCEPT ![q] = [r EXCEPT !.pc = "found", !.kb = k]]
    BY <1>5 DEF UpsertFinds
  <2> DEFINE y == [r EXCEPT !.pc = "found", !.kb = k]
  <2>1. r \in ReqRecords /\ r.kind = "upsert" /\ r.doc = Root /\ k \in 0..MaxKbs /\ k \in kbs \cup {NoKb}
    BY <1>1, Starts, Bounds
  <2>0. r \in ReqRecords /\ r.kind = "upsert" /\ r.doc = Root /\ k \in 0..MaxKbs
    BY <2>1
  <2>2. y \in ReqRecords /\ y.pc = "found" /\ y.kb = k /\ y.kind = "upsert" /\ y.doc = Root
    BY <2>0 DEF ReqRecords
  <2>3. /\ store = "mongo" /\ req[q].pc = "idle" /\ kbs' = kbs /\ created' = created
        /\ req' = [req EXCEPT ![q] = y]
    BY <1>5 DEF UpsertFinds
  <2> HIDE DEF y
  <2>4. Stage(y)
    BY <1>1, <2>2, <2>3, Bounds DEF Stage
  <2> QED
    BY <1>1, <1>2, <2>1, <2>2, <2>3, <2>4, GoesOn
<1>6. CASE UpsertKb(q)
  <2>1. req[q].pc = "found" /\ req[q].kind # "add" /\ store = "mongo" /\ (req[q].doc = Loose => req[q].text # Blank)
    BY <1>1, <1>6 DEF UpsertKb, Stage
  <2>2. CASE req[q].kb = NoKb
    <3> PICK k \in NewIds : Create(k) /\ req' = [req EXCEPT ![q] = [@ EXCEPT !.pc = "row", !.kb = k]]
      BY <1>6, <2>2 DEF UpsertKb
    <3> DEFINE y == [req[q] EXCEPT !.pc = "row", !.kb = k]
    <3>1. kbs = {} /\ k \in Ids /\ created' = k /\ kbs' = kbs \cup {k}
      BY <1>6, <2>2 DEF UpsertKb, Create
    <3>2. req' = [req EXCEPT ![q] = y]
      OBVIOUS
    <3>3. /\ y \in ReqRecords /\ y.pc = "row" /\ y.kb = k /\ y.kind = req[q].kind
          /\ y.doc = req[q].doc /\ y.text = req[q].text
      <4>1. req[q] \in ReqRecords /\ k \in 0..MaxKbs
        BY <1>1, <3>1, Bounds
      <4> QED
        BY <4>1 DEF ReqRecords
    <3> HIDE DEF y
    <3>4. Stage(y)
      BY <1>1, <2>1, <3>1, <3>3 DEF Stage
    <3>5. kbs \subseteq kbs' /\ kbs' \subseteq Ids /\ (\A i, j \in kbs' : i = j) /\ created' \in 0..MaxKbs
      BY <1>1, <3>1, Bounds
    <3> QED
      BY <1>1, <2>1, <3>1, <3>2, <3>3, <3>4, <3>5, GoesOn
  <2>3. CASE req[q].kb # NoKb
    <3> DEFINE y == [req[q] EXCEPT !.pc = "row"]
    <3>1. req' = [req EXCEPT ![q] = y] /\ kbs' = kbs /\ created' = created
      BY <1>6, <2>3 DEF UpsertKb
    <3>2. /\ y \in ReqRecords /\ y.pc = "row" /\ y.kb = req[q].kb /\ y.kind = req[q].kind
          /\ y.doc = req[q].doc /\ y.text = req[q].text
      BY <1>1, <1>4
    <3> HIDE DEF y
    <3>3. req[q].kb \in Ids
      BY <1>1, <2>3, Bounds DEF ReqRecords
    <3>4. Stage(y)
      BY <1>1, <2>1, <3>2, <3>3 DEF Stage
    <3> QED
      BY <1>1, <1>2, <2>1, <3>1, <3>2, <3>4, GoesOn
  <2> QED
    BY <2>2, <2>3
<1>7. CASE UpsertRefused(q)
  <2>1. req' = [req EXCEPT ![q] = Idle] /\ req[q].pc = "found" /\ kbs' = kbs /\ created' = created
    BY <1>7 DEF UpsertRefused
  <2>2. Idle \in ReqRecords /\ Idle.pc = "idle" /\ Stage(Idle)
    BY Bounds DEF Idle, ReqRecords, Stage
  <2> QED
    BY <1>1, <1>2, <2>1, <2>2, GoesOn
<1>8. CASE FindsRow(q)
  <2> PICK p \in {"insert", "update"} : /\ req' = [req EXCEPT ![q] = [@ EXCEPT !.pc = p]]
                                        /\ p = "update" => req[q].doc # Loose
    BY <1>8 DEF FindsRow
  <2> DEFINE y == [req[q] EXCEPT !.pc = p]
  <2>1. req' = [req EXCEPT ![q] = y] /\ req[q].pc = "row" /\ kbs' = kbs /\ created' = created
    BY <1>8 DEF FindsRow
  <2>0. req[q] \in ReqRecords /\ p \in {"found", "row", "insert", "update", "embed"}
    BY <1>1
  <2>2. /\ y \in ReqRecords /\ y.pc = p /\ y.kb = req[q].kb /\ y.kind = req[q].kind
        /\ y.doc = req[q].doc /\ y.text = req[q].text
    BY <1>4, <2>0, ZenonT(40)
  <2> HIDE DEF y
  <2>3. Stage(y)
    BY <1>1, <2>1, <2>2 DEF Stage
  <2> QED
    BY <1>1, <1>2, <2>1, <2>2, <2>3, GoesOn
<1>9. CASE IngestMongo(q)
  <2> PICK k \in kbs, r \in Ingests : req' = [req EXCEPT ![q] = [r EXCEPT !.pc = "row", !.kb = k]]
    BY <1>9 DEF IngestMongo
  <2> DEFINE y == [r EXCEPT !.pc = "row", !.kb = k]
  <2>1. /\ r \in ReqRecords /\ r.kind = "ingest" /\ (r.doc = Loose => r.text # Blank)
        /\ k \in Ids /\ k \in 0..MaxKbs
    BY <1>1, Starts, Bounds
  <2>0. r \in ReqRecords /\ r.kind = "ingest" /\ k \in 0..MaxKbs
    BY <2>1
  <2>2. /\ y \in ReqRecords /\ y.pc = "row" /\ y.kb = k /\ y.kind = "ingest" /\ y.doc = r.doc /\ y.text = r.text
    BY <2>0 DEF ReqRecords
  <2>3. /\ store = "mongo" /\ req[q].pc = "idle" /\ kbs' = kbs /\ created' = created
        /\ req' = [req EXCEPT ![q] = y]
    BY <1>9 DEF IngestMongo
  <2> HIDE DEF y
  <2>4. Stage(y)
    BY <1>1, <2>1, <2>2, <2>3 DEF Stage
  <2> QED
    BY <1>1, <1>2, <2>1, <2>2, <2>3, <2>4, GoesOn
<1>10. CASE AddStarts(q)
  <2> PICK k \in kbs, r \in Adds : req' = [req EXCEPT ![q] = [r EXCEPT !.kb = k]]
    BY <1>10 DEF AddStarts
  <2> DEFINE y == [r EXCEPT !.kb = k]
  <2>1. /\ r \in ReqRecords /\ r.kind = "add" /\ r.doc = Loose /\ r.pc \in {"lock", "record"}
        /\ r.pc = "lock" => r.text = Plain
        /\ k \in Ids /\ k \in 0..MaxKbs
    BY <1>1, Starts, Bounds
  <2>2. /\ y \in ReqRecords /\ y.pc = r.pc /\ y.kb = k /\ y.kind = "add" /\ y.doc = Loose /\ y.text = r.text
    BY <2>1 DEF ReqRecords
  <2>3. /\ req[q].pc = "idle" /\ kbs' = kbs /\ created' = created
        /\ req' = [req EXCEPT ![q] = y]
    BY <1>10 DEF AddStarts
  <2> HIDE DEF y
  <2>4. Stage(y)
    BY <1>1, <2>1, <2>2, <2>3 DEF Stage
  <2> QED
    BY <1>1, <1>2, <2>1, <2>2, <2>3, <2>4, GoesOn
<1>11. CASE Locks(q)
  <2> DEFINE y == [req[q] EXCEPT !.pc = "embed"]
  <2>1. req' = [req EXCEPT ![q] = y] /\ req[q].pc = "lock" /\ kbs' = kbs /\ created' = created
    BY <1>11 DEF Locks
  <2>2. /\ y \in ReqRecords /\ y.pc = "embed" /\ y.kb = req[q].kb /\ y.kind = req[q].kind
        /\ y.doc = req[q].doc /\ y.text = req[q].text /\ y.calm = req[q].calm
    BY <1>1, <1>4
  <2> HIDE DEF y
  <2>3. Stage(y)
    BY <1>1, <2>1, <2>2 DEF Stage
  <2> QED
    BY <1>1, <1>2, <2>1, <2>2, <2>3, GoesOn
<1> QED
  BY <1>5, <1>6, <1>7, <1>8, <1>9, <1>10, <1>11

\* An update that nobody crossed puts the text of its row into an index cleared for it.
LEMMA IndexedStep ==
  ASSUME IndexInv, NEW q \in Requests, Indexed(q)
  PROVE  IndexInv'
<1>0. PICK k, doc, text : k = req[q].kb /\ doc = req[q].doc /\ text = req[q].text
  OBVIOUS
<1> DEFINE new == Point(k, doc, text)
<1>1. /\ TypeOK /\ KeysAreUnique /\ req \in [Requests -> ReqRecords] /\ req[q] \in ReqRecords
      /\ points \subseteq PointRecords /\ torn \subseteq Ids \X Named
      /\ \A j \in Ids : Cleared(j)
      /\ \A j \in Ids, d \in Named : Pair(j, d)
      /\ \A p \in Requests : Stage(req[p])
  BY Types DEF IndexInv, Pair
<1>2. /\ req[q].pc = "embed" /\ points' = points \cup {new}
      /\ req' = [req EXCEPT ![q] = IF req[q].kind = "add" THEN [req[q] EXCEPT !.pc = "record"] ELSE Idle]
      /\ torn' = IF doc = Loose THEN torn
                 ELSE IF req[q].calm THEN torn \ {<<k, doc>>} ELSE torn \cup {<<k, doc>>}
      /\ UNCHANGED <<store, kbs, created, docs, leaving, late>>
  BY <1>0 DEF Indexed, Of
<1>3. k \in Ids /\ doc \in Named \cup {Loose} /\ text \in Texts \cup {Plain} /\ k \in Known
  BY <1>0, <1>1, <1>2, UnderKnown DEF Stage, ReqRecords
<1>4. new \in PointRecords /\ new.kb = k /\ new.doc = doc
  BY <1>3 DEF Point, PointRecords
<1>5. /\ [req[q] EXCEPT !.pc = "record"] \in ReqRecords
      /\ [req[q] EXCEPT !.pc = "record"].pc = "record" /\ [req[q] EXCEPT !.pc = "record"].kb = k
      /\ [req[q] EXCEPT !.pc = "record"].kind = req[q].kind /\ [req[q] EXCEPT !.pc = "record"].doc = doc
  BY <1>0, <1>1 DEF ReqRecords
<1>6. Idle \in ReqRecords /\ Idle.pc = "idle" /\ Idle.kind = "upsert"
  BY Bounds DEF Idle, ReqRecords
<1>7. /\ req' \in [Requests -> ReqRecords] /\ \A p \in Requests \ {q} : req'[p] = req[p]
      /\ \/ req'[q].pc = "idle" /\ req'[q].kind = "upsert"
         \/ /\ req[q].kind = "add" /\ req'[q].kind = "add" /\ req'[q].doc = doc
            /\ req'[q].pc = "record" /\ req'[q].kb = k
  BY <1>1, <1>2, <1>5, <1>6
<1> HIDE DEF new
<1>8. TypeOK'
  <2>1. points' \subseteq PointRecords /\ torn' \subseteq Ids \X Named
    BY <1>1, <1>2, <1>3, <1>4
  <2> QED
    BY <1>1, <1>2, <1>7, <2>1 DEF TypeOK, PointRecords, ReqRecords
<1>9. KeysAreUnique'
  BY <1>1, <1>2 DEF KeysAreUnique
<1>10. \A p \in Requests : Stage(req[p])'
  BY <1>1, <1>2, <1>3, <1>7 DEF Stage
<1>11. \A j \in Ids : Cleared(j)'
  BY <1>1, <1>2, <1>3, <1>4, <1>7, ClearedStays DEF Known
<1>12. ASSUME NEW j \in Ids, NEW d \in Named, <<j, d>> # <<k, doc>> PROVE Pair(j, d)'
  <2>1. Rows(j, d)' = Rows(j, d) /\ Copies(j, d)' = Copies(j, d)
    BY <1>2, <1>4, <1>12 DEF Rows, Copies
  <2>2. ASSUME NEW p \in Requests
        PROVE  /\ Writes(p, j, d)' <=> Writes(p, j, d)
               /\ Writes(p, j, d) => req'[p].text = req[p].text /\ (req'[p].calm => req[p].calm)
    BY <1>0, <1>2, <1>7, <1>12 DEF Writes, Writing, Of
  <2>3. <<j, d>> \in torn => <<j, d>> \in torn'
    BY <1>2, <1>12
  <2> QED
    BY <1>1, <2>1, <2>2, <2>3, PairStays
<1>13. ASSUME doc \in Named PROVE Pair(k, doc)'
  <2>1. Writes(q, k, doc) /\ ~Writes(q, k, doc)' /\ doc # Loose
    BY <1>0, <1>2, <1>7, <1>13, Bounds DEF Writes, Writing, Of
  <2>2. /\ Rows(k, doc)' = Rows(k, doc)
        /\ \A p \in Requests \ {q} : Writes(p, k, doc)' <=> Writes(p, k, doc)
    BY <1>2, <1>7 DEF Rows, Writes, Writing, Of
  <2>3. CASE Rows(k, doc) = {}
    BY <1>3, <1>13, <2>2, <2>3, PairGone
  <2>4. CASE req[q].calm /\ Rows(k, doc) # {}
    <3>1. /\ \A p \in Requests : Writes(p, k, doc) => p = q
          /\ Copies(k, doc) = {}
          /\ \E r \in Rows(k, doc) : r.text = text
      BY <1>0, <1>1, <1>3, <1>13, <2>1, <2>4 DEF Pair, Undisturbed
    <3>2. \A p \in Requests : ~Writes(p, k, doc)'
      BY <2>1, <2>2, <3>1
    <3>3. Copies(k, doc)' = {new}
      BY <1>2, <1>4, <3>1 DEF Copies
    <3>4. PICK r \in Rows(k, doc) : new = Point(k, doc, r.text)
      BY <3>1 DEF new
    <3>5. Settled(k, doc)'
      BY <2>2, <3>3, <3>4 DEF Settled, Point
    <3> QED
      BY <3>2, <3>5 DEF Pair, Undisturbed
  <2>5. CASE ~req[q].calm /\ Rows(k, doc) # {}
    <3>1. <<k, doc>> \in torn'
      BY <1>2, <2>1, <2>5
    <3>2. ASSUME NEW p \in Requests, Writes(p, k, doc)' PROVE ~(req'[p].calm /\ Rows(k, doc)' # {})
      BY <1>1, <1>3, <1>7, <1>13, <2>1, <2>2, <2>5, <3>2 DEF Pair, Undisturbed
    <3> QED
      BY <3>1, <3>2 DEF Pair, Settled, Undisturbed
  <2> QED
    BY <2>3, <2>4, <2>5
<1>14. \A j \in Ids, d \in Named : Pair(j, d)'
  BY <1>12, <1>13
<1> QED
  BY <1>8, <1>9, <1>10, <1>11, <1>14 DEF IndexInv, Pair

LEMMA FailsStep ==
  ASSUME IndexInv, NEW q \in Requests, EmbedFails(q)
  PROVE  IndexInv'
<1>0. PICK k, doc : k = req[q].kb /\ doc = req[q].doc
  OBVIOUS
<1>1. /\ TypeOK /\ KeysAreUnique /\ req \in [Requests -> ReqRecords] /\ req[q] \in ReqRecords
      /\ torn \subseteq Ids \X Named
      /\ \A j \in Ids : Cleared(j)
      /\ \A j \in Ids, d \in Named : Pair(j, d)
      /\ \A p \in Requests : Stage(req[p])
  BY Types DEF IndexInv, Pair
<1>2. /\ req[q].pc = "embed" /\ req' = [req EXCEPT ![q] = Idle]
      /\ torn' = IF doc = Loose THEN torn ELSE torn \cup {<<k, doc>>}
      /\ UNCHANGED <<store, kbs, created, docs, points, leaving, late>>
  BY <1>0 DEF EmbedFails, Of
<1>3. k \in Ids /\ doc \in Named \cup {Loose}
  BY <1>0, <1>1, <1>2 DEF Stage, ReqRecords
<1>4. Idle \in ReqRecords /\ Idle.pc = "idle" /\ Idle.kind = "upsert"
  BY Bounds DEF Idle, ReqRecords
<1>5. /\ req' \in [Requests -> ReqRecords] /\ req'[q].pc = "idle" /\ req'[q].kind = "upsert"
      /\ \A p \in Requests \ {q} : req'[p] = req[p]
  BY <1>1, <1>2, <1>4
<1>6. TypeOK'
  <2>1. torn' \subseteq Ids \X Named
    BY <1>1, <1>2, <1>3
  <2> QED
    BY <1>1, <1>2, <1>5, <2>1 DEF TypeOK, ReqRecords
<1>7. KeysAreUnique'
  BY <1>1, <1>2 DEF KeysAreUnique
<1>8. \A p \in Requests : Stage(req[p])'
  BY <1>1, <1>2, <1>5 DEF Stage
<1>9. \A j \in Ids : Cleared(j)'
  BY <1>1, <1>2, <1>5, ClearedStays DEF Known
<1>10. ASSUME NEW j \in Ids, NEW d \in Named PROVE Pair(j, d)'
  <2>1. Rows(j, d)' = Rows(j, d) /\ Copies(j, d)' = Copies(j, d)
    BY <1>2 DEF Rows, Copies
  <2>2. ASSUME NEW p \in Requests \ {q}
        PROVE  /\ Writes(p, j, d)' <=> Writes(p, j, d)
               /\ req'[p] = req[p]
    BY <1>5 DEF Writes, Writing, Of
  <2>3. ~Writes(q, j, d)'
    BY <1>5 DEF Writes, Writing
  <2>4. CASE <<j, d>> = <<k, doc>>
    <3>1. <<j, d>> \in torn'
      BY <1>2, <2>4, Bounds
    <3>2. Undisturbed(j, d)'
      BY <1>1, <2>1, <2>2, <2>3 DEF Pair, Undisturbed
    <3> QED
      BY <3>1, <3>2 DEF Pair, Settled
  <2>5. CASE <<j, d>> # <<k, doc>>
    <3>1. ~Writes(q, j, d)
      BY <1>0, <2>5 DEF Writes, Of
    <3>2. <<j, d>> \in torn => <<j, d>> \in torn'
      BY <1>2
    <3> QED
      BY <1>1, <2>1, <2>2, <2>3, <3>1, <3>2, PairStays
  <2> QED
    BY <2>4, <2>5
<1> QED
  BY <1>6, <1>7, <1>8, <1>9, <1>10 DEF IndexInv, Pair

LEMMA AddStep ==
  ASSUME IndexInv, NEW q \in Requests, AddRecords(q)
  PROVE  IndexInv'
<1>0. PICK row : row = Point(req[q].kb, Loose, req[q].text)
  OBVIOUS
<1>1. /\ TypeOK /\ KeysAreUnique /\ req \in [Requests -> ReqRecords] /\ req[q] \in ReqRecords
      /\ docs \subseteq RowRecords
      /\ \A j \in Ids : Cleared(j)
      /\ \A j \in Ids, d \in Named : Pair(j, d)
      /\ \A p \in Requests : Stage(req[p])
  BY Types DEF IndexInv, Pair
<1>2. /\ req[q].pc = "record" /\ req' = [req EXCEPT ![q] = Idle] /\ docs' = docs \cup {row}
      /\ UNCHANGED <<store, kbs, created, points, leaving, torn, late>>
  BY <1>0 DEF AddRecords
<1>3. req[q].kb \in Ids /\ req[q].kb \in Known
  BY <1>1, <1>2, UnderKnown DEF Stage
<1>4. row \in RowRecords /\ row.doc = Loose /\ row.kb = req[q].kb
  BY <1>0, <1>1, <1>3 DEF Point, RowRecords, ReqRecords
<1>5. Idle \in ReqRecords /\ Idle.pc = "idle" /\ Idle.kind = "upsert"
  BY Bounds DEF Idle, ReqRecords
<1>6. /\ req' \in [Requests -> ReqRecords] /\ req'[q].pc = "idle" /\ req'[q].kind = "upsert"
      /\ \A p \in Requests \ {q} : req'[p] = req[p]
  BY <1>1, <1>2, <1>5
<1>7. TypeOK'
  BY <1>1, <1>2, <1>4, <1>6 DEF TypeOK, ReqRecords, RowRecords
<1>8. KeysAreUnique'
  BY <1>1, <1>2, <1>4 DEF KeysAreUnique
<1>9. \A p \in Requests : Stage(req[p])'
  BY <1>1, <1>2, <1>6 DEF Stage
<1>10. \A j \in Ids : Cleared(j)'
  BY <1>1, <1>2, <1>3, <1>4, <1>6, ClearedStays DEF Known
<1>11. ASSUME NEW j \in Ids, NEW d \in Named PROVE Pair(j, d)'
  <2>1. Rows(j, d)' = Rows(j, d) /\ Copies(j, d)' = Copies(j, d)
    BY <1>2, <1>4, Bounds DEF Rows, Copies
  <2>2. ASSUME NEW p \in Requests
        PROVE  /\ Writes(p, j, d)' <=> Writes(p, j, d)
               /\ Writes(p, j, d) => req'[p].text = req[p].text /\ (req'[p].calm => req[p].calm)
    BY <1>2, <1>6 DEF Writes, Writing, Of
  <2> QED
    BY <1>1, <1>2, <2>1, <2>2, PairStays
<1> QED
  BY <1>7, <1>8, <1>9, <1>10, <1>11 DEF IndexInv, Pair

\* An update that misses its row is of a document without rows, which no calm update is of.
LEMMA MissesStep ==
  ASSUME IndexInv, NEW q \in Requests, MissesRow(q)
  PROVE  IndexInv'
<1>0. PICK k, doc, blank : k = req[q].kb /\ doc = req[q].doc /\ blank = (req[q].text = Blank)
  OBVIOUS
<1>1. /\ TypeOK /\ KeysAreUnique /\ req \in [Requests -> ReqRecords] /\ req[q] \in ReqRecords
      /\ points \subseteq PointRecords /\ torn \subseteq Ids \X Named
      /\ \A j \in Ids : Cleared(j)
      /\ \A j \in Ids, d \in Named : Pair(j, d)
      /\ \A p \in Requests : Stage(req[p])
  BY Types DEF IndexInv, Pair
<1>2. /\ req[q].pc = "update" /\ Rows(k, doc) = {}
      /\ req' = [req EXCEPT ![q] = IF req[q].text = Blank THEN Idle
                                   ELSE [req[q] EXCEPT !.pc = "lock", !.calm = FALSE]]
      /\ points' \in {points, Without(k, doc)} /\ torn' = torn \cup {<<k, doc>>}
      /\ UNCHANGED <<store, kbs, created, docs, leaving, late>>
  BY <1>0 DEF MissesRow, Of
<1>3. k \in Ids /\ doc \in Named /\ req[q].kind # "add"
  BY <1>0, <1>1, <1>2 DEF Stage, ReqRecords
<1>4. /\ [req[q] EXCEPT !.pc = "lock", !.calm = FALSE] \in ReqRecords
      /\ [req[q] EXCEPT !.pc = "lock", !.calm = FALSE].pc = "lock"
      /\ [req[q] EXCEPT !.pc = "lock", !.calm = FALSE].calm = FALSE
      /\ [req[q] EXCEPT !.pc = "lock", !.calm = FALSE].kb = k
      /\ [req[q] EXCEPT !.pc = "lock", !.calm = FALSE].doc = doc
      /\ [req[q] EXCEPT !.pc = "lock", !.calm = FALSE].kind = req[q].kind
      /\ [req[q] EXCEPT !.pc = "lock", !.calm = FALSE].text = req[q].text
  BY <1>0, <1>1 DEF ReqRecords
<1>5. Idle \in ReqRecords /\ Idle.pc = "idle" /\ Idle.kind = "upsert"
  BY Bounds DEF Idle, ReqRecords
<1>6. /\ req' \in [Requests -> ReqRecords] /\ \A p \in Requests \ {q} : req'[p] = req[p]
      /\ \/ req'[q].pc = "idle" /\ req'[q].kind = "upsert"
         \/ /\ req'[q].pc = "lock" /\ req'[q].kb = k /\ req'[q].doc = doc
            /\ req'[q].kind = req[q].kind /\ req'[q].text = req[q].text /\ req[q].text # Blank
  BY <1>1, <1>2, <1>4, <1>5
<1>7. TypeOK'
  <2>1. points' \subseteq PointRecords /\ torn' \subseteq Ids \X Named
    BY <1>1, <1>2, <1>3 DEF Without
  <2> QED
    BY <1>1, <1>2, <1>6, <2>1 DEF TypeOK, ReqRecords, PointRecords
<1>8. KeysAreUnique'
  BY <1>1, <1>2 DEF KeysAreUnique
<1>9. \A p \in Requests : Stage(req[p])'
  <2>1. req[q].text \in Texts \cup {Blank, Plain}
    BY <1>1 DEF ReqRecords
  <2> QED
    BY <1>1, <1>2, <1>3, <1>6, <2>1 DEF Stage
<1>10. \A j \in Ids : Cleared(j)'
  <2>1. points' \subseteq points
    BY <1>2 DEF Without
  <2>2. Known \subseteq Known'
    BY <1>2 DEF Known
  <2>3. \A p \in Requests : req'[p].pc # "idle" => req[p].pc # "idle" /\ req'[p].kb = req[p].kb
    BY <1>0, <1>2, <1>6
  <2> QED
    BY <1>1, <1>2, <2>1, <2>2, <2>3, ClearedStays
<1>11. ASSUME NEW j \in Ids, NEW d \in Named PROVE Pair(j, d)'
  <2>1. Rows(j, d)' = Rows(j, d)
    BY <1>2 DEF Rows
  <2>2. CASE <<j, d>> = <<k, doc>>
    BY <1>2, <2>1, <2>2, PairGone
  <2>3. CASE <<j, d>> # <<k, doc>>
    <3>1. Copies(j, d)' = Copies(j, d)
      BY <1>2, <2>3 DEF Copies, Without
    <3>2. ASSUME NEW p \in Requests
          PROVE  /\ Writes(p, j, d)' <=> Writes(p, j, d)
                 /\ Writes(p, j, d) => req'[p].text = req[p].text /\ (req'[p].calm => req[p].calm)
      BY <1>0, <1>2, <1>6, <2>3 DEF Writes, Writing, Of
    <3> QED
      BY <1>1, <1>2, <2>1, <3>1, <3>2, PairStays
  <2> QED
    BY <2>2, <2>3
<1> QED
  BY <1>7, <1>8, <1>9, <1>10, <1>11 DEF IndexInv, Pair

--------------------------------------------------------------------------------
(* Deletions *)

LEMMA DocumentGone ==
  ASSUME IndexInv, DeleteDocument
  PROVE  IndexInv'
<1>1. /\ TypeOK /\ KeysAreUnique /\ req \in [Requests -> ReqRecords]
      /\ docs \subseteq RowRecords /\ torn \subseteq Ids \X Named
      /\ \A j \in Ids : Cleared(j)
      /\ \A j \in Ids, d \in Named : Pair(j, d)
      /\ \A p \in Requests : Stage(req[p])
  BY Types DEF IndexInv, Pair
<1> PICK r \in docs : /\ r.kb \in kbs /\ docs' = docs \ {r} /\ req' = Crossed(r.kb, r.doc)
                      /\ torn' = IF r.doc = Loose THEN torn ELSE torn \cup {<<r.kb, r.doc>>}
  BY DEF DeleteDocument
<1>2. UNCHANGED <<store, kbs, created, points, leaving, late>>
  BY DEF DeleteDocument
<1>3. PICK k \in Ids, doc \in Named \cup {Loose} : k = r.kb /\ doc = r.doc
  BY <1>1 DEF RowRecords
<1>4. /\ req' \in [Requests -> ReqRecords] /\ \A p \in Requests : Same(req'[p], req[p])
      /\ \A p \in Crossing(k, doc) : req'[p].calm = FALSE
  BY <1>1, <1>3, CrossedShape
<1>5. TypeOK'
  <2>1. torn' \subseteq Ids \X Named /\ docs' \subseteq RowRecords
    BY <1>1, <1>3
  <2> QED
    BY <1>1, <1>2, <1>4, <2>1 DEF TypeOK, ReqRecords, RowRecords
<1>6. KeysAreUnique'
  BY <1>1, <1>2 DEF KeysAreUnique
<1>7. \A p \in Requests : Stage(req[p])'
  BY <1>1, <1>2, <1>4 DEF Stage, Same
<1>8. \A j \in Ids : Cleared(j)'
  <2>1. \A p \in Requests : req'[p].pc # "idle" => req[p].pc # "idle" /\ req'[p].kb = req[p].kb
    BY <1>4 DEF Same
  <2>2. Known \subseteq Known'
    BY <1>2 DEF Known
  <2> QED
    BY <1>1, <1>2, <2>1, <2>2, ClearedStays
<1>9. ASSUME NEW j \in Ids, NEW d \in Named PROVE Pair(j, d)'
  <2>1. ASSUME NEW p \in Requests
        PROVE  /\ Writes(p, j, d)' <=> Writes(p, j, d)
               /\ Writes(p, j, d) => req'[p].text = req[p].text /\ (req'[p].calm => req[p].calm)
    BY <1>4 DEF Writes, Writing, Of, Same
  <2>2. Copies(j, d)' = Copies(j, d)
    BY <1>2 DEF Copies
  <2>3. CASE <<j, d>> = <<k, doc>>
    <3>1. <<j, d>> \in torn'
      BY <1>3, <2>3, Bounds
    <3>2. ASSUME NEW p \in Requests, Writes(p, j, d)' PROVE req'[p].calm = FALSE
      BY <1>4, <2>1, <2>3, <3>2 DEF Writes, Crossing
    <3> QED
      BY <3>1, <3>2 DEF Pair, Settled, Undisturbed
  <2>4. CASE <<j, d>> # <<k, doc>>
    <3>1. Rows(j, d)' = Rows(j, d)
      BY <1>3, <2>4 DEF Rows
    <3> QED
      BY <1>1, <2>1, <2>2, <3>1, PairStays
  <2> QED
    BY <2>3, <2>4
<1> QED
  BY <1>5, <1>6, <1>7, <1>8, <1>9 DEF IndexInv, Pair

LEMMA BaseEmptied ==
  ASSUME IndexInv, NEW k \in Ids, Emptied(k), UNCHANGED <<store, created, req, torn>>,
         kbs' \subseteq kbs, leaving' \subseteq leaving,
         \A j \in Ids \ {k} : j \in kbs \cup leaving => j \in kbs' \cup leaving'
  PROVE  IndexInv'
<1>1. /\ TypeOK /\ KeysAreUnique /\ \A j \in Ids : Cleared(j)
      /\ \A j \in Ids, d \in Named : Pair(j, d)
      /\ \A p \in Requests : Stage(req[p])
  BY DEF IndexInv, Pair
<1>2. /\ docs' = {r \in docs : r.kb # k} /\ points' \subseteq points
      /\ \A p \in points : p.kb # k => p \in points'
      /\ late \subseteq late' /\ late' \subseteq late \cup {k}
      /\ k \in late' \/ (~Under(k) /\ \A p \in points' : p.kb # k)
  BY DEF Emptied
<1>3. TypeOK'
  BY <1>1, <1>2 DEF TypeOK
<1>4. KeysAreUnique'
  BY <1>1, <1>2 DEF KeysAreUnique
<1>5. \A p \in Requests : Stage(req[p])'
  BY <1>1 DEF Stage
<1>6. ASSUME NEW j \in Ids PROVE Cleared(j)'
  <2>1. Under(j)' <=> Under(j)
    BY DEF Under
  <2> QED
    BY <1>1, <1>2, <2>1 DEF Cleared
<1>7. ASSUME NEW j \in Ids, NEW d \in Named PROVE Pair(j, d)'
  <2>1. CASE j = k
    <3>1. Rows(j, d)' = {}
      BY <1>2, <2>1 DEF Rows
    <3> QED
      BY <3>1, PairGone
  <2>2. CASE j # k
    <3>1. Rows(j, d)' = Rows(j, d) /\ Copies(j, d)' = Copies(j, d)
      BY <1>2, <2>2 DEF Rows, Copies
    <3>2. \A p \in Requests : Writes(p, j, d)' <=> Writes(p, j, d)
      BY DEF Writes, Writing, Of
    <3> QED
      BY <1>1, <3>1, <3>2, PairStays
  <2> QED
    BY <2>1, <2>2
<1> QED
  BY <1>3, <1>4, <1>5, <1>6, <1>7 DEF IndexInv, Pair

LEMMA BaseGone ==
  ASSUME IndexInv, DeleteSqlite \/ EmptyMongo
  PROVE  IndexInv'
<1>1. kbs \subseteq Ids /\ leaving \subseteq Ids
  BY Types DEF IndexInv
<1>2. CASE DeleteSqlite
  <2> PICK k \in kbs : kbs' = kbs \ {k} /\ Emptied(k)
    BY <1>2 DEF DeleteSqlite
  <2>1. UNCHANGED <<store, created, req, torn>> /\ leaving' = leaving
    BY <1>2 DEF DeleteSqlite
  <2> QED
    BY <1>1, <2>1, BaseEmptied
<1>3. CASE EmptyMongo
  <2> PICK k \in leaving : Emptied(k) /\ leaving' = leaving \ {k}
    BY <1>3 DEF EmptyMongo
  <2>1. UNCHANGED <<store, created, req, torn>> /\ kbs' = kbs
    BY <1>3 DEF EmptyMongo
  <2> QED
    BY <1>1, <2>1, BaseEmptied
<1> QED
  BY <1>2, <1>3

LEMMA Untouched ==
  ASSUME IndexInv, DeleteMongo \/ UNCHANGED vars
  PROVE  IndexInv'
<1>1. /\ TypeOK /\ KeysAreUnique /\ \A j \in Ids : Cleared(j)
      /\ \A j \in Ids, d \in Named : Pair(j, d)
      /\ \A p \in Requests : Stage(req[p])
  BY DEF IndexInv, Pair
<1>2. /\ UNCHANGED <<store, created, docs, points, req, torn, late>>
      /\ kbs' \subseteq kbs /\ leaving' \subseteq kbs \cup leaving
      /\ kbs \cup leaving \subseteq kbs' \cup leaving'
  BY DEF DeleteMongo, vars
<1>3. TypeOK'
  BY <1>1, <1>2 DEF TypeOK
<1>4. KeysAreUnique'
  BY <1>1, <1>2 DEF KeysAreUnique
<1>5. \A p \in Requests : Stage(req[p])'
  BY <1>1, <1>2 DEF Stage
<1>6. ASSUME NEW j \in Ids PROVE Cleared(j)'
  BY <1>1, <1>2 DEF Cleared, Under
<1>7. ASSUME NEW j \in Ids, NEW d \in Named PROVE Pair(j, d)'
  <2>1. /\ Rows(j, d)' = Rows(j, d) /\ Copies(j, d)' = Copies(j, d)
        /\ \A p \in Requests : Writes(p, j, d)' <=> Writes(p, j, d)
    BY <1>2 DEF Rows, Copies, Writes, Writing, Of
  <2> QED
    BY <1>1, <1>2, <2>1, PairStays
<1> QED
  BY <1>3, <1>4, <1>5, <1>6, <1>7 DEF IndexInv, Pair

--------------------------------------------------------------------------------
(* The theorems *)

LEMMA IndexInit == Init => IndexInv
<1> SUFFICES ASSUME Init PROVE IndexInv
  OBVIOUS
<1>1. Idle \in ReqRecords /\ Idle.pc = "idle" /\ Stage(Idle)
  BY Bounds DEF Idle, ReqRecords, Stage
<1>2. /\ req \in [Requests -> ReqRecords] /\ \A q \in Requests : req[q] = Idle
      /\ kbs = {} /\ docs = {} /\ points = {} /\ leaving = {} /\ torn = {} /\ late = {}
      /\ store \in {"sqlite", "mongo"} /\ created = 0
  BY <1>1 DEF Init
<1>3. TypeOK
  BY <1>2, Types, Bounds DEF NoKb
<1>4. KeysAreUnique
  BY <1>2 DEF KeysAreUnique
<1>5. \A k \in Ids : Cleared(k)
  BY <1>1, <1>2 DEF Cleared, Under
<1>6. \A k \in Ids, doc \in Named : Settled(k, doc) /\ Undisturbed(k, doc)
  BY <1>2 DEF Settled, Undisturbed, Rows
<1> QED
  BY <1>1, <1>2, <1>3, <1>4, <1>5, <1>6 DEF IndexInv

LEMMA IndexStep == IndexInv /\ [Next]_vars => IndexInv'
<1>1. ASSUME IndexInv, NEW q \in Requests, Step(q) PROVE IndexInv'
  BY <1>1, SqliteWrites, MongoWrites, Looking, IndexedStep, FailsStep, AddStep, MissesStep DEF Step
<1> QED
  BY <1>1, DocumentGone, BaseGone, Untouched DEF Next

LEMMA IndexAlways == Spec => []IndexInv
  BY IndexInit, IndexStep, PTL DEF Spec

\* The rows, the points and the requests keep their types.
THEOREM TypeCorrect == Spec => []TypeOK
<1>1. IndexInv => TypeOK
  BY DEF IndexInv
<1> QED
  BY <1>1, IndexAlways, PTL

\* However many requests cross, the index holds one text of a document whose last update
\* neither crossed another nor failed, and that text is a row's.
THEOREM SearchesFollowRows == Spec => []IndexFollowsRow
<1>1. IndexInv => IndexFollowsRow
  <2> SUFFICES ASSUME IndexInv, NEW k \in kbs, NEW doc \in Named,
                      Rows(k, doc) # {}, <<k, doc>> \notin torn,
                      ~\E q \in Requests : Writing(q) /\ Of(q) = <<k, doc>>
               PROVE  \E r \in Rows(k, doc) :
                        {p \in Searched(k) : p.doc = doc} = {Point(k, doc, r.text)}
    BY DEF IndexFollowsRow
  <2>1. k \in Ids
    BY Types DEF IndexInv
  <2>2. \E r \in Rows(k, doc) : Copies(k, doc) = {Point(k, doc, r.text)}
    BY <2>1 DEF IndexInv, Settled, Writes
  <2>3. {p \in Searched(k) : p.doc = doc} = Copies(k, doc)
    BY DEF Searched, Hits, Copies
  <2> QED
    BY <2>2, <2>3
<1> QED
  BY <1>1, IndexAlways, PTL

\* One base is active for the key and, over SQLite, a named document has one row, for any
\* number of requests.
THEOREM OneBaseOneRow == Spec => []KeysAreUnique
<1>1. IndexInv => KeysAreUnique
  BY DEF IndexInv
<1> QED
  BY <1>1, IndexAlways, PTL

\* A base deleted while nothing was under way for it, and whose points the index gave up, has
\* neither rows nor points, and nothing started before can bring any back.
THEOREM NothingIsLeft == Spec => []DeletedLeavesNothing
<1>1. IndexInv => DeletedLeavesNothing
  BY DEF IndexInv, Cleared, DeletedLeavesNothing, Retrieved, Hits
<1> QED
  BY <1>1, IndexAlways, PTL

================================================================================
